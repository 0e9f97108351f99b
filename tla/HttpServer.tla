------------------------------ MODULE HttpServer ------------------------------
(***************************************************************************)
(* A server process from its settings to its end: the routes and the       *)
(* guards that create_http_app builds (http_app.py), the tool calls and    *)
(* the Pinterest client that they share (app.py), the stdio server         *)
(* (stdio_main.py), the token verifier (oauth.py), and the event store,    *)
(* which lives as long as the app.                                         *)
(*                                                                         *)
(* Uvicorn, Starlette and the MCP sessions are external: requests are      *)
(* routed to the first route that fits, a stop waits for the requests in   *)
(* hand, and then the lifespan ends the sessions and closes the client.    *)
(* A process may serve several apps, one after the other.                  *)
(***************************************************************************)
EXTENDS Settings, EventStore

CONSTANTS
    SettingsPool,   \* settings that servers are started with
    Requests,       \* [method, path, host, origin, cred]
    Slots,          \* requests and calls in hand at one time
    Https           \* Pinterest clients that exist at one time

ASSUME ServerAssumption ==
    /\ \A s \in SettingsPool : WellFormed(s)
    /\ \A q \in Requests : q.path \in Seq(STRING)
    /\ None \notin Https

VARIABLES
    phase,      \* where the life of the server is
    settings,   \* its settings, or None
    call,       \* call[k]: a stream or a tool call
    shared,     \* _client
    open,       \* the clients that are not closed
    closing     \* the client that close_client awaits

life == <<phase, settings, closing>>
vars == <<storeVars, life, call, shared, open>>

Endpoints == {"streamable", "sse", "messages"}
Callers == {"trusted", "health", "stranger"}
Free == [stage |-> "free", held |-> FALSE, of |-> None, caller |-> "stranger", client |-> None]

TypeOK ==
    /\ StoreTypeOK
    /\ phase \in {"down", "serving", "draining", "ending", "closing"}
    /\ IF phase = "down" THEN settings = None ELSE Valid(settings)
    /\ call \in [Slots -> [stage : {"free", "stream", "sse", "queued", "running"}, held : BOOLEAN,
                           of : Slots \cup {None}, caller : Callers, client : Https \cup {None}]]
    /\ {shared, closing} \subseteq Https \cup {None}
    /\ open \subseteq Https

Init ==
    /\ StoreInit
    /\ phase = "down"
    /\ settings = None
    /\ call = [k \in Slots |-> Free]
    /\ shared = None /\ open = {} /\ closing = None

-----------------------------------------------------------------------------
\* Routes, in the order in which they are tried.  A Route takes one path and
\* some methods; a Mount takes everything below its path.
Exact(path, methods, to) ==
    [exact |-> TRUE, path |-> path, methods |-> methods, to |-> to]
Mounted(path, to) ==
    [exact |-> FALSE, path |-> Stripped(path), methods |-> {}, to |-> to]

Healthz == <<"healthz">>
Readyz == <<"readyz">>
Exempt == {Healthz, Readyz}

HealthRoutes == << Exact(Healthz, {"GET"}, "healthz"), Exact(Readyz, {"GET"}, "readyz") >>

SurfaceRoutes(s) ==
    (IF IsStreamable(s)
     THEN << Exact(Normal(s.path), {"GET", "POST", "DELETE"}, "streamable"),
             Mounted(s.path, "streamable") >>
     ELSE << >>)
    \o (IF IsSse(s)
        THEN << Exact(Normal(s.ssePath), {"GET"}, "sse"), Mounted(s.messagePath, "messages") >>
        ELSE << >>)

\* Mutant: the health routes are appended, not put first.
Routes_HealthLast(s) == SurfaceRoutes(s) \o HealthRoutes

Routes(s) == HealthRoutes \o SurfaceRoutes(s)

Takes(route, q) ==
    IF route.exact THEN q.path = route.path /\ q.method \in route.methods
    ELSE Len(q.path) > Len(route.path) /\ IsPrefix(route.path, q.path)

Target(s, q) ==
    LET taking == {i \in DOMAIN Routes(s) : Takes(Routes(s)[i], q)}
    IN IF taking = {} THEN "nothing" ELSE Routes(s)[CHOOSE i \in taking : \A j \in taking : i <= j].to

-----------------------------------------------------------------------------
\* JWTTokenVerifier: signed by the issuer, with an expiry that is ahead, for
\* this resource, and of a subject that is allowed.  A token for some audience
\* is refused by a server without a resource.
Verified(s, cred) ==
    /\ cred.kind = "jwt"
    /\ cred.signed /\ cred.issuer = s.issuer /\ ~cred.expired
    /\ IF s.resource = Unset THEN cred.audience = {} ELSE s.resource \in cred.audience
    /\ s.subjects # {} => cred.subject \in s.subjects

\* BearerAuthMiddleware, which lets the health paths through, for any method.
PassesBearer(s, q) ==
    AuthMode(s) = "bearer" =>
        q.path \in Exempt \/ q.cred = [kind |-> "bearer", token |-> s.authToken]

\* RequireAuthMiddleware around each MCP endpoint.
PassesOAuth(s, q) ==
    AuthMode(s) = "oauth" /\ Target(s, q) \in Endpoints =>
        Verified(s, q.cred) /\ s.scopes \subseteq q.cred.scopes

\* TransportSecuritySettings, which the MCP endpoints apply.
PassesOrigin(s, q) ==
    s.protection /\ Target(s, q) \in Endpoints =>
        /\ q.host \in EffectiveHosts(s)
        /\ q.origin \in EffectiveOrigins(s) \cup {None} \/ AnyOrigin \in EffectiveOrigins(s)

Passes(s, q) == PassesBearer(s, q) /\ PassesOAuth(s, q) /\ PassesOrigin(s, q)

\* What a caller needs according to the settings.
Trusted(s, cred) ==
    \/ s.loopback /\ AuthMode(s) = "none"
    \/ AuthMode(s) = "bearer" /\ cred = [kind |-> "bearer", token |-> s.authToken]
    \/ AuthMode(s) = "oauth" /\ Verified(s, cred) /\ s.scopes \subseteq cred.scopes

\* Whom a request comes from: somebody trusted, anybody who uses the health
\* paths of a server with a token, or anybody else.
Caller(s, q) ==
    IF Trusted(s, q.cred) THEN "trusted"
    ELSE IF AuthMode(s) = "bearer" /\ q.path \in Exempt THEN "health"
    ELSE "stranger"

\* The requests that get to an endpoint, by what becomes of them.
Doors ==
    [s \in SettingsPool |->
        IF Valid(s) /\ IsHttp(s)
        THEN {[to |-> Target(s, q), method |-> q.method, caller |-> Caller(s, q)] :
                q \in {r \in Requests : Passes(s, r)}}
        ELSE {}]

\* The surfaces that /healthz names.
Surfaces(s) ==
    (IF IsStreamable(s) THEN {[to |-> "streamable", method |-> "POST", path |-> Normal(s.path)]} ELSE {})
    \cup (IF s.transport \in {"sse", "http+sse"}
          THEN {[to |-> "sse", method |-> "GET", path |-> Normal(s.ssePath)],
                [to |-> "messages", method |-> "POST", path |-> s.messagePath]}
          ELSE {})

-----------------------------------------------------------------------------
\* The store of a process goes with it; clients keep what they know.
StoreLost ==
    /\ deques' = [s \in Streams |-> << >>]
    /\ index' = [e \in Events |-> None]
    /\ client' = [c \in Clients |-> IF client[c].stage = "replaying"
                                    THEN [client[c] EXCEPT !.stage = "away", !.todo = << >>]
                                    ELSE client[c]]
    /\ UNCHANGED <<count, log>>

\* main: settings that are not accepted start nothing.  Bound of the model:
\* once events were stored, servers are resumable.
Boot(s) ==
    /\ phase = "down"
    /\ Valid(s)
    /\ count > 0 => s.resumability
    /\ phase' = "serving"
    /\ settings' = s
    /\ StoreLost
    /\ UNCHANGED <<call, shared, open, closing>>

Opened(k, stage, held, of, caller) ==
    /\ phase = "serving"
    /\ call[k].stage = "free"
    /\ call' = [call EXCEPT ![k] = [stage |-> stage, held |-> held, of |-> of,
                                    caller |-> caller, client |-> None]]
    /\ UNCHANGED <<storeVars, life, shared, open>>

\* A tool call in a POST of a streamable session, whose answer it waits for.
PostCall(k) ==
    /\ settings # None
    /\ \E d \in Doors[settings] :
        /\ d.to = "streamable" /\ d.method = "POST" /\ d.caller # "health"
        /\ Opened(k, "queued", TRUE, None, d.caller)

\* The same without the token that the server wants, by a health path: the
\* middleware lets it pass, the health route takes no POST, and the route or
\* the mount behind it does.
HealthCall(k) ==
    /\ settings # None
    /\ \E d \in Doors[settings] :
        /\ d.to = "streamable" /\ d.method = "POST" /\ d.caller = "health"
        /\ Opened(k, "queued", TRUE, None, d.caller)

\* The stream of a session, or of the SSE transport.
OpenStream(k) ==
    /\ settings # None
    /\ \E d \in Doors[settings] :
        /\ d.method = "GET"
        /\ \/ d.to = "sse" /\ Opened(k, "sse", TRUE, None, d.caller)
           \/ /\ d.to = "streamable" /\ ~settings.stateless
              /\ Opened(k, "stream", TRUE, None, d.caller)

\* A call that arrives apart from its stream, which it is answered on.
PostMessage(k) ==
    /\ settings # None
    /\ \E d \in Doors[settings], j \in Slots :
        /\ d.to = "messages" /\ d.method = "POST"
        /\ call[j].stage = "sse"
        /\ Opened(k, "queued", FALSE, j, d.caller)

\* A line on standard input.
ReadLine(k) ==
    /\ settings # None
    /\ ~IsHttp(settings)
    /\ Opened(k, "queued", FALSE, None, "trusted")

SetCall(k, new) ==
    /\ call' = [call EXCEPT ![k] = new]
    /\ UNCHANGED <<storeVars, life>>

IsStream(k) == call[k].stage \in {"stream", "sse"}

\* call_tool up to its first await: an unknown tool, or arguments that do not
\* fit, are answered at once; otherwise the handler gets the shared client,
\* which the first call makes.
Dispatch(k) ==
    /\ call[k].stage = "queued"
    /\ \/ SetCall(k, Free) /\ UNCHANGED <<shared, open>>
       \/ /\ shared # None
          /\ SetCall(k, [call[k] EXCEPT !.stage = "running", !.client = shared])
          /\ UNCHANGED <<shared, open>>
       \/ /\ shared = None
          /\ \E h \in Https \ (open \cup {closing} \cup {call[j].client : j \in Slots}) :
               /\ SetCall(k, [call[k] EXCEPT !.stage = "running", !.client = h])
               /\ shared' = h
               /\ open' = open \cup {h}

\* The handler returns or raises, and the call is answered.
Return(k) ==
    /\ call[k].stage = "running"
    /\ SetCall(k, Free)
    /\ UNCHANGED <<shared, open>>

\* The caller cancels the call, or the end of its session does.
Cancel(k) ==
    /\ call[k].stage \in {"queued", "running"}
    /\ SetCall(k, Free)
    /\ UNCHANGED <<shared, open>>

\* The caller is gone; the call goes on in its session.
Abandon(k) ==
    /\ call[k].held /\ ~IsStream(k)
    /\ SetCall(k, [call[k] EXCEPT !.held = FALSE])
    /\ UNCHANGED <<shared, open>>

\* The caller closes a stream; the calls of the stream go before it.
CloseStream(k) ==
    /\ IsStream(k)
    /\ \A j \in Slots : call[j].of # k
    /\ SetCall(k, Free)
    /\ UNCHANGED <<shared, open>>

StoreStep ==
    /\ settings # None
    /\ settings.resumability /\ IsStreamable(settings)
    /\ phase \in {"serving", "draining"}
    /\ \/ phase = "serving" /\ \E c \in Clients : Resume(c)
       \/ \E s \in Streams : Store(s)
       \/ \E c \in Clients : Send(c) \/ Done(c) \/ Disconnect(c)
    /\ UNCHANGED <<life, call, shared, open>>

-----------------------------------------------------------------------------
To(next) == phase' = next /\ UNCHANGED <<storeVars, settings, call>>

\* A signal, or the end of standard input.
Stop ==
    /\ phase = "serving"
    /\ To("draining")
    /\ UNCHANGED <<shared, open, closing>>

\* Nobody waits any more; the stdio server waits for nobody.
Drained ==
    /\ phase = "draining"
    /\ \A k \in Slots : ~call[k].held
    /\ \A c \in Clients : client[c].stage # "replaying"
    /\ To("ending")
    /\ UNCHANGED <<shared, open, closing>>

\* Mutant: close_client forgets the client after it is closed, which a close
\* that raises does not come to.
TakeClient_Kept ==
    /\ phase = "ending"
    /\ \A k \in Slots : call[k].stage = "free"
    /\ To("closing")
    /\ closing' = shared
    /\ UNCHANGED <<shared, open>>

\* The sessions have ended, with their calls, and close_client takes the
\* client away before it awaits the close.
TakeClient ==
    /\ phase = "ending"
    /\ \A k \in Slots : call[k].stage = "free"
    /\ To("closing")
    /\ closing' = shared
    /\ shared' = None
    /\ UNCHANGED open

\* Mutant: a server that never made a client does not get past its close.
Closed_NeedsClient ==
    /\ phase = "closing"
    /\ closing # None
    /\ phase' = "down"
    /\ settings' = None
    /\ open' = open \ {closing}
    /\ closing' = None
    /\ StoreLost
    /\ UNCHANGED <<call, shared>>

\* aclose returns, or raises with the client closed.
Closed ==
    /\ phase = "closing"
    /\ phase' = "down"
    /\ settings' = None
    /\ open' = open \ {closing}
    /\ closing' = None
    /\ StoreLost
    /\ UNCHANGED <<call, shared>>

\* The process is killed, or told twice to stop: there is no lifespan end.
Kill ==
    /\ phase # "down"
    /\ phase' = "down"
    /\ settings' = None
    /\ call' = [k \in Slots |-> Free]
    /\ shared' = None /\ open' = {} /\ closing' = None
    /\ StoreLost

Next ==
    \/ \E s \in SettingsPool : Boot(s)
    \/ \E k \in Slots : PostCall(k) \/ HealthCall(k) \/ OpenStream(k) \/ PostMessage(k) \/ ReadLine(k)
                          \/ Dispatch(k) \/ Return(k) \/ Cancel(k) \/ Abandon(k) \/ CloseStream(k)
    \/ StoreStep
    \/ Stop \/ Drained \/ TakeClient \/ Closed \/ Kill

Spec == Init /\ [][Next]_vars

\* The event loop runs what can run, and httpx bounds what a handler waits
\* for.  Nobody has to close a stream.
Fairness ==
    /\ \A k \in Slots :
         /\ WF_vars(Dispatch(k)) /\ WF_vars(Return(k))
         /\ WF_vars(phase = "ending" /\ (Cancel(k) \/ CloseStream(k)))
    /\ WF_vars(Drained) /\ WF_vars(TakeClient) /\ WF_vars(Closed)

FairSpec == Spec /\ Fairness

-----------------------------------------------------------------------------
\* Where paths are apart: none is below another one or is a health path.
Apart(s) ==
    LET paths == <<Stripped(s.path), Stripped(s.ssePath), Stripped(s.messagePath), Healthz, Readyz>>
    IN \A i, j \in DOMAIN paths : IsPrefix(paths[i], paths[j]) => i = j

\* A surface of s takes requests of a health path: it is one, or the root.
HealthInside(s) ==
    \/ IsStreamable(s) /\ Stripped(s.path) \in Exempt \cup {<< >>}
    \/ IsSse(s) /\ Stripped(s.messagePath) = << >>

\* Settings for which SurfacesLead is proved: a message path ends with a slash,
\* as its default does.  The redirects of a path without one are not modelled.
MessagesBelow ==
    \A s \in SettingsPool : Valid(s) => Len(s.messagePath) > Len(Stripped(s.messagePath))

\* Every stream and every call of a server came from a caller whom its
\* settings call for, whatever route it took, and off loopback there is always
\* somebody to call for: validators, routes and wrappers fit (config.py 203-289,
\* http_app.py 43-67 and 111-277).  The one exception is a server with a token
\* that has a surface at a health path or at the root, and there it is only
\* what comes by the health paths.
Admitted(s, caller) == caller = "trusted" \/ (caller = "health" /\ HealthInside(s))
CallersTrusted == \A k \in Slots : call[k].stage # "free" => Admitted(settings, call[k].caller)

\* The settings whose surfaces are reached by whom they are meant for.
Reachable ==
    {s \in SettingsPool :
        \A surface \in Surfaces(s), q \in Requests :
            /\ q.method = surface.method /\ q.path = surface.path
            /\ Trusted(s, q.cred) /\ PassesOrigin(s, q)
            => Target(s, q) = surface.to /\ Passes(s, q)}

\* Each surface that /healthz of a running server names leads to its endpoint,
\* for every caller whom the settings call for, when the paths are apart: no
\* route hides one.
SurfacesLead == settings # None /\ IsHttp(settings) /\ Apart(settings) => settings \in Reachable

\* A local server says that it is ready exactly when the client that its next
\* call makes has an access token, or a refresh token and an app to use it
\* with (config.py 354-384 against client.py 50-127).
ReadyMeansTokens ==
    settings # None /\ settings.mode = "local" =>
        \A file \in TokenFiles :
            LET k == ClientTokens(settings, file)
            IN CredentialsReady(settings, file) <=> k.access \/ (k.refresh /\ settings.app)

\* A call in hand never finds its client closed, although servers stop, and
\* start again in the same process, and a server that has stopped leaves no
\* client open (app.py 50-61, http_app.py 103-109, stdio_main.py 28-37).
CallsHaveClients ==
    /\ \A k \in Slots : call[k].stage = "running" => call[k].client \in open
    /\ phase = "down" => open = {}

\* A server that is told to stop does, once no caller holds a stream; a
\* stream that stays open may hold it for ever.
StopsWhenLeft ==
    phase = "draining" /\ (\A k \in Slots : ~IsStream(k)) /\ (\A c \in Clients : client[c].stage # "replaying")
        ~> phase = "down"
=============================================================================
