----------------------------- MODULE MCHttpServer -----------------------------
\* An instance of HttpServer for TLC.
EXTENDS HttpServer, TLC

CONSTANTS secret, issuer, resource, alice, scope, loop, public, friend

Base ==
    [mode |-> "local", transport |-> "http", loopback |-> TRUE,
     path |-> <<"mcp">>, ssePath |-> <<"sse">>, messagePath |-> <<"messages", "">>,
     authToken |-> Unset, issuer |-> Unset, resource |-> Unset, scopes |-> {}, subjects |-> {},
     stateless |-> FALSE, resumability |-> FALSE, protection |-> TRUE, hosts |-> {},
     origins |-> {}, corsCredentials |-> FALSE,
     access |-> FALSE, refresh |-> FALSE, app |-> FALSE, database |-> FALSE]

Both == [Base EXCEPT !.transport = "http+sse"]
Public == [Both EXCEPT !.loopback = FALSE, !.hosts = {public}]
OAuth == [Public EXCEPT !.issuer = issuer]

\* Every transport, listener and kind of authentication, and what the
\* validators tell apart.
MCSettings ==
    {[Base EXCEPT !.transport = t, !.loopback = l, !.authToken = a, !.issuer = i,
                   !.hosts = IF l THEN {} ELSE {public}] :
        t \in Transports, l \in BOOLEAN, a \in {secret, Unset}, i \in {issuer, Unset}}
    \cup {[OAuth EXCEPT !.resource = resource, !.scopes = {scope}],
          [OAuth EXCEPT !.subjects = {alice}, !.protection = FALSE],
          [OAuth EXCEPT !.mode = "hosted"],
          [OAuth EXCEPT !.mode = "hosted", !.database = TRUE],
          [OAuth EXCEPT !.mode = "hosted", !.database = TRUE, !.access = TRUE],
          [Public EXCEPT !.authToken = secret, !.protection = FALSE],
          [Public EXCEPT !.authToken = secret, !.origins = {AnyOrigin}],
          [Public EXCEPT !.authToken = secret, !.path = <<"">>],
          [Public EXCEPT !.authToken = secret, !.path = <<"healthz">>],
          [Public EXCEPT !.authToken = secret, !.ssePath = <<"healthz">>],
          [Public EXCEPT !.authToken = secret, !.messagePath = <<"">>],
          [OAuth EXCEPT !.path = <<"">>],
          [Both EXCEPT !.origins = {AnyOrigin}, !.corsCredentials = TRUE],
          [Both EXCEPT !.path = <<"sse", "">>],
          [Both EXCEPT !.path = <<"mcp", "">>],
          [Both EXCEPT !.path = <<"messages">>],
          [Both EXCEPT !.path = <<"">>],
          [Both EXCEPT !.ssePath = <<"mcp", "sse">>],
          [Both EXCEPT !.stateless = TRUE],
          [Base EXCEPT !.stateless = TRUE],
          [Base EXCEPT !.stateless = TRUE, !.resumability = TRUE],
          [Base EXCEPT !.resumability = TRUE]}
    \cup {[Base EXCEPT !.access = a, !.refresh = r, !.app = p] : a, r, p \in BOOLEAN}

Good == [kind |-> "jwt", signed |-> TRUE, issuer |-> issuer, expired |-> FALSE,
         audience |-> {resource}, subject |-> alice, scopes |-> {scope}]

Creds ==
    {[kind |-> "none"], [kind |-> "bearer", token |-> secret], [kind |-> "bearer", token |-> public],
     Good, [Good EXCEPT !.audience = {}], [Good EXCEPT !.signed = FALSE],
     [Good EXCEPT !.issuer = alice], [Good EXCEPT !.expired = TRUE],
     [Good EXCEPT !.subject = public], [Good EXCEPT !.scopes = {}]}

MCRequests ==
    [method : {"GET", "POST"},
     path : {<<"healthz">>, <<"readyz">>, <<"mcp">>, <<"mcp", "">>, <<"sse">>, <<"mcp", "sse">>,
             <<"messages", "">>, <<"">>},
     host : {loop, public}, origin : {None, friend}, cred : Creds]

MCLoopback == {loop}
MCOrigins == {friend}

\* The theorem about surfaces covers this instance.
ASSUME InstanceOfTheorem == MessagesBelow
=============================================================================
