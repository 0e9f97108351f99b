-------------------------------- MODULE Settings --------------------------------
(***************************************************************************)
(* The settings of a server (config.py), which of them are accepted, and   *)
(* what is derived from them.  Settings are a record; a path is the        *)
(* sequence of its segments, the last one empty after a trailing slash; a  *)
(* path that does not start with a slash is Unset.                          *)
(***************************************************************************)
EXTENDS Naturals, Sequences, FiniteSets

CONSTANTS
    LoopbackHosts,  \* the names under which a loopback listener is asked for
    LoopbackOrigins,
    AnyOrigin,      \* the origin "*"
    Unset       \* the value of a setting that is not set

Transports == {"stdio", "http", "sse", "http+sse"}

\* What the fields of Settings can hold, as far as their kind matters.
WellFormed(s) ==
    /\ s.mode \in {"local", "hosted"} /\ s.transport \in Transports
    /\ \A path \in {s.path, s.ssePath, s.messagePath} : path = Unset \/ path \in Seq(STRING)
    /\ {s.access, s.refresh, s.app, s.database} \subseteq BOOLEAN

IsHttp(s) == s.transport # "stdio"
IsStreamable(s) == s.transport \in {"http", "http+sse"}

\* Mutant: the combined transport is forgotten.
IsSse_Alone(s) == s.transport = "sse"

IsSse(s) == s.transport \in {"sse", "http+sse"}

AuthMode(s) == IF s.authToken # Unset THEN "bearer" ELSE IF s.issuer # Unset THEN "oauth" ELSE "none"

\* rstrip("/").
Stripped(path) ==
    LET named == {i \in DOMAIN path : path[i] # ""}
    IN IF named = {} THEN << >>
       ELSE SubSeq(path, 1, CHOOSE i \in named : \A j \in named : j <= i)

\* _path_must_be_absolute: without the trailing slash, unless nothing is left.
Normal(path) == IF Stripped(path) = << >> THEN <<"">> ELSE Stripped(path)

PathsDiffer(s) ==
    /\ s.transport = "http+sse" => Normal(s.path) # Normal(s.ssePath)
    /\ Stripped(s.messagePath) \notin {Normal(s.path), Normal(s.ssePath)}

HostedOK(s) ==
    s.mode = "hosted" =>
        s.authToken = Unset /\ ~s.access /\ ~s.refresh /\ s.issuer # Unset /\ s.database

\* The validators of Settings; a process whose settings fail exits.
Valid(s) ==
    /\ Unset \notin {s.path, s.ssePath, s.messagePath}
    /\ IsHttp(s) /\ ~s.loopback => AuthMode(s) # "none"
    /\ s.authToken = Unset \/ s.issuer = Unset
    /\ HostedOK(s)
    /\ s.stateless => ~s.resumability /\ ~IsSse(s)
    /\ ~(AnyOrigin \in s.origins /\ s.corsCredentials)
    /\ PathsDiffer(s)

EffectiveHosts(s) ==
    IF s.hosts # {} THEN s.hosts ELSE IF s.loopback THEN LoopbackHosts ELSE {}

EffectiveOrigins(s) ==
    IF s.origins # {} THEN s.origins ELSE IF s.loopback THEN LoopbackOrigins ELSE {}

-----------------------------------------------------------------------------
\* What a token file can hold: nothing readable, or one or both of the tokens.
\* The program writes no file without an access token, and one with neither
\* token, which somebody would have to write, is left out.
TokenFiles == {[readable |-> FALSE, access |-> FALSE, refresh |-> FALSE]}
                \cup {f \in [readable : {TRUE}, access : BOOLEAN, refresh : BOOLEAN] : f.access \/ f.refresh}

\* Mutant: a refresh token is enough without the app's id and secret.
CredentialsReady_NoApp(s, file) ==
    IF s.mode = "hosted" THEN s.database /\ s.issuer # Unset
    ELSE s.access \/ s.refresh \/ (file.readable /\ (file.access \/ file.refresh))

\* pinterest_credentials_ready, which /readyz answers with; `app' is the id
\* and the secret of the Pinterest app.
CredentialsReady(s, file) ==
    IF s.mode = "hosted" THEN s.database /\ s.issuer # Unset
    ELSE \/ s.access
         \/ s.refresh /\ s.app
         \/ file.readable /\ (file.access \/ (file.refresh /\ s.app))

\* PinterestClient: a file that can be read replaces both tokens of the
\* settings, unless they have an access token.
ClientTokens(s, file) ==
    IF s.access \/ ~file.readable THEN [access |-> s.access, refresh |-> s.refresh]
    ELSE [access |-> file.access, refresh |-> file.refresh]
=============================================================================
