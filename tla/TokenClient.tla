----------------------------- MODULE TokenClient -----------------------------
(***************************************************************************)
(* The OAuth tokens of PinterestClient (client.py): in memory, behind a    *)
(* refresh lock, and in a token file that outlives the process.  Servers   *)
(* that share the file run tool calls; the authorisation command writes    *)
(* the file as well; Pinterest may rotate the refresh token whenever it is *)
(* used, and then the old one is spent.                                    *)
(*                                                                         *)
(* Tokens are numbered by the grant that issued them.  Time is kept as     *)
(* what is left of a lifetime, so the clock needs no bound.                *)
(***************************************************************************)
EXTENDS Naturals, Sequences, FiniteSets, SequencesExt

CONSTANTS
    Servers,     \* processes that use one token file
    Calls,       \* tool calls
    Home,        \* the server that runs a call
    Lifetimes,   \* the values of expires_in
    MaxLife,     \* the longest of them
    Margin,      \* the 60 seconds of _ensure_token
    MaxLatency,  \* longest way of a token reply, bounded by the HTTP timeout
    MaxGrants,   \* bound of the model: grants that Pinterest issues
    None

ASSUME TokenAssumption ==
    /\ Home \in [Calls -> Servers]
    /\ Margin \in Nat /\ MaxLatency \in Nat /\ MaxLife \in Nat
    /\ MaxGrants \in Nat /\ MaxGrants >= 1
    /\ MaxLatency <= Margin
    /\ Lifetimes \subseteq (MaxLatency + 1) .. MaxLife

EnvGrant == 0          \* the tokens of the environment
FileGrant == 1         \* the tokens of an earlier authorisation
Grants == 0 .. MaxGrants
Tokens == Grants \cup {None}
Lefts == 0 .. MaxLife

VARIABLES
    env,       \* which tokens the environment supplies
    client,    \* client[s]: _client, with its tokens in memory
    queue,     \* queue[s]: holder and waiters of _refresh_lock
    call,      \* call[c]: the tool call
    file,      \* the token file
    life,      \* life[n]: what is left of access token n at Pinterest
    valid,     \* refresh tokens that Pinterest accepts
    issued,    \* number of grants
    rotates,   \* Pinterest's policy: a refresh token is good once
    orphaned,  \* refresh tokens spent for a reply that was never saved
    rejected   \* rejected[s]: Pinterest has refused the access token in memory

vars == <<env, client, queue, call, file, life, valid, issued,
          rotates, orphaned, rejected>>
pinterest == <<life, valid, issued, rotates>>
history == <<orphaned, rejected>>

\* `left' is None for tokens without an expiry.
Stored == [access : Tokens, refresh : Tokens, left : Lefts \cup {None}]

ASSUME NoneAssumption == None \notin Nat \cup Stored

(***************************************************************************)
(* "waiting": for the lock.  "refreshing": the refresh token `sent' is on  *)
(* its way to Pinterest.  "granted": the reply is on its way back, for     *)
(* `age'.  "using": the request with access token `sent' is out.           *)
(***************************************************************************)
Out(stage, token) == [stage |-> stage, sent |-> token, grant |-> None, age |-> 0]
Idle == Out("idle", None)

Call == [stage : {"idle", "waiting", "refreshing", "granted", "using"},
         sent  : Tokens,
         grant : Stored \cup {None},
         age   : 0 .. MaxLatency]

QueuesOK ==
    /\ queue \in [Servers -> Seq(Calls)]
    /\ \A s \in Servers : /\ IsInjective(queue[s])
                          /\ Range(queue[s]) \subseteq {c \in Calls : Home[c] = s}

TokensOK ==
    /\ env \in [access : BOOLEAN, refresh : BOOLEAN]
    /\ client \in [Servers -> Stored \cup {None}]
    /\ call \in [Calls -> Call]
    /\ file \in Stored \cup {None}
    /\ life \in [Grants -> Lefts]
    /\ valid \subseteq Grants /\ orphaned \subseteq Tokens
    /\ issued \in 2 .. MaxGrants + 1
    /\ rotates \in BOOLEAN
    /\ rejected \in [Servers -> BOOLEAN]

TypeOK == QueuesOK /\ TokensOK

\* The authorisation may have been made long ago, or never.
Init ==
    /\ env \in [access : BOOLEAN, refresh : BOOLEAN]
    /\ client = [s \in Servers |-> None]
    /\ queue = [s \in Servers |-> << >>]
    /\ call = [c \in Calls |-> Idle]
    /\ \E left \in {0, MaxLife} :
         /\ life = [n \in Grants |-> IF n \in {EnvGrant, FileGrant} THEN left ELSE 0]
         /\ file \in {None, [access |-> FileGrant, refresh |-> FileGrant, left |-> left]}
    /\ valid = {EnvGrant, FileGrant}
    /\ issued = 2
    /\ orphaned = {}
    /\ rotates \in BOOLEAN
    /\ rejected = [s \in Servers |-> FALSE]

-----------------------------------------------------------------------------
\* PinterestClient.__init__: the file counts only without an access token.
Boot(s) ==
    IF ~env.access /\ file # None THEN file
    ELSE [access  |-> IF env.access THEN EnvGrant ELSE None,
          refresh |-> IF env.refresh THEN EnvGrant ELSE None,
          left    |-> None]

\* get_client: the first call of a process creates its client.
ClientOf(s) == IF client[s] = None THEN Boot(s) ELSE client[s]

\* Mutant: a token is used to its last second.
Usable_NoMargin(k) == k.access # None /\ (k.left # None => k.left > 0)

Usable(k) == k.access # None /\ (k.left # None => k.left > Margin)

Fresh(k) == k.access # None /\ k.left # None /\ k.left > Margin

Using(c, token) == call' = [call EXCEPT ![c] = Out("using", token)]
Refreshing(c, token) == call' = [call EXCEPT ![c] = Out("refreshing", token)]

\* Mutant: no lock is taken.
StartCall_NoLock(c) ==
    LET s == Home[c]
        k == ClientOf(s)
    IN /\ call[c].stage = "idle"
       /\ client' = [client EXCEPT ![s] = k]
       /\ \/ Usable(k) /\ Using(c, k.access)
          \/ ~Usable(k) /\ k.refresh # None /\ Refreshing(c, k.refresh)
       /\ UNCHANGED <<env, queue, file, pinterest, history>>

\* _ensure_token up to its first await; a free lock is taken at once.
StartCall(c) ==
    LET s == Home[c]
        k == ClientOf(s)
    IN /\ call[c].stage = "idle"
       /\ client' = [client EXCEPT ![s] = k]
       /\ \/ /\ Usable(k)
             /\ Using(c, k.access)
             /\ UNCHANGED queue
          \/ /\ ~Usable(k)
             /\ k.refresh # None
             /\ queue' = [queue EXCEPT ![s] = Append(@, c)]
             /\ IF queue[s] = << >> THEN Refreshing(c, k.refresh)
                ELSE call' = [call EXCEPT ![c].stage = "waiting"]
          \/ /\ ~Usable(k)
             /\ k.refresh = None
             /\ UNCHANGED <<queue, call>>
       /\ UNCHANGED <<env, file, pinterest, history>>

\* The end of `async with', by whatever way it is left.
Unlocked(c) == [queue EXCEPT ![Home[c]] = RemoveFirst(@, c)]

\* Mutant: the expiry is not looked at again.
Locked_NoRecheck(c) ==
    LET k == client[Home[c]]
    IN /\ call[c].stage = "waiting"
       /\ Head(queue[Home[c]]) = c
       /\ Refreshing(c, k.refresh)
       /\ UNCHANGED <<env, client, queue, file, pinterest, history>>

\* _refresh with the lock just acquired after a wait.
Locked(c) ==
    LET k == client[Home[c]]
    IN /\ call[c].stage = "waiting"
       /\ Head(queue[Home[c]]) = c
       /\ IF Fresh(k) THEN Using(c, k.access) /\ queue' = Unlocked(c)
          ELSE Refreshing(c, k.refresh) /\ UNCHANGED queue
       /\ UNCHANGED <<env, client, file, pinterest, history>>

-----------------------------------------------------------------------------
\* Pinterest exchanges a valid refresh token, and may rotate it.
Grant(c) ==
    /\ call[c].stage = "refreshing"
    /\ call[c].sent \in valid
    /\ issued <= MaxGrants
    /\ \E e \in Lifetimes :
         /\ life' = [life EXCEPT ![issued] = e]
         /\ valid' = IF rotates THEN (valid \ {call[c].sent}) \cup {issued} ELSE valid
         /\ call' = [call EXCEPT ![c] =
              [@ EXCEPT !.stage = "granted",
                        !.grant = [access  |-> issued,
                                   refresh |-> IF rotates THEN issued ELSE call[c].sent,
                                   left    |-> e]]]
    /\ issued' = issued + 1
    /\ UNCHANGED <<env, client, queue, file, rotates, history>>

\* Mutant: the refresh token of the reply is ignored.
StoreGrant_OldRefresh(c) ==
    LET s == Home[c]
        k == [call[c].grant EXCEPT !.refresh = call[c].sent]
    IN /\ call[c].stage = "granted"
       /\ client' = [client EXCEPT ![s] = k]
       /\ queue' = Unlocked(c)
       /\ rejected' = [rejected EXCEPT ![s] = FALSE]
       /\ file' = k /\ Using(c, k.access)
       /\ UNCHANGED <<env, pinterest, orphaned>>

\* The reply: the tokens go into memory, then into the file, and the call
\* goes on.  A save that fails raises, with the new tokens in memory.
StoreGrant(c) ==
    LET s == Home[c]
        k == call[c].grant
    IN /\ call[c].stage = "granted"
       /\ client' = [client EXCEPT ![s] = k]
       /\ queue' = Unlocked(c)
       /\ rejected' = [rejected EXCEPT ![s] = FALSE]
       /\ \/ file' = k /\ Using(c, k.access) /\ UNCHANGED orphaned
          \/ /\ call' = [call EXCEPT ![c] = Idle]
             /\ orphaned' = orphaned \cup {call[c].sent}
             /\ UNCHANGED file
       /\ UNCHANGED <<env, pinterest>>

\* Mutant: a cancelled waiter keeps its place in the queue.
EndCall_StaysQueued(c) ==
    /\ call[c].stage # "idle"
    /\ call' = [call EXCEPT ![c] = Idle]
    /\ queue' = IF call[c].stage = "waiting" THEN queue ELSE Unlocked(c)
    /\ orphaned' = IF call[c].stage = "granted" THEN orphaned \cup {call[c].sent} ELSE orphaned
    /\ UNCHANGED <<env, client, file, pinterest, rejected>>

\* An error reply, a timeout, a lost reply, or the cancellation of the call.
EndCall(c) ==
    /\ call[c].stage # "idle"
    /\ call' = [call EXCEPT ![c] = Idle]
    /\ queue' = Unlocked(c)
    /\ orphaned' = IF call[c].stage = "granted" THEN orphaned \cup {call[c].sent} ELSE orphaned
    /\ UNCHANGED <<env, client, file, pinterest, rejected>>

\* The API's answer: 401 for a token past its lifetime.  A call whose client
\* was closed in the meantime has been ended by Stop.
Answer(c) ==
    LET s == Home[c]
        dead == life[call[c].sent] = 0
    IN /\ call[c].stage = "using"
       /\ call' = [call EXCEPT ![c] = Idle]
       /\ rejected' = [rejected EXCEPT ![s] = @ \/ (dead /\ call[c].sent = client[s].access)]
       /\ UNCHANGED <<env, client, queue, file, pinterest, orphaned>>

-----------------------------------------------------------------------------
\* A shutdown (close_client) or a crash: the process starts again with the
\* next call.
Stop(s) ==
    LET mine == {c \in Calls : Home[c] = s}
    IN /\ client[s] # None
       /\ client' = [client EXCEPT ![s] = None]
       /\ queue' = [queue EXCEPT ![s] = << >>]
       /\ call' = [c \in Calls |-> IF c \in mine THEN Idle ELSE call[c]]
       /\ orphaned' = orphaned \cup {call[c].sent : c \in {d \in mine : call[d].stage = "granted"}}
       /\ rejected' = [rejected EXCEPT ![s] = FALSE]
       /\ UNCHANGED <<env, file, pinterest>>

\* pinterest-mcp-auth: a new authorisation replaces the file.
Authorize ==
    /\ issued <= MaxGrants
    /\ \E e \in Lifetimes :
         /\ life' = [life EXCEPT ![issued] = e]
         /\ file' = [access |-> issued, refresh |-> issued, left |-> e]
    /\ valid' = valid \cup {issued}
    /\ issued' = issued + 1
    /\ UNCHANGED <<env, client, queue, call, rotates, history>>

Less(left) == IF left = None \/ left = 0 THEN left ELSE left - 1
Aged(k) == IF k = None THEN None ELSE [k EXCEPT !.left = Less(@)]

\* expires_in counts from the moment the reply is read (client.py 172), so
\* that a reply on its way does not age for the client.
Tick ==
    /\ \A c \in Calls : call[c].age < MaxLatency
    /\ \E n \in Grants : life[n] > 0
    /\ life' = [n \in Grants |-> Less(life[n])]
    /\ client' = [s \in Servers |-> Aged(client[s])]
    /\ file' = Aged(file)
    /\ call' = [c \in Calls |->
                  IF call[c].stage = "granted" THEN [call[c] EXCEPT !.age = @ + 1] ELSE call[c]]
    /\ UNCHANGED <<env, queue, valid, issued, rotates, history>>

Step(c) == Locked(c) \/ Grant(c) \/ StoreGrant(c) \/ EndCall(c) \/ Answer(c)

Next ==
    \/ \E c \in Calls : StartCall(c) \/ Step(c)
    \/ \E s \in Servers : Stop(s)
    \/ Authorize
    \/ Tick

Spec == Init /\ [][Next]_vars

-----------------------------------------------------------------------------
\* One refresh at a time in a process, with the refresh token that is in its
\* memory, and with the lock held (client.py 151-171).
OneRefresh ==
    \A c \in Calls : call[c].stage \in {"refreshing", "granted"} =>
        /\ queue[Home[c]] # << >> /\ Head(queue[Home[c]]) = c
        /\ call[c].sent = client[Home[c]].refresh

\* What a waiter does not repeat: nobody asks Pinterest for tokens while the
\* tokens of its own process are fresh (client.py 152-159).
NoNeedlessRefresh ==
    [][\A c \in Calls :
         call[c].stage # "refreshing" /\ call'[c].stage = "refreshing"
           => ~Fresh(client'[Home[c]])]_vars

\* The margin covers the way of the reply: no access token with a known
\* expiry is handed out dead, whoever refreshed it and wherever it was kept.
UsableWhenSent ==
    [][\A c \in Calls :
         call[c].stage # "using" /\ call'[c].stage = "using" /\ client'[Home[c]].left # None
           => life'[call'[c].sent] > 0]_vars

\* What a restarted server would start from is good for a refresh, except
\* when the reply that replaced it is on its way or was never saved.
RestartCanRefresh ==
    \A s \in Servers :
        Boot(s).refresh # None /\ ~env.access =>
            \/ Boot(s).refresh \in valid \cup orphaned
            \/ \E c \in Calls : call[c].stage = "granted" /\ call[c].sent = Boot(s).refresh

\* Tokens without an expiry "remain usable until the API rejects them"
\* (client.py 84), and the refresh token is there for auto-renewal (README
\* 461): a rejected token is not sent again while it could be renewed.
RejectedNotReused ==
    [][\A c \in Calls :
         call[c].stage # "using" /\ call'[c].stage = "using"
           => ~rejected[Home[c]] \/ client'[Home[c]].refresh \notin valid]_vars
=============================================================================
