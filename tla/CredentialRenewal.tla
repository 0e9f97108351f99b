-------------------------- MODULE CredentialRenewal --------------------------
(***************************************************************************)
(* CredentialVault with the token renewals of                              *)
(* ConnectionRepository.update_tokens_versioned added.  A renewal reads    *)
(* the connection, compares the version with the one its caller saw, and   *)
(* writes.  It takes no account lock and no row lock, and its UPDATE names *)
(* the row by its primary key only.                                        *)
(***************************************************************************)
EXTENDS CredentialVault

(* The caller decrypts the tokens of an active connection, remembers its   *)
(* version, and asks Pinterest for new tokens.                             *)
StartRenewal(w, s) ==
    /\ pc[w] = "idle"
    /\ conns[s].status = "active"
    /\ conns[s].version < MaxVersion
    /\ req' = [req EXCEPT ![w] = [kind |-> "renew", subject |-> s,
                                  expected |-> conns[s].version]]
    /\ pc' = [pc EXCEPT ![w] = "call"]
    /\ UNCHANGED <<now, tables, locks, at, due, seen, outage>>

LoadForRenewal(w) ==
    LET stored == conns[req[w].subject] IN
    /\ pc[w] = "call"
    /\ stored.version = req[w].expected
    /\ seen' = [seen EXCEPT ![w].conn = stored]
    /\ pc' = [pc EXCEPT ![w] = "store"]
    /\ UNCHANGED <<now, tables, locks, req, at, due, outage>>

VersionConflict(w) ==
    /\ pc[w] = "call"
    /\ conns[req[w].subject].version # req[w].expected
    /\ Finish(w)
    /\ UNCHANGED <<now, tables, outage>>

(* Ciphertext is fresh for every renewal. *)
NewTokens(w) == [by |-> w, of |-> req[w].subject, version |-> req[w].expected + 1]

CommitRenewal(w) ==
    LET loaded == seen[w].conn
        wanted == [loaded EXCEPT !.status = "active", !.tokens = NewTokens(w),
                                 !.version = req[w].expected + 1]
    IN
    /\ pc[w] = "store"
    /\ conns' = [conns EXCEPT ![req[w].subject] = Flushed(loaded, wanted, @)]
    /\ Finish(w)
    /\ UNCHANGED <<now, users, rows, receipts, outage>>

RenewalStep(w) ==
    \/ \E s \in Subjects : StartRenewal(w, s)
    \/ LoadForRenewal(w) \/ VersionConflict(w) \/ CommitRenewal(w)

RenewalSpec == Init /\ [][Next \/ \E w \in Workers : RenewalStep(w)]_vars

-----------------------------------------------------------------------------
(* Optimistic concurrency control: a renewal replaces the version that its *)
(* caller has seen, so that of two renewals from one version one fails.    *)
RenewsExpectedVersion ==
    [][\A w \in Workers :
         pc[w] = "store" /\ conns'[req[w].subject].tokens = NewTokens(w)
           => conns[req[w].subject].version = req[w].expected]_vars

(* Tokens that a renewal of the connection of s got from Pinterest.        *)
Renewed(s) == [by : Workers, of : {s}, version : Nat]

(* What renewals leave intact, although they overwrite versions that they  *)
(* have not seen and can bring tokens back into a disconnected row: an     *)
(* account has one owner, a connection is to its owner's account, and its  *)
(* tokens come from that owner's completed login or from a renewal of that *)
(* same connection.                                                        *)
RenewalIsolation ==
    /\ \A s, o \in Subjects : users[s] = users[o] /\ users[s] # None => s = o
    /\ \A s \in Subjects :
        /\ conns[s].account = users[s]
        /\ conns[s].status = "absent" <=> users[s] = None
        /\ \/ conns[s].tokens = None
           \/ conns[s].tokens \in Renewed(s)
           \/ \E t \in Txns : /\ conns[s].tokens = t
                             /\ rows[t].status = "completed"
                             /\ rows[t].subject = s
                             /\ rows[t].account = users[s]
=============================================================================
