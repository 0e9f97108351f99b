---------------------------- MODULE BrokerHandoff ----------------------------
(***************************************************************************)
(* The login of PinterestIdentityProvider.java: the broker's notes in the  *)
(* browser's authentication session, its two handoff calls over a network  *)
(* that delays and loses, and Keycloak's user, which is rolled back when   *)
(* the hook throws.  The service at the other end is CredentialLedger,     *)
(* which CredentialVault implements; HandoffNonce shows that a call is     *)
(* processed at most once.                                                 *)
(***************************************************************************)
EXTENDS CredentialLedger

CONSTANTS
    Sessions,     \* authentication sessions: a root session, tab and client
    Handoffs,     \* calls of the ingress that are in progress together
    MaxVersion    \* bound of the model: no disconnect from this version on

VARIABLES
    note,       \* note[b]: pinterest_transaction
    lapsed,     \* sessions past their pinterest_deadline
    context,    \* context[b]: the brokered identity that Keycloak keeps
    call,       \* call[n]: the handoff call in progress, or None
    identity,   \* identity[a]: the user linked to a in Keycloak
    drawn,      \* transactions and user identifiers that were drawn
    unheard     \* accounts of completions whose outcome Keycloak never used

broker == <<note, lapsed, context, call, identity, drawn, unheard>>
service == <<stage, account, basis, holder, version, live>>
allVars == <<service, broker>>

Context == [ref : Txns, account : Accounts]

(***************************************************************************)
(* `under_way': the request has not reached the service.  `waits': a       *)
(* thread of Keycloak waits for the reply.  A reply "failed" is a 503,     *)
(* which does not tell whether the transaction was committed.  A call is   *)
(* over when its request has arrived, or is lost, and nobody waits.        *)
(***************************************************************************)
Call == [kind : {"stage", "complete"}, session : Sessions, txn : Txns, ref : Txns,
         account : Accounts, subject : Subjects \cup {None},
         under_way : BOOLEAN, waits : BOOLEAN, reply : {"none", "ok", "refused", "failed"}]

ASSUME BrokerAssumption ==
    /\ None \notin Txns \cup Accounts \cup Subjects \cup Call
    /\ MaxVersion \in Nat

LedgerTypeOK ==
    /\ stage \in [Txns -> {"absent", "pending", "completed", "void"}]
    /\ account \in [Txns -> Accounts \cup {None}]
    /\ basis \in [Txns -> Nat]
    /\ holder \in [Subjects -> Accounts \cup {None}]
    /\ version \in [Subjects -> Nat]
    /\ live \in [Subjects -> Txns \cup {None}]

TypeOK ==
    /\ LedgerTypeOK
    /\ note \in [Sessions -> Txns \cup {None}]
    /\ lapsed \subseteq Sessions
    /\ context \in [Sessions -> Context \cup {None}]
    /\ call \in [Handoffs -> Call \cup {None}]
    /\ identity \in [Accounts -> Subjects \cup {None}]
    /\ drawn \subseteq Txns \cup Subjects
    /\ unheard \subseteq Accounts

BrokerInit ==
    /\ Init
    /\ note = [b \in Sessions |-> None]
    /\ lapsed = {}
    /\ context = [b \in Sessions |-> None]
    /\ call = [n \in Handoffs |-> None]
    /\ identity = [a \in Accounts |-> None]
    /\ drawn = {}
    /\ unheard = {}

-----------------------------------------------------------------------------
\* performLogin: a start, or a new start in the same tab.
PerformLogin(b) ==
    /\ \E t \in Txns \ drawn : /\ note' = [note EXCEPT ![b] = t]
                               /\ drawn' = drawn \cup {t}
    /\ lapsed' = lapsed \ {b}
    /\ UNCHANGED <<service, context, call, identity, unheard>>

\* Five minutes are over.
Lapse(b) ==
    /\ note[b] # None /\ b \notin lapsed
    /\ lapsed' = lapsed \cup {b}
    /\ UNCHANGED <<service, note, context, call, identity, drawn, unheard>>

\* Mutant: a session without a transaction is let through.
Payload_NoNote(b) == b \notin lapsed

\* transactionPayload: both hooks take the transaction from the notes.
Payload(b) == note[b] # None /\ b \notin lapsed

\* sendHandoff up to the reply; there is no automatic retry.
Send(n, kind, b, a, s, ref) ==
    /\ call[n] = None
    /\ call' = [call EXCEPT ![n] =
         [kind |-> kind, session |-> b, txn |-> note[b], ref |-> ref, account |-> a,
          subject |-> s, under_way |-> TRUE, waits |-> TRUE, reply |-> "none"]]

\* getFederatedIdentity, with good tokens and the account they belong to.  A
\* response that fails its checks changes nothing.
GetFederatedIdentity(n, b, a) ==
    /\ Payload(b)
    /\ Send(n, "stage", b, a, None, note[b])
    /\ UNCHANGED <<service, note, lapsed, context, identity, drawn, unheard>>

\* Mutant: the reference of the context is not compared.
Matches_Unchecked(b) == context[b] # None

\* The context was made by the transaction that is in the notes now.
Matches(b) == context[b] # None /\ context[b].ref = note[b]

\* importNewUser: Keycloak has created a user in its open transaction.
ImportNewUser(n, b) ==
    /\ Payload(b) /\ Matches(b)
    /\ identity[context[b].account] = None
    /\ \E s \in Subjects \ drawn :
         /\ Send(n, "complete", b, context[b].account, s, context[b].ref)
         /\ drawn' = drawn \cup {s}
    /\ UNCHANGED <<service, note, lapsed, context, identity, unheard>>

\* updateBrokeredUser: the login of a user that is linked.
UpdateBrokeredUser(n, b) ==
    /\ Payload(b) /\ Matches(b)
    /\ identity[context[b].account] # None
    /\ Send(n, "complete", b, context[b].account, identity[context[b].account], context[b].ref)
    /\ UNCHANGED <<service, note, lapsed, context, identity, drawn, unheard>>

-----------------------------------------------------------------------------
Answered(c, reply) ==
    IF c.waits THEN [c EXCEPT !.under_way = FALSE, !.reply = reply] ELSE None
Answer(n, reply) == call' = [call EXCEPT ![n] = Answered(call[n], reply)]

\* What the service does with a request that it accepts.
Commit(n) ==
    LET c == call[n]
    IN \/ c.kind = "stage" /\ Stage(c.txn, c.account)
       \/ c.kind = "complete" /\ account[c.txn] = c.account /\ Install(c.txn, c.subject)

\* A commit is followed by its receipt, unless the connection to the database
\* breaks at that moment.
Accept(n) ==
    /\ call[n] # None /\ call[n].under_way
    /\ Commit(n)
    /\ \E reply \in {"ok", "failed"} : Answer(n, reply)
    /\ UNCHANGED <<note, lapsed, context, identity, drawn, unheard>>

\* A completion that is there already, for the same subject and with an active
\* connection, is answered from the receipt.
Repeat(n) ==
    LET c == call[n]
    IN /\ c # None /\ c.under_way /\ c.kind = "complete"
       /\ stage[c.txn] = "completed" /\ account[c.txn] = c.account
       /\ holder[c.subject] = c.account /\ live[c.subject] # None
       /\ Answer(n, "ok")
       /\ UNCHANGED <<service, note, lapsed, context, identity, drawn, unheard>>

\* Mutant: the request is committed and then refused.
Refuse_AfterCommit(n) ==
    /\ call[n] # None /\ call[n].under_way
    /\ Commit(n)
    /\ Answer(n, "refused")
    /\ UNCHANGED <<note, lapsed, context, identity, drawn, unheard>>

\* Past its deadline, of another owner, after another change: the request is
\* rolled back; or there is no database.
Refuse(n) ==
    /\ call[n] # None /\ call[n].under_way
    /\ \E reply \in {"refused", "failed"} : Answer(n, reply)
    /\ UNCHANGED <<service, note, lapsed, context, identity, drawn, unheard>>

\* The network loses the request.
Lose(n) ==
    /\ call[n] # None /\ call[n].under_way
    /\ Answer(n, "none")
    /\ UNCHANGED <<service, note, lapsed, context, identity, drawn, unheard>>

\* Cleanups of the service, and its owners.
Expire ==
    /\ \E t \in Txns : Void({t})
    /\ UNCHANGED broker
OwnerDisconnects ==
    /\ \E s \in Subjects : version[s] < MaxVersion /\ Disconnect(s)
    /\ UNCHANGED broker

-----------------------------------------------------------------------------
\* Mutant: the status of the reply is not looked at.
Heard_AnyStatus(n) == call[n] # None /\ call[n].waits /\ call[n].reply # "none"

\* sendHandoff returns only for a 200 with the expected status.
Heard(n) == call[n] # None /\ call[n].waits /\ call[n].reply = "ok"

Left(c) == IF c.under_way THEN [c EXCEPT !.waits = FALSE] ELSE None
Closed(n) == [call EXCEPT ![n] = Left(call[n])]

\* The rest of getFederatedIdentity: Keycloak keeps the context.
KeepContext(n) ==
    /\ Heard(n)
    /\ call[n].kind = "stage"
    /\ context' = [context EXCEPT ![call[n].session] =
                     [ref |-> call[n].txn, account |-> call[n].account]]
    /\ call' = Closed(n)
    /\ UNCHANGED <<service, note, lapsed, identity, drawn, unheard>>

\* The hook returns, and Keycloak commits the user and its link, which is
\* unique for an account, and ends the authentication session.
CommitLogin(n) ==
    LET c == call[n]
    IN /\ Heard(n)
       /\ c.kind = "complete"
       /\ identity[c.account] \in {None, c.subject}
       /\ identity' = [identity EXCEPT ![c.account] = c.subject]
       /\ note' = [note EXCEPT ![c.session] = None]
       /\ context' = [context EXCEPT ![c.session] = None]
       /\ lapsed' = lapsed \ {c.session}
       /\ call' = Closed(n)
       /\ UNCHANGED <<service, drawn, unheard>>

\* An error, a timeout, or a crash of Keycloak before its commit: a user that
\* was to be created is gone.
Abort(n) ==
    /\ call[n] # None /\ call[n].waits
    /\ call' = Closed(n)
    /\ unheard' = IF call[n].kind = "complete" /\ call[n].reply # "refused"
                  THEN unheard \cup {call[n].account} ELSE unheard
    /\ UNCHANGED <<service, note, lapsed, context, identity, drawn>>

BrokerNext ==
    \/ \E b \in Sessions : PerformLogin(b) \/ Lapse(b)
    \/ \E n \in Handoffs, b \in Sessions :
         \/ \E a \in Accounts : GetFederatedIdentity(n, b, a)
         \/ ImportNewUser(n, b)
         \/ UpdateBrokeredUser(n, b)
    \/ \E n \in Handoffs :
         \/ Accept(n) \/ Repeat(n) \/ Refuse(n) \/ Lose(n)
         \/ KeepContext(n) \/ CommitLogin(n) \/ Abort(n)
    \/ Expire
    \/ OwnerDisconnects

BrokerSpec == BrokerInit /\ [][BrokerNext]_allVars

-----------------------------------------------------------------------------
\* Keycloak and the service agree on owners: whoever can log in to an account
\* is its owner in the service, whichever logins raced for it, and although
\* two systems commit one after the other.
LinkedOwners ==
    \A a \in Accounts : identity[a] # None => holder[identity[a]] = a

Awaited(s, a) ==
    \E n \in Handoffs : /\ call[n] # None /\ call[n].waits
                        /\ call[n].kind = "complete" /\ call[n].reply \in {"ok", "failed"}
                        /\ call[n].subject = s /\ call[n].account = a

\* An owner in the service whom Keycloak does not know, and so an account that
\* nobody can log in to any more, is left behind only by a completion whose
\* outcome did not get through: never by a refusal, and not by a login race.
StrandedOnlyUnheard ==
    \A s \in Subjects, a \in Accounts :
        holder[s] = a => identity[a] = s \/ a \in unheard \/ Awaited(s, a)

\* A login that Keycloak commits has installed the tokens of the callback its
\* own page came from: not of a later start in the same tab, and not none.
LoginsInstalled ==
    [][\A n \in Handoffs : CommitLogin(n) =>
         /\ stage[call[n].ref] = "completed"
         /\ account[call[n].ref] = call[n].account
         /\ holder[call[n].subject] = call[n].account]_allVars
=============================================================================
