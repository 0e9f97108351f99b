------------------------- MODULE BrokerHandoffProofs -------------------------
(* The broker and the service agree on owners, for any number of sessions, *)
(* calls, accounts and users: what the service has done is never undone,   *)
(* so a reply stays true however late it is used; and a completion that    *)
(* nobody waits for any more is already counted as unheard.                *)
EXTENDS BrokerHandoff, TLAPS

(* A completion that was answered well is in the service's tables.         *)
Done(c) == /\ stage[c.txn] = "completed"
           /\ account[c.txn] = c.account
           /\ holder[c.subject] = c.account

CallOK(n) ==
    call[n] # None =>
        /\ call[n].ref = call[n].txn
        /\ call[n].under_way => call[n].reply = "none"
        /\ call[n].kind = "complete" =>
             /\ call[n].subject \in Subjects
             /\ call[n].under_way /\ ~ call[n].waits => call[n].account \in unheard
             /\ call[n].reply = "ok" => Done(call[n])

CallsOK == \A n \in Handoffs : CallOK(n)

BrokerInv == TypeOK /\ CallsOK /\ LinkedOwners /\ StrandedOnlyUnheard

-----------------------------------------------------------------------------
LEMMA InitInv == BrokerInit => BrokerInv
<1> SUFFICES ASSUME BrokerInit PROVE BrokerInv
  OBVIOUS
<1>1. TypeOK
  BY DEF BrokerInit, Init, TypeOK, LedgerTypeOK
<1>2. CallsOK
  BY DEF BrokerInit, CallsOK, CallOK
<1>3. LinkedOwners
  BY DEF BrokerInit, LinkedOwners
<1>4. StrandedOnlyUnheard
  BY BrokerAssumption DEF BrokerInit, Init, StrandedOnlyUnheard
<1> QED
  BY <1>1, <1>2, <1>3, <1>4 DEF BrokerInv

(* What the actions of the service keep: types, owners, completed logins,  *)
(* and the account of every envelope.                                      *)
Kept == /\ \A s \in Subjects : holder[s] # None => holder'[s] = holder[s]
        /\ \A t \in Txns : stage[t] = "completed" => stage'[t] = "completed"
        /\ \A t \in Txns : stage[t] = "completed" => account'[t] = account[t]

LEMMA StageKeeps ==
  ASSUME LedgerTypeOK, NEW t \in Txns, NEW a \in Accounts, Stage(t, a)
  PROVE  LedgerTypeOK' /\ Kept /\ holder' = holder
<1>1. VersionOf(a) \in Nat
  <2>1. CASE \E s \in Subjects : holder[s] = a
    <3>1. PICK s \in Subjects : s = CHOOSE o \in Subjects : holder[o] = a
      BY <2>1
    <3> QED
      BY <2>1, <3>1 DEF VersionOf, LedgerTypeOK
  <2> QED
    BY <2>1 DEF VersionOf
<1> QED
  BY <1>1 DEF LedgerTypeOK, Stage, Kept

LEMMA InstallKeeps ==
  ASSUME LedgerTypeOK, NEW t \in Txns, NEW s \in Subjects, Install(t, s)
  PROVE  /\ LedgerTypeOK' /\ Kept
         /\ stage'[t] = "completed" /\ account'[t] = account[t] /\ holder'[s] = account[t]
         /\ \A o \in Subjects : o # s => holder'[o] = holder[o]
  BY DEF LedgerTypeOK, Install, Kept

LEMMA VoidKeeps ==
  ASSUME LedgerTypeOK, NEW T \in SUBSET Txns, Void(T)
  PROVE  LedgerTypeOK' /\ Kept /\ holder' = holder
  BY DEF LedgerTypeOK, Void, Kept

LEMMA DisconnectKeeps ==
  ASSUME LedgerTypeOK, NEW s \in Subjects, Disconnect(s)
  PROVE  LedgerTypeOK' /\ Kept /\ holder' = holder
  BY DEF LedgerTypeOK, Disconnect, Kept

LEMMA ServiceRests == ASSUME UNCHANGED service, LedgerTypeOK PROVE LedgerTypeOK' /\ Kept
  BY DEF service, LedgerTypeOK, Kept

(* A call whose record does not change stays good, whatever the service    *)
(* does meanwhile.                                                         *)
LEMMA OtherCallOK ==
  ASSUME TypeOK, Kept, NEW n \in Handoffs, CallOK(n), call'[n] = call[n], unheard \subseteq unheard'
  PROVE  CallOK(n)'
<1> SUFFICES ASSUME call[n] # None, call[n].kind = "complete", call[n].reply = "ok"
             PROVE  Done(call[n])'
  BY DEF CallOK
<1>1. Done(call[n]) /\ call[n].subject \in Subjects
  BY DEF CallOK
<1>2. call[n] \in Call
  BY DEF TypeOK
<1>3. call[n].txn \in Txns /\ call[n].account \in Accounts
  BY <1>2 DEF Call
<1>4. call[n].account # None
  BY <1>3, BrokerAssumption
<1> QED
  BY <1>1, <1>3, <1>4 DEF Done, Kept

-----------------------------------------------------------------------------
(* Actions that send no call, end no call and touch neither owners nor     *)
(* links.                                                                  *)
LEMMA QuietStep ==
  ASSUME BrokerInv, LedgerTypeOK', Kept, holder' = holder,
         UNCHANGED <<call, identity, unheard>>
  PROVE  CallsOK' /\ LinkedOwners' /\ StrandedOnlyUnheard'
<1>1. CallsOK'
  BY OtherCallOK DEF BrokerInv, CallsOK
<1>2. LinkedOwners'
  BY DEF BrokerInv, LinkedOwners
<1>3. StrandedOnlyUnheard'
  BY DEF BrokerInv, StrandedOnlyUnheard, Awaited
<1> QED
  BY <1>1, <1>2, <1>3

(* A call is sent: nothing is answered yet.                                *)
LEMMA SendStep ==
  ASSUME BrokerInv, UNCHANGED <<service, note, lapsed, context, identity, unheard>>,
         NEW n \in Handoffs, NEW b \in Sessions, NEW a \in Accounts, NEW kind, NEW s,
         \/ kind = "stage" /\ s = None
         \/ kind = "complete" /\ s \in Subjects,
         note[b] # None, Send(n, kind, b, a, s, note[b]),
         drawn \subseteq drawn', drawn' \subseteq Txns \cup Subjects
  PROVE  BrokerInv'
<1> DEFINE c == [kind |-> kind, session |-> b, txn |-> note[b], ref |-> note[b], account |-> a,
                 subject |-> s, under_way |-> TRUE, waits |-> TRUE, reply |-> "none"]
<1>1. /\ call[n] = None /\ call' = [call EXCEPT ![n] = c]
      /\ call \in [Handoffs -> Call \cup {None}]
  BY DEF Send, BrokerInv, TypeOK
<1>2. note[b] \in Txns
  BY DEF BrokerInv, TypeOK
<1>3. c \in Call
  BY <1>2 DEF Call
<1>4. LedgerTypeOK /\ LedgerTypeOK' /\ Kept
  BY ServiceRests DEF BrokerInv, TypeOK
<1>5. /\ c.ref = c.txn /\ c.reply = "none" /\ c.waits
      /\ c.kind = "complete" => c.subject \in Subjects
  OBVIOUS
<1> HIDE DEF c
<1>6. call'[n] = c /\ \A m \in Handoffs : m # n => call'[m] = call[m]
  BY <1>1
<1>7. call' \in [Handoffs -> Call \cup {None}]
  BY <1>1, <1>3
<1>8. TypeOK'
  BY <1>4, <1>7 DEF BrokerInv, TypeOK
<1>9. CallsOK'
  <2>1. ASSUME NEW m \in Handoffs PROVE CallOK(m)'
    <3>1. CASE m = n
      BY <1>5, <1>6, <3>1 DEF CallOK
    <3>2. CASE m # n
      BY <1>4, <1>6, <3>2, OtherCallOK DEF BrokerInv, CallsOK
    <3> QED
      BY <3>1, <3>2
  <2> QED
    BY <2>1 DEF CallsOK
<1>10. LinkedOwners'
  BY DEF BrokerInv, LinkedOwners, service
<1>11. StrandedOnlyUnheard'
  <2>1. ASSUME NEW o \in Subjects, NEW d \in Accounts, Awaited(o, d) PROVE Awaited(o, d)'
    BY <1>1, <1>6, <2>1 DEF Awaited
  <2> QED
    BY <2>1 DEF BrokerInv, StrandedOnlyUnheard, service
<1> QED
  BY <1>8, <1>9, <1>10, <1>11 DEF BrokerInv

(* A request gets its reply, or none: the service has done nothing that it *)
(* does not tell, except for a "failed".                                   *)
LEMMA ReplyStep ==
  ASSUME BrokerInv, LedgerTypeOK', Kept, UNCHANGED <<note, lapsed, context, identity, drawn, unheard>>,
         NEW n \in Handoffs, call[n] # None, call[n].under_way,
         NEW reply \in {"none", "ok", "refused", "failed"}, Answer(n, reply),
         reply = "ok" /\ call[n].kind = "complete" =>
            /\ stage'[call[n].txn] = "completed"
            /\ account'[call[n].txn] = call[n].account
            /\ holder'[call[n].subject] = call[n].account,
         \A s \in Subjects : holder'[s] # holder[s] =>
            /\ call[n].kind = "complete" /\ reply # "refused"
            /\ s = call[n].subject /\ holder'[s] = call[n].account,
         reply \in {"none", "refused"} => holder' = holder
  PROVE  BrokerInv'
<1> DEFINE c == Answered(call[n], reply)
<1>1. call[n] \in Call /\ call \in [Handoffs -> Call \cup {None}]
  BY DEF BrokerInv, TypeOK
<1>2. call' = [call EXCEPT ![n] = c]
  BY <1>1 DEF Answer
<1>3. /\ ~ call[n].waits => c = None
      /\ call[n].waits => /\ c \in Call /\ c # None
                          /\ c.under_way = FALSE /\ c.waits /\ c.reply = reply
                          /\ c.kind = call[n].kind /\ c.txn = call[n].txn /\ c.ref = call[n].ref
                          /\ c.account = call[n].account /\ c.subject = call[n].subject
  <2>1. CASE call[n].waits
    <3>1. c \in Call /\ c = [call[n] EXCEPT !.under_way = FALSE, !.reply = reply]
      BY <1>1, <2>1 DEF Call, Answered
    <3>2. c # None
      BY <3>1, BrokerAssumption
    <3> HIDE DEF c
    <3> QED
      BY <1>1, <2>1, <3>1, <3>2 DEF Call
  <2>2. CASE ~ call[n].waits
    BY <2>2 DEF Answered
  <2> QED
    BY <2>1, <2>2
<1> HIDE DEF c
<1>4. call'[n] = c /\ \A m \in Handoffs : m # n => call'[m] = call[m]
  BY <1>1, <1>2
<1>5. call' \in [Handoffs -> Call \cup {None}]
  BY <1>1, <1>2, <1>3
<1>6. TypeOK'
  BY <1>5 DEF BrokerInv, TypeOK
<1>7. CallOK(n)
  BY DEF BrokerInv, CallsOK
<1>8. CallsOK'
  <2>1. CallOK(n)'
    BY <1>3, <1>4, <1>7 DEF CallOK, Done
  <2>2. ASSUME NEW m \in Handoffs, m # n PROVE CallOK(m)'
    BY <1>4, <2>2, OtherCallOK DEF BrokerInv, CallsOK
  <2> QED
    BY <2>1, <2>2 DEF CallsOK
<1>9. LinkedOwners'
  <2>1. ASSUME NEW a \in Accounts, identity[a] # None PROVE holder'[identity[a]] = a
    <3>1. identity[a] \in Subjects /\ holder[identity[a]] = a /\ a # None
      BY <2>1, BrokerAssumption DEF BrokerInv, TypeOK, LinkedOwners
    <3> QED
      BY <3>1 DEF Kept
  <2> QED
    BY <2>1 DEF LinkedOwners
<1>10. StrandedOnlyUnheard'
  <2> SUFFICES ASSUME NEW s \in Subjects, NEW a \in Accounts, holder'[s] = a
               PROVE  identity[a] = s \/ a \in unheard \/ Awaited(s, a)'
    BY DEF StrandedOnlyUnheard
  <2>1. CASE holder[s] = a
    <3>1. identity[a] = s \/ a \in unheard \/ Awaited(s, a)
      BY <2>1 DEF BrokerInv, StrandedOnlyUnheard
    <3>2. call[n].reply = "none"
      BY <1>7 DEF CallOK
    <3>3. Awaited(s, a) => Awaited(s, a)'
      BY <1>4, <3>2 DEF Awaited
    <3> QED
      BY <3>1, <3>3
  <2>2. CASE holder[s] # a
    <3>1. /\ call[n].kind = "complete" /\ reply # "refused"
          /\ s = call[n].subject /\ a = call[n].account
      BY <2>2
    <3>2. reply \in {"ok", "failed"}
      BY <2>2, <3>1
    <3>3. CASE call[n].waits
      BY <1>3, <1>4, <3>1, <3>2, <3>3 DEF Awaited
    <3>4. CASE ~ call[n].waits
      BY <1>7, <3>1, <3>4 DEF CallOK
    <3> QED
      BY <3>3, <3>4
  <2> QED
    BY <2>1, <2>2
<1> QED
  BY <1>6, <1>8, <1>9, <1>10 DEF BrokerInv

(* A thread of Keycloak stops waiting, with or without a commit.           *)
LEMMA CloseStep ==
  ASSUME BrokerInv, UNCHANGED service, UNCHANGED drawn, lapsed' \subseteq Sessions,
         NEW n \in Handoffs, call[n] # None, call' = Closed(n),
         unheard \subseteq unheard', unheard' \subseteq Accounts,
         \/ UNCHANGED identity /\ (call[n].kind = "complete" /\ call[n].reply # "refused"
                                     => call[n].account \in unheard')
         \/ UNCHANGED identity /\ call[n].kind = "stage"
         \/ /\ call[n].kind = "complete" /\ call[n].reply = "ok"
            /\ identity[call[n].account] \in {None, call[n].subject}
            /\ identity' = [identity EXCEPT ![call[n].account] = call[n].subject],
         note' \in [Sessions -> Txns \cup {None}], context' \in [Sessions -> Context \cup {None}]
  PROVE  BrokerInv'
<1> DEFINE c == Left(call[n])
<1>1. call[n] \in Call /\ call \in [Handoffs -> Call \cup {None}]
  BY DEF BrokerInv, TypeOK
<1>2. call' = [call EXCEPT ![n] = c]
  BY DEF Closed
<1>3. /\ ~ call[n].under_way => c = None
      /\ call[n].under_way => /\ c \in Call /\ c.under_way /\ c.waits = FALSE
                              /\ c.reply = call[n].reply /\ c.kind = call[n].kind
                              /\ c.txn = call[n].txn /\ c.ref = call[n].ref
                              /\ c.account = call[n].account /\ c.subject = call[n].subject
  <2>1. CASE call[n].under_way
    BY <1>1, <2>1 DEF Call, Left
  <2>2. CASE ~ call[n].under_way
    BY <2>2 DEF Left
  <2> QED
    BY <2>1, <2>2
<1> HIDE DEF c
<1>4. call'[n] = c /\ \A m \in Handoffs : m # n => call'[m] = call[m]
  BY <1>1, <1>2
<1>5. call' \in [Handoffs -> Call \cup {None}]
  BY <1>1, <1>2, <1>3
<1>6. LedgerTypeOK /\ LedgerTypeOK' /\ Kept /\ holder' = holder
  BY ServiceRests DEF BrokerInv, TypeOK, service
<1>7. CallOK(n)
  BY DEF BrokerInv, CallsOK
<1>8. call[n].kind = "complete" => call[n].subject \in Subjects /\ call[n].account \in Accounts
  BY <1>1, <1>3, <1>7 DEF CallOK, Call
<1>9. TypeOK'
  <2>1. identity' \in [Accounts -> Subjects \cup {None}]
    BY <1>3, <1>8 DEF BrokerInv, TypeOK
  <2> QED
    BY <1>5, <1>6, <2>1 DEF BrokerInv, TypeOK
<1>10. CallsOK'
  <2>1. CallOK(n)'
    BY <1>3, <1>4, <1>6, <1>7 DEF CallOK, Done, service
  <2>2. ASSUME NEW m \in Handoffs, m # n PROVE CallOK(m)'
    BY <1>4, <1>6, <2>2, OtherCallOK DEF BrokerInv, CallsOK
  <2> QED
    BY <2>1, <2>2 DEF CallsOK
<1>11. LinkedOwners'
  <2>1. call[n].kind = "complete" /\ call[n].reply = "ok" => holder[call[n].subject] = call[n].account
    BY <1>7 DEF CallOK, Done
  <2> QED
    BY <1>3, <1>6, <1>8, <2>1 DEF BrokerInv, LinkedOwners, TypeOK
<1>12. StrandedOnlyUnheard'
  <2> SUFFICES ASSUME NEW s \in Subjects, NEW a \in Accounts, holder[s] = a
               PROVE  identity'[a] = s \/ a \in unheard' \/ Awaited(s, a)'
    BY <1>6 DEF StrandedOnlyUnheard
  <2>1. identity[a] = s \/ a \in unheard \/ Awaited(s, a)
    BY DEF BrokerInv, StrandedOnlyUnheard
  <2>2. CASE identity[a] = s
    <3>1. s # None
      BY BrokerAssumption
    <3> QED
      BY <1>3, <1>8, <2>2, <3>1 DEF BrokerInv, TypeOK
  <2>3. CASE Awaited(s, a)
    <3>1. PICK m \in Handoffs : /\ call[m] # None /\ call[m].waits
                                /\ call[m].kind = "complete" /\ call[m].reply \in {"ok", "failed"}
                                /\ call[m].subject = s /\ call[m].account = a
      BY <2>3 DEF Awaited
    <3>2. CASE m = n
      BY <1>3, <1>8, <3>1, <3>2 DEF BrokerInv, TypeOK
    <3>3. CASE m # n
      BY <1>4, <3>1, <3>3 DEF Awaited
    <3> QED
      BY <3>2, <3>3
  <2> QED
    BY <2>1, <2>2, <2>3
<1> QED
  BY <1>9, <1>10, <1>11, <1>12 DEF BrokerInv

-----------------------------------------------------------------------------
(* The service's answers.                                                  *)
LEMMA AcceptStep ==
  ASSUME BrokerInv, NEW n \in Handoffs, Accept(n) PROVE BrokerInv'
<1> DEFINE c == call[n]
<1>1. PICK reply \in {"ok", "failed"} : Answer(n, reply)
  BY DEF Accept
<1>2. c \in Call /\ CallOK(n) /\ LedgerTypeOK /\ c # None
  BY DEF Accept, BrokerInv, TypeOK, CallsOK
<1>3. c.txn \in Txns /\ c.account \in Accounts
  BY <1>2 DEF Call
<1>4. CASE c.kind = "stage" /\ Stage(c.txn, c.account)
  <2>1. LedgerTypeOK' /\ Kept /\ holder' = holder
    BY <1>2, <1>3, <1>4, StageKeeps
  <2> QED
    BY <1>1, <1>4, <2>1, ReplyStep DEF Accept
<1>5. CASE c.kind = "complete" /\ account[c.txn] = c.account /\ Install(c.txn, c.subject)
  <2>1. c.subject \in Subjects
    BY <1>2, <1>5 DEF CallOK
  <2>2. /\ LedgerTypeOK' /\ Kept
        /\ stage'[c.txn] = "completed" /\ account'[c.txn] = c.account /\ holder'[c.subject] = c.account
        /\ \A o \in Subjects : o # c.subject => holder'[o] = holder[o]
    BY <1>2, <1>3, <1>5, <2>1, InstallKeeps
  <2> QED
    BY <1>1, <1>5, <2>2, ReplyStep DEF Accept
<1> QED
  BY <1>4, <1>5 DEF Accept, Commit

LEMMA RepeatStep ==
  ASSUME BrokerInv, NEW n \in Handoffs, Repeat(n) PROVE BrokerInv'
<1>1. LedgerTypeOK' /\ Kept
  BY ServiceRests DEF Repeat, BrokerInv, TypeOK
<1> QED
  BY <1>1, ReplyStep DEF Repeat, service

LEMMA RefuseStep ==
  ASSUME BrokerInv, NEW n \in Handoffs, Refuse(n) PROVE BrokerInv'
<1>1. LedgerTypeOK' /\ Kept
  BY ServiceRests DEF Refuse, BrokerInv, TypeOK
<1>2. PICK reply \in {"refused", "failed"} : Answer(n, reply)
  BY DEF Refuse
<1> QED
  BY <1>1, <1>2, ReplyStep DEF Refuse, service

LEMMA LoseStep ==
  ASSUME BrokerInv, NEW n \in Handoffs, Lose(n) PROVE BrokerInv'
<1>1. LedgerTypeOK' /\ Kept
  BY ServiceRests DEF Lose, BrokerInv, TypeOK
<1> QED
  BY <1>1, ReplyStep DEF Lose, service

(* Every step.                                                             *)
LEMMA NextInv == BrokerInv /\ [BrokerNext]_allVars => BrokerInv'
<1> SUFFICES ASSUME BrokerInv, [BrokerNext]_allVars PROVE BrokerInv'
  OBVIOUS
<1>1. ASSUME NEW b \in Sessions, PerformLogin(b) PROVE BrokerInv'
  <2>1. LedgerTypeOK' /\ Kept /\ holder' = holder
    BY <1>1, ServiceRests DEF PerformLogin, BrokerInv, TypeOK, service
  <2>2. TypeOK'
    BY <1>1, <2>1 DEF PerformLogin, BrokerInv, TypeOK
  <2> QED
    BY <1>1, <2>1, <2>2, QuietStep DEF PerformLogin, BrokerInv
<1>2. ASSUME NEW b \in Sessions, Lapse(b) PROVE BrokerInv'
  <2>1. LedgerTypeOK' /\ Kept /\ holder' = holder
    BY <1>2, ServiceRests DEF Lapse, BrokerInv, TypeOK, service
  <2>2. TypeOK'
    BY <1>2, <2>1 DEF Lapse, BrokerInv, TypeOK
  <2> QED
    BY <1>2, <2>1, <2>2, QuietStep DEF Lapse, BrokerInv
<1>3. ASSUME NEW n \in Handoffs, NEW b \in Sessions, NEW a \in Accounts, GetFederatedIdentity(n, b, a)
      PROVE  BrokerInv'
  BY <1>3, SendStep DEF GetFederatedIdentity, Payload, BrokerInv, TypeOK
<1>4. ASSUME NEW b \in Sessions, Payload(b), Matches(b)
      PROVE  note[b] # None /\ context[b].ref = note[b] /\ context[b].account \in Accounts
  BY <1>4 DEF Payload, Matches, BrokerInv, TypeOK, Context
<1>5. ASSUME NEW n \in Handoffs, NEW b \in Sessions, ImportNewUser(n, b) PROVE BrokerInv'
  <2>1. PICK s \in Subjects \ drawn :
          /\ Send(n, "complete", b, context[b].account, s, context[b].ref)
          /\ drawn' = drawn \cup {s}
    BY <1>5 DEF ImportNewUser
  <2>2. drawn \subseteq drawn' /\ drawn' \subseteq Txns \cup Subjects
    BY <2>1 DEF BrokerInv, TypeOK
  <2> QED
    BY <1>4, <1>5, <2>1, <2>2, SendStep DEF ImportNewUser
<1>6. ASSUME NEW n \in Handoffs, NEW b \in Sessions, UpdateBrokeredUser(n, b) PROVE BrokerInv'
  <2>1. identity[context[b].account] \in Subjects
    BY <1>4, <1>6 DEF UpdateBrokeredUser, BrokerInv, TypeOK
  <2>2. drawn \subseteq drawn' /\ drawn' \subseteq Txns \cup Subjects
    BY <1>6 DEF UpdateBrokeredUser, BrokerInv, TypeOK
  <2> QED
    BY <1>4, <1>6, <2>1, <2>2, SendStep DEF UpdateBrokeredUser
<1>7. ASSUME NEW n \in Handoffs, KeepContext(n) PROVE BrokerInv'
  <2>1. call[n] # None /\ call[n] \in Call /\ call[n].kind = "stage"
    BY <1>7 DEF KeepContext, Heard, BrokerInv, TypeOK
  <2>2. context' \in [Sessions -> Context \cup {None}]
    BY <1>7, <2>1 DEF KeepContext, BrokerInv, TypeOK, Context, Call
  <2> QED
    BY <1>7, <2>1, <2>2, CloseStep DEF KeepContext, BrokerInv, TypeOK
<1>8. ASSUME NEW n \in Handoffs, CommitLogin(n) PROVE BrokerInv'
  <2>1. call[n] # None /\ call[n] \in Call /\ call[n].kind = "complete" /\ call[n].reply = "ok"
    BY <1>8 DEF CommitLogin, Heard, BrokerInv, TypeOK
  <2>2. note' \in [Sessions -> Txns \cup {None}] /\ context' \in [Sessions -> Context \cup {None}]
    BY <1>8 DEF CommitLogin, BrokerInv, TypeOK
  <2> QED
    BY <1>8, <2>1, <2>2, CloseStep DEF CommitLogin, BrokerInv, TypeOK
<1>9. ASSUME NEW n \in Handoffs, Abort(n) PROVE BrokerInv'
  <2>1. call[n] # None /\ call[n] \in Call
    BY <1>9 DEF Abort, BrokerInv, TypeOK
  <2>2. /\ unheard \subseteq unheard' /\ unheard' \subseteq Accounts
        /\ call[n].kind = "complete" /\ call[n].reply # "refused" => call[n].account \in unheard'
    BY <1>9, <2>1 DEF Abort, BrokerInv, TypeOK, Call
  <2>3. note' \in [Sessions -> Txns \cup {None}] /\ context' \in [Sessions -> Context \cup {None}]
    BY <1>9 DEF Abort, BrokerInv, TypeOK
  <2> QED
    BY <1>9, <2>1, <2>2, <2>3, CloseStep DEF Abort, BrokerInv, TypeOK
<1>10. ASSUME Expire PROVE BrokerInv'
  <2>1. PICK t \in Txns : Void({t})
    BY <1>10 DEF Expire
  <2>2. LedgerTypeOK' /\ Kept /\ holder' = holder
    BY <2>1, VoidKeeps DEF BrokerInv, TypeOK
  <2>3. TypeOK'
    BY <1>10, <2>2 DEF Expire, broker, BrokerInv, TypeOK
  <2> QED
    BY <1>10, <2>2, <2>3, QuietStep DEF Expire, broker, BrokerInv
<1>11. ASSUME OwnerDisconnects PROVE BrokerInv'
  <2>1. PICK s \in Subjects : Disconnect(s)
    BY <1>11 DEF OwnerDisconnects
  <2>2. LedgerTypeOK' /\ Kept /\ holder' = holder
    BY <2>1, DisconnectKeeps DEF BrokerInv, TypeOK
  <2>3. TypeOK'
    BY <1>11, <2>2 DEF OwnerDisconnects, broker, BrokerInv, TypeOK
  <2> QED
    BY <1>11, <2>2, <2>3, QuietStep DEF OwnerDisconnects, broker, BrokerInv
<1>12. CASE UNCHANGED allVars
  <2>1. LedgerTypeOK' /\ Kept /\ holder' = holder
    BY <1>12, ServiceRests DEF allVars, BrokerInv, TypeOK, service
  <2>2. TypeOK'
    BY <1>12, <2>1 DEF allVars, broker, BrokerInv, TypeOK
  <2> QED
    BY <1>12, <2>1, <2>2, QuietStep DEF allVars, broker, BrokerInv
<1> QED
  BY <1>1, <1>2, <1>3, <1>5, <1>6, <1>7, <1>8, <1>9, <1>10, <1>11, <1>12,
     AcceptStep, RepeatStep, RefuseStep, LoseStep DEF BrokerNext

-----------------------------------------------------------------------------
LEMMA BrokerInvariance == BrokerSpec => []BrokerInv
  BY InitInv, NextInv, PTL DEF BrokerSpec

(* What the broker, its callbacks and the service hold.                    *)
THEOREM BrokerTypeCorrect == BrokerSpec => []TypeOK
<1>1. BrokerInv => TypeOK
  BY DEF BrokerInv
<1> QED
  BY <1>1, BrokerInvariance, PTL

(* Whoever can log in to an account owns it in the service.                *)
THEOREM LinkedTheorem == BrokerSpec => []LinkedOwners
<1>1. BrokerInv => LinkedOwners
  BY DEF BrokerInv
<1> QED
  BY <1>1, BrokerInvariance, PTL

(* An account without a login is the work of an unheard completion.        *)
THEOREM StrandedTheorem == BrokerSpec => []StrandedOnlyUnheard
<1>1. BrokerInv => StrandedOnlyUnheard
  BY DEF BrokerInv
<1> QED
  BY <1>1, BrokerInvariance, PTL

(* A committed login has installed its own callback's tokens.              *)
THEOREM LoginTheorem == BrokerSpec => LoginsInstalled
<1> DEFINE A == \A n \in Handoffs : CommitLogin(n) =>
                  /\ stage[call[n].ref] = "completed"
                  /\ account[call[n].ref] = call[n].account
                  /\ holder[call[n].subject] = call[n].account
<1>1. BrokerInv => A
  BY DEF BrokerInv, CallsOK, CallOK, CommitLogin, Heard, Done
<1>2. BrokerInv /\ [BrokerNext]_allVars => [A]_allVars
  BY <1>1
<1> QED
  BY <1>2, BrokerInvariance, PTL DEF BrokerSpec, LoginsInstalled
=============================================================================
