------------------------ MODULE CredentialStepProofs ------------------------
(* What steps of the vault amount to: each one is a step of the abstract    *)
(* CredentialLedger or leaves it as it is; who may end a login; what        *)
(* becomes of a login whose deadline has passed; and what still holds when  *)
(* renewals are added.                                                      *)
EXTENDS CredentialVaultProofs, CredentialRenewal

(* What the ledger calls the stage of an envelope.                         *)
StageOf(row) == IF row.status \in {"cancelled", "expired"} THEN "void" ELSE row.status

(* An empty vault is an empty ledger.                                      *)
LEMMA LedgerInit == Init => Ledger!Init
<1> SUFFICES ASSUME Init PROVE Ledger!Init
  OBVIOUS
<1> QED
  BY DEF Init, Ledger!Init, NoRow, NoConn

(* A step that writes no table is no step of the ledger.                   *)
LEMMA LedgerQuiet ==
  ASSUME UNCHANGED tables
  PROVE  UNCHANGED Ledger!vars
  BY DEF tables, Ledger!vars

(* Cleanups, sweeps and cancellations void pending envelopes.              *)
LEMMA LedgerVoid ==
  ASSUME VaultInv, NEW T \in SUBSET Txns, NEW status \in {"cancelled", "expired"},
         Erase(T, status), \A t \in T : rows[t].status = "pending",
         UNCHANGED <<users, conns>>
  PROVE  Ledger!Next
<1>1. ASSUME NEW t \in Txns
      PROVE  /\ rows'[t].account = rows[t].account /\ rows'[t].expected = rows[t].expected
             /\ StageOf(rows'[t]) = IF t \in T THEN "void" ELSE StageOf(rows[t])
  <2>1. CASE t \in T
    <3>1. rows[t] \in PendingCredential
      BY <2>1 DEF VaultInv, TypeOK, NoRow
    <3>2. rows'[t] = [rows[t] EXCEPT !.status = status, !.held = FALSE]
      BY <2>1 DEF Erase
    <3> QED
      BY <2>1, <3>1, <3>2 DEF PendingCredential, StageOf
  <2>2. CASE t \notin T
    BY <2>2 DEF Erase
  <2> QED
    BY <2>1, <2>2
<1>2. \A t \in T : StageOf(rows[t]) = "pending"
  BY DEF StageOf
<1>3. Ledger!Void(T)
  BY <1>1, <1>2 DEF Ledger!Void, StageOf
<1> QED
  BY <1>3 DEF Ledger!Next

(* The version a login starts from is the ledger's version of the account. *)
LEMMA LedgerVersion ==
  ASSUME VaultInv, NEW a \in Accounts
  PROVE  Ledger!VersionOf(a) = ConnOfAccount(a).version
<1>1. a # None /\ \A s, o \in Subjects : users[s] = a /\ users[o] = a => s = o
  BY NoneAssumption DEF VaultInv, OwnerIsolation
<1>2. CASE \E s \in Subjects : users[s] = a
  <2>1. PICK s \in Subjects : users[s] = a
    BY <1>2
  <2>2. ConnOfAccount(a) = conns[s]
    BY <2>1, OwnersConnection
  <2>3. (CHOOSE o \in Subjects : users[o] = a) = s
    BY <1>1, <2>1
  <2> QED
    BY <2>1, <2>2, <2>3 DEF Ledger!VersionOf
<1>3. CASE \A s \in Subjects : users[s] # a
  BY <1>3, OwnersConnection DEF Ledger!VersionOf, NoConn
<1> QED
  BY <1>2, <1>3

(* A staging commit stages an envelope.                                    *)
LEMMA LedgerStage ==
  ASSUME VaultInv, NEW w \in Workers, CommitStage(w)
  PROVE  Ledger!Next
<1> DEFINE new == [status |-> "pending", account |-> req[w].account,
                   binding |-> req[w].binding, grant |-> req[w].grant,
                   deadline |-> req[w].deadline, received |-> at[w],
                   expected |-> ConnOfAccount(req[w].account).version, held |-> TRUE,
                   subject |-> None]
<1>1. req[w].txn \in Txns /\ req[w].account \in Accounts
  BY StageEffect
<1>2. PICK x \in Txns, a \in Accounts : x = req[w].txn /\ a = req[w].account
  BY <1>1
<1>3. rows[x].status = "absent" /\ rows' = [rows EXCEPT ![x] = new]
  BY <1>2, StageEffect
<1>4. new.account = a /\ new.status = "pending" /\ new.expected = ConnOfAccount(a).version
  BY <1>2
<1>5. new.expected = Ledger!VersionOf(a)
  BY <1>4, LedgerVersion
<1> HIDE DEF new
<1>6. \A t \in Txns : rows'[t] = IF t = x THEN new ELSE rows[t]
  BY <1>3 DEF VaultInv, TypeOK
<1>7. UNCHANGED <<users, conns>>
  BY DEF CommitStage
<1>8. \A t \in Txns : /\ rows'[t].account = IF t = x THEN a ELSE rows[t].account
                      /\ rows'[t].expected = IF t = x THEN Ledger!VersionOf(a) ELSE rows[t].expected
                      /\ StageOf(rows'[t]) = IF t = x THEN "pending" ELSE StageOf(rows[t])
  BY <1>4, <1>5, <1>6 DEF StageOf
<1>9. /\ StageOf(rows[x]) = "absent"
      /\ conns' = conns /\ users' = users
  BY <1>3, <1>7 DEF StageOf
<1>10. Ledger!Stage(x, a)
  <2>1. [t \in Txns |-> StageOf(rows'[t])] = [[t \in Txns |-> StageOf(rows[t])] EXCEPT ![x] = "pending"]
    BY <1>8
  <2>2. [t \in Txns |-> rows'[t].account] = [[t \in Txns |-> rows[t].account] EXCEPT ![x] = a]
    BY <1>8
  <2>3. [t \in Txns |-> rows'[t].expected]
          = [[t \in Txns |-> rows[t].expected] EXCEPT ![x] = Ledger!VersionOf(a)]
    BY <1>8
  <2> QED
    BY <1>9, <2>1, <2>2, <2>3 DEF Ledger!Stage, StageOf
<1> QED
  BY <1>10 DEF Ledger!Next

(* A completing commit installs it for its owner.                          *)
LEMMA LedgerInstall ==
  ASSUME VaultInv, NEW w \in Workers, CommitComplete(w)
  PROVE  Ledger!Next
<1>0. req[w].txn \in Txns /\ req[w].account \in Accounts /\ req[w].subject \in Subjects
  BY CompleteEffect
<1> PICK x \in Txns, a \in Accounts, s \in Subjects :
            x = req[w].txn /\ a = req[w].account /\ s = req[w].subject
  BY <1>0
<1>1. /\ x \in Txns /\ s \in Subjects
      /\ rows[x] \in PendingCredential
      /\ rows[x].status = "pending" /\ rows[x].account = a
      /\ rows[x].expected = conns[s].version
      /\ users[s] \in {None, a}
      /\ \A o \in Subjects : users[o] = a => o = s
  BY CompleteEffect, ZenonT(40)
<1>2. conns' = [conns EXCEPT ![s] = [status |-> "active", account |-> a, tokens |-> x,
                                     version |-> conns[s].version + 1]]
  BY CompleteEffect
<1>3. users' = [users EXCEPT ![s] = a]
  BY DEF CommitComplete
<1>4. /\ conns'[s].tokens = x /\ conns'[s].version = conns[s].version + 1
      /\ \A o \in Subjects : o # s => conns'[o] = conns[o]
  BY <1>1, <1>2 DEF VaultInv, TypeOK
<1>5. rows' = [rows EXCEPT ![x] = [rows[x] EXCEPT !.status = "completed", !.subject = s,
                                                  !.held = FALSE]]
  BY <1>1 DEF CommitComplete, VaultInv, TypeOK
<1>6. /\ rows'[x].status = "completed" /\ rows'[x].account = rows[x].account
      /\ rows'[x].expected = rows[x].expected
      /\ \A t \in Txns : t # x => rows'[t] = rows[t]
  BY <1>1, <1>5 DEF VaultInv, TypeOK, PendingCredential
<1>7. Ledger!Install(x, s)
  BY <1>1, <1>3, <1>4, <1>6 DEF Ledger!Install
<1> QED
  BY <1>7 DEF Ledger!Next

(* A disconnect voids what is under way for the account in the same step.  *)
LEMMA LedgerDisconnect ==
  ASSUME VaultInv, NEW w \in Workers, CommitDisconnect(w)
  PROVE  Ledger!Next
<1> PICK s \in Subjects : s = req[w].subject
  BY DisconnectEffect
<1>1. s \in Subjects /\ users[s] \in Accounts /\ users[s] # None
  BY DisconnectEffect, NoneAssumption
<1>2. conns' = [conns EXCEPT ![s] = [status |-> "disconnected", account |-> users[s],
                                     tokens |-> None, version |-> conns[s].version + 1]]
  BY DisconnectEffect
<1>3. /\ conns'[s].tokens = None /\ conns'[s].version = conns[s].version + 1
      /\ \A o \in Subjects : o # s => conns'[o] = conns[o]
  BY <1>1, <1>2 DEF VaultInv, TypeOK
<1>4. users' = users
  BY DEF CommitDisconnect
<1>5. ASSUME NEW t \in Txns
      PROVE  /\ rows'[t].account = rows[t].account /\ rows'[t].expected = rows[t].expected
             /\ StageOf(rows'[t]) = IF StageOf(rows[t]) = "pending" /\ rows[t].account = users[s]
                                    THEN "void" ELSE StageOf(rows[t])
  <2>1. CASE rows[t].status = "pending" /\ rows[t].account = users[s]
    <3>1. rows[t] \in PendingCredential
      BY <2>1 DEF VaultInv, TypeOK, NoRow
    <3>2. rows'[t] = [rows[t] EXCEPT !.status = "cancelled", !.held = FALSE]
      BY <2>1, DisconnectEffect
    <3> QED
      BY <2>1, <3>1, <3>2 DEF PendingCredential, StageOf
  <2>2. CASE ~ (rows[t].status = "pending" /\ rows[t].account = users[s])
    <3>1. rows'[t] = rows[t]
      BY <2>2, DisconnectEffect
    <3> QED
      BY <2>2, <3>1 DEF StageOf
  <2> QED
    BY <2>1, <2>2
<1>6. Ledger!Disconnect(s)
  BY <1>1, <1>3, <1>4, <1>5 DEF Ledger!Disconnect, StageOf
<1> QED
  BY <1>6 DEF Ledger!Next

(* Every step of a process is a step of the ledger, or none.               *)
LEMMA LedgerStep == VaultInv /\ [Next]_vars => [Ledger!Next]_(Ledger!vars)
<1> SUFFICES ASSUME VaultInv, [Next]_vars PROVE [Ledger!Next]_(Ledger!vars)
  OBVIOUS
<1>1. CASE UNCHANGED tables
  BY <1>1, LedgerQuiet
<1>2. ASSUME NEW p \in Procs, AllLocked(p), Erase(due[p], "expired"), UNCHANGED <<users, conns>>
      PROVE  Ledger!Next
  <2>1. \A t \in Txns : t \in due[p] => rows[t].status = "pending"
    BY <1>2, DuePending
  <2>2. due[p] \in SUBSET Txns
    BY DEF VaultInv, TypeOK
  <2> QED
    BY <1>2, <2>1, <2>2, LedgerVoid
<1>3. ASSUME NEW w \in Workers, CancelPending(w) PROVE Ledger!Next
  <2>1. req[w].txn \in Txns /\ rows[req[w].txn].status = "pending"
    BY <1>3 DEF CancelPending, Reading, MayCancel, VaultInv, ProcessShape, Handoff,
                StageRequest, CompleteRequest, CancelRequest, DisconnectRequest
  <2>2. Erase({req[w].txn}, "cancelled") /\ UNCHANGED <<users, conns>>
    BY <1>3 DEF CancelPending
  <2> QED
    BY <2>1, <2>2, LedgerVoid
<1>4. ASSUME NEW w \in Workers, WorkerStep(w) PROVE UNCHANGED tables \/ Ledger!Next
  BY <1>2, <1>3, <1>4, LedgerStage, LedgerInstall, LedgerDisconnect
     DEF WorkerStep, CommitCleanup, LockAccount, ReadForStage, ReadForComplete, AnswerUnchanged,
         RefusedInsert, RefreshConnection, LockRow, Procs
<1>5. SweeperStep => UNCHANGED tables \/ Ledger!Next
  BY <1>2 DEF SweeperStep, StartMaintenance, CommitMaintenance, LockRow, Procs
<1> QED
  BY <1>1, <1>4, <1>5 DEF Next, Tick, Receive, FindConnection, Abort, DeadlockVictim, vars

(* For any number of concurrent requests, crashes and restarts included,   *)
(* the committed tables behave as the ledger does.                         *)
THEOREM VaultImplementsLedger == Spec => ImplementsLedger
BY LedgerInit, LedgerStep, VaultInvariance, PTL DEF Spec, ImplementsLedger, Ledger!Spec

-----------------------------------------------------------------------------
(* What a cleanup has selected was past its deadline, and deadlines do not *)
(* change: the bulk update needs no second look at them.                   *)
DueLapsed ==
    \A p \in Procs : pc[p] = "sweeping" =>
        \A t \in due[p] : rows[t].status # "absent" /\ rows[t].deadline <= now

(* DueLapsed of the processes that a step does not move.                   *)
LEMMA DueKept ==
  ASSUME VaultInv, DueLapsed, NEW p \in Procs, OthersUnmoved(p), AccountsRespected(p),
         now' \in Nat, now' >= now
  PROVE  \A q \in Procs \ {p} : pc'[q] = "sweeping" =>
            \A t \in due'[q] : rows'[t].status # "absent" /\ rows'[t].deadline <= now'
<1> SUFFICES ASSUME NEW q \in Procs \ {p}, pc'[q] = "sweeping", NEW t \in due'[q]
             PROVE  rows'[t].status # "absent" /\ rows'[t].deadline <= now'
  OBVIOUS
<1>1. pc[q] = "sweeping" /\ t \in due[q]
  BY DEF OthersUnmoved
<1>2. t \in Txns /\ now \in Nat
  BY <1>1 DEF VaultInv, TypeOK
<1>3. rows[t].status # "absent" /\ rows[t].deadline <= now
  BY <1>1 DEF DueLapsed
<1>4. rows'[t].status # "absent" /\ rows'[t].deadline = rows[t].deadline
  BY <1>2, <1>3 DEF AccountsRespected
<1>5. rows[t].deadline \in Nat
  BY <1>2 DEF VaultInv, TypeOK, PendingCredential, NoRow
<1> QED
  BY <1>2, <1>3, <1>4, <1>5

(* DueLapsed holds in every step.                                          *)
LEMMA DueStep == VaultInv /\ DueLapsed /\ [Next]_vars => DueLapsed'
<1> SUFFICES ASSUME VaultInv, DueLapsed, [Next]_vars PROVE DueLapsed'
  OBVIOUS
<1>0. TypeOK /\ now \in Nat
  BY DEF VaultInv, TypeOK
<1>1. ASSUME NEW p \in Procs, OthersUnmoved(p), AccountsRespected(p), now' = now,
             pc'[p] # "sweeping"
      PROVE  DueLapsed'
  <2>1. \A q \in Procs \ {p} : pc'[q] = "sweeping" =>
            \A t \in due'[q] : rows'[t].status # "absent" /\ rows'[t].deadline <= now'
    BY <1>0, <1>1, DueKept
  <2> QED
    BY <1>1, <2>1 DEF DueLapsed
<1>2. ASSUME NEW p \in Procs, NEW t \in Txns, LockRow(p, t) PROVE DueLapsed'
  BY <1>0, <1>2 DEF LockRow, DueLapsed, TypeOK, tables
<1>3. CASE StartMaintenance
  BY <1>0, <1>3 DEF StartMaintenance, DueRows, DueLapsed, TypeOK, tables
<1>4. ASSUME NEW w \in Workers, NEW r \in Handoff, Receive(w, r) PROVE DueLapsed'
  BY <1>0, <1>4 DEF Receive, DueRows, DueLapsed, TypeOK, tables, Procs
<1>5. ASSUME NEW w \in Workers, NEW s \in Subjects, FindConnection(w, s) PROVE DueLapsed'
  BY <1>0, <1>5 DEF FindConnection, DueLapsed, TypeOK, tables, Procs
<1>6. CASE CommitMaintenance
  <2>1. Sweeper \in Procs /\ SweeperStep /\ pc'[Sweeper] = "idle" /\ now' = now
    BY <1>0, <1>6, FinishUnmoved DEF SweeperStep, CommitMaintenance, Procs
  <2> QED
    BY <1>0, <1>1, <2>1, StepUnmoved, StepRespects
<1>7. ASSUME NEW w \in Workers, WorkerStep(w), pc'[w] # "sweeping", now' = now PROVE DueLapsed'
  <2>1. w \in Procs
    BY DEF Procs
  <2> QED
    BY <1>0, <1>1, <1>7, <2>1, StepUnmoved, StepRespects
<1>8. ASSUME NEW w \in Workers, WorkerStep(w) PROVE DueLapsed'
  <2>1. CASE Finish(w) /\ now' = now
    <3>1. pc'[w] = "idle"
      BY <1>0, <2>1, FinishUnmoved DEF Procs
    <3> QED
      BY <1>7, <1>8, <2>1, <3>1
  <2>2. CASE CommitCleanup(w) \/ LockAccount(w) \/ ReadForStage(w) \/ ReadForComplete(w)
             \/ RefreshConnection(w)
    <3>1. pc'[w] # "sweeping" /\ now' = now
      BY <1>0, <2>2 DEF CommitCleanup, LockAccount, ReadForStage, ReadForComplete,
                        RefreshConnection, TypeOK, Procs
    <3> QED
      BY <1>7, <1>8, <3>1
  <2> QED
    BY <1>2, <1>8, <2>1, <2>2
       DEF WorkerStep, CancelPending, AnswerUnchanged, CommitStage, CommitComplete, RefusedInsert,
           CommitDisconnect, Procs
<1>9. ASSUME NEW p \in Procs, Abort(p) \/ DeadlockVictim(p) PROVE DueLapsed'
  <2>1. OthersUnmoved(p) /\ UNCHANGED tables /\ pc'[p] = "idle" /\ now' = now
    BY <1>0, <1>9, StepUnmoved DEF Abort, DeadlockVictim, Finish, Forget, TypeOK
  <2>2. AccountsRespected(p)
    BY <2>1, QuietRespects
  <2> QED
    BY <1>1, <2>1, <2>2
<1>10. CASE Tick
  <2>1. UNCHANGED <<rows, pc, due>> /\ now' = now + 1
    BY <1>10 DEF Tick, tables
  <2>2. ASSUME NEW p \in Procs, NEW t \in due[p], pc[p] = "sweeping"
        PROVE  rows[t].status # "absent" /\ rows[t].deadline <= now + 1
    <3>1. t \in Txns /\ rows[t].status # "absent" /\ rows[t].deadline <= now
      BY <2>2 DEF DueLapsed, VaultInv, TypeOK
    <3>2. rows[t].deadline \in Nat
      BY <3>1 DEF VaultInv, TypeOK, PendingCredential, NoRow
    <3> QED
      BY <1>0, <3>1, <3>2
  <2> QED
    BY <2>1, <2>2 DEF DueLapsed
<1>11. CASE UNCHANGED vars
  BY <1>11 DEF vars, tables, DueLapsed
<1> QED
  BY <1>2, <1>3, <1>4, <1>5, <1>6, <1>8, <1>9, <1>10, <1>11 DEF Next, SweeperStep, Procs

(* A step ends a login only by its own session, by the owner's disconnect, *)
(* or after its deadline.                                                  *)
EndsProperly(t) ==
    rows[t].status = "pending" /\ rows'[t].status # "pending" =>
      \/ rows'[t].status = "expired" /\ rows[t].deadline <= now
      \/ \E w \in Workers :
           /\ acctLock[rows[t].account] = w
           /\ acctLock'[rows[t].account] = None
           /\ req[w].account = rows[t].account
           /\ req[w].kind # "disconnect" =>
                 req[w].txn = t /\ req[w].binding = rows[t].binding

(* Expiry: the cleanups and the sweeps.                                    *)
LEMMA ExpiryEnds ==
  ASSUME VaultInv, DueLapsed, NEW p \in Procs, pc[p] = "sweeping", Erase(due[p], "expired"),
         AllLocked(p)
  PROVE  \A t \in Txns : EndsProperly(t)
<1> SUFFICES ASSUME NEW t \in Txns, rows[t].status = "pending", rows'[t].status # "pending"
             PROVE  rows'[t].status = "expired" /\ rows[t].deadline <= now
  BY DEF EndsProperly
<1>1. t \in due[p] /\ rows'[t] = [rows[t] EXCEPT !.status = "expired", !.held = FALSE]
  BY DEF Erase
<1>2. rows[t] \in PendingCredential
  BY DEF VaultInv, TypeOK, NoRow
<1>3. rows'[t].status = "expired"
  BY <1>1, <1>2 DEF PendingCredential
<1> QED
  BY <1>1, <1>3 DEF DueLapsed

(* A request that ends a login holds the account, and releases it.         *)
LEMMA RequestEnds ==
  ASSUME VaultInv, NEW w \in Workers,
         CancelPending(w) \/ CommitStage(w) \/ CommitComplete(w) \/ CommitDisconnect(w)
  PROVE  \A t \in Txns : EndsProperly(t)
<1>0. w \in Procs /\ TypeOK /\ None \notin Accounts /\ ReleaseLocks(w)
  BY NoneAssumption
     DEF VaultInv, Procs, CancelPending, CommitStage, CommitComplete, CommitDisconnect, Finish
<1>1. ASSUME CancelPending(w), NEW t \in Txns PROVE EndsProperly(t)
  <2>1. /\ Erase({req[w].txn}, "cancelled") /\ req[w].kind = "cancel"
        /\ rows[req[w].txn].account = req[w].account
        /\ rows[req[w].txn].binding = req[w].binding
        /\ pc[w] = "read"
    BY <1>1 DEF CancelPending, MayCancel, Bound, Reading
  <2>2. acctLock[req[w].account] = w /\ req[w].account \in Accounts
    BY <2>1 DEF VaultInv, LocksHeld, ProcessShape, Handoff, StageRequest, CompleteRequest,
                CancelRequest, DisconnectRequest
  <2>3. acctLock'[req[w].account] = None
    BY <1>0, <2>2 DEF ReleaseLocks
  <2>4. t # req[w].txn => rows'[t] = rows[t]
    BY <2>1 DEF Erase
  <2> QED
    BY <2>1, <2>2, <2>3, <2>4 DEF EndsProperly
<1>2. ASSUME CommitStage(w), NEW t \in Txns PROVE EndsProperly(t)
  <2>1. req[w].txn \in Txns /\ rows[req[w].txn].status = "absent"
    BY <1>2, StageEffect
  <2>2. t # req[w].txn => rows'[t] = rows[t]
    BY <1>0, <1>2, <2>1 DEF CommitStage, TypeOK
  <2> QED
    BY <2>1, <2>2 DEF EndsProperly
<1>3. ASSUME CommitDisconnect(w), NEW t \in Txns PROVE EndsProperly(t)
  <2> DEFINE s == req[w].subject
  <2>1. /\ users[s] = req[w].account /\ users[s] \in Accounts /\ acctLock[users[s]] = w
        /\ req[w].kind = "disconnect"
    BY <1>3, DisconnectEffect DEF DisconnectRequest
  <2>2. acctLock'[users[s]] = None
    BY <1>0, <2>1 DEF ReleaseLocks
  <2>3. rows[t].status = "pending" /\ rows[t].account # users[s] => rows'[t] = rows[t]
    BY <1>3, DisconnectEffect
  <2> QED
    BY <2>1, <2>2, <2>3 DEF EndsProperly
<1>4. ASSUME CommitComplete(w), NEW t \in Txns PROVE EndsProperly(t)
  <2>1. /\ req[w].txn \in Txns /\ req[w].account \in Accounts /\ acctLock[req[w].account] = w
        /\ rows[req[w].txn].account = req[w].account
        /\ rows[req[w].txn].binding = req[w].binding
    BY <1>4, CompleteEffect
  <2>2. acctLock'[req[w].account] = None
    BY <1>0, <2>1 DEF ReleaseLocks
  <2>3. t # req[w].txn => rows'[t] = rows[t]
    BY <1>0, <1>4, <2>1 DEF CommitComplete, TypeOK
  <2> QED
    BY <2>1, <2>2, <2>3 DEF EndsProperly
<1> QED
  BY <1>1, <1>2, <1>3, <1>4

(* Every step ends logins properly.                                        *)
LEMMA SessionStep == VaultInv /\ DueLapsed /\ [Next]_vars => \A t \in Txns : EndsProperly(t)
<1> SUFFICES ASSUME VaultInv, DueLapsed, [Next]_vars PROVE \A t \in Txns : EndsProperly(t)
  OBVIOUS
<1>1. CASE rows' = rows
  BY <1>1 DEF EndsProperly
<1>2. CASE CommitMaintenance
  <2>1. Sweeper \in Procs /\ pc[Sweeper] = "sweeping" /\ Erase(due[Sweeper], "expired")
        /\ AllLocked(Sweeper)
    BY <1>2 DEF CommitMaintenance, Procs
  <2> QED
    BY <2>1, ExpiryEnds
<1>3. ASSUME NEW w \in Workers, CommitCleanup(w) PROVE \A t \in Txns : EndsProperly(t)
  <2>1. w \in Procs /\ pc[w] = "sweeping" /\ Erase(due[w], "expired") /\ AllLocked(w)
    BY <1>3 DEF CommitCleanup, Procs
  <2> QED
    BY <2>1, ExpiryEnds
<1>4. ASSUME NEW w \in Workers, WorkerStep(w) PROVE \A t \in Txns : EndsProperly(t)
  BY <1>1, <1>3, <1>4, RequestEnds
     DEF WorkerStep, LockAccount, ReadForStage, ReadForComplete, AnswerUnchanged, RefusedInsert,
         RefreshConnection, LockRow, tables
<1>5. SweeperStep => \A t \in Txns : EndsProperly(t)
  BY <1>1, <1>2 DEF SweeperStep, StartMaintenance, LockRow, tables
<1> QED
  BY <1>1, <1>4, <1>5 DEF Next, Tick, Receive, FindConnection, Abort, DeadlockVictim, vars, tables

(* A login is only ended by its own browser session, by its owner's        *)
(* disconnect, or after its deadline.                                      *)
THEOREM VaultSameSession == Spec => SameSession
<1>1. Init => DueLapsed
  BY DEF Init, DueLapsed
<1>2. VaultInv /\ DueLapsed /\ [Next]_vars =>
        [\A t \in Txns :
           rows[t].status = "pending" /\ rows'[t].status # "pending" =>
             \/ rows'[t].status = "expired" /\ rows[t].deadline <= now
             \/ \E w \in Workers :
                  /\ acctLock[rows[t].account] = w
                  /\ acctLock'[rows[t].account] = None
                  /\ req[w].account = rows[t].account
                  /\ req[w].kind # "disconnect" =>
                        req[w].txn = t /\ req[w].binding = rows[t].binding]_vars
  BY SessionStep DEF EndsProperly
<1> QED
  BY <1>1, <1>2, DueStep, VaultInvariance, PTL DEF Spec, SameSession
-----------------------------------------------------------------------------
(* A login that lapsed while nobody worked on its account: it has been     *)
(* given up, or is past its deadline and every completion of it under way  *)
(* has read, or will read, a clock that is past the deadline too.          *)
LateWorker(w, t) ==
    req[w].kind = "complete" /\ req[w].txn = t /\ req[w].account = rows[t].account =>
        pc[w] # "write" /\ (pc[w] = "read" => rows[t].deadline <= at[w])

Gone(t) ==
    \/ rows[t].status \in {"expired", "cancelled"}
    \/ /\ rows[t].status = "pending" /\ rows[t].deadline <= now
       /\ \A w \in Workers : LateWorker(w, t)

(* With the account's lock free no completion has got past the lock.       *)
LEMMA LapsedIsGone == ASSUME VaultInv, NEW t \in Txns, Lapsed(t) PROVE Gone(t)
<1>1. rows[t].status = "pending" /\ rows[t].deadline <= now
  BY DEF Lapsed
<1>2. ASSUME NEW w \in Workers, req[w].account = rows[t].account
      PROVE  pc[w] \notin {"read", "write"}
  BY <1>2, NoneAssumption DEF Lapsed, VaultInv, LocksHeld, Procs
<1> QED
  BY <1>1, <1>2 DEF Gone, LateWorker

(* How a process may come to hold, or to have read, the clock it works by. *)
ClockKept(w) ==
    pc'[w] \in {"read", "write"} =>
        /\ req'[w] = req[w]
        /\ \/ pc'[w] = pc[w] /\ at'[w] = at[w]
           \/ pc'[w] = "read" /\ at'[w] = now
           \/ pc'[w] = "write" /\ pc[w] = "read" /\ (req[w].kind = "complete" => MayComplete(req[w], at[w]))

LEMMA ClockStep == ASSUME VaultInv, [Next]_vars PROVE \A w \in Workers : ClockKept(w)
<1>0. TypeOK /\ ProcessShape
  BY DEF VaultInv
<1>1. ASSUME NEW p \in Procs, Forget(p), NEW w \in Workers PROVE ClockKept(w)
  BY <1>0, <1>1 DEF Forget, TypeOK, ClockKept, Procs
<1>2. ASSUME NEW p \in Procs, NEW t \in Txns, LockRow(p, t), NEW w \in Workers PROVE ClockKept(w)
  BY <1>2 DEF LockRow, ClockKept
<1>3. ASSUME NEW v \in Workers, WorkerStep(v), NEW w \in Workers PROVE ClockKept(w)
  <2>1. v \in Procs /\ w \in Procs
    BY DEF Procs
  <2>2. CASE CommitCleanup(v)
    BY <1>0, <2>1, <2>2 DEF CommitCleanup, TypeOK, ClockKept
  <2>3. CASE LockAccount(v)
    BY <1>0, <2>1, <2>3 DEF LockAccount, TypeOK, ClockKept
  <2>4. CASE ReadForStage(v)
    BY <1>0, <2>1, <2>4 DEF ReadForStage, Reading, MayStage, TypeOK, ClockKept
  <2>5. CASE ReadForComplete(v)
    BY <1>0, <2>1, <2>5 DEF ReadForComplete, Reading, TypeOK, ClockKept
  <2>6. CASE RefreshConnection(v)
    BY <1>0, <2>1, <2>6 DEF RefreshConnection, TypeOK, ClockKept
  <2> QED
    BY <1>1, <1>2, <1>3, <2>1, <2>2, <2>3, <2>4, <2>5, <2>6
       DEF WorkerStep, CancelPending, AnswerUnchanged, CommitStage, CommitComplete,
           RefusedInsert, CommitDisconnect, Finish
<1>4. ASSUME NEW v \in Workers, NEW r \in Handoff, Receive(v, r), NEW w \in Workers PROVE ClockKept(w)
  BY <1>0, <1>4 DEF Receive, TypeOK, ClockKept, Procs
<1>5. ASSUME NEW v \in Workers, NEW s \in Subjects, FindConnection(v, s), NEW w \in Workers
      PROVE  ClockKept(w)
  BY <1>0, <1>5 DEF FindConnection, TypeOK, ClockKept, Procs
<1>6. ASSUME SweeperStep, NEW w \in Workers PROVE ClockKept(w)
  <2>1. Sweeper \in Procs /\ w \in Procs /\ w # Sweeper
    BY SweeperAssumption DEF Procs
  <2>2. StartMaintenance => ClockKept(w)
    BY <1>0, <2>1 DEF StartMaintenance, TypeOK, ClockKept
  <2> QED
    BY <1>1, <1>2, <1>6, <2>1, <2>2 DEF SweeperStep, CommitMaintenance, Finish
<1>7. Tick \/ UNCHANGED vars => \A w \in Workers : ClockKept(w)
  BY DEF Tick, vars, ClockKept
<1> QED
  BY <1>1, <1>3, <1>4, <1>5, <1>6, <1>7 DEF Next, Abort, DeadlockVictim, Finish

(* The row of such a login is left as it is, or given up.                  *)
LEMMA GoneRow ==
  ASSUME VaultInv, NEW t \in Txns, Gone(t), [Next]_vars
  PROVE  \/ rows'[t].status \in {"expired", "cancelled"}
         \/ rows[t].status = "pending" /\ rows'[t] = rows[t]
<1> DEFINE Kept == \/ rows'[t].status \in {"expired", "cancelled"}
                   \/ rows[t].status = "pending" /\ rows'[t] = rows[t]
<1>0. TypeOK /\ rows[t] \in PendingCredential /\ (rows[t].status # "pending" => rows[t].status \in {"expired", "cancelled"})
  BY DEF VaultInv, TypeOK, Gone, NoRow
<1>1. CASE rows' = rows
  BY <1>0, <1>1
<1>2. ASSUME NEW T \in SUBSET Txns, NEW status \in {"expired", "cancelled"}, Erase(T, status)
      PROVE  Kept
  <2>1. t \in T => rows'[t].status = status
    BY <1>0, <1>2, EraseRows DEF Erase, PendingCredential
  <2>2. t \notin T => rows'[t] = rows[t]
    BY <1>2 DEF Erase
  <2> QED
    BY <1>0, <2>1, <2>2
<1>3. \A p \in Procs : due[p] \in SUBSET Txns
  BY <1>0 DEF TypeOK
<1>4. ASSUME NEW w \in Workers, WorkerStep(w) PROVE Kept
  <2>0. w \in Procs
    BY DEF Procs
  <2>1. CASE CommitCleanup(w) \/ CommitDisconnect(w)
    BY <1>2, <1>3, <2>0, <2>1 DEF CommitCleanup, CommitDisconnect
  <2>2. CASE CancelPending(w)
    <3>1. {req[w].txn} \in SUBSET Txns
      BY <2>2 DEF CancelPending, Reading, MayCancel, VaultInv, ProcessShape, Handoff, StageRequest,
                  CompleteRequest, CancelRequest, DisconnectRequest
    <3> QED
      BY <1>2, <2>2, <3>1 DEF CancelPending
  <2>3. CASE CommitStage(w)
    <3>1. req[w].txn \in Txns /\ rows[req[w].txn].status = "absent"
      BY <2>3, StageEffect
    <3>2. t # req[w].txn
      BY <1>0, <3>1 DEF PendingCredential
    <3> QED
      BY <1>0, <2>3, <3>2 DEF CommitStage, TypeOK
  <2>4. CASE CommitComplete(w)
    <3>1. /\ req[w].txn \in Txns /\ rows[req[w].txn].account = req[w].account
          /\ rows[req[w].txn].status = "pending" /\ pc[w] = "write" /\ req[w].kind = "complete"
      BY <2>4, CompleteEffect DEF CommitComplete
    <3>2. t # req[w].txn
      BY <1>0, <3>1 DEF Gone, LateWorker
    <3> QED
      BY <1>0, <2>4, <3>2 DEF CommitComplete, TypeOK
  <2> QED
    BY <1>1, <1>4, <2>1, <2>2, <2>3, <2>4
       DEF WorkerStep, LockAccount, ReadForStage, ReadForComplete, AnswerUnchanged, RefusedInsert,
           RefreshConnection, LockRow, tables
<1>5. SweeperStep => Kept
  BY <1>1, <1>2, <1>3 DEF SweeperStep, StartMaintenance, CommitMaintenance, LockRow, tables, Procs
<1> QED
  BY <1>1, <1>4, <1>5 DEF Next, Tick, Receive, FindConnection, Abort, DeadlockVictim, vars, tables

(* So it stays gone.                                                       *)
LEMMA GoneStep == ASSUME VaultInv, NEW t \in Txns, Gone(t), [Next]_vars PROVE Gone(t)'
<1>1. CASE rows'[t].status \in {"expired", "cancelled"}
  BY <1>1 DEF Gone
<1>2. CASE rows[t].status = "pending" /\ rows'[t] = rows[t]
  <2>1. now \in Nat /\ rows[t].deadline \in Nat /\ rows[t].deadline <= now
    BY <1>2 DEF VaultInv, TypeOK, PendingCredential, NoRow, Gone
  <2>2. now' \in Nat /\ now <= now'
    <3>1. \A w \in Workers : WorkerStep(w) => now' = now
      BY DEF WorkerStep, CommitCleanup, LockAccount, ReadForStage, ReadForComplete, CancelPending,
             AnswerUnchanged, CommitStage, CommitComplete, RefusedInsert, RefreshConnection,
             CommitDisconnect, LockRow
    <3>2. SweeperStep => now' = now
      BY DEF SweeperStep, StartMaintenance, CommitMaintenance, LockRow
    <3>3. Tick \/ now' = now
      BY <3>1, <3>2 DEF Next, Receive, FindConnection, Abort, DeadlockVictim, vars
    <3> QED
      BY <2>1, <3>3 DEF Tick
  <2>3. ASSUME NEW w \in Workers, req'[w].kind = "complete", req'[w].txn = t,
               req'[w].account = rows[t].account
        PROVE  pc'[w] # "write" /\ (pc'[w] = "read" => rows[t].deadline <= at'[w])
    <3>1. ClockKept(w) /\ LateWorker(w, t) /\ w \in Procs
      BY <1>2, ClockStep DEF Gone, Procs
    <3>2. ASSUME pc'[w] \in {"read", "write"}
          PROVE  pc'[w] = "read" /\ rows[t].deadline <= at'[w]
      <4>1. req'[w] = req[w] /\ pc[w] # "write" /\ (pc[w] = "read" => rows[t].deadline <= at[w])
        BY <2>3, <3>1, <3>2 DEF ClockKept, LateWorker
      <4>2. at[w] \in Nat
        BY <3>1 DEF VaultInv, TypeOK
      <4>3. pc[w] = "read" => ~ MayComplete(req[w], at[w])
        BY <2>1, <2>3, <4>1, <4>2 DEF MayComplete
      <4> QED
        BY <2>1, <2>3, <3>1, <3>2, <4>1, <4>3 DEF ClockKept
    <3> QED
      BY <3>2
  <2> QED
    BY <1>2, <2>1, <2>2, <2>3 DEF Gone, LateWorker
<1> QED
  BY <1>1, <1>2, GoneRow

(* Once a login's deadline has passed while nobody worked on its account,  *)
(* no later step installs it: waiting for the lock does not extend it.     *)
THEOREM VaultLapses == Spec => LapsedNeverInstalled
<1> SUFFICES ASSUME NEW t \in Txns
             PROVE  Spec => [](Lapsed(t) => [](rows[t].status # "completed"))
  BY DEF LapsedNeverInstalled
<1>1. VaultInv /\ Lapsed(t) => Gone(t)
  BY LapsedIsGone
<1>2. VaultInv /\ Gone(t) /\ [Next]_vars => Gone(t)'
  BY GoneStep
<1>3. Gone(t) => rows[t].status # "completed"
  BY DEF Gone
<1> QED
  BY <1>1, <1>2, <1>3, VaultInvariance, PTL DEF Spec

-----------------------------------------------------------------------------
(* Renewals.  VaultInv does not hold with them: a renewal takes no lock,   *)
(* so that nothing a transaction has read of a connection needs to be      *)
(* there any more.  What follows needs nothing of the connections'         *)
(* versions, and nothing of the account locks.                             *)
AnyConnection ==
    [status : {"absent", "active", "disconnected"}, account : Accounts \cup {None},
     tokens : Txns \cup {None} \cup [by : Workers, of : Subjects, version : Nat], version : Nat]
RenewRequest == [kind : {"renew"}, subject : Subjects, expected : Nat]

RenewalTypes ==
    /\ now \in Nat
    /\ users \in [Subjects -> Accounts \cup {None}]
    /\ conns \in [Subjects -> AnyConnection]
    /\ rows \in [Txns -> PendingCredential \cup {NoRow}]
    /\ receipts \in [Txns -> OAuthCompletionReceipt \cup {NoReceipt}]
    /\ rowLock \in [Txns -> Procs \cup {None}]
    /\ pc \in [Procs -> {"idle", "sweeping", "lock", "read", "rows", "write", "call", "store"}]
    /\ req \in [Procs -> Handoff \cup DisconnectRequest \cup RenewRequest \cup {NoRequest}]
    /\ at \in [Procs -> Nat]
    /\ due \in [Procs -> SUBSET Txns]
    /\ seen \in [Procs -> [user : Accounts \cup {None}, conn : AnyConnection]]

(* A completion holds its row, and knows whether its subject is an owner.  *)
Completing(w) ==
    LET r == req[w] IN
    /\ rowLock[r.txn] = w
    /\ rows[r.txn].status = "pending" /\ rows[r.txn].account = r.account
    /\ IF seen[w].user = None THEN seen[w].conn.status = "absent"
       ELSE seen[w].conn.status # "absent" /\ users[r.subject] = r.account

Working(w) ==
    /\ pc[w] = "sweeping" => req[w] \in Handoff
    /\ pc[w] \in {"lock", "read"} => req[w] \in Handoff \cup DisconnectRequest
    /\ pc[w] = "write" => req[w] \in StageRequest \cup CompleteRequest
    /\ pc[w] = "rows" => req[w] \in DisconnectRequest
    /\ pc[w] \in {"call", "store"} => req[w] \in RenewRequest
    /\ req[w].kind \in {"disconnect", "renew"} => users[req[w].subject] # None
    /\ pc[w] = "write" /\ req[w].kind = "complete" => Completing(w)

LockedPending == \A t \in Txns : rowLock[t] # None => rows[t].status = "pending"

RenewalTables == RenewalIsolation /\ ReceiptsMatch /\ ErasedUnlessPending

RenewalInv ==
    /\ RenewalTypes /\ LockedPending /\ RenewalTables
    /\ pc[Sweeper] \in {"idle", "sweeping"}
    /\ \A w \in Workers : Working(w)

LEMMA RenewalInit == Init => RenewalInv
<1> SUFFICES ASSUME Init PROVE RenewalInv
  OBVIOUS
<1>1. NoConn \in AnyConnection /\ NothingSeen \in [user : Accounts \cup {None}, conn : AnyConnection]
  BY DEF NoConn, NothingSeen, AnyConnection
<1>2. RenewalTypes
  BY <1>1 DEF Init, RenewalTypes
<1>3. LockedPending /\ RenewalTables
  BY DEF Init, LockedPending, RenewalTables, RenewalIsolation, ReceiptsMatch, ErasedUnlessPending,
         NoConn, NoRow
<1>4. Sweeper \in Procs /\ Workers \subseteq Procs
  BY DEF Procs
<1>5. \A w \in Workers : Working(w)
  BY <1>4 DEF Init, Working, NoRequest
<1> QED
  BY <1>2, <1>3, <1>4, <1>5 DEF RenewalInv, Init

LEMMA RequestsOfOwners ==
  ASSUME NEW r \in Handoff \cup DisconnectRequest \cup RenewRequest \cup {NoRequest},
         r.kind \in {"disconnect", "renew"}
  PROVE  r.subject \in Subjects
  BY DEF Handoff, StageRequest, CompleteRequest, CancelRequest, DisconnectRequest, RenewRequest, NoRequest

(* What a step of p leaves of the work of another process.                 *)
Stays(p) ==
    /\ \A v \in Procs : v # p => pc'[v] = pc[v] /\ req'[v] = req[v] /\ seen'[v] = seen[v]
    /\ \A t \in Txns, v \in Procs : v # p /\ rowLock[t] = v =>
          rowLock'[t] = v /\ rows'[t].status = rows[t].status /\ rows'[t].account = rows[t].account
    /\ \A s \in Subjects : users[s] # None => users'[s] = users[s]

Own(p) == IF p = Sweeper THEN pc[p] \in {"idle", "sweeping"} ELSE Working(p)

LEMMA StepOfOne ==
  ASSUME RenewalInv, NEW p \in Procs, Stays(p), RenewalTypes', LockedPending', RenewalTables', Own(p)'
  PROVE  RenewalInv'
<1>1. Sweeper \in Procs /\ Workers \subseteq Procs /\ Sweeper \notin Workers
  BY SweeperAssumption DEF Procs
<1>2. pc'[Sweeper] \in {"idle", "sweeping"}
  BY <1>1 DEF RenewalInv, Stays, Own
<1>3. ASSUME NEW v \in Workers, v # p PROVE Working(v)'
  <2>1. Working(v) /\ pc'[v] = pc[v] /\ req'[v] = req[v] /\ seen'[v] = seen[v]
    BY <1>1, <1>3 DEF RenewalInv, Stays
  <2>2. ASSUME pc[v] = "write", req[v].kind = "complete" PROVE Completing(v)'
    <3>1. Completing(v) /\ req[v] \in CompleteRequest
      BY <2>1, <2>2 DEF Working, StageRequest
    <3>2. req[v].txn \in Txns /\ req[v].subject \in Subjects /\ req[v].account \in Accounts
          /\ req[v].account # None
      BY <3>1, NoneAssumption DEF CompleteRequest
    <3>3. rowLock[req[v].txn] = v /\ (seen[v].user # None => users[req[v].subject] # None)
      BY <3>1, <3>2 DEF Completing
    <3>4. /\ rowLock'[req[v].txn] = v
          /\ rows'[req[v].txn].status = rows[req[v].txn].status
          /\ rows'[req[v].txn].account = rows[req[v].txn].account
      BY <1>1, <1>3, <3>2, <3>3 DEF Stays
    <3>5. seen[v].user # None => users'[req[v].subject] = users[req[v].subject]
      BY <3>2, <3>3 DEF Stays
    <3> QED
      BY <2>1, <3>1, <3>4, <3>5 DEF Completing
  <2>3. ASSUME req[v].kind \in {"disconnect", "renew"} PROVE users'[req[v].subject] # None
    <3>1. req[v].subject \in Subjects
      BY <1>1, <2>3, RequestsOfOwners DEF RenewalInv, RenewalTypes
    <3> QED
      BY <2>1, <2>3, <3>1 DEF Working, Stays
  <2> QED
    BY <2>1, <2>2, <2>3 DEF Working
<1>4. \A w \in Workers : Working(w)'
  BY <1>1, <1>3 DEF Own
<1> QED
  BY <1>2, <1>4 DEF RenewalInv

(* Steps that leave the tables and the row locks alone.                    *)
LEMMA QuietStep ==
  ASSUME RenewalInv, NEW p \in Procs, UNCHANGED <<tables, rowLock>>, RenewalTypes', Own(p)',
         \A v \in Procs : v # p => pc'[v] = pc[v] /\ req'[v] = req[v] /\ seen'[v] = seen[v]
  PROVE  RenewalInv'
<1>1. Stays(p)
  BY DEF Stays, tables
<1>2. LockedPending' /\ RenewalTables'
  BY DEF RenewalInv, LockedPending, RenewalTables, RenewalIsolation, ReceiptsMatch, ErasedUnlessPending, tables
<1> QED
  BY <1>1, <1>2, StepOfOne

(* The end of a transaction.                                               *)
LEMMA Ended ==
  ASSUME RenewalTypes, NEW p \in Procs, Forget(p)
  PROVE  /\ pc' \in [Procs -> {"idle", "sweeping", "lock", "read", "rows", "write", "call", "store"}]
         /\ req' \in [Procs -> Handoff \cup DisconnectRequest \cup RenewRequest \cup {NoRequest}]
         /\ at' \in [Procs -> Nat] /\ due' \in [Procs -> SUBSET Txns]
         /\ seen' \in [Procs -> [user : Accounts \cup {None}, conn : AnyConnection]]
         /\ \A v \in Procs : v # p => pc'[v] = pc[v] /\ req'[v] = req[v] /\ seen'[v] = seen[v]
         /\ Own(p)'
<1>1. NoConn \in AnyConnection /\ NothingSeen \in [user : Accounts \cup {None}, conn : AnyConnection]
  BY DEF NoConn, NothingSeen, AnyConnection
<1>2. pc'[p] = "idle" /\ req'[p] = NoRequest
  BY DEF Forget, RenewalTypes
<1>3. Own(p)'
  BY <1>2 DEF Own, Working, NoRequest
<1> QED
  BY <1>1, <1>3 DEF Forget, RenewalTypes

LEMMA Released ==
  ASSUME RenewalTypes, NEW p \in Procs, ReleaseLocks(p)
  PROVE  /\ rowLock' \in [Txns -> Procs \cup {None}]
         /\ \A t \in Txns : rowLock'[t] = IF rowLock[t] = p THEN None ELSE rowLock[t]
  BY DEF ReleaseLocks, RenewalTypes

(* A transaction is rolled back, or had nothing to write.                  *)
LEMMA RolledBack ==
  ASSUME RenewalInv, NEW p \in Procs, Forget(p), UNCHANGED <<now, tables>>,
         rowLock' \in [Txns -> Procs \cup {None}],
         \A t \in Txns : \/ rowLock'[t] = rowLock[t]
                         \/ rowLock[t] = p
  PROVE  RenewalInv'
<1>0. RenewalTypes
  BY DEF RenewalInv
<1>1. RenewalTypes'
  BY <1>0, Ended DEF RenewalTypes, tables
<1>2. None \notin Procs
  BY NoneAssumption
<1>3. LockedPending'
  BY <1>2 DEF RenewalInv, LockedPending, tables
<1>4. RenewalTables'
  BY DEF RenewalInv, RenewalTables, RenewalIsolation, ReceiptsMatch, ErasedUnlessPending, tables
<1>5. Stays(p) /\ Own(p)'
  BY <1>0, Ended DEF Stays, tables
<1> QED
  BY <1>1, <1>3, <1>4, <1>5, StepOfOne

-----------------------------------------------------------------------------
(* What a step may do to the connections when no login is completed: what  *)
(* ties a connection to its owner stays, and tokens change to a tombstone  *)
(* or to those of its own renewal.                                         *)
Gentle ==
    /\ conns' \in [Subjects -> AnyConnection]
    /\ \A s \in Subjects :
        /\ conns'[s].account = conns[s].account
        /\ conns'[s].status = "absent" <=> conns[s].status = "absent"
        /\ conns'[s].tokens \in {conns[s].tokens, None} \cup Renewed(s)

Writes(s, loaded, wanted) == conns' = [conns EXCEPT ![s] = Flushed(loaded, wanted, conns[s])]

LEMMA GentleFlush ==
  ASSUME RenewalTypes, NEW s \in Subjects, conns[s].status # "absent",
         NEW loaded \in AnyConnection, NEW wanted,
         wanted.status \in {"active", "disconnected"}, wanted.version \in Nat,
         wanted.tokens \in {None} \cup Renewed(s),
         Writes(s, loaded, wanted)
  PROVE  Gentle
<1> DEFINE new == Flushed(loaded, wanted, conns[s])
<1>1. conns[s] \in AnyConnection
  BY DEF RenewalTypes
<1>2. /\ new.account = conns[s].account
      /\ new.status \in {conns[s].status, wanted.status}
      /\ new.tokens \in {conns[s].tokens, wanted.tokens}
      /\ new.version \in {conns[s].version, wanted.version}
      /\ new = [status |-> new.status, account |-> new.account, tokens |-> new.tokens, version |-> new.version]
  BY DEF Flushed
<1>3. new \in AnyConnection
  <2> HIDE DEF new
  <2>1. wanted.tokens \in {None} \cup [by : Workers, of : Subjects, version : Nat]
    BY DEF Renewed
  <2> QED
    BY <1>1, <1>2, <2>1 DEF AnyConnection
<1>4. conns' = [conns EXCEPT ![s] = new]
  BY DEF Writes
<1> HIDE DEF new
<1> QED
  BY <1>2, <1>3, <1>4 DEF Gentle, RenewalTypes

(* Rows that are erased were pending, so that no connection and no receipt *)
(* speaks of them.                                                         *)
LEMMA ErasedTables ==
  ASSUME RenewalInv, NEW T \in SUBSET Txns, \A t \in T : rows[t].status = "pending",
         NEW status \in {"expired", "cancelled"}, Erase(T, status),
         Gentle, UNCHANGED <<users, receipts>>
  PROVE  /\ RenewalTables'
         /\ rows' \in [Txns -> PendingCredential \cup {NoRow}]
         /\ \A t \in Txns \ T : rows'[t] = rows[t]
<1>1. RenewalTypes /\ RenewalTables
  BY DEF RenewalInv
<1>2. \A t \in T : /\ rows'[t] = [rows[t] EXCEPT !.status = status, !.held = FALSE]
                   /\ rows[t] \in PendingCredential
  <2>1. \A t \in T : rows[t] \in PendingCredential \cup {NoRow} /\ NoRow.status = "absent"
    BY <1>1 DEF RenewalTypes, NoRow
  <2> QED
    BY <2>1 DEF Erase
<1>3. \A t \in Txns \ T : rows'[t] = rows[t]
  BY DEF Erase
<1>4. \A t \in T : /\ rows'[t] \in PendingCredential
                   /\ rows'[t].status = status /\ ~ rows'[t].held
  <2>1. ASSUME NEW row \in PendingCredential, NEW new, new = [row EXCEPT !.status = status, !.held = FALSE]
        PROVE  new \in PendingCredential /\ new.status = status /\ ~ new.held
    BY <2>1 DEF PendingCredential
  <2> QED
    BY <1>2, <2>1
<1>5. rows' \in [Txns -> PendingCredential \cup {NoRow}]
  <2>1. rows' = [t \in Txns |-> rows'[t]]
    BY DEF Erase
  <2>2. \A t \in Txns : rows'[t] \in PendingCredential \cup {NoRow}
    BY <1>1, <1>3, <1>4 DEF RenewalTypes
  <2> QED
    BY <2>1, <2>2
<1>6. ErasedUnlessPending' /\ ReceiptsMatch'
  BY <1>1, <1>3, <1>4 DEF RenewalTables, ErasedUnlessPending, ReceiptsMatch
<1>7. RenewalIsolation'
  <2>1. ASSUME NEW s \in Subjects PROVE
              \/ conns'[s].tokens = None
              \/ conns'[s].tokens \in Renewed(s)
              \/ \E t \in Txns : /\ conns'[s].tokens = t
                                /\ rows'[t].status = "completed"
                                /\ rows'[t].subject = s
                                /\ rows'[t].account = users'[s]
    <3>1. CASE conns'[s].tokens # conns[s].tokens
      BY <3>1 DEF Gentle
    <3>2. CASE conns'[s].tokens = conns[s].tokens
      BY <1>1, <1>3, <3>2 DEF RenewalTables, RenewalIsolation
    <3> QED
      BY <3>1, <3>2
  <2> QED
    BY <1>1, <2>1 DEF RenewalTables, RenewalIsolation, Gentle
<1> QED
  BY <1>3, <1>5, <1>6, <1>7 DEF RenewalTables

(* A step that erases rows it has locked, and ends with its locks free.    *)
LEMMA EraseStep ==
  ASSUME RenewalInv, NEW p \in Procs, NEW T \in SUBSET Txns,
         \A t \in T : rows[t].status = "pending" /\ rowLock[t] \in {p, None},
         NEW status \in {"expired", "cancelled"}, Erase(T, status), ReleaseLocks(p),
         Gentle, UNCHANGED <<users, receipts>>, RenewalTypes', Own(p)',
         \A v \in Procs : v # p => pc'[v] = pc[v] /\ req'[v] = req[v] /\ seen'[v] = seen[v]
  PROVE  RenewalInv'
<1>0. RenewalTypes /\ None \notin Procs
  BY NoneAssumption DEF RenewalInv
<1>1. RenewalTables' /\ \A t \in Txns \ T : rows'[t] = rows[t]
  BY ErasedTables
<1>2. \A t \in Txns : rowLock'[t] = IF rowLock[t] = p THEN None ELSE rowLock[t]
  BY <1>0, Released
<1>3. LockedPending'
  BY <1>0, <1>1, <1>2 DEF RenewalInv, LockedPending
<1>4. Stays(p)
  BY <1>0, <1>1, <1>2 DEF Stays
<1> QED
  BY <1>1, <1>3, <1>4, StepOfOne

-----------------------------------------------------------------------------
(* The actions.                                                            *)
LEMMA Processes == Sweeper \in Procs /\ Workers \subseteq Procs /\ Sweeper \notin Workers
                   /\ \A w \in Workers : w # Sweeper
  BY SweeperAssumption DEF Procs

LEMMA ReceiveRenewal ==
  ASSUME RenewalInv, NEW w \in Workers, NEW r \in Handoff, Receive(w, r)
  PROVE  RenewalInv'
<1>1. RenewalTypes /\ w \in Procs /\ DueRows(now) \in SUBSET Txns
  BY Processes DEF RenewalInv, DueRows
<1>2. RenewalTypes'
  BY <1>1 DEF Receive, RenewalTypes, tables, locks
<1>3. req'[w] = r /\ pc'[w] \in {"sweeping", "lock"}
  BY <1>1 DEF Receive, RenewalTypes
<1>4. r.kind \in {"stage", "complete", "cancel"}
  BY DEF Handoff, StageRequest, CompleteRequest, CancelRequest
<1>5. Own(w)'
  BY <1>3, <1>4, Processes DEF Own, Working
<1> QED
  BY <1>1, <1>2, <1>5, QuietStep DEF Receive, RenewalTypes, locks

(* Where p goes on without writing anything.                               *)
LEMMA GoesOn ==
  ASSUME RenewalInv, NEW w \in Workers, UNCHANGED <<req, tables, rowLock>>,
         pc' = [pc EXCEPT ![w] = pc'[w]], \A v \in Procs : v # w => seen'[v] = seen[v],
         RenewalTypes',
         \/ pc[w] = "lock" /\ pc'[w] = "read"
         \/ pc[w] = "read" /\ pc'[w] = "write" /\ req[w] \in StageRequest
         \/ pc[w] = "read" /\ pc'[w] = "rows" /\ req[w] \in DisconnectRequest
         \/ pc[w] = "call" /\ pc'[w] = "store"
  PROVE  RenewalInv'
<1>1. w \in Procs /\ Working(w) /\ RenewalTypes
  BY Processes DEF RenewalInv
<1>2. Working(w)'
  BY <1>1 DEF Working, StageRequest, tables
<1>3. Own(w)'
  BY <1>2, Processes DEF Own
<1>4. \A v \in Procs : v # w => pc'[v] = pc[v] /\ req'[v] = req[v] /\ seen'[v] = seen[v]
  BY <1>1 DEF RenewalTypes
<1> QED
  BY <1>1, <1>3, <1>4, QuietStep

LEMMA ConnOfAny == ASSUME RenewalTypes, NEW a PROVE ConnOfAccount(a) \in AnyConnection
<1>1. NoConn \in AnyConnection
  BY DEF NoConn, AnyConnection
<1> QED
  BY <1>1 DEF ConnOfAccount, RenewalTypes

LEMMA GoOnActions ==
  ASSUME RenewalInv, NEW w \in Workers,
         LockAccount(w) \/ ReadForStage(w) \/ RefreshConnection(w) \/ LoadForRenewal(w)
  PROVE  RenewalInv'
<1>1. w \in Procs /\ Working(w) /\ RenewalTypes
  BY Processes DEF RenewalInv
<1>2. seen[w] \in [user : Accounts \cup {None}, conn : AnyConnection]
  BY <1>1 DEF RenewalTypes
<1>3. \A c \in AnyConnection :
         [seen[w] EXCEPT !.conn = c] \in [user : Accounts \cup {None}, conn : AnyConnection]
  BY <1>2
<1>4. CASE LockAccount(w)
  <2>1. RenewalTypes' /\ pc'[w] = "read"
    BY <1>1, <1>4 DEF LockAccount, RenewalTypes, tables
  <2> QED
    BY <1>4, <2>1, GoesOn DEF LockAccount
<1>5. CASE ReadForStage(w)
  <2>1. req[w] \in StageRequest
    BY <1>1, <1>5 DEF ReadForStage, Reading, MayStage, Working, Handoff, CompleteRequest, CancelRequest,
                      DisconnectRequest
  <2>2. ConnOfAccount(req[w].account) \in AnyConnection
    BY <1>1, ConnOfAny
  <2>3. RenewalTypes' /\ pc'[w] = "write" /\ \A v \in Procs : v # w => seen'[v] = seen[v]
    BY <1>1, <1>3, <1>5, <2>2 DEF ReadForStage, RenewalTypes, tables, locks
  <2> QED
    BY <1>5, <2>1, <2>3, GoesOn DEF ReadForStage, Reading, locks
<1>6. CASE RefreshConnection(w)
  <2>1. req[w] \in DisconnectRequest /\ req[w].subject \in Subjects
    BY <1>1, <1>6 DEF RefreshConnection, Working, Handoff, StageRequest, CompleteRequest, CancelRequest,
                      DisconnectRequest
  <2>2. conns[req[w].subject] \in AnyConnection
    BY <1>1, <2>1 DEF RenewalTypes
  <2>3. RenewalTypes' /\ pc'[w] = "rows" /\ \A v \in Procs : v # w => seen'[v] = seen[v]
    BY <1>1, <1>3, <1>6, <2>2 DEF RefreshConnection, RenewalTypes, tables, locks
  <2> QED
    BY <1>6, <2>1, <2>3, GoesOn DEF RefreshConnection, locks
<1>7. CASE LoadForRenewal(w)
  <2>1. req[w] \in RenewRequest /\ req[w].subject \in Subjects
    BY <1>1, <1>7 DEF LoadForRenewal, Working, RenewRequest
  <2>2. conns[req[w].subject] \in AnyConnection
    BY <1>1, <2>1 DEF RenewalTypes
  <2>3. RenewalTypes' /\ pc'[w] = "store" /\ \A v \in Procs : v # w => seen'[v] = seen[v]
    BY <1>1, <1>3, <1>7, <2>2 DEF LoadForRenewal, RenewalTypes, tables, locks
  <2> QED
    BY <1>7, <2>3, GoesOn DEF LoadForRenewal, locks
<1> QED
  BY <1>4, <1>5, <1>6, <1>7

(* Requests of an owner, for a connection that is there.                   *)
LEMMA OwnersRequest ==
  ASSUME RenewalInv, NEW w \in Workers, NEW s \in Subjects, NEW r, users[s] # None, r.subject = s,
         \/ r \in DisconnectRequest /\ pc' = [pc EXCEPT ![w] = "lock"]
         \/ r \in RenewRequest /\ pc' = [pc EXCEPT ![w] = "call"],
         req' = [req EXCEPT ![w] = r],
         UNCHANGED <<now, tables, locks, at, due, seen>>
  PROVE  RenewalInv'
<1>1. w \in Procs /\ RenewalTypes
  BY Processes DEF RenewalInv
<1>2. RenewalTypes' /\ req'[w] = r
  BY <1>1 DEF RenewalTypes, tables, locks
<1>3. r.kind # "complete"
  BY DEF DisconnectRequest, RenewRequest
<1>a. \/ pc'[w] = "lock" /\ r \in DisconnectRequest
      \/ pc'[w] = "call" /\ r \in RenewRequest
  <2>1. pc \in [Procs -> {"idle", "sweeping", "lock", "read", "rows", "write", "call", "store"}]
    BY <1>1 DEF RenewalTypes
  <2> QED
    BY <1>1, <2>1
<1>4. Own(w)'
  BY <1>2, <1>3, <1>a, Processes DEF Own, Working, tables
<1> QED
  BY <1>1, <1>2, <1>4, QuietStep DEF RenewalTypes, locks

LEMMA FindRenewal ==
  ASSUME RenewalInv, NEW w \in Workers, NEW s \in Subjects, FindConnection(w, s) \/ StartRenewal(w, s)
  PROVE  RenewalInv'
<1>1. conns[s].status # "absent" /\ users[s] = conns[s].account
  BY DEF FindConnection, StartRenewal, RenewalInv, RenewalTables, RenewalIsolation
<1>2. users[s] \in Accounts /\ users[s] # None /\ conns[s].version \in Nat
  BY <1>1, NoneAssumption DEF RenewalInv, RenewalTypes, RenewalTables, RenewalIsolation, AnyConnection
<1>3. CASE FindConnection(w, s)
  <2>1. [kind |-> "disconnect", subject |-> s, account |-> conns[s].account] \in DisconnectRequest
    BY <1>1, <1>2 DEF DisconnectRequest
  <2> QED
    BY <1>2, <1>3, <2>1, OwnersRequest DEF FindConnection
<1>4. CASE StartRenewal(w, s)
  <2>1. [kind |-> "renew", subject |-> s, expected |-> conns[s].version] \in RenewRequest
    BY <1>2 DEF RenewRequest
  <2> QED
    BY <1>2, <1>4, <2>1, OwnersRequest DEF StartRenewal
<1> QED
  BY <1>3, <1>4

LEMMA LockRowRenewal ==
  ASSUME RenewalInv, NEW p \in Procs, NEW t \in Txns, LockRow(p, t)
  PROVE  RenewalInv'
<1>1. RenewalTypes /\ (p \in Workers => Working(p)) /\ None \notin Procs
  BY NoneAssumption DEF RenewalInv
<1>2. /\ \A u \in Txns : rowLock'[u] = rowLock[u] \/ (rowLock[u] = None /\ rows[u].status = "pending")
      /\ rowLock' \in [Txns -> Procs \cup {None}]
      /\ due' \in [Procs -> SUBSET Txns]
  <2>1. rowLock \in [Txns -> Procs \cup {None}] /\ due \in [Procs -> SUBSET Txns]
    BY <1>1 DEF RenewalTypes
  <2>2. CASE rows[t].status = "pending"
    <3>1. rowLock' = [rowLock EXCEPT ![t] = p] /\ due' = due /\ rowLock[t] = None
      BY <2>2 DEF LockRow
    <3>2. \A u \in Txns : rowLock'[u] = IF u = t THEN p ELSE rowLock[u]
      BY <2>1, <3>1
    <3>3. rowLock' \in [Txns -> Procs \cup {None}]
      BY <2>1, <3>1
    <3> QED
      BY <2>1, <2>2, <3>1, <3>2, <3>3
  <2>3. CASE rows[t].status # "pending"
    <3>1. rowLock' = rowLock /\ due' = [due EXCEPT ![p] = @ \ {t}]
      BY <2>3 DEF LockRow
    <3>2. due' \in [Procs -> SUBSET Txns]
      BY <2>1, <3>1
    <3> QED
      BY <2>1, <3>1, <3>2
  <2> QED
    BY <2>2, <2>3
<1>3. RenewalTypes'
  BY <1>1, <1>2 DEF LockRow, RenewalTypes, tables
<1>4. LockedPending' /\ RenewalTables'
  BY <1>2 DEF LockRow, tables, RenewalInv, LockedPending, RenewalTables, RenewalIsolation, ReceiptsMatch,
              ErasedUnlessPending
<1>5. Stays(p)
  BY <1>1, <1>2 DEF LockRow, Stays, tables
<1>6. Own(p)'
  BY <1>1, Processes DEF LockRow, Own, Working, RenewalInv, tables, Procs
<1> QED
  BY <1>3, <1>4, <1>5, <1>6, StepOfOne

LEMMA StartMaintenanceRenewal ==
  ASSUME RenewalInv, StartMaintenance
  PROVE  RenewalInv'
<1>1. RenewalTypes /\ Sweeper \in Procs /\ DueRows(now) \in SUBSET Txns
  BY Processes DEF RenewalInv, DueRows
<1>2. RenewalTypes'
  BY <1>1 DEF StartMaintenance, RenewalTypes, tables, locks
<1>3. Own(Sweeper)'
  BY <1>1 DEF Own, StartMaintenance, RenewalTypes
<1> QED
  BY <1>1, <1>2, <1>3, QuietStep DEF StartMaintenance, RenewalTypes, locks

(* The subject of a completion is checked and its row locked in one step.  *)
LEMMA ReadForCompleteRenewal ==
  ASSUME RenewalInv, NEW w \in Workers, ReadForComplete(w)
  PROVE  RenewalInv'
<1> DEFINE r == req[w]
<1>1. w \in Procs /\ Working(w) /\ RenewalTypes /\ RenewalTables /\ None \notin Procs
  BY Processes, NoneAssumption DEF RenewalInv
<1>2. r \in CompleteRequest /\ r.txn \in Txns /\ r.subject \in Subjects /\ r.account \in Accounts
      /\ r.account # None
  <2>1. r \in Handoff \cup DisconnectRequest /\ r.kind = "complete"
    BY <1>1 DEF ReadForComplete, Reading, MayComplete, Working
  <2>2. r \in CompleteRequest
    BY <2>1 DEF Handoff, StageRequest, CancelRequest, DisconnectRequest
  <2> QED
    BY <2>2, NoneAssumption DEF CompleteRequest
<1>3. /\ rowLock[r.txn] = None /\ rowLock' = [rowLock EXCEPT ![r.txn] = w]
      /\ rows[r.txn].status = "pending" /\ rows[r.txn].account = r.account
      /\ users[r.subject] \in {None, r.account}
      /\ seen' = [seen EXCEPT ![w] = [user |-> users[r.subject], conn |-> conns[r.subject]]]
      /\ pc' = [pc EXCEPT ![w] = "write"]
      /\ UNCHANGED <<now, tables, acctLock, req, at, due>>
  BY DEF ReadForComplete, Reading, MayComplete, Bound
<1>4. [user |-> users[r.subject], conn |-> conns[r.subject]]
        \in [user : Accounts \cup {None}, conn : AnyConnection]
  BY <1>1, <1>2 DEF RenewalTypes
<1>5. RenewalTypes'
  BY <1>1, <1>3, <1>4 DEF RenewalTypes, tables
<1>6. \A u \in Txns : rowLock'[u] = IF u = r.txn THEN w ELSE rowLock[u]
  BY <1>1, <1>3 DEF RenewalTypes
<1>7. LockedPending' /\ RenewalTables'
  BY <1>3, <1>6 DEF RenewalInv, LockedPending, RenewalTables, RenewalIsolation, ReceiptsMatch,
                    ErasedUnlessPending, tables
<1>8. Stays(w)
  BY <1>1, <1>3, <1>6 DEF Stays, RenewalTypes, tables
<1>9. Own(w)'
  <2>1. pc'[w] = "write" /\ req' = req /\ seen'[w].user = users[r.subject] /\ seen'[w].conn = conns[r.subject]
    BY <1>1, <1>3 DEF RenewalTypes
  <2>2. conns[r.subject].status = "absent" <=> users[r.subject] = None
    BY <1>1, <1>2 DEF RenewalTables, RenewalIsolation
  <2>3. Completing(w)'
    BY <1>2, <1>3, <1>6, <2>1, <2>2 DEF Completing, tables
  <2>4. r.kind = "complete"
    BY <1>2 DEF CompleteRequest
  <2> QED
    BY <1>2, <2>1, <2>3, <2>4, Processes DEF Own, Working
<1> QED
  BY <1>1, <1>5, <1>7, <1>8, <1>9, StepOfOne

(* Every way to end a transaction without a write.                         *)
LEMMA EndsWithout ==
  ASSUME RenewalInv, NEW p \in Procs,
         \/ Finish(p) /\ UNCHANGED <<now, tables>>
         \/ DeadlockVictim(p)
  PROVE  RenewalInv'
<1>1. RenewalTypes
  BY DEF RenewalInv
<1>2. CASE Finish(p) /\ UNCHANGED <<now, tables>>
  <2>1. /\ rowLock' \in [Txns -> Procs \cup {None}]
        /\ \A t \in Txns : rowLock'[t] = IF rowLock[t] = p THEN None ELSE rowLock[t]
    BY <1>1, <1>2, Released DEF Finish
  <2> QED
    BY <1>2, <2>1, RolledBack DEF Finish
<1>3. CASE DeadlockVictim(p)
  <2>0. PICK D \in SUBSET Procs : \E q \in D, t \in Txns :
          /\ rowLock[t] = p
          /\ rowLock' = [u \in Txns |-> IF u = t THEN q
                                        ELSE IF rowLock[u] = p THEN None ELSE rowLock[u]]
    <3>1. PICK D \in SUBSET Procs : \E q \in D, t \in Txns :
            /\ WaitsFor(q, p, t)
            /\ rowLock' = [u \in Txns |-> IF u = t THEN q
                                          ELSE IF rowLock[u] = p THEN None ELSE rowLock[u]]
      BY <1>3, Zenon DEF DeadlockVictim
    <3> QED
      BY <3>1 DEF WaitsFor
  <2>1. PICK q \in Procs, t \in Txns :
          /\ rowLock[t] = p
          /\ rowLock' = [u \in Txns |-> IF u = t THEN q
                                        ELSE IF rowLock[u] = p THEN None ELSE rowLock[u]]
    BY <2>0
  <2>2. /\ rowLock' \in [Txns -> Procs \cup {None}]
        /\ \A u \in Txns : rowLock'[u] = rowLock[u] \/ rowLock[u] = p
    BY <1>1, <2>1 DEF RenewalTypes
  <2> QED
    BY <1>3, <2>2, RolledBack DEF DeadlockVictim
<1> QED
  BY <1>2, <1>3

-----------------------------------------------------------------------------
(* Transactions that erase rows, or write a connection of their own.       *)
LEMMA UntouchedIsGentle == ASSUME RenewalTypes, UNCHANGED conns PROVE Gentle
  BY DEF Gentle, RenewalTypes

LEMMA DueAreLocked ==
  ASSUME RenewalInv, NEW p \in Procs, AllLocked(p)
  PROVE  /\ due[p] \in SUBSET Txns
         /\ \A t \in due[p] : rows[t].status = "pending" /\ rowLock[t] \in {p, None}
<1>1. due[p] \in SUBSET Txns /\ None \notin Procs
  BY NoneAssumption DEF RenewalInv, RenewalTypes
<1> QED
  BY <1>1 DEF RenewalInv, LockedPending, AllLocked

(* An erasure that finishes its transaction.                               *)
LEMMA EraseAndFinish ==
  ASSUME RenewalInv, NEW p \in Procs, NEW T \in SUBSET Txns,
         \A t \in T : rows[t].status = "pending" /\ rowLock[t] \in {p, None},
         NEW status \in {"expired", "cancelled"}, Erase(T, status), Finish(p),
         Gentle, UNCHANGED <<now, users, receipts>>
  PROVE  RenewalInv'
<1>1. RenewalTypes
  BY DEF RenewalInv
<1>2. rows' \in [Txns -> PendingCredential \cup {NoRow}]
  BY ErasedTables
<1>3. rowLock' \in [Txns -> Procs \cup {None}]
  BY <1>1, Released DEF Finish
<1>4. RenewalTypes'
  BY <1>1, <1>2, <1>3, Ended DEF RenewalTypes, Gentle, Finish
<1>5. Own(p)' /\ \A v \in Procs : v # p => pc'[v] = pc[v] /\ req'[v] = req[v] /\ seen'[v] = seen[v]
  BY <1>1, Ended DEF Finish
<1> QED
  BY <1>4, <1>5, EraseStep DEF Finish

LEMMA CleanupRenewal ==
  ASSUME RenewalInv, NEW w \in Workers, CommitCleanup(w)
  PROVE  RenewalInv'
<1>1. RenewalTypes /\ w \in Procs /\ Working(w)
  BY Processes DEF RenewalInv
<1>2. /\ due[w] \in SUBSET Txns
      /\ \A t \in due[w] : rows[t].status = "pending" /\ rowLock[t] \in {w, None}
  BY <1>1, DueAreLocked DEF CommitCleanup
<1>3. Gentle /\ Erase(due[w], "expired") /\ ReleaseLocks(w) /\ UNCHANGED <<users, receipts>>
  BY <1>1, UntouchedIsGentle DEF CommitCleanup
<1>4. rows' \in [Txns -> PendingCredential \cup {NoRow}] /\ rowLock' \in [Txns -> Procs \cup {None}]
  BY <1>1, <1>2, <1>3, ErasedTables, Released
<1>5. RenewalTypes'
  BY <1>1, <1>4 DEF CommitCleanup, RenewalTypes
<1>6. /\ pc'[w] = "lock" /\ req' = req
      /\ \A v \in Procs : v # w => pc'[v] = pc[v] /\ req'[v] = req[v] /\ seen'[v] = seen[v]
  BY <1>1 DEF CommitCleanup, RenewalTypes
<1>7. req[w] \in Handoff /\ users' = users
  BY <1>1 DEF CommitCleanup, Working
<1>8. Own(w)'
  BY <1>1, <1>6, <1>7, Processes DEF Own, Working
<1> QED
  BY <1>1, <1>2, <1>3, <1>5, <1>6, <1>8, EraseStep

LEMMA ErasingActions ==
  ASSUME RenewalInv,
         \/ CommitMaintenance
         \/ \E w \in Workers : CommitCleanup(w) \/ CancelPending(w)
  PROVE  RenewalInv'
<1>1. RenewalTypes
  BY DEF RenewalInv
<1>2. CASE CommitMaintenance
  <2>1. Gentle /\ UNCHANGED <<now, users, receipts>>
    BY <1>1, <1>2, UntouchedIsGentle DEF CommitMaintenance
  <2> QED
    BY <1>2, <2>1, Processes, DueAreLocked, EraseAndFinish DEF CommitMaintenance
<1>3. CASE \E w \in Workers : CommitCleanup(w)
  BY <1>3, CleanupRenewal
<1>4. ASSUME NEW w \in Workers, CancelPending(w) PROVE RenewalInv'
  <2>1. Gentle /\ UNCHANGED <<now, users, receipts>>
    BY <1>1, <1>4, UntouchedIsGentle DEF CancelPending
  <2>2. req[w].txn \in Txns
    <3>1. Working(w)
      BY DEF RenewalInv
    <3> QED
      BY <1>4, <3>1 DEF CancelPending, Reading, MayCancel, Working, Handoff, StageRequest, CompleteRequest,
                        CancelRequest, DisconnectRequest
  <2>3. rows[req[w].txn].status = "pending" /\ rowLock[req[w].txn] = None
    BY <1>4 DEF CancelPending, Reading, MayCancel
  <2>4. {req[w].txn} \in SUBSET Txns
    BY <2>2
  <2>5. \A t \in {req[w].txn} : rows[t].status = "pending" /\ rowLock[t] \in {w, None}
    BY <2>3
  <2>6. Erase({req[w].txn}, "cancelled") /\ Finish(w)
    BY <1>4 DEF CancelPending
  <2> QED
    BY <2>1, <2>4, <2>5, <2>6, Processes, EraseAndFinish
<1> QED
  BY <1>2, <1>3, <1>4

(* A disconnect, or a renewal, of a connection that an owner has.          *)
LEMMA OwnConnectionRenewal ==
  ASSUME RenewalInv, NEW w \in Workers, CommitDisconnect(w) \/ CommitRenewal(w)
  PROVE  RenewalInv'
<1> DEFINE s == req[w].subject
           loaded == seen[w].conn
<1>1. RenewalTypes /\ RenewalTables /\ w \in Procs /\ Working(w)
  BY Processes DEF RenewalInv
<1>2. loaded \in AnyConnection /\ loaded.version \in Nat
  BY <1>1 DEF RenewalTypes, AnyConnection
<1>3. s \in Subjects /\ users[s] # None
  <2>1. req[w] \in DisconnectRequest \cup RenewRequest
    BY <1>1 DEF CommitDisconnect, CommitRenewal, Working
  <2> QED
    BY <1>1, <2>1 DEF Working, DisconnectRequest, RenewRequest
<1>4. conns[s].status # "absent"
  BY <1>1, <1>3 DEF RenewalTables, RenewalIsolation
<1>5. CASE CommitDisconnect(w)
  <2> DEFINE wanted == [status |-> "disconnected", account |-> loaded.account,
                        tokens |-> None, version |-> loaded.version + 1]
  <2>1. Writes(s, loaded, wanted)
    BY <1>5 DEF CommitDisconnect, Writes
  <2>2. /\ wanted.status \in {"active", "disconnected"} /\ wanted.version \in Nat
        /\ wanted.tokens \in {None} \cup Renewed(s)
    BY <1>2
  <2>3. Gentle
    <3> HIDE DEF wanted, loaded, s
    <3> QED
      BY <1>1, <1>2, <1>3, <1>4, <2>1, <2>2, GentleFlush
  <2> QED
    BY <1>1, <1>5, <2>3, DueAreLocked, EraseAndFinish DEF CommitDisconnect
<1>6. CASE CommitRenewal(w)
  <2> DEFINE wanted == [loaded EXCEPT !.status = "active", !.tokens = NewTokens(w),
                                      !.version = req[w].expected + 1]
  <2>1. Writes(s, loaded, wanted)
    BY <1>6 DEF CommitRenewal, Writes
  <2>2. req[w].expected \in Nat
    BY <1>1, <1>6 DEF CommitRenewal, Working, RenewRequest
  <2>3. NewTokens(w) \in Renewed(s)
    BY <2>2 DEF NewTokens, Renewed
  <2>4. /\ wanted.status \in {"active", "disconnected"} /\ wanted.version \in Nat
        /\ wanted.tokens \in {None} \cup Renewed(s)
    BY <1>2, <2>2, <2>3 DEF AnyConnection
  <2>5. Gentle
    <3> HIDE DEF wanted, loaded, s
    <3> QED
      BY <1>1, <1>2, <1>3, <1>4, <2>1, <2>4, GentleFlush
  <2>6. Erase({}, "expired")
    BY <1>1, <1>6 DEF Erase, CommitRenewal, RenewalTypes
  <2>7. Finish(w) /\ UNCHANGED <<now, users, receipts>>
    BY <1>6 DEF CommitRenewal
  <2>8. {} \in SUBSET Txns /\ \A t \in {} : rows[t].status = "pending" /\ rowLock[t] \in {w, None}
    OBVIOUS
  <2> QED
    BY <1>1, <2>5, <2>6, <2>7, <2>8, EraseAndFinish
<1> QED
  BY <1>5, <1>6

LEMMA StageRenewal ==
  ASSUME RenewalInv, NEW w \in Workers, CommitStage(w)
  PROVE  RenewalInv'
<1> DEFINE r == req[w]
           new == [status |-> "pending", account |-> r.account,
                   binding |-> r.binding, grant |-> r.grant,
                   deadline |-> r.deadline, received |-> at[w],
                   expected |-> seen[w].conn.version, held |-> TRUE, subject |-> None]
<1>1. RenewalTypes /\ RenewalTables /\ LockedPending /\ w \in Procs /\ Working(w) /\ None \notin Procs
  BY Processes, NoneAssumption DEF RenewalInv
<1>2. r \in StageRequest
  BY <1>1 DEF CommitStage, Working, CompleteRequest
<1>3. r.txn \in Txns /\ rows[r.txn].status = "absent" /\ rows' = [rows EXCEPT ![r.txn] = new]
      /\ Finish(w) /\ UNCHANGED <<now, users, conns, receipts>>
  BY <1>2 DEF CommitStage, StageRequest
<1>4. seen[w].conn.version \in Nat /\ at[w] \in Nat
  BY <1>1 DEF RenewalTypes, AnyConnection
<1>5. new \in PendingCredential /\ new.status = "pending" /\ new.held
  BY <1>2, <1>4 DEF StageRequest, PendingCredential
<1> HIDE DEF new, r
<1>6. \A t \in Txns : rows'[t] = IF t = r.txn THEN new ELSE rows[t]
  BY <1>1, <1>3 DEF RenewalTypes
<1>7. rows' \in [Txns -> PendingCredential \cup {NoRow}]
  BY <1>1, <1>3, <1>5 DEF RenewalTypes
<1>8. /\ rowLock' \in [Txns -> Procs \cup {None}]
      /\ \A t \in Txns : rowLock'[t] = IF rowLock[t] = w THEN None ELSE rowLock[t]
  BY <1>1, <1>3, Released DEF Finish
<1>9. Own(w)' /\ \A v \in Procs : v # w => pc'[v] = pc[v] /\ req'[v] = req[v] /\ seen'[v] = seen[v]
  BY <1>1, <1>3, Ended DEF Finish
<1>10. RenewalTypes'
  BY <1>1, <1>3, <1>7, <1>8, Ended DEF RenewalTypes, Finish
<1>11. LockedPending'
  BY <1>1, <1>6, <1>8, <1>5 DEF LockedPending
<1>12. ReceiptsMatch' /\ ErasedUnlessPending'
  <2>1. ReceiptsMatch'
    <3>1. ASSUME NEW t \in Txns PROVE
                IF rows'[t].status = "completed"
                THEN /\ receipts'[t] = [owner |-> rows'[t].subject, account |-> rows'[t].account]
                     /\ users'[receipts'[t].owner] = rows'[t].account
                ELSE receipts'[t] = NoReceipt
      <4>1. CASE t = r.txn
        BY <1>1, <1>3, <1>5, <1>6, <4>1 DEF RenewalTables, ReceiptsMatch
      <4>2. CASE t # r.txn
        BY <1>1, <1>3, <1>6, <4>2 DEF RenewalTables, ReceiptsMatch
      <4> QED
        BY <4>1, <4>2
    <3> QED
      BY <3>1 DEF ReceiptsMatch
  <2>2. ErasedUnlessPending'
    BY <1>1, <1>5, <1>6 DEF RenewalTables, ErasedUnlessPending
  <2> QED
    BY <2>1, <2>2
<1>13. RenewalIsolation'
  BY <1>1, <1>3, <1>6 DEF RenewalTables, RenewalIsolation
<1>14. Stays(w)
  BY <1>1, <1>3, <1>6, <1>8, <1>9 DEF Stays, LockedPending
<1> QED
  BY <1>1, <1>9, <1>10, <1>11, <1>12, <1>13, <1>14, StepOfOne DEF RenewalTables

(* A completion ties its subject to its account, where that is new, and    *)
(* puts its own tokens into its subject's connection.                      *)
LEMMA CompletionEffect ==
  ASSUME RenewalInv, NEW w \in Workers, CommitComplete(w)
  PROVE  LET r == req[w] IN
         /\ r.txn \in Txns /\ r.subject \in Subjects /\ r.account \in Accounts
         /\ rowLock[r.txn] = w /\ rows[r.txn] \in PendingCredential
         /\ rows[r.txn].status = "pending" /\ rows[r.txn].account = r.account
         /\ users[r.subject] \in {None, r.account}
         /\ \A s \in Subjects : users[s] = r.account => s = r.subject
         /\ SavedConnection(w) \in AnyConnection
         /\ SavedConnection(w).account = r.account
         /\ SavedConnection(w).status # "absent"
         /\ \/ SavedConnection(w).tokens = r.txn
            \/ SavedConnection(w).tokens = conns[r.subject].tokens /\ users[r.subject] = r.account
<1> DEFINE r == req[w]
           loaded == seen[w].conn
           wanted == [status |-> "active", account |-> r.account, tokens |-> r.txn,
                      version |-> loaded.version + 1]
<1>1. RenewalTypes /\ RenewalTables /\ w \in Procs /\ Working(w)
  BY Processes DEF RenewalInv
<1>2. r \in CompleteRequest /\ r.kind = "complete"
  BY <1>1 DEF CommitComplete, Working, StageRequest
<1>3. r.txn \in Txns /\ r.subject \in Subjects /\ r.account \in Accounts /\ r.account # None
  BY <1>2, NoneAssumption DEF CompleteRequest
<1>4. Completing(w) /\ InsertsAllowed(w)
  BY <1>1, <1>2 DEF CommitComplete, Working
<1>5. rowLock[r.txn] = w /\ rows[r.txn].status = "pending" /\ rows[r.txn].account = r.account
  BY <1>4 DEF Completing
<1>6. rows[r.txn] \in PendingCredential
  BY <1>1, <1>3, <1>5 DEF RenewalTypes, NoRow
<1>7. loaded \in AnyConnection /\ loaded.version + 1 \in Nat
  BY <1>1 DEF RenewalTypes, AnyConnection
<1>8. conns[r.subject] \in AnyConnection /\ conns[r.subject].account = users[r.subject]
      /\ (conns[r.subject].status = "absent" <=> users[r.subject] = None)
  BY <1>1, <1>3 DEF RenewalTypes, RenewalTables, RenewalIsolation
<1>9. wanted \in AnyConnection
  BY <1>3, <1>7 DEF AnyConnection
<1>10. CASE seen[w].user = None
  <2>1. loaded.status = "absent" /\ users[r.subject] = None /\ \A s \in Subjects : users[s] # r.account
    BY <1>4, <1>10 DEF Completing, InsertsAllowed
  <2>2. SavedConnection(w) = wanted
    BY <2>1 DEF SavedConnection
  <2> QED
    BY <1>3, <1>5, <1>6, <1>9, <2>1, <2>2
<1>11. CASE seen[w].user # None
  <2>1. loaded.status # "absent" /\ users[r.subject] = r.account
    BY <1>4, <1>11 DEF Completing
  <2>2. \A s \in Subjects : users[s] = r.account => s = r.subject
    BY <1>1, <1>3, <2>1 DEF RenewalTables, RenewalIsolation
  <2>3. SavedConnection(w) = Flushed(loaded, wanted, conns[r.subject])
    BY <2>1 DEF SavedConnection
  <2> DEFINE saved == Flushed(loaded, wanted, conns[r.subject])
  <2>4. /\ saved.account = conns[r.subject].account
        /\ saved.status \in {conns[r.subject].status, "active"}
        /\ saved.tokens \in {conns[r.subject].tokens, r.txn}
        /\ saved.version \in {conns[r.subject].version, loaded.version + 1}
        /\ saved = [status |-> saved.status, account |-> saved.account, tokens |-> saved.tokens,
                    version |-> saved.version]
    BY DEF Flushed
  <2> HIDE DEF saved
  <2>5. saved \in AnyConnection
    BY <1>3, <1>7, <1>8, <2>4 DEF AnyConnection
  <2>6. saved.account = r.account /\ saved.status # "absent"
    BY <1>3, <1>8, <2>1, <2>4
  <2> QED
    BY <1>3, <1>5, <1>6, <2>1, <2>2, <2>3, <2>4, <2>5, <2>6 DEF saved
<1> QED
  BY <1>10, <1>11

LEMMA CompleteRenewal ==
  ASSUME RenewalInv, NEW w \in Workers, CommitComplete(w)
  PROVE  RenewalInv'
<1> DEFINE r == req[w]
           saved == SavedConnection(w)
<1>1. RenewalTypes /\ RenewalTables /\ LockedPending /\ w \in Procs /\ None \notin Procs
  BY Processes, NoneAssumption DEF RenewalInv
<1>2. /\ r.txn \in Txns /\ r.subject \in Subjects /\ r.account \in Accounts
      /\ rowLock[r.txn] = w /\ rows[r.txn] \in PendingCredential
      /\ rows[r.txn].status = "pending" /\ rows[r.txn].account = r.account
      /\ users[r.subject] \in {None, r.account}
      /\ \A s \in Subjects : users[s] = r.account => s = r.subject
      /\ saved \in AnyConnection /\ saved.account = r.account /\ saved.status # "absent"
      /\ \/ saved.tokens = r.txn
         \/ saved.tokens = conns[r.subject].tokens /\ users[r.subject] = r.account
  BY CompletionEffect
<1>3. /\ users' = [users EXCEPT ![r.subject] = r.account]
      /\ conns' = [conns EXCEPT ![r.subject] = saved]
      /\ receipts' = [receipts EXCEPT ![r.txn] = [owner |-> r.subject, account |-> r.account]]
      /\ rows' = [rows EXCEPT ![r.txn].status = "completed", ![r.txn].subject = r.subject,
                              ![r.txn].held = FALSE]
      /\ Finish(w) /\ now' = now
  BY DEF CommitComplete
<1> HIDE DEF r, saved
<1>4. r.account # None
  BY <1>2, NoneAssumption
<1>5. PICK new : new = [rows[r.txn] EXCEPT !.status = "completed", !.subject = r.subject, !.held = FALSE]
  OBVIOUS
<1>6. new \in PendingCredential /\ new.status = "completed" /\ new.subject = r.subject
      /\ ~ new.held /\ new.account = r.account
  BY <1>2, <1>5 DEF PendingCredential
<1>7. rows' \in [Txns -> PendingCredential \cup {NoRow}]
      /\ \A t \in Txns : rows'[t] = IF t = r.txn THEN new ELSE rows[t]
  <2>1. rows \in [Txns -> PendingCredential \cup {NoRow}]
    BY <1>1 DEF RenewalTypes
  <2>2. rows' = [rows EXCEPT ![r.txn] = new]
    BY <1>2, <1>3, <1>5, <2>1
  <2> QED
    BY <1>2, <1>6, <2>1, <2>2
<1>8. /\ users' \in [Subjects -> Accounts \cup {None}]
      /\ \A s \in Subjects : users'[s] = IF s = r.subject THEN r.account ELSE users[s]
      /\ conns' \in [Subjects -> AnyConnection]
      /\ \A s \in Subjects : conns'[s] = IF s = r.subject THEN saved ELSE conns[s]
  BY <1>1, <1>2, <1>3 DEF RenewalTypes
<1>9. /\ receipts' \in [Txns -> OAuthCompletionReceipt \cup {NoReceipt}]
      /\ \A t \in Txns : receipts'[t] = IF t = r.txn THEN [owner |-> r.subject, account |-> r.account]
                                        ELSE receipts[t]
  <2>1. [owner |-> r.subject, account |-> r.account] \in OAuthCompletionReceipt
    BY <1>2 DEF OAuthCompletionReceipt
  <2> QED
    BY <1>1, <1>2, <1>3, <2>1 DEF RenewalTypes
<1>10. /\ rowLock' \in [Txns -> Procs \cup {None}]
       /\ \A t \in Txns : rowLock'[t] = IF rowLock[t] = w THEN None ELSE rowLock[t]
  BY <1>1, <1>3, Released DEF Finish
<1>11. Own(w)' /\ \A v \in Procs : v # w => pc'[v] = pc[v] /\ req'[v] = req[v] /\ seen'[v] = seen[v]
  BY <1>1, <1>3, Ended DEF Finish
<1>12. RenewalTypes'
  BY <1>1, <1>3, <1>7, <1>8, <1>9, <1>10, Ended DEF RenewalTypes, Finish
<1>13. LockedPending'
  BY <1>1, <1>2, <1>7, <1>10 DEF LockedPending
<1>14. \A s \in Subjects : users[s] # None => users'[s] = users[s]
  BY <1>2, <1>8
<1>15. ErasedUnlessPending'
  BY <1>1, <1>6, <1>7 DEF RenewalTables, ErasedUnlessPending
<1>16. ReceiptsMatch'
  <2>1. ASSUME NEW t \in Txns PROVE
            IF rows'[t].status = "completed"
            THEN /\ receipts'[t] = [owner |-> rows'[t].subject, account |-> rows'[t].account]
                 /\ users'[receipts'[t].owner] = rows'[t].account
            ELSE receipts'[t] = NoReceipt
    <3>1. CASE t = r.txn
      BY <1>2, <1>6, <1>7, <1>8, <1>9, <3>1
    <3>2. CASE t # r.txn
      <4>1. rows'[t] = rows[t] /\ receipts'[t] = receipts[t]
        BY <1>7, <1>9, <3>2
      <4>2. CASE rows[t].status = "completed"
        <5>1. rows[t] \in PendingCredential /\ receipts[t] \in OAuthCompletionReceipt \cup {NoReceipt}
          BY <1>1, <4>2 DEF RenewalTypes, NoRow
        <5>2. users[receipts[t].owner] = rows[t].account /\ rows[t].account \in Accounts
              /\ receipts[t] = [owner |-> rows[t].subject, account |-> rows[t].account]
          BY <1>1, <4>2, <5>1 DEF RenewalTables, ReceiptsMatch, PendingCredential
        <5>3. receipts[t].owner \in Subjects
          BY <5>1, <5>2, NoneAssumption DEF OAuthCompletionReceipt, NoReceipt
        <5> QED
          BY <1>14, <4>1, <4>2, <5>2, <5>3, NoneAssumption
      <4>3. CASE rows[t].status # "completed"
        BY <1>1, <4>1, <4>3 DEF RenewalTables, ReceiptsMatch
      <4> QED
        BY <4>2, <4>3
    <3> QED
      BY <3>1, <3>2
  <2> QED
    BY <2>1 DEF ReceiptsMatch
<1>17. RenewalIsolation'
  <2>1. \A s, o \in Subjects : users'[s] = users'[o] /\ users'[s] # None => s = o
    BY <1>1, <1>2, <1>8 DEF RenewalTables, RenewalIsolation
  <2>2. \A s \in Subjects : /\ conns'[s].account = users'[s]
                            /\ conns'[s].status = "absent" <=> users'[s] = None
    BY <1>1, <1>2, <1>4, <1>8 DEF RenewalTables, RenewalIsolation
  <2>3. ASSUME NEW s \in Subjects PROVE
            \/ conns'[s].tokens = None
            \/ conns'[s].tokens \in Renewed(s)
            \/ \E t \in Txns : /\ conns'[s].tokens = t
                              /\ rows'[t].status = "completed"
                              /\ rows'[t].subject = s
                              /\ rows'[t].account = users'[s]
    <3>1. CASE s = r.subject /\ saved.tokens = r.txn
      BY <1>2, <1>6, <1>7, <1>8, <3>1
    <3>2. CASE conns'[s].tokens = conns[s].tokens /\ users'[s] = users[s]
      <4>1. \A t \in Txns : rows[t].status = "completed" => rows'[t] = rows[t]
        BY <1>2, <1>7
      <4> QED
        BY <1>1, <3>2, <4>1 DEF RenewalTables, RenewalIsolation
    <3> QED
      BY <1>2, <1>8, <3>1, <3>2
  <2> QED
    BY <2>1, <2>2, <2>3 DEF RenewalIsolation
<1>18. Stays(w)
  BY <1>1, <1>2, <1>7, <1>10, <1>11, <1>14 DEF Stays
<1> QED
  BY <1>1, <1>11, <1>12, <1>13, <1>15, <1>16, <1>17, <1>18, StepOfOne DEF RenewalTables

-----------------------------------------------------------------------------
LEMMA RenewalStepSafe ==
  ASSUME RenewalInv, [Next \/ \E w \in Workers : RenewalStep(w)]_vars
  PROVE  RenewalInv'
<1>1. CASE UNCHANGED vars
  <2>1. UNCHANGED <<now, users, conns, rows, receipts, rowLock, pc, req, at, due, seen>>
    BY <1>1 DEF vars, tables, locks
  <2>2. RenewalTypes'
    BY <2>1 DEF RenewalInv, RenewalTypes
  <2>3. Own(Sweeper)'
    BY <2>1 DEF RenewalInv, Own
  <2> QED
    BY <2>1, <2>2, <2>3, Processes, QuietStep DEF tables
<1>2. CASE Tick
  <2>1. now' = now + 1 /\ UNCHANGED <<users, conns, rows, receipts, rowLock, pc, req, at, due, seen>>
    BY <1>2 DEF Tick, tables, locks
  <2>2. RenewalTypes'
    BY <2>1 DEF RenewalInv, RenewalTypes
  <2>3. Own(Sweeper)'
    BY <2>1 DEF RenewalInv, Own
  <2> QED
    BY <2>1, <2>2, <2>3, Processes, QuietStep DEF tables
<1>3. CASE SweeperStep
  BY <1>3, Processes, StartMaintenanceRenewal, ErasingActions, LockRowRenewal DEF SweeperStep
<1>4. ASSUME NEW w \in Workers, \E r \in Handoff : Receive(w, r) PROVE RenewalInv'
  BY <1>4, ReceiveRenewal
<1>5. ASSUME NEW w \in Workers, NEW s \in Subjects, FindConnection(w, s) \/ StartRenewal(w, s)
      PROVE  RenewalInv'
  BY <1>5, FindRenewal
<1>6. ASSUME NEW w \in Workers, AnswerUnchanged(w) \/ RefusedInsert(w) \/ VersionConflict(w)
      PROVE  RenewalInv'
  BY <1>6, Processes, EndsWithout DEF AnswerUnchanged, RefusedInsert, VersionConflict
<1>7. ASSUME NEW w \in Workers, WorkerStep(w) PROVE RenewalInv'
  <2>1. CASE LockAccount(w) \/ ReadForStage(w) \/ RefreshConnection(w)
    BY <2>1, GoOnActions
  <2>2. CASE CommitCleanup(w) \/ CancelPending(w)
    BY <2>2, ErasingActions
  <2>3. CASE ReadForComplete(w)
    BY <2>3, ReadForCompleteRenewal
  <2>4. CASE AnswerUnchanged(w) \/ RefusedInsert(w)
    BY <2>4, <1>6
  <2>5. CASE CommitStage(w)
    BY <2>5, StageRenewal
  <2>6. CASE CommitComplete(w)
    BY <2>6, CompleteRenewal
  <2>7. CASE CommitDisconnect(w)
    BY <2>7, OwnConnectionRenewal
  <2>8. CASE \E t \in Txns : LockRow(w, t)
    BY <2>8, Processes, LockRowRenewal
  <2> QED
    BY <1>7, <2>1, <2>2, <2>3, <2>4, <2>5, <2>6, <2>7, <2>8 DEF WorkerStep
<1>8. ASSUME NEW p \in Procs, Abort(p) \/ DeadlockVictim(p) PROVE RenewalInv'
  BY <1>8, EndsWithout DEF Abort
<1>9. ASSUME NEW w \in Workers, RenewalStep(w) PROVE RenewalInv'
  BY <1>5, <1>6, <1>9, GoOnActions, OwnConnectionRenewal DEF RenewalStep
<1> QED
  BY <1>1, <1>2, <1>3, <1>4, <1>5, <1>7, <1>8, <1>9 DEF Next

(* Renewals can undo a disconnect and can lose an update, but they cannot  *)
(* cross-wire credentials: whatever is interleaved with them, an account   *)
(* has one owner, a connection is to its owner's account and its tokens    *)
(* come from that owner's login or from a renewal of the same connection;  *)
(* receipts stay what complete retries may be answered from, and erased    *)
(* ciphertext stays erased.                                                *)
THEOREM RenewalsKeepOwners ==
  RenewalSpec => [](RenewalIsolation /\ ReceiptsMatch /\ ErasedUnlessPending)
<1>1. RenewalInv => RenewalIsolation /\ ReceiptsMatch /\ ErasedUnlessPending
  BY DEF RenewalInv, RenewalTables
<1>2. RenewalInv /\ [Next \/ \E w \in Workers : RenewalStep(w)]_vars => RenewalInv'
  BY RenewalStepSafe
<1> QED
  BY <1>1, <1>2, RenewalInit, PTL DEF RenewalSpec
=============================================================================
