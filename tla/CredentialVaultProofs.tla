------------------------ MODULE CredentialVaultProofs ------------------------
(* Proofs about CredentialVault, for any number of requests in flight,     *)
(* transactions, accounts, subjects and any value of the bounds.           *)
EXTENDS CredentialVault, TLAPS

USE NoneAssumption, SweeperAssumption, LifeAssumption, BoundAssumption

(* Nothing exists and nobody runs in the initial state.                    *)
LEMMA VaultInit == Init => VaultInv
<1> SUFFICES ASSUME Init PROVE VaultInv
  OBVIOUS
<1>1. TypeOK
  BY DEF Init, TypeOK, NothingSeen
<1>2. ProcessShape /\ LocksHeld /\ StageSnapshot /\ CompletionSnapshot /\ DisconnectSnapshot
  BY DEF Init, ProcessShape, LocksHeld, StageSnapshot, CompletionSnapshot, DisconnectSnapshot, Procs
<1>3. OwnerIsolation /\ ReceiptsMatch /\ ErasedUnlessPending
  BY DEF Init, OwnerIsolation, ReceiptsMatch, ErasedUnlessPending, NoConn, NoRow
<1> QED
  BY <1>1, <1>2, <1>3 DEF VaultInv

-----------------------------------------------------------------------------
(* What the steps of the actions have in common.                           *)

(* The end of a transaction leaves well-typed process state and locks.     *)
LEMMA FinishType ==
  ASSUME TypeOK, NEW p \in Procs, Finish(p)
  PROVE  /\ acctLock' \in [Accounts -> Procs \cup {None}]
         /\ rowLock' \in [Txns -> Procs \cup {None}]
         /\ pc' \in [Procs -> {"idle", "sweeping", "lock", "read", "rows", "write"}]
         /\ req' \in [Procs -> Handoff \cup DisconnectRequest \cup {NoRequest}]
         /\ at' \in [Procs -> Nat]
         /\ due' \in [Procs -> SUBSET Txns]
         /\ seen' \in [Procs -> [user : Accounts \cup {None},
                                conn : PinterestConnection \cup {NoConn}]]
<1>1. NothingSeen \in [user : Accounts \cup {None}, conn : PinterestConnection \cup {NoConn}]
  BY DEF NothingSeen
<1> QED
  BY <1>1 DEF TypeOK, Finish, Forget, ReleaseLocks

(* Erasing rows that exist leaves rows, and changes no other field.        *)
LEMMA EraseRows ==
  ASSUME TypeOK, NEW T, NEW status \in {"cancelled", "expired"}, Erase(T, status),
         \A t \in Txns : t \in T => rows[t].status = "pending"
  PROVE  /\ rows' \in [Txns -> PendingCredential \cup {NoRow}]
         /\ \A t \in Txns : IF t \in T
                            THEN rows'[t] = [rows[t] EXCEPT !.status = status, !.held = FALSE]
                            ELSE rows'[t] = rows[t]
<1>1. ASSUME NEW t \in Txns, t \in T
      PROVE  [rows[t] EXCEPT !.status = status, !.held = FALSE] \in PendingCredential
  <2>1. rows[t] \in PendingCredential
    BY <1>1 DEF TypeOK, NoRow
  <2> QED
    BY <2>1 DEF PendingCredential
<1> QED
  BY <1>1 DEF TypeOK, Erase

(* A bulk update that is about to commit has pending rows only.            *)
LEMMA DuePending ==
  ASSUME VaultInv, NEW p \in Procs, AllLocked(p)
  PROVE  \A t \in Txns : t \in due[p] => rows[t].status = "pending"
  BY NoneAssumption DEF VaultInv, LocksHeld, AllLocked

(* Connections keep their account.                                         *)
LEMMA FlushedType ==
  ASSUME NEW loaded \in PinterestConnection, NEW wanted \in PinterestConnection,
         NEW stored \in PinterestConnection
  PROVE  Flushed(loaded, wanted, stored) \in PinterestConnection
  BY DEF Flushed, PinterestConnection

(* With an exact snapshot, a flush stores what was wanted.                 *)
LEMMA FlushedExact ==
  ASSUME NEW loaded \in PinterestConnection, NEW wanted \in PinterestConnection,
         wanted.account = loaded.account
  PROVE  Flushed(loaded, wanted, loaded) = wanted
  BY DEF Flushed, PinterestConnection

(* A staging transaction inserts a row that starts from the version that   *)
(* the account's connection has.                                           *)
LEMMA StageEffect ==
  ASSUME VaultInv, NEW w \in Workers, CommitStage(w)
  PROVE  /\ req[w] \in StageRequest
         /\ req[w].txn \in Txns /\ req[w].account \in Accounts
         /\ rows[req[w].txn].status = "absent"
         /\ acctLock[req[w].account] = w
         /\ rows' = [rows EXCEPT ![req[w].txn] =
                       [status |-> "pending", account |-> req[w].account,
                        binding |-> req[w].binding, grant |-> req[w].grant,
                        deadline |-> req[w].deadline, received |-> at[w],
                        expected |-> ConnOfAccount(req[w].account).version, held |-> TRUE,
                        subject |-> None]]
         /\ rows' \in [Txns -> PendingCredential \cup {NoRow}]
<1>1. req[w] \in StageRequest
  BY DEF CommitStage, VaultInv, ProcessShape, StageRequest, CompleteRequest
<1>2. ConnOfAccount(req[w].account) = seen[w].conn /\ seen[w].conn.version \in Nat /\ at[w] \in Nat
  BY DEF CommitStage, VaultInv, TypeOK, StageSnapshot, NoConn, PinterestConnection, Procs
<1>3. rows' = [rows EXCEPT ![req[w].txn] =
                       [status |-> "pending", account |-> req[w].account,
                        binding |-> req[w].binding, grant |-> req[w].grant,
                        deadline |-> req[w].deadline, received |-> at[w],
                        expected |-> ConnOfAccount(req[w].account).version, held |-> TRUE,
                        subject |-> None]]
  BY <1>2 DEF CommitStage
<1>4. rows' \in [Txns -> PendingCredential \cup {NoRow}]
  BY <1>1, <1>2, <1>3 DEF VaultInv, TypeOK, StageRequest, PendingCredential
<1> QED
  BY <1>1, <1>3, <1>4 DEF CommitStage, VaultInv, LocksHeld, StageRequest

(* A completing transaction installs the envelope on the version it was    *)
(* staged at, for the account's only owner.                                *)
LEMMA CompleteEffect ==
  ASSUME VaultInv, NEW w \in Workers, CommitComplete(w)
  PROVE  LET r == req[w] IN
         /\ r \in CompleteRequest
         /\ r.txn \in Txns /\ r.account \in Accounts /\ r.subject \in Subjects
         /\ acctLock[r.account] = w /\ rowLock[r.txn] = w
         /\ rows[r.txn] \in PendingCredential
         /\ rows[r.txn].status = "pending"
         /\ rows[r.txn].account = r.account /\ rows[r.txn].binding = r.binding
         /\ rows[r.txn].expected = conns[r.subject].version
         /\ users[r.subject] \in {None, r.account}
         /\ \A s \in Subjects : users[s] = r.account => s = r.subject
         /\ conns' = [conns EXCEPT ![r.subject] =
                        [status |-> "active", account |-> r.account, tokens |-> r.txn,
                         version |-> conns[r.subject].version + 1]]
<1> DEFINE r == req[w]
<1>1. r \in CompleteRequest
  BY DEF CommitComplete, VaultInv, ProcessShape, StageRequest, CompleteRequest
<1>2. r.txn \in Txns /\ r.account \in Accounts /\ r.subject \in Subjects
  BY <1>1 DEF CompleteRequest
<1>3. acctLock[r.account] = w /\ rowLock[r.txn] = w
  BY DEF CommitComplete, VaultInv, LocksHeld
<1>4. /\ rows[r.txn].status = "pending" /\ rows[r.txn].account = r.account
      /\ rows[r.txn].binding = r.binding
      /\ rows[r.txn].expected = seen[w].conn.version
  BY DEF CommitComplete, VaultInv, CompletionSnapshot, Bound
<1>5. rows[r.txn] \in PendingCredential
  BY <1>2, <1>4 DEF VaultInv, TypeOK, NoRow
<1> DEFINE wanted == [status |-> "active", account |-> r.account, tokens |-> r.txn,
                      version |-> seen[w].conn.version + 1]
<1>6. CASE seen[w].user = None
  <2>1. seen[w].conn = NoConn /\ \A s \in Subjects : users[s] # r.account
    BY <1>6 DEF CommitComplete, VaultInv, CompletionSnapshot
  <2>2. users[r.subject] = None
    BY <1>6 DEF CommitComplete, InsertsAllowed
  <2>3. conns[r.subject] = NoConn
    BY <1>2, <2>2 DEF VaultInv, OwnerIsolation, TypeOK, PinterestConnection
  <2>4. SavedConnection(w) = wanted
    BY <2>1 DEF SavedConnection, NoConn
  <2> QED
    BY <1>1, <1>2, <1>3, <1>4, <1>5, <2>1, <2>2, <2>3, <2>4 DEF CommitComplete
<1>7. CASE seen[w].user # None
  <2>1. seen[w].conn = conns[r.subject] /\ users[r.subject] = r.account
    BY <1>7 DEF CommitComplete, VaultInv, CompletionSnapshot
  <2>2. conns[r.subject] \in PinterestConnection /\ conns[r.subject].account = r.account
    BY <1>2, <2>1 DEF VaultInv, OwnerIsolation, TypeOK, NoConn
  <2>3. wanted \in PinterestConnection /\ wanted.account = r.account
    BY <1>2, <2>1, <2>2 DEF PinterestConnection
  <2>4. Flushed(conns[r.subject], wanted, conns[r.subject]) = wanted
    BY <2>2, <2>3, FlushedExact
  <2>5. SavedConnection(w) = wanted
    BY <2>1, <2>2, <2>4 DEF SavedConnection, PinterestConnection
  <2>6. \A s \in Subjects : users[s] = r.account => s = r.subject
    BY <1>2, <2>1 DEF VaultInv, OwnerIsolation
  <2> QED
    BY <1>1, <1>2, <1>3, <1>4, <1>5, <2>1, <2>5, <2>6 DEF CommitComplete
<1> QED
  BY <1>6, <1>7

(* A disconnect takes the tokens away and cancels every login that is      *)
(* under way for the account.                                              *)
LEMMA DisconnectEffect ==
  ASSUME VaultInv, NEW w \in Workers, CommitDisconnect(w)
  PROVE  LET s == req[w].subject IN
         /\ req[w] \in DisconnectRequest
         /\ s \in Subjects /\ users[s] = req[w].account /\ users[s] \in Accounts
         /\ acctLock[users[s]] = w
         /\ conns[s] \in PinterestConnection
         /\ conns' = [conns EXCEPT ![s] =
                        [status |-> "disconnected", account |-> users[s], tokens |-> None,
                         version |-> conns[s].version + 1]]
         /\ rows' \in [Txns -> PendingCredential \cup {NoRow}]
         /\ \A t \in Txns :
              IF rows[t].status = "pending" /\ rows[t].account = users[s]
              THEN rows'[t] = [rows[t] EXCEPT !.status = "cancelled", !.held = FALSE]
              ELSE rows'[t] = rows[t]
<1> DEFINE s == req[w].subject
<1>1. req[w] \in DisconnectRequest
  BY DEF CommitDisconnect, VaultInv, ProcessShape
<1>2. s \in Subjects /\ users[s] = req[w].account /\ req[w].account \in Accounts
  BY <1>1 DEF CommitDisconnect, VaultInv, DisconnectSnapshot, DisconnectRequest
<1>3. acctLock[req[w].account] = w
  BY DEF CommitDisconnect, VaultInv, LocksHeld
<1>4. seen[w].conn = conns[s]
  BY DEF CommitDisconnect, VaultInv, DisconnectSnapshot
<1>5. conns[s] \in PinterestConnection /\ conns[s].account = users[s]
  BY <1>2 DEF VaultInv, OwnerIsolation, TypeOK, NoConn
<1> DEFINE wanted == [status |-> "disconnected", account |-> users[s], tokens |-> None,
                      version |-> conns[s].version + 1]
<1>7. wanted \in PinterestConnection
  BY <1>2, <1>5 DEF PinterestConnection
<1>8. Flushed(conns[s], wanted, conns[s]) = wanted
  BY <1>5, <1>7, FlushedExact
<1>9. conns' = [conns EXCEPT ![s] = wanted]
  BY <1>4, <1>5, <1>8 DEF CommitDisconnect
<1>10. w \in Procs /\ pc[w] = "rows" /\ AllLocked(w) /\ Erase(due[w], "cancelled")
  BY DEF CommitDisconnect, Procs
<1>11. \A t \in Txns : t \in due[w] => rows[t].status = "pending"
  BY <1>10, DuePending
<1>12. /\ rows' \in [Txns -> PendingCredential \cup {NoRow}]
       /\ \A t \in Txns : IF t \in due[w]
                          THEN rows'[t] = [rows[t] EXCEPT !.status = "cancelled", !.held = FALSE]
                          ELSE rows'[t] = rows[t]
  BY <1>10, <1>11, EraseRows DEF VaultInv
<1>13. \A t \in Txns : t \in due[w] <=> rows[t].status = "pending" /\ rows[t].account = users[s]
  BY <1>2, <1>10, <1>11 DEF VaultInv, DisconnectSnapshot
<1> QED
  BY <1>1, <1>2, <1>3, <1>5, <1>9, <1>12, <1>13

-----------------------------------------------------------------------------
(* Type correctness of every step.                                         *)
LEMMA TypeStep == VaultInv /\ [Next]_vars => TypeOK'
<1> SUFFICES ASSUME VaultInv, [Next]_vars PROVE TypeOK'
  OBVIOUS
<1>0. TypeOK
  BY DEF VaultInv
<1> USE DEF tables, locks
<1>1. CASE Tick
  BY <1>0, <1>1 DEF Tick, TypeOK
<1>2. CASE StartMaintenance
  <2>1. DueRows(now) \in SUBSET Txns
    BY DEF DueRows
  <2> QED
    BY <1>0, <1>2, <2>1 DEF StartMaintenance, TypeOK
<1>3. CASE CommitMaintenance
  <2>1. Finish(Sweeper) /\ Sweeper \in Procs
    BY <1>3 DEF CommitMaintenance, Procs
  <2>2. Erase(due[Sweeper], "expired")
    BY <1>3 DEF CommitMaintenance
  <2>3. rows' \in [Txns -> PendingCredential \cup {NoRow}]
    BY <1>0, <1>3, <2>1, <2>2, DuePending, EraseRows DEF CommitMaintenance
  <2> QED
    BY <1>0, <1>3, <2>1, <2>3, FinishType DEF CommitMaintenance, TypeOK
<1>4. ASSUME NEW p \in Procs, NEW t \in Txns, LockRow(p, t) PROVE TypeOK'
  BY <1>0, <1>4 DEF LockRow, TypeOK
<1>5. ASSUME NEW w \in Workers, NEW r \in Handoff, Receive(w, r) PROVE TypeOK'
  <2>1. DueRows(now) \in SUBSET Txns /\ w \in Procs
    BY DEF DueRows, Procs
  <2> QED
    BY <1>0, <1>5, <2>1 DEF Receive, TypeOK
<1>6. ASSUME NEW w \in Workers, NEW s \in Subjects, FindConnection(w, s) PROVE TypeOK'
  <2>1. [kind |-> "disconnect", subject |-> s, account |-> conns[s].account] \in DisconnectRequest
    BY <1>0, <1>6 DEF FindConnection, TypeOK, DisconnectRequest, PinterestConnection, NoConn
  <2> QED
    BY <1>0, <1>6, <2>1 DEF FindConnection, TypeOK, Procs
<1>7. ASSUME NEW w \in Workers, CommitCleanup(w) PROVE TypeOK'
  <2>1. w \in Procs /\ Erase(due[w], "expired")
    BY <1>7 DEF CommitCleanup, Procs
  <2>2. rows' \in [Txns -> PendingCredential \cup {NoRow}]
    BY <1>0, <1>7, <2>1, DuePending, EraseRows DEF CommitCleanup
  <2> QED
    BY <1>0, <1>7, <2>1, <2>2 DEF CommitCleanup, ReleaseLocks, TypeOK
<1>8. ASSUME NEW w \in Workers, LockAccount(w) PROVE TypeOK'
  BY <1>0, <1>8 DEF LockAccount, TypeOK, Procs
<1>9. ASSUME NEW w \in Workers, ReadForStage(w) PROVE TypeOK'
  <2>1. ConnOfAccount(req[w].account) \in PinterestConnection \cup {NoConn}
    BY <1>0 DEF TypeOK, ConnOfAccount
  <2> QED
    BY <1>0, <1>9, <2>1 DEF ReadForStage, TypeOK, Procs
<1>10. ASSUME NEW w \in Workers, ReadForComplete(w) PROVE TypeOK'
  <2>1. req[w] \in CompleteRequest
    BY <1>10 DEF ReadForComplete, Reading, MayComplete, VaultInv, ProcessShape,
                 Handoff, StageRequest, CompleteRequest, CancelRequest, DisconnectRequest
  <2>2. users[req[w].subject] \in Accounts \cup {None}
        /\ conns[req[w].subject] \in PinterestConnection \cup {NoConn}
    BY <1>0, <2>1 DEF TypeOK, CompleteRequest
  <2> QED
    BY <1>0, <1>10, <2>2 DEF ReadForComplete, TypeOK, Procs
<1>11. ASSUME NEW w \in Workers, CancelPending(w) PROVE TypeOK'
  <2>1. w \in Procs /\ Finish(w) /\ Erase({req[w].txn}, "cancelled")
        /\ rows[req[w].txn].status = "pending"
    BY <1>11 DEF CancelPending, MayCancel, Procs
  <2>2. \A t \in Txns : t \in {req[w].txn} => rows[t].status = "pending"
    BY <2>1
  <2>3. rows' \in [Txns -> PendingCredential \cup {NoRow}]
    BY <1>0, <2>1, <2>2, EraseRows
  <2> QED
    BY <1>0, <1>11, <2>1, <2>3, FinishType DEF CancelPending, TypeOK
<1>12. ASSUME NEW p \in Procs, AnswerUnchanged(p) \/ RefusedInsert(p) \/ Abort(p) PROVE TypeOK'
  <2>1. Finish(p) /\ UNCHANGED <<now, tables, outage>>
    BY <1>12 DEF AnswerUnchanged, RefusedInsert, Abort
  <2> QED
    BY <1>0, <2>1, FinishType DEF TypeOK
<1>13. ASSUME NEW w \in Workers, CommitStage(w) PROVE TypeOK'
  <2>1. w \in Procs /\ Finish(w)
    BY <1>13 DEF CommitStage, Procs
  <2> QED
    BY <1>0, <1>13, <2>1, StageEffect, FinishType DEF CommitStage, TypeOK
<1>14. ASSUME NEW w \in Workers, CommitComplete(w) PROVE TypeOK'
  <2> DEFINE r == req[w]
  <2>1. w \in Procs /\ Finish(w)
    BY <1>14 DEF CommitComplete, Procs
  <2>2. /\ r.txn \in Txns /\ r.account \in Accounts /\ r.subject \in Subjects
        /\ rows[r.txn] \in PendingCredential
    BY <1>14, CompleteEffect
  <2>3. rows' \in [Txns -> PendingCredential \cup {NoRow}]
    <3>1. [rows[r.txn] EXCEPT !.status = "completed", !.subject = r.subject, !.held = FALSE]
            \in PendingCredential
      BY <2>2 DEF PendingCredential
    <3> QED
      BY <1>0, <1>14, <2>2, <3>1 DEF CommitComplete, TypeOK
  <2>4. conns' \in [Subjects -> PinterestConnection \cup {NoConn}]
    <3>1. conns[r.subject].version \in Nat
      BY <1>0, <2>2 DEF TypeOK, PinterestConnection, NoConn
    <3>2. [status |-> "active", account |-> r.account, tokens |-> r.txn,
           version |-> conns[r.subject].version + 1] \in PinterestConnection
      BY <2>2, <3>1 DEF PinterestConnection
    <3> DEFINE saved == [status |-> "active", account |-> r.account, tokens |-> r.txn,
                         version |-> conns[r.subject].version + 1]
    <3>3. conns' = [conns EXCEPT ![r.subject] = saved]
      BY <1>14, CompleteEffect
    <3>4. saved \in PinterestConnection
      BY <3>2
    <3> HIDE DEF saved
    <3> QED
      BY <1>0, <3>3, <3>4 DEF TypeOK
  <2>5. receipts' \in [Txns -> OAuthCompletionReceipt \cup {NoReceipt}]
    BY <1>0, <1>14, <2>2 DEF CommitComplete, TypeOK, OAuthCompletionReceipt
  <2>6. users' \in [Subjects -> Accounts \cup {None}]
    BY <1>0, <1>14, <2>2 DEF CommitComplete, TypeOK
  <2> QED
    BY <1>0, <1>14, <2>1, <2>3, <2>4, <2>5, <2>6, FinishType DEF CommitComplete, TypeOK
<1>15. ASSUME NEW w \in Workers, RefreshConnection(w) PROVE TypeOK'
  <2>1. req[w] \in DisconnectRequest
    BY <1>15 DEF RefreshConnection, VaultInv, ProcessShape, Handoff, StageRequest,
                 CompleteRequest, CancelRequest
  <2>2. conns[req[w].subject] \in PinterestConnection \cup {NoConn}
    BY <1>0, <2>1 DEF TypeOK, DisconnectRequest
  <2> QED
    BY <1>0, <1>15, <2>2 DEF RefreshConnection, TypeOK, Procs
<1>16. ASSUME NEW w \in Workers, CommitDisconnect(w) PROVE TypeOK'
  <2>1. w \in Procs /\ Finish(w)
    BY <1>16 DEF CommitDisconnect, Procs
  <2>2. rows' \in [Txns -> PendingCredential \cup {NoRow}]
    BY <1>16, DisconnectEffect
  <2>3. conns' \in [Subjects -> PinterestConnection \cup {NoConn}]
    <3> DEFINE s == req[w].subject
    <3>1. s \in Subjects /\ users[s] \in Accounts /\ conns[s].version \in Nat
      BY <1>16, DisconnectEffect DEF PinterestConnection
    <3>2. [status |-> "disconnected", account |-> users[s], tokens |-> None,
           version |-> conns[s].version + 1] \in PinterestConnection
      BY <3>1 DEF PinterestConnection
    <3> DEFINE closed == [status |-> "disconnected", account |-> users[s], tokens |-> None,
                          version |-> conns[s].version + 1]
    <3>3. conns' = [conns EXCEPT ![s] = closed]
      BY <1>16, DisconnectEffect
    <3>4. closed \in PinterestConnection
      BY <3>2
    <3> HIDE DEF closed
    <3> QED
      BY <1>0, <3>3, <3>4 DEF TypeOK
  <2> QED
    BY <1>0, <1>16, <2>1, <2>2, <2>3, FinishType DEF CommitDisconnect, TypeOK
<1>17. ASSUME NEW p \in Procs, DeadlockVictim(p) PROVE TypeOK'
  <2>1. rowLock' \in [Txns -> Procs \cup {None}]
    BY <1>0, <1>17 DEF DeadlockVictim, TypeOK
  <2>2. NothingSeen \in [user : Accounts \cup {None}, conn : PinterestConnection \cup {NoConn}]
    BY DEF NothingSeen
  <2> QED
    BY <1>0, <1>17, <2>1, <2>2 DEF DeadlockVictim, Forget, TypeOK
<1>18. CASE UNCHANGED vars
  BY <1>0, <1>18 DEF vars, TypeOK
<1> QED
  BY <1>1, <1>2, <1>3, <1>4, <1>5, <1>6, <1>7, <1>8, <1>9, <1>10, <1>11, <1>12, <1>13,
     <1>14, <1>15, <1>16, <1>17, <1>18 DEF Next, WorkerStep, SweeperStep, Procs

-----------------------------------------------------------------------------
(* Every step is a step of one process, or of none: the others keep their  *)
(* place, their request, their snapshot and their locks.                   *)
OthersUnmoved(p) ==
    \A q \in Procs \ {p} :
        /\ pc'[q] = pc[q] /\ req'[q] = req[q] /\ seen'[q] = seen[q] /\ due'[q] = due[q]
        /\ \A a \in Accounts : acctLock[a] = q => acctLock'[a] = q
        /\ \A t \in Txns : rowLock[t] = q => rowLock'[t] = q

(* The end of a transaction moves nobody else.                             *)
LEMMA FinishUnmoved ==
  ASSUME TypeOK, NEW p \in Procs, Finish(p)
  PROVE  OthersUnmoved(p) /\ pc'[p] = "idle"
  BY DEF TypeOK, Finish, Forget, ReleaseLocks, OthersUnmoved

(* The same of every action.                                               *)
LEMMA StepUnmoved ==
  ASSUME TypeOK
  PROVE  /\ Tick => \A p \in Procs : OthersUnmoved(p) /\ pc' = pc /\ req' = req /\ due' = due
                                    /\ seen' = seen
         /\ SweeperStep => OthersUnmoved(Sweeper)
         /\ \A w \in Workers, r \in Handoff : Receive(w, r) => OthersUnmoved(w)
         /\ \A w \in Workers, s \in Subjects : FindConnection(w, s) => OthersUnmoved(w)
         /\ \A w \in Workers : WorkerStep(w) => OthersUnmoved(w)
         /\ \A p \in Procs : Abort(p) \/ DeadlockVictim(p) => OthersUnmoved(p)
<1>1. Tick => \A p \in Procs : OthersUnmoved(p) /\ pc' = pc /\ req' = req /\ due' = due /\ seen' = seen
  BY DEF Tick, locks, OthersUnmoved
<1>2. ASSUME NEW p \in Procs, NEW t \in Txns, LockRow(p, t) PROVE OthersUnmoved(p)
  BY <1>2 DEF TypeOK, LockRow, OthersUnmoved
<1>3. ASSUME SweeperStep PROVE OthersUnmoved(Sweeper)
  <2>1. CASE StartMaintenance
    BY <2>1 DEF StartMaintenance, TypeOK, OthersUnmoved, locks
  <2>2. CASE CommitMaintenance
    BY <2>2, FinishUnmoved DEF CommitMaintenance, Procs
  <2> QED
    BY <1>2, <1>3, <2>1, <2>2 DEF SweeperStep, Procs
<1>4. ASSUME NEW w \in Workers, NEW r \in Handoff, Receive(w, r) PROVE OthersUnmoved(w)
  BY <1>4 DEF Receive, TypeOK, OthersUnmoved, locks
<1>5. ASSUME NEW w \in Workers, NEW s \in Subjects, FindConnection(w, s) PROVE OthersUnmoved(w)
  BY <1>5 DEF FindConnection, TypeOK, OthersUnmoved, locks
<1>6. ASSUME NEW w \in Workers, WorkerStep(w) PROVE OthersUnmoved(w)
  <2>1. w \in Procs
    BY DEF Procs
  <2>2. CASE CommitCleanup(w)
    BY <2>1, <2>2 DEF CommitCleanup, ReleaseLocks, TypeOK, OthersUnmoved
  <2>3. CASE LockAccount(w)
    BY <2>1, <2>3, NoneAssumption DEF LockAccount, TypeOK, OthersUnmoved
  <2>4. CASE ReadForStage(w)
    BY <2>1, <2>4 DEF ReadForStage, TypeOK, OthersUnmoved, locks
  <2>5. CASE ReadForComplete(w)
    BY <2>1, <2>5 DEF ReadForComplete, Reading, TypeOK, OthersUnmoved
  <2>6. CASE Finish(w)
    BY <2>1, <2>6, FinishUnmoved
  <2>7. CASE RefreshConnection(w)
    BY <2>1, <2>7 DEF RefreshConnection, TypeOK, OthersUnmoved, locks
  <2> QED
    BY <1>2, <1>6, <2>1, <2>2, <2>3, <2>4, <2>5, <2>6, <2>7
       DEF WorkerStep, CancelPending, AnswerUnchanged, CommitStage, CommitComplete,
           RefusedInsert, CommitDisconnect
<1>7. ASSUME NEW p \in Procs, Abort(p) \/ DeadlockVictim(p) PROVE OthersUnmoved(p)
  <2>1. CASE Abort(p)
    BY <2>1, FinishUnmoved DEF Abort
  <2>2. CASE DeadlockVictim(p)
    <3> SUFFICES ASSUME NEW q \in Procs \ {p}
                 PROVE  /\ pc'[q] = pc[q] /\ req'[q] = req[q] /\ seen'[q] = seen[q] /\ due'[q] = due[q]
                        /\ \A a \in Accounts : acctLock[a] = q => acctLock'[a] = q
                        /\ \A t \in Txns : rowLock[t] = q => rowLock'[t] = q
      BY DEF OthersUnmoved
    <3>1. PICK h \in Procs, t \in Txns :
            /\ WaitsFor(h, p, t)
            /\ rowLock' = [u \in Txns |-> IF u = t THEN h
                                          ELSE IF rowLock[u] = p THEN None ELSE rowLock[u]]
      BY <2>2 DEF DeadlockVictim
    <3>2. \A u \in Txns : rowLock[u] = q => rowLock'[u] = q
      BY <3>1 DEF WaitsFor
    <3> QED
      BY <2>2, <3>2 DEF DeadlockVictim, Forget, TypeOK
  <2> QED
    BY <1>7, <2>1, <2>2
<1> QED
  BY <1>1, <1>3, <1>4, <1>5, <1>6, <1>7

-----------------------------------------------------------------------------
(* The end of a transaction preserves what the others rely on.             *)
LEMMA FinishShape ==
  ASSUME VaultInv, NEW p \in Procs, Finish(p)
  PROVE  ProcessShape'
<1>1. OthersUnmoved(p) /\ pc'[p] = "idle"
  BY FinishUnmoved DEF VaultInv
<1> QED
  BY <1>1 DEF VaultInv, ProcessShape, OthersUnmoved, Procs

(* Every process is at a place that fits its request.                      *)
LEMMA ShapeStep == VaultInv /\ [Next]_vars => ProcessShape'
<1> SUFFICES ASSUME VaultInv, [Next]_vars PROVE ProcessShape'
  OBVIOUS
<1>0. TypeOK /\ ProcessShape
  BY DEF VaultInv
<1>1. CASE Tick
  BY <1>0, <1>1 DEF Tick, ProcessShape
<1>2. CASE StartMaintenance
  BY <1>0, <1>2 DEF StartMaintenance, ProcessShape, TypeOK, Procs
<1>3. ASSUME NEW p \in Procs, NEW t \in Txns, LockRow(p, t) PROVE ProcessShape'
  BY <1>0, <1>3 DEF LockRow, ProcessShape
<1>4. ASSUME NEW w \in Workers, NEW r \in Handoff, Receive(w, r) PROVE ProcessShape'
  BY <1>0, <1>4 DEF Receive, ProcessShape, TypeOK, Procs
<1>5. ASSUME NEW w \in Workers, NEW s \in Subjects, FindConnection(w, s) PROVE ProcessShape'
  <2>1. [kind |-> "disconnect", subject |-> s, account |-> conns[s].account] \in DisconnectRequest
    BY <1>0, <1>5 DEF FindConnection, TypeOK, DisconnectRequest, PinterestConnection, NoConn
  <2> QED
    BY <1>0, <1>5, <2>1 DEF FindConnection, ProcessShape, TypeOK, Procs
<1>6. ASSUME NEW w \in Workers, CommitCleanup(w) PROVE ProcessShape'
  BY <1>0, <1>6 DEF CommitCleanup, ProcessShape, TypeOK, Procs
<1>7. ASSUME NEW w \in Workers, LockAccount(w) PROVE ProcessShape'
  BY <1>0, <1>7 DEF LockAccount, ProcessShape, TypeOK, Procs
<1>8. ASSUME NEW w \in Workers, ReadForStage(w) PROVE ProcessShape'
  <2>1. req[w] \in StageRequest
    BY <1>0, <1>8 DEF ReadForStage, Reading, MayStage, ProcessShape, Handoff, StageRequest,
                      CompleteRequest, CancelRequest, DisconnectRequest
  <2> QED
    BY <1>0, <1>8, <2>1 DEF ReadForStage, ProcessShape, TypeOK, Procs
<1>9. ASSUME NEW w \in Workers, ReadForComplete(w) PROVE ProcessShape'
  <2>1. req[w] \in CompleteRequest
    BY <1>0, <1>9 DEF ReadForComplete, Reading, MayComplete, ProcessShape, Handoff, StageRequest,
                      CompleteRequest, CancelRequest, DisconnectRequest
  <2> QED
    BY <1>0, <1>9, <2>1 DEF ReadForComplete, ProcessShape, TypeOK, Procs
<1>10. ASSUME NEW w \in Workers, RefreshConnection(w) PROVE ProcessShape'
  <2>1. req[w] \in DisconnectRequest
    BY <1>0, <1>10 DEF RefreshConnection, ProcessShape, Handoff, StageRequest,
                       CompleteRequest, CancelRequest
  <2> QED
    BY <1>0, <1>10, <2>1 DEF RefreshConnection, ProcessShape, TypeOK, Procs
<1>11. ASSUME NEW p \in Procs, DeadlockVictim(p) PROVE ProcessShape'
  BY <1>0, <1>11 DEF DeadlockVictim, Forget, ProcessShape, TypeOK, Procs
<1>12. ASSUME NEW p \in Procs, Finish(p) PROVE ProcessShape'
  BY <1>12, FinishShape
<1>13. CASE UNCHANGED vars
  BY <1>0, <1>13 DEF vars, ProcessShape
<1> QED
  BY <1>1, <1>2, <1>3, <1>4, <1>5, <1>6, <1>7, <1>8, <1>9, <1>10, <1>11, <1>12, <1>13
     DEF Next, WorkerStep, SweeperStep, Procs, CommitMaintenance, CancelPending, AnswerUnchanged,
         CommitStage, CommitComplete, RefusedInsert, CommitDisconnect, Abort

(* A row whose status a step changes was absent, or was not locked by      *)
(* anybody but the process that changes it.                                *)
RowsRespected(p) ==
    \A t \in Txns : rows'[t] # rows[t] =>
        \/ rows[t].status = "absent"
        \/ rows[t].status = "pending" /\ rowLock[t] \in {p, None}

(* The end of a transaction, or of its cleanup part: p keeps no lock.      *)
LEMMA LeaveLocks ==
  ASSUME VaultInv, NEW p \in Procs, OthersUnmoved(p), pc'[p] \in {"idle", "lock"},
         \A t \in Txns : rowLock'[t] # None => rowLock[t] # None /\ rows'[t] = rows[t]
  PROVE  LocksHeld'
<1>0. TypeOK /\ ProcessShape /\ LocksHeld
  BY DEF VaultInv
<1>1. ASSUME NEW w \in Workers, pc'[w] \in {"read", "rows", "write"}
      PROVE  acctLock'[req'[w].account] = w
  <2>1. w # p /\ w \in Procs /\ pc'[w] = pc[w] /\ req'[w] = req[w]
    BY <1>1 DEF OthersUnmoved, Procs
  <2>2. acctLock[req[w].account] = w /\ req[w].account \in Accounts
    BY <1>0, <1>1, <2>1 DEF LocksHeld, ProcessShape, Handoff, StageRequest, CompleteRequest,
                            CancelRequest, DisconnectRequest
  <2> QED
    BY <2>1, <2>2 DEF OthersUnmoved
<1>2. ASSUME NEW w \in Workers, pc'[w] = "write", req'[w].kind = "complete"
      PROVE  rowLock'[req'[w].txn] = w
  <2>1. w # p /\ w \in Procs /\ pc'[w] = pc[w] /\ req'[w] = req[w]
    BY <1>2 DEF OthersUnmoved, Procs
  <2>2. rowLock[req[w].txn] = w /\ req[w].txn \in Txns
    BY <1>0, <1>2, <2>1 DEF LocksHeld, ProcessShape, StageRequest, CompleteRequest
  <2> QED
    BY <2>1, <2>2 DEF OthersUnmoved
<1>3. ASSUME NEW t \in Txns, rowLock'[t] # None PROVE rows'[t].status = "pending"
  BY <1>0, <1>3 DEF LocksHeld
<1> QED
  BY <1>1, <1>2, <1>3 DEF LocksHeld

(* A lock released by p, or never held, guards a row that p may change.    *)
LEMMA ReleasedRows ==
  ASSUME VaultInv, NEW p \in Procs, ReleaseLocks(p), RowsRespected(p)
  PROVE  \A t \in Txns : rowLock'[t] # None => rowLock[t] # None /\ rows'[t] = rows[t]
  BY NoneAssumption DEF ReleaseLocks, RowsRespected, VaultInv, LocksHeld

(* Every write of the table of envelopes respects the row locks.           *)
LEMMA WritersRespect ==
  ASSUME VaultInv
  PROVE  /\ CommitMaintenance => RowsRespected(Sweeper)
         /\ \A w \in Workers :
              /\ CommitCleanup(w) => RowsRespected(w)
              /\ CancelPending(w) => RowsRespected(w)
              /\ CommitStage(w) => RowsRespected(w)
              /\ CommitComplete(w) => RowsRespected(w)
              /\ CommitDisconnect(w) => RowsRespected(w)
<1>1. ASSUME NEW p \in Procs, NEW status, AllLocked(p), Erase(due[p], status) PROVE RowsRespected(p)
  <2>1. \A t \in Txns : t \in due[p] => rows[t].status = "pending"
    BY <1>1, DuePending
  <2> QED
    BY <1>1, <2>1 DEF AllLocked, Erase, RowsRespected
<1>2. CommitMaintenance => RowsRespected(Sweeper)
  BY <1>1 DEF CommitMaintenance, Procs
<1>3. ASSUME NEW w \in Workers PROVE CommitCleanup(w) \/ CommitDisconnect(w) => RowsRespected(w)
  BY <1>1 DEF CommitCleanup, CommitDisconnect, Procs
<1>4. ASSUME NEW w \in Workers PROVE CancelPending(w) => RowsRespected(w)
  BY DEF CancelPending, Reading, MayCancel, Erase, RowsRespected
<1>5. ASSUME NEW w \in Workers PROVE CommitStage(w) => RowsRespected(w)
  BY DEF CommitStage, RowsRespected, VaultInv, TypeOK
<1>6. ASSUME NEW w \in Workers, CommitComplete(w) PROVE RowsRespected(w)
  <2>1. rowLock[req[w].txn] = w /\ rows[req[w].txn].status = "pending" /\ req[w].txn \in Txns
    BY <1>6, CompleteEffect
  <2> QED
    BY <1>6, <2>1 DEF CommitComplete, RowsRespected, VaultInv, TypeOK
<1> QED
  BY <1>2, <1>3, <1>4, <1>5, <1>6

(* The lock discipline of every step.                                      *)
LEMMA LocksStep == VaultInv /\ [Next]_vars => LocksHeld'
<1> SUFFICES ASSUME VaultInv, [Next]_vars PROVE LocksHeld'
  OBVIOUS
<1>0. TypeOK /\ ProcessShape /\ LocksHeld
  BY DEF VaultInv
<1> USE DEF tables, locks
<1>1. CASE Tick
  BY <1>0, <1>1 DEF Tick, LocksHeld
<1>2. CASE StartMaintenance
  BY <1>0, <1>2 DEF StartMaintenance, LocksHeld, TypeOK, Procs
<1>3. ASSUME NEW p \in Procs, NEW t \in Txns, LockRow(p, t) PROVE LocksHeld'
  <2>1. CASE rows[t].status = "pending"
    BY <1>0, <1>3, <2>1, NoneAssumption DEF LockRow, LocksHeld, TypeOK, ProcessShape,
       StageRequest, CompleteRequest, Procs
  <2>2. CASE rows[t].status # "pending"
    BY <1>0, <1>3, <2>2 DEF LockRow, LocksHeld
  <2> QED
    BY <2>1, <2>2
<1>4. ASSUME NEW w \in Workers, NEW r \in Handoff, Receive(w, r) PROVE LocksHeld'
  BY <1>0, <1>4 DEF Receive, LocksHeld, TypeOK, Procs
<1>5. ASSUME NEW w \in Workers, NEW s \in Subjects, FindConnection(w, s) PROVE LocksHeld'
  BY <1>0, <1>5 DEF FindConnection, LocksHeld, TypeOK, Procs
<1>6. ASSUME NEW w \in Workers, CommitCleanup(w) PROVE LocksHeld'
  <2>1. /\ w \in Procs /\ OthersUnmoved(w) /\ RowsRespected(w) /\ ReleaseLocks(w)
        /\ pc'[w] = "lock"
    BY <1>0, <1>6, StepUnmoved, WritersRespect DEF CommitCleanup, WorkerStep, TypeOK, Procs
  <2> QED
    BY <2>1, ReleasedRows, LeaveLocks
<1>7. ASSUME NEW w \in Workers, LockAccount(w) PROVE LocksHeld'
  <2>1. acctLock' = [acctLock EXCEPT ![req[w].account] = w] /\ pc' = [pc EXCEPT ![w] = "read"]
        /\ acctLock[req[w].account] = None /\ UNCHANGED <<req, rowLock, rows>>
    BY <1>7 DEF LockAccount
  <2>2. req[w].account \in Accounts
    BY <1>0, <1>7 DEF LockAccount, ProcessShape, Handoff, StageRequest, CompleteRequest,
                      CancelRequest, DisconnectRequest
  <2>3. ASSUME NEW v \in Workers, pc'[v] \in {"read", "rows", "write"}
        PROVE  acctLock'[req'[v].account] = v
    <3>1. CASE v = w
      BY <1>0, <2>1, <2>2, <3>1 DEF TypeOK
    <3>2. CASE v # w
      <4>1. acctLock[req[v].account] = v /\ v # None
        BY <1>0, <2>1, <2>3, <3>2, NoneAssumption DEF LocksHeld, TypeOK, Procs
      <4> QED
        BY <1>0, <2>1, <4>1 DEF TypeOK
    <3> QED
      BY <3>1, <3>2
  <2>4. ASSUME NEW v \in Workers, pc'[v] = "write", req'[v].kind = "complete"
        PROVE  rowLock'[req'[v].txn] = v
    BY <1>0, <2>1, <2>4 DEF LocksHeld, TypeOK, Procs
  <2> QED
    BY <1>0, <2>1, <2>3, <2>4 DEF LocksHeld
<1>8. ASSUME NEW w \in Workers, ReadForStage(w) PROVE LocksHeld'
  BY <1>0, <1>8 DEF ReadForStage, Reading, MayStage, LocksHeld, TypeOK, Procs
<1>9. ASSUME NEW w \in Workers, ReadForComplete(w) PROVE LocksHeld'
  <2>1. /\ rowLock' = [rowLock EXCEPT ![req[w].txn] = w] /\ pc' = [pc EXCEPT ![w] = "write"]
        /\ rowLock[req[w].txn] = None /\ rows[req[w].txn].status = "pending"
        /\ pc[w] = "read" /\ UNCHANGED <<req, acctLock, rows>>
    BY <1>9 DEF ReadForComplete, Reading, MayComplete
  <2>2. req[w].txn \in Txns
    BY <1>0, <1>9 DEF ReadForComplete, Reading, MayComplete, ProcessShape, Handoff, StageRequest,
                      CompleteRequest, CancelRequest, DisconnectRequest
  <2>3. ASSUME NEW v \in Workers, pc'[v] \in {"read", "rows", "write"}
        PROVE  acctLock'[req'[v].account] = v
    BY <1>0, <2>1, <2>3 DEF LocksHeld, TypeOK, Procs
  <2>4. ASSUME NEW v \in Workers, pc'[v] = "write", req'[v].kind = "complete"
        PROVE  rowLock'[req'[v].txn] = v
    <3>1. CASE v = w
      BY <1>0, <2>1, <2>2, <3>1 DEF TypeOK
    <3>2. CASE v # w
      <4>1. rowLock[req[v].txn] = v /\ v # None
        BY <1>0, <2>1, <2>4, <3>2, NoneAssumption DEF LocksHeld, TypeOK, Procs
      <4> QED
        BY <1>0, <2>1, <4>1 DEF TypeOK
    <3> QED
      BY <3>1, <3>2
  <2> QED
    BY <1>0, <2>1, <2>2, <2>3, <2>4 DEF LocksHeld, TypeOK
<1>10. ASSUME NEW w \in Workers, RefreshConnection(w) PROVE LocksHeld'
  BY <1>0, <1>10 DEF RefreshConnection, LocksHeld, TypeOK, Procs
<1>11. ASSUME NEW p \in Procs, DeadlockVictim(p) PROVE LocksHeld'
  <2>1. OthersUnmoved(p) /\ pc'[p] = "idle" /\ rows' = rows
    BY <1>0, <1>11, StepUnmoved DEF DeadlockVictim, Forget, TypeOK
  <2>2. \A t \in Txns : rowLock'[t] # None => rowLock[t] # None
    BY <1>11, NoneAssumption DEF DeadlockVictim, WaitsFor
  <2> QED
    BY <2>1, <2>2, LeaveLocks
<1>12. ASSUME NEW p \in Procs, Finish(p), RowsRespected(p) PROVE LocksHeld'
  <2>1. OthersUnmoved(p) /\ pc'[p] = "idle" /\ ReleaseLocks(p)
    BY <1>0, <1>12, FinishUnmoved DEF Finish
  <2> QED
    BY <1>12, <2>1, ReleasedRows, LeaveLocks
<1>13. ASSUME NEW p \in Procs, AnswerUnchanged(p) \/ RefusedInsert(p) \/ Abort(p) PROVE LocksHeld'
  BY <1>12, <1>13 DEF AnswerUnchanged, RefusedInsert, Abort, RowsRespected
<1>14. CASE CommitMaintenance
  BY <1>12, <1>14, WritersRespect DEF CommitMaintenance, Procs
<1>15. ASSUME NEW w \in Workers,
             CancelPending(w) \/ CommitStage(w) \/ CommitComplete(w) \/ CommitDisconnect(w)
      PROVE  LocksHeld'
  <2>1. w \in Procs /\ Finish(w)
    BY <1>15 DEF CancelPending, CommitStage, CommitComplete, CommitDisconnect, Procs
  <2> QED
    BY <1>12, <1>15, <2>1, WritersRespect
<1>16. CASE UNCHANGED vars
  BY <1>0, <1>16 DEF vars, LocksHeld
<1> QED
  BY <1>1, <1>2, <1>3, <1>4, <1>5, <1>6, <1>7, <1>8, <1>9, <1>10, <1>11, <1>13, <1>14, <1>15,
     <1>16 DEF Next, WorkerStep, SweeperStep, Procs

-----------------------------------------------------------------------------
(* What the tables say about each other.                                   *)
TablesInv == OwnerIsolation /\ ReceiptsMatch /\ ErasedUnlessPending

(* A change of the rows of unfinished envelopes concerns nothing else.     *)
Unfinished ==
    \A t \in Txns : rows'[t] # rows[t] =>
        /\ rows[t].status \in {"absent", "pending"}
        /\ rows'[t].status \in {"pending", "cancelled", "expired"}
        /\ rows'[t].held <=> rows'[t].status = "pending"

(* So it preserves what the tables say, with or without a disconnect.      *)
LEMMA UnfinishedReceipts ==
  ASSUME VaultInv, Unfinished, UNCHANGED <<users, receipts>>
  PROVE  ReceiptsMatch' /\ ErasedUnlessPending'
<1>1. ReceiptsMatch'
  <2> SUFFICES ASSUME NEW t \in Txns
               PROVE  IF rows'[t].status = "completed"
                      THEN /\ receipts[t] = [owner |-> rows'[t].subject, account |-> rows'[t].account]
                           /\ users[receipts[t].owner] = rows'[t].account
                      ELSE receipts[t] = NoReceipt
    BY DEF ReceiptsMatch
  <2>1. CASE rows'[t] = rows[t]
    BY <2>1 DEF VaultInv, ReceiptsMatch
  <2>2. CASE rows'[t] # rows[t]
    BY <2>2 DEF VaultInv, ReceiptsMatch, Unfinished
  <2> QED
    BY <2>1, <2>2
<1>2. ErasedUnlessPending'
  BY DEF VaultInv, ErasedUnlessPending, Unfinished
<1> QED
  BY <1>1, <1>2

(* In particular a change of unfinished envelopes alone.                   *)
LEMMA UnfinishedRows ==
  ASSUME VaultInv, Unfinished, UNCHANGED <<users, conns, receipts>>
  PROVE  TablesInv'
<1>1. OwnerIsolation'
  BY DEF VaultInv, OwnerIsolation, Unfinished, TypeOK, PinterestConnection, NoConn
<1> QED
  BY <1>1, UnfinishedReceipts DEF TablesInv

(* Erasing and staging are changes of unfinished envelopes.                *)
LEMMA EraseUnfinished ==
  ASSUME VaultInv, NEW T, NEW status \in {"cancelled", "expired"}, Erase(T, status),
         \A t \in Txns : t \in T => rows[t].status = "pending"
  PROVE  Unfinished
<1>1. \A t \in Txns : IF t \in T
                      THEN rows'[t] = [rows[t] EXCEPT !.status = status, !.held = FALSE]
                      ELSE rows'[t] = rows[t]
  BY DEF Erase
<1>2. ASSUME NEW t \in Txns, t \in T
      PROVE  rows'[t].status = status /\ rows'[t].held = FALSE
  <2>1. rows[t] \in PendingCredential
    BY <1>2 DEF VaultInv, TypeOK, NoRow
  <2> QED
    BY <1>1, <1>2, <2>1 DEF PendingCredential
<1>3. ASSUME NEW t \in Txns, rows'[t] # rows[t]
      PROVE  /\ rows[t].status = "pending"
             /\ rows'[t].status = status /\ rows'[t].held = FALSE
  <2>1. t \in T
    BY <1>1, <1>3
  <2> QED
    BY <1>2, <2>1
<1> QED
  BY <1>3 DEF Unfinished

(* The inserted row is pending and holds its ciphertext.                   *)
LEMMA StageUnfinished ==
  ASSUME VaultInv, NEW w \in Workers, CommitStage(w)
  PROVE  Unfinished
<1> DEFINE x == req[w].txn
           new == [status |-> "pending", account |-> req[w].account,
                   binding |-> req[w].binding, grant |-> req[w].grant,
                   deadline |-> req[w].deadline, received |-> at[w],
                   expected |-> ConnOfAccount(req[w].account).version, held |-> TRUE,
                   subject |-> None]
<1>1. x \in Txns /\ rows[x].status = "absent" /\ rows' = [rows EXCEPT ![x] = new]
  BY StageEffect
<1>2. new.status = "pending" /\ new.held = TRUE
  OBVIOUS
<1> HIDE DEF new, x
<1>3. \A t \in Txns : rows'[t] = IF t = x THEN new ELSE rows[t]
  BY <1>1 DEF VaultInv, TypeOK
<1> QED
  BY <1>1, <1>2, <1>3 DEF Unfinished

(* A completion: the owner, the tokens and the receipt fit together.       *)
LEMMA CompleteTables ==
  ASSUME VaultInv, NEW w \in Workers, CommitComplete(w)
  PROVE  TablesInv'
<1> DEFINE r == req[w]
           a == r.account
           s == r.subject
           x == r.txn
<1>0. /\ x \in Txns /\ a \in Accounts /\ s \in Subjects
      /\ rows[x] \in PendingCredential
      /\ rows[x].status = "pending" /\ rows[x].account = a
      /\ users[s] \in {None, a}
      /\ \A o \in Subjects : users[o] = a => o = s
  BY CompleteEffect
<1>1. /\ x \in Txns /\ a \in Accounts /\ s \in Subjects /\ a # None /\ x # None
      /\ rows[x] \in PendingCredential
      /\ rows[x].status = "pending" /\ rows[x].account = a
      /\ users[s] \in {None, a}
      /\ \A o \in Subjects : users[o] = a => o = s
  <2> HIDE DEF x, a, s
  <2> QED
    BY <1>0, NoneAssumption
<1>2. conns' = [conns EXCEPT ![s] = [status |-> "active", account |-> a, tokens |-> x,
                                     version |-> conns[s].version + 1]]
  BY CompleteEffect
<1>3. /\ users' = [users EXCEPT ![s] = a]
      /\ receipts' = [receipts EXCEPT ![x] = [owner |-> s, account |-> a]]
      /\ rows' = [rows EXCEPT ![x] = [rows[x] EXCEPT !.status = "completed", !.subject = s,
                                                     !.held = FALSE]]
  BY <1>1 DEF CommitComplete, VaultInv, TypeOK
<1>4. /\ rows'[x].status = "completed" /\ rows'[x].subject = s /\ rows'[x].account = a
      /\ rows'[x].held = FALSE
      /\ \A t \in Txns : t # x => rows'[t] = rows[t]
  BY <1>1, <1>3 DEF VaultInv, TypeOK, PendingCredential
<1>5. /\ users'[s] = a /\ \A o \in Subjects : o # s => users'[o] = users[o]
      /\ \A o \in Subjects : users[o] # None => users'[o] = users[o]
  BY <1>1, <1>3 DEF VaultInv, TypeOK
<1>6. /\ conns'[s].status = "active" /\ conns'[s].account = a /\ conns'[s].tokens = x
      /\ \A o \in Subjects : o # s => conns'[o] = conns[o]
  BY <1>1, <1>2 DEF VaultInv, TypeOK
<1>7. OwnerIsolation'
  <2>1. \A o, q \in Subjects : users'[o] = users'[q] /\ users'[o] # None => o = q
    BY <1>1, <1>5 DEF VaultInv, OwnerIsolation
  <2>2. ASSUME NEW o \in Subjects
        PROVE  /\ conns'[o].account = users'[o]
               /\ conns'[o].status = "absent" <=> users'[o] = None
               /\ conns'[o].status = "active" <=> conns'[o].tokens # None
               /\ conns'[o].tokens # None =>
                     /\ rows'[conns'[o].tokens].status = "completed"
                     /\ rows'[conns'[o].tokens].subject = o
                     /\ rows'[conns'[o].tokens].account = users'[o]
    <3>1. CASE o = s
      BY <1>1, <1>4, <1>5, <1>6, <3>1
    <3>2. CASE o # s
      <4>1. conns'[o] = conns[o] /\ users'[o] = users[o]
        BY <1>5, <1>6, <3>2
      <4>2. conns[o].tokens # None => conns[o].tokens \in Txns
        BY DEF VaultInv, TypeOK, PinterestConnection, NoConn
      <4>3. conns[o].tokens # None => rows'[conns[o].tokens] = rows[conns[o].tokens]
        BY <1>1, <1>4, <4>2 DEF VaultInv, OwnerIsolation
      <4> QED
        BY <4>1, <4>3 DEF VaultInv, OwnerIsolation
    <3> QED
      BY <3>1, <3>2
  <2> QED
    BY <2>1, <2>2 DEF OwnerIsolation
<1>8. ReceiptsMatch'
  <2> SUFFICES ASSUME NEW t \in Txns
               PROVE  IF rows'[t].status = "completed"
                      THEN /\ receipts'[t] = [owner |-> rows'[t].subject, account |-> rows'[t].account]
                           /\ users'[receipts'[t].owner] = rows'[t].account
                      ELSE receipts'[t] = NoReceipt
    BY DEF ReceiptsMatch
  <2>1. CASE t = x
    BY <1>1, <1>3, <1>4, <1>5, <2>1 DEF VaultInv, TypeOK
  <2>2. CASE t # x
    <3>1. rows'[t] = rows[t] /\ receipts'[t] = receipts[t]
      BY <1>3, <1>4, <2>2 DEF VaultInv, TypeOK
    <3>2. CASE rows[t].status # "completed"
      BY <3>1, <3>2 DEF VaultInv, ReceiptsMatch
    <3>3. CASE rows[t].status = "completed"
      <4>1. rows[t] \in PendingCredential
        BY <3>3 DEF VaultInv, TypeOK, NoRow
      <4>2. /\ receipts[t] = [owner |-> rows[t].subject, account |-> rows[t].account]
            /\ users[receipts[t].owner] = rows[t].account
            /\ rows[t].account # None
        BY <3>3, <4>1, NoneAssumption DEF VaultInv, ReceiptsMatch, PendingCredential
      <4>3. receipts[t].owner \in Subjects
        BY <4>2 DEF VaultInv, TypeOK, OAuthCompletionReceipt, NoReceipt
      <4> QED
        BY <1>5, <3>1, <3>3, <4>2, <4>3
    <3> QED
      BY <3>2, <3>3
  <2> QED
    BY <2>1, <2>2
<1>9. ErasedUnlessPending'
  BY <1>4 DEF VaultInv, ErasedUnlessPending
<1> QED
  BY <1>7, <1>8, <1>9 DEF TablesInv

(* A disconnect: an owner without tokens.                                  *)
LEMMA DisconnectTables ==
  ASSUME VaultInv, NEW w \in Workers, CommitDisconnect(w)
  PROVE  TablesInv'
<1> DEFINE s == req[w].subject
<1>1. /\ s \in Subjects /\ users[s] \in Accounts /\ users[s] # None
      /\ conns' = [conns EXCEPT ![s] = [status |-> "disconnected", account |-> users[s],
                                        tokens |-> None, version |-> conns[s].version + 1]]
  BY DisconnectEffect, NoneAssumption
<1>2. Unfinished
  <2>1. w \in Procs /\ AllLocked(w) /\ Erase(due[w], "cancelled")
    BY DEF CommitDisconnect, Procs
  <2> QED
    BY <2>1, DuePending, EraseUnfinished
<1>3. UNCHANGED <<users, receipts>>
  BY DEF CommitDisconnect
<1>4. ReceiptsMatch' /\ ErasedUnlessPending'
  BY <1>2, <1>3, UnfinishedReceipts
<1>5. /\ conns'[s].account = users[s] /\ conns'[s].status = "disconnected" /\ conns'[s].tokens = None
      /\ \A o \in Subjects : o # s => conns'[o] = conns[o]
  BY <1>1 DEF VaultInv, TypeOK
<1>6. ASSUME NEW o \in Subjects
      PROVE  /\ conns'[o].account = users'[o]
             /\ conns'[o].status = "absent" <=> users'[o] = None
             /\ conns'[o].status = "active" <=> conns'[o].tokens # None
             /\ conns'[o].tokens # None =>
                   /\ rows'[conns'[o].tokens].status = "completed"
                   /\ rows'[conns'[o].tokens].subject = o
                   /\ rows'[conns'[o].tokens].account = users'[o]
  <2>1. CASE o = s
    BY <1>1, <1>3, <1>5, <2>1
  <2>2. CASE o # s
    <3>1. conns[o].tokens # None => conns[o].tokens \in Txns
      BY DEF VaultInv, TypeOK, PinterestConnection, NoConn
    <3>2. conns[o].tokens # None => rows'[conns[o].tokens] = rows[conns[o].tokens]
      BY <1>2, <3>1 DEF VaultInv, OwnerIsolation, Unfinished
    <3> QED
      BY <1>3, <1>5, <2>2, <3>2 DEF VaultInv, OwnerIsolation
  <2> QED
    BY <2>1, <2>2
<1>7. OwnerIsolation'
  BY <1>3, <1>6 DEF VaultInv, OwnerIsolation
<1> QED
  BY <1>4, <1>7 DEF TablesInv

(* Every step preserves what the tables say about each other.              *)
LEMMA TablesStep == VaultInv /\ [Next]_vars => TablesInv'
<1> SUFFICES ASSUME VaultInv, [Next]_vars PROVE TablesInv'
  OBVIOUS
<1>1. CASE UNCHANGED tables
  BY <1>1, UnfinishedRows DEF tables, Unfinished
<1>2. ASSUME NEW p \in Procs, AllLocked(p), Erase(due[p], "expired"),
             UNCHANGED <<users, conns, receipts>>
      PROVE  TablesInv'
  BY <1>2, DuePending, EraseUnfinished, UnfinishedRows
<1>3. ASSUME NEW w \in Workers, CancelPending(w) PROVE TablesInv'
  <2>1. \A t \in Txns : t \in {req[w].txn} => rows[t].status = "pending"
    BY <1>3 DEF CancelPending, MayCancel
  <2> QED
    BY <1>3, <2>1, EraseUnfinished, UnfinishedRows DEF CancelPending
<1>4. ASSUME NEW w \in Workers, CommitStage(w) PROVE TablesInv'
  BY <1>4, StageUnfinished, UnfinishedRows DEF CommitStage
<1>5. ASSUME NEW w \in Workers, WorkerStep(w) PROVE TablesInv'
  BY <1>1, <1>2, <1>3, <1>4, <1>5, CompleteTables, DisconnectTables
     DEF WorkerStep, CommitCleanup, LockAccount, ReadForStage, ReadForComplete, AnswerUnchanged,
         RefusedInsert, RefreshConnection, LockRow, tables, Procs
<1>6. CASE SweeperStep
  BY <1>1, <1>2, <1>6 DEF SweeperStep, StartMaintenance, CommitMaintenance, LockRow, tables, Procs
<1> QED
  BY <1>1, <1>5, <1>6 DEF Next, Tick, Receive, FindConnection, Abort, DeadlockVictim, vars, tables

-----------------------------------------------------------------------------
(* What a process has read stays true until it commits.                    *)

(* What worker v relies on, of the three snapshot invariants.              *)
SnapshotOf(v) ==
    LET r == req[v] IN
    /\ pc[v] = "write" /\ r.kind = "stage" => seen[v].conn = ConnOfAccount(r.account)
    /\ pc[v] = "write" /\ r.kind = "complete" =>
          /\ rows[r.txn].status = "pending" /\ Bound(r)
          /\ rows[r.txn].expected = seen[v].conn.version
          /\ IF seen[v].user = None
             THEN /\ seen[v].conn = NoConn
                  /\ \A s \in Subjects : users[s] # r.account
             ELSE /\ seen[v].conn = conns[r.subject]
                  /\ users[r.subject] = r.account
    /\ pc[v] \in {"lock", "read", "rows"} /\ r.kind = "disconnect" =>
          users[r.subject] = r.account
    /\ pc[v] = "rows" =>
          /\ seen[v].conn = conns[r.subject]
          /\ \A t \in due[v] : rows[t].account = r.account
          /\ \A t \in Txns :
               rows[t].status = "pending" /\ rows[t].account = r.account => t \in due[v]

(* The three invariants say just that of every worker.                     *)
LEMMA SnapshotsAre ==
  /\ (\A v \in Workers : SnapshotOf(v)) <=> StageSnapshot /\ CompletionSnapshot /\ DisconnectSnapshot
  /\ (\A v \in Workers : SnapshotOf(v))' <=>
        (StageSnapshot /\ CompletionSnapshot /\ DisconnectSnapshot)'
<1>1. (\A v \in Workers : SnapshotOf(v)) <=> StageSnapshot /\ CompletionSnapshot /\ DisconnectSnapshot
  BY DEF SnapshotOf, StageSnapshot, CompletionSnapshot, DisconnectSnapshot
<1> QED
  BY <1>1, PTL

(* What a step leaves alone: the owner of account a, the connection, and   *)
(* the set of logins under way (it may only shrink).                       *)
Untouched(a) ==
    /\ \A s \in Subjects : /\ users'[s] = a <=> users[s] = a
                           /\ users[s] = a => conns'[s] = conns[s]
    /\ \A t \in Txns : rows'[t].status = "pending" /\ rows'[t].account = a =>
                          rows[t].status = "pending" /\ rows[t].account = a

(* A step of p leaves alone the accounts that p has not locked; owners,    *)
(* and the accounts and deadlines of envelopes, are never changed at all.  *)
AccountsRespected(p) ==
    /\ \A a \in Accounts : acctLock[a] # p => Untouched(a)
    /\ \A s \in Subjects : users[s] # None => users'[s] = users[s]
    /\ \A t \in Txns : rows[t].status # "absent" =>
          /\ rows'[t].status # "absent"
          /\ rows'[t].account = rows[t].account /\ rows'[t].deadline = rows[t].deadline

(* A step that changes no table respects everything.                       *)
LEMMA QuietRespects ==
  ASSUME UNCHANGED tables, NEW p
  PROVE  RowsRespected(p) /\ AccountsRespected(p)
  BY DEF tables, RowsRespected, AccountsRespected, Untouched

(* Erasing pending envelopes does, too, whoever does it.                   *)
LEMMA EraseRespects ==
  ASSUME VaultInv, NEW p, NEW T, NEW status \in {"cancelled", "expired"}, Erase(T, status),
         \A t \in Txns : t \in T => rows[t].status = "pending",
         UNCHANGED <<users, conns>>
  PROVE  AccountsRespected(p)
<1>1. ASSUME NEW t \in Txns
      PROVE  /\ rows'[t].account = rows[t].account /\ rows'[t].deadline = rows[t].deadline
             /\ rows[t].status # "absent" => rows'[t].status # "absent"
             /\ rows'[t].status = "pending" => rows[t].status = "pending"
  <2>1. CASE t \in T
    <3>1. rows[t] \in PendingCredential
      BY <2>1 DEF VaultInv, TypeOK, NoRow
    <3>2. rows'[t] = [rows[t] EXCEPT !.status = status, !.held = FALSE]
      BY <2>1 DEF Erase
    <3> QED
      BY <3>1, <3>2 DEF PendingCredential
  <2>2. CASE t \notin T
    BY <2>2 DEF Erase
  <2> QED
    BY <2>1, <2>2
<1> QED
  BY <1>1 DEF AccountsRespected, Untouched

(* Staging adds a login for the account that is locked.                    *)
LEMMA StageRespects ==
  ASSUME VaultInv, NEW w \in Workers, CommitStage(w)
  PROVE  AccountsRespected(w)
<1> DEFINE x == req[w].txn
           a == req[w].account
           new == [status |-> "pending", account |-> req[w].account,
                   binding |-> req[w].binding, grant |-> req[w].grant,
                   deadline |-> req[w].deadline, received |-> at[w],
                   expected |-> ConnOfAccount(req[w].account).version, held |-> TRUE,
                   subject |-> None]
<1>1. x \in Txns /\ rows[x].status = "absent" /\ rows' = [rows EXCEPT ![x] = new]
      /\ acctLock[a] = w
  BY StageEffect
<1>2. new.account = a
  OBVIOUS
<1>3. UNCHANGED <<users, conns>>
  BY DEF CommitStage
<1> HIDE DEF new, x, a
<1>4. \A t \in Txns : rows'[t] = IF t = x THEN new ELSE rows[t]
  BY <1>1 DEF VaultInv, TypeOK
<1> QED
  BY <1>1, <1>2, <1>3, <1>4 DEF AccountsRespected, Untouched

(* Completing concerns the locked account and its only possible owner.     *)
LEMMA CompleteRespects ==
  ASSUME VaultInv, NEW w \in Workers, CommitComplete(w)
  PROVE  AccountsRespected(w)
<1> DEFINE a == req[w].account
           s == req[w].subject
           x == req[w].txn
<1>1. /\ x \in Txns /\ a \in Accounts /\ s \in Subjects /\ acctLock[a] = w
      /\ rows[x] \in PendingCredential
      /\ users[s] \in {None, a}
  BY CompleteEffect
<1>2. conns' = [conns EXCEPT ![s] = [status |-> "active", account |-> a, tokens |-> x,
                                     version |-> conns[s].version + 1]]
  BY CompleteEffect
<1>3. \A o \in Subjects : o # s => conns'[o] = conns[o] /\ users'[o] = users[o]
  BY <1>2 DEF CommitComplete, VaultInv, TypeOK
<1>4. users'[s] = a
  BY <1>1 DEF CommitComplete, VaultInv, TypeOK
<1>5. rows' = [rows EXCEPT ![x] = [rows[x] EXCEPT !.status = "completed", !.subject = s,
                                                  !.held = FALSE]]
  BY <1>1 DEF CommitComplete, VaultInv, TypeOK
<1>6. /\ rows'[x].status = "completed" /\ rows'[x].account = rows[x].account
      /\ rows'[x].deadline = rows[x].deadline
      /\ \A t \in Txns : t # x => rows'[t] = rows[t]
  BY <1>1, <1>5 DEF VaultInv, TypeOK, PendingCredential
<1>7. None \notin Accounts
  BY NoneAssumption
<1> HIDE DEF a, s, x
<1> QED
  BY <1>1, <1>3, <1>4, <1>6, <1>7 DEF AccountsRespected, Untouched

(* So does a disconnect.                                                   *)
LEMMA DisconnectRespects ==
  ASSUME VaultInv, NEW w \in Workers, CommitDisconnect(w)
  PROVE  AccountsRespected(w)
<1> DEFINE s == req[w].subject
<1>1. s \in Subjects /\ acctLock[users[s]] = w
  BY DisconnectEffect
<1>2. conns' = [conns EXCEPT ![s] = [status |-> "disconnected", account |-> users[s],
                                     tokens |-> None, version |-> conns[s].version + 1]]
  BY DisconnectEffect
<1>3. \A o \in Subjects : o # s => conns'[o] = conns[o]
  BY <1>2 DEF VaultInv, TypeOK
<1>4. users' = users
  BY DEF CommitDisconnect
<1>5. ASSUME NEW t \in Txns
      PROVE  /\ rows'[t].account = rows[t].account /\ rows'[t].deadline = rows[t].deadline
             /\ rows[t].status # "absent" => rows'[t].status # "absent"
             /\ rows'[t].status = "pending" => rows[t].status = "pending"
  <2>1. CASE rows[t].status = "pending" /\ rows[t].account = users[s]
    <3>1. rows[t] \in PendingCredential
      BY <2>1 DEF VaultInv, TypeOK, NoRow
    <3>2. rows'[t] = [rows[t] EXCEPT !.status = "cancelled", !.held = FALSE]
      BY <2>1, DisconnectEffect
    <3> QED
      BY <3>1, <3>2 DEF PendingCredential
  <2>2. CASE ~ (rows[t].status = "pending" /\ rows[t].account = users[s])
    <3>1. rows'[t] = rows[t]
      BY <2>2, DisconnectEffect
    <3> QED
      BY <3>1
  <2> QED
    BY <2>1, <2>2
<1> HIDE DEF s
<1> QED
  BY <1>1, <1>3, <1>4, <1>5 DEF AccountsRespected, Untouched
(* Every step respects the locks on rows and accounts.                     *)
LEMMA StepRespects ==
  ASSUME VaultInv
  PROVE  /\ SweeperStep => RowsRespected(Sweeper) /\ AccountsRespected(Sweeper)
         /\ \A w \in Workers : WorkerStep(w) => RowsRespected(w) /\ AccountsRespected(w)
<1>1. ASSUME NEW p \in Procs, AllLocked(p), Erase(due[p], "expired"),
             UNCHANGED <<users, conns>>
      PROVE  AccountsRespected(p)
  <2>1. \A t \in Txns : t \in due[p] => rows[t].status = "pending"
    BY <1>1, DuePending
  <2> QED
    BY <1>1, <2>1, EraseRespects
<1>2. ASSUME SweeperStep PROVE RowsRespected(Sweeper) /\ AccountsRespected(Sweeper)
  <2>1. CASE UNCHANGED tables
    BY <2>1, QuietRespects
  <2>2. CASE CommitMaintenance
    BY <1>1, <2>2, WritersRespect DEF CommitMaintenance, Procs
  <2> QED
    BY <1>2, <2>1, <2>2 DEF SweeperStep, StartMaintenance, LockRow
<1>3. ASSUME NEW w \in Workers, WorkerStep(w) PROVE RowsRespected(w) /\ AccountsRespected(w)
  <2>1. CASE UNCHANGED tables
    BY <2>1, QuietRespects
  <2>2. CASE CommitCleanup(w)
    BY <1>1, <2>2, WritersRespect DEF CommitCleanup, Procs
  <2>3. CASE CancelPending(w)
    <3>1. \A t \in Txns : t \in {req[w].txn} => rows[t].status = "pending"
      BY <2>3 DEF CancelPending, MayCancel
    <3>2. Erase({req[w].txn}, "cancelled") /\ UNCHANGED <<users, conns>>
      BY <2>3 DEF CancelPending
    <3>3. AccountsRespected(w)
      BY <3>1, <3>2, EraseRespects
    <3> QED
      BY <2>3, <3>3, WritersRespect
  <2> QED
    BY <1>3, <2>1, <2>2, <2>3, StageRespects, CompleteRespects, DisconnectRespects, WritersRespect
       DEF WorkerStep, LockAccount, ReadForStage, ReadForComplete, AnswerUnchanged, RefusedInsert,
           RefreshConnection, LockRow
<1> QED
  BY <1>2, <1>3

(* The connection found for an account is its owner's.                     *)
LEMMA OwnersConnection ==
  ASSUME VaultInv, NEW a \in Accounts
  PROVE  /\ \A s \in Subjects : users[s] = a => ConnOfAccount(a) = conns[s]
         /\ (\A s \in Subjects : users[s] # a) => ConnOfAccount(a) = NoConn
<1>1. a # None /\ \A s \in Subjects : conns[s].account = users[s]
  BY NoneAssumption DEF VaultInv, OwnerIsolation
<1>2. \A s, o \in Subjects : users[s] = a /\ users[o] = a => s = o
  BY <1>1 DEF VaultInv, OwnerIsolation
<1> QED
  BY <1>1, <1>2 DEF ConnOfAccount

(* An account that a step leaves alone keeps its connection.               *)
LEMMA UntouchedConnection ==
  ASSUME VaultInv, TablesInv', NEW a \in Accounts, Untouched(a)
  PROVE  ConnOfAccount(a)' = ConnOfAccount(a)
<1>1. a # None /\ \A s \in Subjects : conns'[s].account = users'[s]
  BY NoneAssumption DEF TablesInv, OwnerIsolation
<1>2. \A s, o \in Subjects : users'[s] = a /\ users'[o] = a => s = o
  BY <1>1 DEF TablesInv, OwnerIsolation
<1>3. /\ \A s \in Subjects : users'[s] = a => ConnOfAccount(a)' = conns'[s]
      /\ (\A s \in Subjects : users'[s] # a) => ConnOfAccount(a)' = NoConn
  BY <1>1, <1>2 DEF ConnOfAccount
<1>4. CASE \E s \in Subjects : users[s] = a
  <2>1. PICK s \in Subjects : users[s] = a
    BY <1>4
  <2>2. ConnOfAccount(a) = conns[s] /\ users'[s] = a /\ conns'[s] = conns[s]
    BY <2>1, OwnersConnection DEF Untouched
  <2> QED
    BY <1>3, <2>2
<1>5. CASE \A s \in Subjects : users[s] # a
  <2>1. ConnOfAccount(a) = NoConn /\ \A s \in Subjects : users'[s] # a
    BY <1>5, OwnersConnection DEF Untouched
  <2> QED
    BY <1>3, <2>1
<1> QED
  BY <1>4, <1>5

(* What the others have read stays true.                                   *)
LEMMA OthersSnapshots ==
  ASSUME VaultInv, TablesInv', NEW p \in Procs,
         OthersUnmoved(p), RowsRespected(p), AccountsRespected(p),
         NEW v \in Workers, v # p
  PROVE  SnapshotOf(v)'
<1> DEFINE r == req[v]
<1>0. /\ pc'[v] = pc[v] /\ req'[v] = r /\ seen'[v] = seen[v] /\ due'[v] = due[v]
      /\ v # None /\ v \in Procs
  BY NoneAssumption DEF OthersUnmoved, Procs
<1>1. SnapshotOf(v)
  BY SnapshotsAre DEF VaultInv
<1>2. ASSUME pc[v] \in {"read", "rows", "write"} PROVE r.account \in Accounts /\ Untouched(r.account)
  <2>1. r.account \in Accounts /\ acctLock[r.account] = v
    BY <1>2 DEF VaultInv, ProcessShape, LocksHeld, Handoff, StageRequest, CompleteRequest,
                CancelRequest, DisconnectRequest
  <2> QED
    BY <2>1 DEF AccountsRespected
<1>3. ASSUME pc[v] = "write", r.kind = "stage"
      PROVE  seen'[v].conn = ConnOfAccount(req[v].account)'
  <2>1. PICK a \in Accounts : a = r.account /\ Untouched(a)
    BY <1>2, <1>3
  <2>2. seen[v].conn = ConnOfAccount(a)
    BY <1>1, <1>3, <2>1 DEF SnapshotOf
  <2>3. ConnOfAccount(a)' = ConnOfAccount(a)
    BY <2>1, UntouchedConnection
  <2>4. ConnOfAccount(req[v].account)' = ConnOfAccount(a)'
    BY <1>0, <2>1 DEF ConnOfAccount
  <2> QED
    BY <1>0, <2>2, <2>3, <2>4
<1>4. ASSUME pc[v] = "write", r.kind = "complete"
      PROVE  /\ rows'[r.txn].status = "pending"
             /\ rows'[r.txn].account = r.account /\ rows'[r.txn].binding = r.binding
             /\ rows'[r.txn].expected = seen[v].conn.version
             /\ IF seen[v].user = None
                THEN /\ seen[v].conn = NoConn
                     /\ \A s \in Subjects : users'[s] # r.account
                ELSE /\ seen[v].conn = conns'[r.subject]
                     /\ users'[r.subject] = r.account
  <2>1. r.txn \in Txns /\ r.subject \in Subjects /\ rowLock[r.txn] = v
    BY <1>4 DEF VaultInv, ProcessShape, LocksHeld, StageRequest, CompleteRequest
  <2>2. rows[r.txn].status = "pending"
    BY <1>1, <1>4 DEF SnapshotOf
  <2>3. rows'[r.txn] = rows[r.txn]
    BY <1>0, <2>1, <2>2 DEF RowsRespected
  <2> QED
    BY <1>1, <1>2, <1>4, <2>1, <2>3 DEF SnapshotOf, Untouched, Bound
<1>5. ASSUME pc[v] \in {"lock", "read", "rows"}, r.kind = "disconnect"
      PROVE  users'[r.subject] = r.account
  <2>1. r.subject \in Subjects /\ r.account \in Accounts
    BY <1>5 DEF VaultInv, ProcessShape, Handoff, StageRequest, CompleteRequest, CancelRequest,
                DisconnectRequest
  <2> QED
    BY <1>1, <1>5, <2>1, NoneAssumption DEF SnapshotOf, AccountsRespected
<1>6. ASSUME pc[v] = "rows"
      PROVE  /\ seen[v].conn = conns'[r.subject]
             /\ \A t \in due[v] : rows'[t].account = r.account
             /\ \A t \in Txns :
                  rows'[t].status = "pending" /\ rows'[t].account = r.account => t \in due[v]
  <2>1. r.kind = "disconnect" /\ r.subject \in Subjects /\ r.account \in Accounts /\ r.account # None
    BY <1>6, NoneAssumption DEF VaultInv, ProcessShape, DisconnectRequest
  <2>2. users[r.subject] = r.account /\ seen[v].conn = conns[r.subject]
    BY <1>1, <1>6, <2>1 DEF SnapshotOf
  <2>3. ASSUME NEW t \in due[v] PROVE rows'[t].account = r.account
    <3>1. t \in Txns /\ rows[t].account = r.account
      BY <1>0, <1>1, <1>6 DEF SnapshotOf, VaultInv, TypeOK
    <3>2. rows[t].status # "absent"
      BY <2>1, <3>1 DEF VaultInv, TypeOK, PendingCredential, NoRow
    <3> QED
      BY <3>1, <3>2 DEF AccountsRespected
  <2> QED
    BY <1>1, <1>2, <1>6, <2>1, <2>2, <2>3 DEF SnapshotOf, Untouched
<1> QED
  BY <1>0, <1>3, <1>4, <1>5, <1>6 DEF SnapshotOf, Bound

(* What the process that moves has read is true when it has read it.       *)
LEMMA OwnSnapshot ==
  ASSUME VaultInv, TypeOK', NEW w \in Workers, WorkerStep(w)
  PROVE  SnapshotOf(w)'
<1> DEFINE r == req[w]
<1>0. w \in Procs /\ w # None /\ TypeOK /\ SnapshotOf(w)
  BY SnapshotsAre, NoneAssumption DEF VaultInv, Procs
<1>1. CASE Finish(w)
  <2>1. pc'[w] = "idle"
    BY <1>0, <1>1, FinishUnmoved
  <2> QED
    BY <2>1 DEF SnapshotOf
<1>2. CASE CommitCleanup(w)
  <2>1. pc'[w] = "lock" /\ req'[w] = r /\ r \in Handoff
    BY <1>0, <1>2 DEF CommitCleanup, VaultInv, ProcessShape, TypeOK
  <2>2. r.kind # "disconnect"
    BY <2>1 DEF Handoff, StageRequest, CompleteRequest, CancelRequest
  <2> QED
    BY <2>1, <2>2 DEF SnapshotOf, Bound
<1>3. CASE LockAccount(w)
  <2>1. pc'[w] = "read" /\ pc[w] = "lock" /\ UNCHANGED <<tables, req>>
    BY <1>0, <1>3 DEF LockAccount, TypeOK
  <2> QED
    BY <1>0, <2>1 DEF SnapshotOf, Bound, tables
<1>4. CASE ReadForStage(w)
  <2>1. /\ pc'[w] = "write" /\ r.kind = "stage" /\ UNCHANGED <<tables, req>>
        /\ seen'[w].conn = ConnOfAccount(r.account)
    BY <1>0, <1>4 DEF ReadForStage, MayStage, TypeOK
  <2>2. ConnOfAccount(r.account)' = ConnOfAccount(r.account)
    BY <2>1 DEF ConnOfAccount, tables
  <2> QED
    BY <2>1, <2>2 DEF SnapshotOf, Bound
<1>5. CASE ReadForComplete(w)
  <2>1. /\ pc'[w] = "write" /\ r.kind = "complete" /\ UNCHANGED <<tables, req>>
        /\ seen'[w] = [user |-> users[r.subject], conn |-> conns[r.subject]]
        /\ pc[w] = "read"
    BY <1>0, <1>5 DEF ReadForComplete, Reading, MayComplete, TypeOK
  <2>2. r \in CompleteRequest
    BY <2>1 DEF VaultInv, ProcessShape, Handoff, StageRequest, CompleteRequest,
                CancelRequest, DisconnectRequest
  <2>3. r.subject \in Subjects /\ r.account \in Accounts /\ r.account # None
    BY <2>2, NoneAssumption DEF CompleteRequest
  <2>4. /\ rows[r.txn].status = "pending" /\ Bound(r)
        /\ conns[r.subject].version = rows[r.txn].expected
        /\ users[r.subject] \in {None, r.account}
        /\ \A s \in Subjects : users[s] = r.account => s = r.subject
    BY <1>5 DEF ReadForComplete, MayComplete
  <2>5. users[r.subject] = None => conns[r.subject] = NoConn
    BY <2>3 DEF VaultInv, OwnerIsolation, TypeOK, PinterestConnection
  <2> QED
    BY <2>1, <2>3, <2>4, <2>5 DEF SnapshotOf, Bound, tables
<1>6. CASE RefreshConnection(w)
  <2>1. /\ pc'[w] = "rows" /\ pc[w] = "read" /\ r.kind = "disconnect" /\ UNCHANGED <<tables, req>>
        /\ seen'[w].conn = conns[r.subject]
        /\ due'[w] = {t \in Txns : rows[t].status = "pending" /\ rows[t].account = r.account}
    BY <1>0, <1>6 DEF RefreshConnection, TypeOK
  <2> QED
    BY <1>0, <2>1 DEF SnapshotOf, Bound, tables
<1>7. ASSUME NEW t \in Txns, LockRow(w, t) PROVE SnapshotOf(w)'
  <2>1. /\ pc'[w] = pc[w] /\ pc[w] \in {"sweeping", "rows"} /\ UNCHANGED <<tables, req, seen>>
        /\ due'[w] = IF rows[t].status = "pending" THEN due[w] ELSE due[w] \ {t}
    BY <1>0, <1>7 DEF LockRow, TypeOK
  <2> QED
    BY <1>0, <2>1 DEF SnapshotOf, Bound, tables
<1> QED
  BY <1>1, <1>2, <1>3, <1>4, <1>5, <1>6, <1>7
     DEF WorkerStep, CancelPending, AnswerUnchanged, CommitStage, CommitComplete, RefusedInsert,
         CommitDisconnect
(* Every step preserves what every worker relies on.                       *)
LEMMA SnapshotStep ==
  VaultInv /\ [Next]_vars => (StageSnapshot /\ CompletionSnapshot /\ DisconnectSnapshot)'
<1> SUFFICES ASSUME VaultInv, [Next]_vars PROVE (\A v \in Workers : SnapshotOf(v))'
  BY SnapshotsAre
<1>0. TypeOK /\ TypeOK' /\ TablesInv' /\ \A v \in Workers : SnapshotOf(v)
  BY TypeStep, TablesStep, SnapshotsAre DEF VaultInv
<1>1. ASSUME NEW w \in Workers, WorkerStep(w) PROVE (\A v \in Workers : SnapshotOf(v))'
  <2>1. w \in Procs /\ OthersUnmoved(w) /\ RowsRespected(w) /\ AccountsRespected(w)
    BY <1>0, <1>1, StepUnmoved, StepRespects DEF Procs
  <2>2. \A v \in Workers : v # w => SnapshotOf(v)'
    BY <1>0, <2>1, OthersSnapshots
  <2>3. SnapshotOf(w)'
    BY <1>0, <1>1, OwnSnapshot
  <2>4. \A v \in Workers : SnapshotOf(v)'
    BY <2>2, <2>3
  <2> QED
    BY <2>4
<1>2. CASE SweeperStep
  <2>1. Sweeper \in Procs /\ OthersUnmoved(Sweeper) /\ RowsRespected(Sweeper)
        /\ AccountsRespected(Sweeper)
    BY <1>0, <1>2, StepUnmoved, StepRespects DEF Procs
  <2>2. \A v \in Workers : v # Sweeper
    BY SweeperAssumption
  <2>3. \A v \in Workers : SnapshotOf(v)'
    BY <1>0, <2>1, <2>2, OthersSnapshots
  <2> QED
    BY <2>3
<1>3. ASSUME NEW p \in Procs, OthersUnmoved(p), UNCHANGED tables, SnapshotOf(p)'
      PROVE  (\A v \in Workers : SnapshotOf(v))'
  <2>1. RowsRespected(p) /\ AccountsRespected(p)
    BY <1>3, QuietRespects
  <2>2. \A v \in Workers : v # p => SnapshotOf(v)'
    BY <1>0, <1>3, <2>1, OthersSnapshots
  <2>3. \A v \in Workers : SnapshotOf(v)'
    BY <1>3, <2>2
  <2> QED
    BY <2>3
<1>4. ASSUME NEW w \in Workers, NEW r \in Handoff, Receive(w, r)
      PROVE  (\A v \in Workers : SnapshotOf(v))'
  <2>1. w \in Procs /\ OthersUnmoved(w) /\ UNCHANGED tables
        /\ pc'[w] \in {"sweeping", "lock"} /\ req'[w] = r
    BY <1>0, <1>4, StepUnmoved DEF Receive, TypeOK, Procs
  <2>2. r.kind # "disconnect"
    BY DEF Handoff, StageRequest, CompleteRequest, CancelRequest
  <2>3. SnapshotOf(w)'
    BY <2>1, <2>2 DEF SnapshotOf, Bound
  <2> QED
    BY <1>3, <2>1, <2>3
<1>5. ASSUME NEW w \in Workers, NEW s \in Subjects, FindConnection(w, s)
      PROVE  (\A v \in Workers : SnapshotOf(v))'
  <2>1. w \in Procs /\ OthersUnmoved(w) /\ UNCHANGED tables /\ pc'[w] = "lock"
        /\ req'[w].subject = s /\ req'[w].account = conns[s].account
    BY <1>0, <1>5, StepUnmoved DEF FindConnection, TypeOK, Procs
  <2>2. users[s] = conns[s].account
    BY DEF VaultInv, OwnerIsolation
  <2>3. SnapshotOf(w)'
    BY <2>1, <2>2 DEF SnapshotOf, Bound, tables
  <2> QED
    BY <1>3, <2>1, <2>3
<1>6. ASSUME NEW p \in Procs, Abort(p) \/ DeadlockVictim(p)
      PROVE  (\A v \in Workers : SnapshotOf(v))'
  <2>1. OthersUnmoved(p) /\ UNCHANGED tables /\ pc'[p] = "idle"
    BY <1>0, <1>6, StepUnmoved DEF Abort, DeadlockVictim, Finish, Forget, TypeOK
  <2>2. SnapshotOf(p)'
    BY <2>1 DEF SnapshotOf
  <2> QED
    BY <1>3, <2>1, <2>2
<1>7. CASE Tick \/ UNCHANGED vars
  <2>1. UNCHANGED <<tables, pc, req, seen, due>>
    BY <1>7 DEF Tick, vars, tables
  <2>2. \A v \in Workers : SnapshotOf(v)'
    BY <1>0, <2>1 DEF SnapshotOf, ConnOfAccount, Bound, tables
  <2> QED
    BY <2>2
<1> QED
  BY <1>1, <1>2, <1>4, <1>5, <1>6, <1>7 DEF Next

-----------------------------------------------------------------------------
(* Theorems                                                                *)

(* No step, of any process at any point, breaks what the vault says.       *)
LEMMA VaultStep == VaultInv /\ [Next]_vars => VaultInv'
<1>1. VaultInv /\ [Next]_vars => TypeOK' /\ ProcessShape' /\ LocksHeld' /\ TablesInv'
  BY TypeStep, ShapeStep, LocksStep, TablesStep
<1> QED
  BY <1>1, SnapshotStep DEF VaultInv, TablesInv

(* What a transaction is about to write is based on what is still there.   *)
LEMMA FreshWrites == VaultInv => NoStaleWrite
<1> SUFFICES ASSUME VaultInv, NEW w \in Workers
             PROVE  /\ pc[w] = "write" /\ req[w].kind = "stage" =>
                          seen[w].conn = ConnOfAccount(req[w].account)
                    /\ pc[w] = "write" /\ req[w].kind = "complete" /\ InsertsAllowed(w) =>
                          /\ seen[w].conn = conns[req[w].subject]
                          /\ conns[req[w].subject].version = rows[req[w].txn].expected
                          /\ rows[req[w].txn].status = "pending"
                    /\ pc[w] = "rows" => seen[w].conn = conns[req[w].subject]
  BY DEF NoStaleWrite
<1>1. ASSUME pc[w] = "write", req[w].kind = "complete", InsertsAllowed(w)
      PROVE  seen[w].conn = conns[req[w].subject]
  <2>1. CASE seen[w].user = None
    <3>1. req[w].subject \in Subjects
      BY <1>1 DEF VaultInv, ProcessShape, StageRequest, CompleteRequest
    <3>2. users[req[w].subject] = None /\ seen[w].conn = NoConn
      BY <1>1, <2>1 DEF InsertsAllowed, VaultInv, CompletionSnapshot
    <3> QED
      BY <3>1, <3>2 DEF VaultInv, OwnerIsolation, TypeOK, PinterestConnection
  <2>2. CASE seen[w].user # None
    BY <1>1, <2>2 DEF VaultInv, CompletionSnapshot
  <2> QED
    BY <2>1, <2>2
<1> QED
  BY <1>1 DEF VaultInv, StageSnapshot, CompletionSnapshot, DisconnectSnapshot

(* The inductive invariant, and with it type correctness, holds always.    *)
THEOREM VaultInvariance == Spec => []VaultInv
BY VaultInit, VaultStep, PTL DEF Spec

(* Every variable keeps its type: the tables stay well formed.             *)
THEOREM VaultTypeCorrect == Spec => []TypeOK
<1>1. VaultInv => TypeOK
  BY DEF VaultInv
<1> QED
  BY <1>1, VaultInvariance, PTL

(* Credentials are never cross-wired between accounts or owners.           *)
THEOREM VaultIsolation == Spec => []OwnerIsolation
<1>1. VaultInv => OwnerIsolation
  BY DEF VaultInv
<1> QED
  BY <1>1, VaultInvariance, PTL

(* Receipts tell what was completed; ciphertext lasts while it is pending. *)
THEOREM VaultRecords == Spec => [](ReceiptsMatch /\ ErasedUnlessPending)
<1>1. VaultInv => ReceiptsMatch /\ ErasedUnlessPending
  BY DEF VaultInv
<1> QED
  BY <1>1, VaultInvariance, PTL

(* No transaction writes on the ground of a version it has not seen.       *)
THEOREM VaultFreshWrites == Spec => []NoStaleWrite
BY FreshWrites, VaultInvariance, PTL
=============================================================================
