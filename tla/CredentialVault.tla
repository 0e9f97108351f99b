--------------------------- MODULE CredentialVault ---------------------------
(***************************************************************************)
(* The two-stage credential handoff: the database transactions of          *)
(* pending.process_pending, pending.expire_pending and                     *)
(* ConnectionRepository.disconnect_connection, run concurrently by the     *)
(* workers of the private ingress and by its 30-second maintenance task.   *)
(*                                                                         *)
(* The tables are what PostgreSQL has committed.  A transaction is a       *)
(* worker that goes through stages: it takes the account's advisory lock,  *)
(* reads under row locks, and writes when it commits.  What it read stays  *)
(* in its own snapshot (seen, at, due), which other transactions may make  *)
(* stale.  Writes become visible at the commit, so the flushes of one      *)
(* transaction and its commit are one step.  Only one issuer exists: the   *)
(* ingress refuses a payload with any other.                               *)
(***************************************************************************)
EXTENDS Naturals, FiniteSets

CONSTANTS
    Txns,         \* transaction identifiers drawn by the broker
    Accounts,     \* Pinterest account identifiers
    Subjects,     \* identity-provider subjects; a user's id is its subject
    Bindings,     \* browser/client session hashes
    Grants,       \* token payloads that Pinterest may have issued
    GrantLife,    \* GrantLife[g]: the expires_in of a payload
    Workers,      \* requests that may be in flight at the same time
    Sweeper,      \* the maintenance task of the ingress
    None,
    Window,       \* longest accepted time to a deadline (300 s in the code)
    MaxTime,      \* bound: the clock stops here
    MaxVersion    \* bound: no disconnect is asked for from this version on

Procs == Workers \cup {Sweeper}

ASSUME NoneAssumption ==
    None \notin Txns \cup Accounts \cup Subjects \cup Bindings \cup Grants \cup Procs
ASSUME SweeperAssumption == Sweeper \notin Workers
ASSUME LifeAssumption == GrantLife \in [Grants -> Nat \ {0}]
ASSUME BoundAssumption == {Window, MaxTime, MaxVersion} \subseteq Nat

VARIABLES
    now,        \* the clock
    users,      \* users[s]: the account of the user row of s, or None
    conns,      \* conns[s]: the connection row owned by s
    rows,       \* rows[t]: the pending-credential row of t
    receipts,   \* receipts[t]: the completion receipt of t
    acctLock,   \* acctLock[a]: the transaction holding the advisory lock
    rowLock,    \* rowLock[t]: the transaction holding the row lock
    pc,         \* pc[p]: where process p is
    req,        \* req[p]: the request it serves
    at,         \* at[p]: the clock value it works with
    due,        \* due[p]: the rows its bulk UPDATE has selected
    seen,       \* seen[p]: the user and connection rows it has read
    outage      \* transactions may still be lost to crashes and outages

tables == <<users, conns, rows, receipts>>
locks == <<acctLock, rowLock>>
vars == <<now, tables, locks, pc, req, at, due, seen, outage>>

-----------------------------------------------------------------------------
(* Rows, requests and types.  A row that does not exist has status absent. *)

NoRow == [status |-> "absent", account |-> None, binding |-> None,
          grant |-> None, deadline |-> 0, received |-> 0, expected |-> 0,
          held |-> FALSE, subject |-> None]
NoConn == [status |-> "absent", account |-> None, tokens |-> None, version |-> 0]
NoReceipt == [owner |-> None, account |-> None]
NothingSeen == [user |-> None, conn |-> NoConn]

PendingCredential ==
    [status : {"pending", "completed", "cancelled", "expired"},
     account : Accounts, binding : Bindings, grant : Grants,
     deadline : Nat, received : Nat, expected : Nat,
     held : BOOLEAN,                      \* the ciphertext is still there
     subject : Subjects \cup {None}]
(* tokens names the envelope the usable token pair came from; None stands  *)
(* for the tombstone text that a disconnect puts in its place.             *)
PinterestConnection ==
    [status : {"active", "disconnected"}, account : Accounts,
     tokens : Txns \cup {None}, version : Nat]
OAuthCompletionReceipt == [owner : Subjects, account : Accounts]

StageRequest ==
    [kind : {"stage"}, txn : Txns, account : Accounts, binding : Bindings,
     grant : Grants, deadline : 1 .. MaxTime]
CompleteRequest ==
    [kind : {"complete"}, txn : Txns, account : Accounts, binding : Bindings,
     subject : Subjects]
CancelRequest ==
    [kind : {"cancel"}, txn : Txns, account : Accounts, binding : Bindings]
DisconnectRequest ==
    [kind : {"disconnect"}, subject : Subjects, account : Accounts]
NoRequest == [kind |-> "none"]
Handoff == StageRequest \cup CompleteRequest \cup CancelRequest

TypeOK ==
    /\ now \in Nat
    /\ users \in [Subjects -> Accounts \cup {None}]
    /\ conns \in [Subjects -> PinterestConnection \cup {NoConn}]
    /\ rows \in [Txns -> PendingCredential \cup {NoRow}]
    /\ receipts \in [Txns -> OAuthCompletionReceipt \cup {NoReceipt}]
    /\ acctLock \in [Accounts -> Procs \cup {None}]
    /\ rowLock \in [Txns -> Procs \cup {None}]
    /\ pc \in [Procs -> {"idle", "sweeping", "lock", "read", "rows", "write"}]
    /\ req \in [Procs -> Handoff \cup DisconnectRequest \cup {NoRequest}]
    /\ at \in [Procs -> Nat]
    /\ due \in [Procs -> SUBSET Txns]
    /\ seen \in [Procs -> [user : Accounts \cup {None},
                           conn : PinterestConnection \cup {NoConn}]]
    /\ outage \in BOOLEAN

Init ==
    /\ now = 0
    /\ users = [s \in Subjects |-> None]
    /\ conns = [s \in Subjects |-> NoConn]
    /\ rows = [t \in Txns |-> NoRow]
    /\ receipts = [t \in Txns |-> NoReceipt]
    /\ acctLock = [a \in Accounts |-> None]
    /\ rowLock = [t \in Txns |-> None]
    /\ pc = [p \in Procs |-> "idle"]
    /\ req = [p \in Procs |-> NoRequest]
    /\ at = [p \in Procs |-> 0]
    /\ due = [p \in Procs |-> {}]
    /\ seen = [p \in Procs |-> NothingSeen]
    /\ outage = TRUE

-----------------------------------------------------------------------------
(* The end of a transaction releases every lock it holds.                  *)

(* Mutant: an advisory lock of the session outlives the transaction.       *)
ReleaseLocks_SessionLock(p) ==
    /\ UNCHANGED acctLock
    /\ rowLock' = [t \in Txns |-> IF rowLock[t] = p THEN None ELSE rowLock[t]]

ReleaseLocks(p) ==
    /\ acctLock' = [a \in Accounts |-> IF acctLock[a] = p THEN None ELSE acctLock[a]]
    /\ rowLock' = [t \in Txns |-> IF rowLock[t] = p THEN None ELSE rowLock[t]]

Forget(p) ==
    /\ pc' = [pc EXCEPT ![p] = "idle"]
    /\ req' = [req EXCEPT ![p] = NoRequest]
    /\ at' = [at EXCEPT ![p] = 0]
    /\ due' = [due EXCEPT ![p] = {}]
    /\ seen' = [seen EXCEPT ![p] = NothingSeen]

Finish(p) == Forget(p) /\ ReleaseLocks(p)

Tick ==
    /\ now < MaxTime
    /\ now' = now + 1
    /\ UNCHANGED <<tables, locks, pc, req, at, due, seen, outage>>

-----------------------------------------------------------------------------
(* Bulk updates: the statement selects its rows, locks them one by one     *)
(* waiting where it must, rechecks each, and takes effect at the commit.   *)

(* Mutant: the deadline is compared the wrong way round.                   *)
DueRows_Inverted(clock) ==
    {t \in Txns : rows[t].status = "pending" /\ rows[t].deadline > clock}

DueRows(clock) ==
    {t \in Txns : rows[t].status = "pending" /\ rows[t].deadline <= clock}

(* maintain: every 30 seconds; a sweep that selects nothing changes nothing *)
StartMaintenance ==
    /\ pc[Sweeper] = "idle"
    /\ DueRows(now) # {}
    /\ pc' = [pc EXCEPT ![Sweeper] = "sweeping"]
    /\ due' = [due EXCEPT ![Sweeper] = DueRows(now)]
    /\ UNCHANGED <<now, tables, locks, req, at, seen, outage>>

(* handoff: an authenticated request first runs a cleanup of its own; if   *)
(* that selects no row, process_pending begins and reads the clock.        *)
Receive(w, r) ==
    /\ pc[w] = "idle"
    /\ req' = [req EXCEPT ![w] = r]
    /\ due' = [due EXCEPT ![w] = DueRows(now)]
    /\ IF DueRows(now) # {}
       THEN pc' = [pc EXCEPT ![w] = "sweeping"] /\ UNCHANGED at
       ELSE pc' = [pc EXCEPT ![w] = "lock"] /\ at' = [at EXCEPT ![w] = now]
    /\ UNCHANGED <<now, tables, locks, seen, outage>>

(* Mutant: a row that was awaited is not looked at again.                  *)
LockRow_NoRecheck(p, t) ==
    /\ pc[p] \in {"sweeping", "rows"}
    /\ t \in due[p]
    /\ rowLock[t] = None
    /\ rowLock' = [rowLock EXCEPT ![t] = p]
    /\ UNCHANGED <<now, tables, acctLock, pc, req, at, due, seen, outage>>

LockRow(p, t) ==
    /\ pc[p] \in {"sweeping", "rows"}
    /\ t \in due[p]
    /\ rowLock[t] = None
    /\ IF rows[t].status = "pending"
       THEN rowLock' = [rowLock EXCEPT ![t] = p] /\ UNCHANGED due
       ELSE due' = [due EXCEPT ![p] = @ \ {t}] /\ UNCHANGED rowLock
    /\ UNCHANGED <<now, tables, acctLock, pc, req, at, seen, outage>>

AllLocked(p) == \A t \in due[p] : rowLock[t] = p

(* The given rows lose their ciphertext and keep a tombstone.              *)
Erase(T, status) ==
    rows' = [t \in Txns |-> IF t \in T
                            THEN [rows[t] EXCEPT !.status = status, !.held = FALSE]
                            ELSE rows[t]]

CommitMaintenance ==
    /\ pc[Sweeper] = "sweeping"
    /\ AllLocked(Sweeper)
    /\ Erase(due[Sweeper], "expired")
    /\ Finish(Sweeper)
    /\ UNCHANGED <<now, users, conns, receipts, outage>>

(* The request's cleanup commits; process_pending begins and reads the clock. *)
CommitCleanup(w) ==
    /\ pc[w] = "sweeping"
    /\ AllLocked(w)
    /\ Erase(due[w], "expired")
    /\ ReleaseLocks(w)
    /\ due' = [due EXCEPT ![w] = {}]
    /\ pc' = [pc EXCEPT ![w] = "lock"]
    /\ at' = [at EXCEPT ![w] = now]
    /\ UNCHANGED <<now, users, conns, receipts, req, seen, outage>>

-----------------------------------------------------------------------------
(* process_pending                                                         *)

(* Mutant: the account is not locked against other transactions.           *)
LockAccount_NoWait(w) ==
    /\ pc[w] = "lock"
    /\ acctLock' = [acctLock EXCEPT ![req[w].account] = w]
    /\ at' = [at EXCEPT ![w] = now]
    /\ pc' = [pc EXCEPT ![w] = "read"]
    /\ UNCHANGED <<now, tables, rowLock, req, due, seen, outage>>

(* Mutant: the clock is not read again once the lock is there.             *)
LockAccount_OldClock(w) ==
    /\ pc[w] = "lock"
    /\ acctLock[req[w].account] = None
    /\ acctLock' = [acctLock EXCEPT ![req[w].account] = w]
    /\ pc' = [pc EXCEPT ![w] = "read"]
    /\ UNCHANGED <<now, tables, rowLock, req, at, due, seen, outage>>

(* lock_account, after which the clock is read again.                      *)
LockAccount(w) ==
    /\ pc[w] = "lock"
    /\ acctLock[req[w].account] = None
    /\ acctLock' = [acctLock EXCEPT ![req[w].account] = w]
    /\ at' = [at EXCEPT ![w] = now]
    /\ pc' = [pc EXCEPT ![w] = "read"]
    /\ UNCHANGED <<now, tables, rowLock, req, due, seen, outage>>

(* Mutants: the account, or the browser session, is not compared.          *)
Bound_AnyAccount(r) == rows[r.txn].binding = r.binding
Bound_AnySession(r) == rows[r.txn].account = r.account

(* Transaction, binding and account of the row are those of the request.   *)
Bound(r) == rows[r.txn].account = r.account /\ rows[r.txn].binding = r.binding

(* The connection of an account, wherever its owner is (stage looks it up  *)
(* by account), or no connection.                                          *)
ConnOfAccount(a) ==
    IF \E s \in Subjects : conns[s].account = a
    THEN conns[CHOOSE s \in Subjects : conns[s].account = a]
    ELSE NoConn

MayStage(r, clock) ==
    /\ r.kind = "stage"
    /\ rows[r.txn].status = "absent"
    /\ clock < r.deadline /\ r.deadline <= clock + Window

MayCancel(r) ==
    /\ r.kind = "cancel"
    /\ rows[r.txn].status = "pending"
    /\ Bound(r)

(* Mutant: the connection may have been written since the staging.         *)
MayComplete_AnyVersion(r, clock) ==
    LET row == rows[r.txn] IN
    /\ r.kind = "complete"
    /\ row.status = "pending" /\ row.deadline > clock
    /\ Bound(r)
    /\ users[r.subject] \in {None, r.account}
    /\ \A s \in Subjects : users[s] = r.account => s = r.subject
    /\ row.held
    /\ row.received + GrantLife[row.grant] > clock

MayComplete(r, clock) ==
    LET row == rows[r.txn] IN
    /\ r.kind = "complete"
    /\ row.status = "pending" /\ row.deadline > clock
    /\ Bound(r)
    /\ users[r.subject] \in {None, r.account}
    /\ \A s \in Subjects : users[s] = r.account => s = r.subject
    /\ conns[r.subject].version = row.expected
    /\ conns[r.subject].account \in {None, r.account}
    /\ row.held
    /\ row.received + GrantLife[row.grant] > clock

(* FOR UPDATE waits for the row's lock; a row that is absent has none.     *)
Reading(w) ==
    /\ pc[w] = "read"
    /\ req[w].kind # "disconnect"
    /\ rowLock[req[w].txn] = None

ReadForStage(w) ==
    /\ Reading(w)
    /\ MayStage(req[w], at[w])
    /\ seen' = [seen EXCEPT ![w].conn = ConnOfAccount(req[w].account)]
    /\ pc' = [pc EXCEPT ![w] = "write"]
    /\ UNCHANGED <<now, tables, locks, req, at, due, outage>>

ReadForComplete(w) ==
    /\ Reading(w)
    /\ MayComplete(req[w], at[w])
    /\ rowLock' = [rowLock EXCEPT ![req[w].txn] = w]
    /\ seen' = [seen EXCEPT ![w] = [user |-> users[req[w].subject],
                                    conn |-> conns[req[w].subject]]]
    /\ pc' = [pc EXCEPT ![w] = "write"]
    /\ UNCHANGED <<now, tables, acctLock, req, at, due, outage>>

CancelPending(w) ==
    /\ Reading(w)
    /\ MayCancel(req[w])
    /\ Erase({req[w].txn}, "cancelled")
    /\ Finish(w)
    /\ UNCHANGED <<now, users, conns, receipts, outage>>

(* Every rejection, and every repeat that is answered from what is stored: *)
(* a matching stage or complete retry, a cancel of a finished transaction. *)
AnswerUnchanged(w) ==
    /\ Reading(w)
    /\ ~ MayStage(req[w], at[w]) /\ ~ MayComplete(req[w], at[w]) /\ ~ MayCancel(req[w])
    /\ Finish(w)
    /\ UNCHANGED <<now, tables, outage>>

(* The insert, refused by the primary key if another transaction has       *)
(* inserted the same transaction_id since it was read.                     *)
CommitStage(w) ==
    LET r == req[w] IN
    /\ pc[w] = "write"
    /\ r.kind = "stage"
    /\ rows[r.txn].status = "absent"
    /\ rows' = [rows EXCEPT ![r.txn] =
                  [status |-> "pending", account |-> r.account,
                   binding |-> r.binding, grant |-> r.grant,
                   deadline |-> r.deadline, received |-> at[w],
                   expected |-> seen[w].conn.version, held |-> TRUE,
                   subject |-> None]]
    /\ Finish(w)
    /\ UNCHANGED <<now, users, conns, receipts, outage>>

(* An ORM flush writes the columns that differ from what was loaded, and   *)
(* leaves the others as they are in the database by then.                  *)
Flushed(loaded, wanted, stored) ==
    [status |-> IF wanted.status = loaded.status THEN stored.status ELSE wanted.status,
     account |-> stored.account,
     tokens |-> IF wanted.tokens = loaded.tokens THEN stored.tokens ELSE wanted.tokens,
     version |-> IF wanted.version = loaded.version THEN stored.version ELSE wanted.version]

(* save_initial_connection: a first connection, or a reconnect of its own. *)
SavedConnection(w) ==
    LET r == req[w]
        loaded == seen[w].conn
        wanted == [status |-> "active", account |-> r.account, tokens |-> r.txn,
                   version |-> loaded.version + 1]
    IN IF loaded.status = "absent" THEN wanted
       ELSE Flushed(loaded, wanted, conns[r.subject])

(* Mutant: one subject may be inserted twice, with different accounts.     *)
InsertsAllowed_AnySubject(w) ==
    seen[w].user = None => \A s \in Subjects : users[s] # req[w].account

(* Unique account, unique issuer and subject, one connection per owner.    *)
InsertsAllowed(w) ==
    LET r == req[w] IN
    /\ seen[w].user = None =>
         users[r.subject] = None /\ \A s \in Subjects : users[s] # r.account
    /\ seen[w].conn.status = "absent" => conns[r.subject].status = "absent"

CommitComplete(w) ==
    LET r == req[w] IN
    /\ pc[w] = "write"
    /\ r.kind = "complete"
    /\ InsertsAllowed(w)
    /\ users' = [users EXCEPT ![r.subject] = r.account]
    /\ conns' = [conns EXCEPT ![r.subject] = SavedConnection(w)]
    /\ receipts' = [receipts EXCEPT ![r.txn] = [owner |-> r.subject, account |-> r.account]]
    /\ rows' = [rows EXCEPT ![r.txn].status = "completed",
                            ![r.txn].subject = r.subject,
                            ![r.txn].held = FALSE]
    /\ Finish(w)
    /\ UNCHANGED <<now, outage>>

(* A unique constraint refuses the insert: the transaction rolls back.     *)
RefusedInsert(w) ==
    /\ pc[w] = "write"
    /\ \/ req[w].kind = "stage" /\ rows[req[w].txn].status # "absent"
       \/ req[w].kind = "complete" /\ ~ InsertsAllowed(w)
    /\ Finish(w)
    /\ UNCHANGED <<now, tables, outage>>

-----------------------------------------------------------------------------
(* disconnect_connection                                                   *)

(* get_for_owner tells the account; then it waits for the account's lock.  *)
FindConnection(w, s) ==
    /\ pc[w] = "idle"
    /\ conns[s].status # "absent"
    /\ conns[s].version < MaxVersion
    /\ req' = [req EXCEPT ![w] = [kind |-> "disconnect", subject |-> s,
                                  account |-> conns[s].account]]
    /\ pc' = [pc EXCEPT ![w] = "lock"]
    /\ UNCHANGED <<now, tables, locks, at, due, seen, outage>>

(* refresh(conn), then the bulk update selects the account's envelopes.    *)
RefreshConnection(w) ==
    /\ pc[w] = "read"
    /\ req[w].kind = "disconnect"
    /\ seen' = [seen EXCEPT ![w].conn = conns[req[w].subject]]
    /\ due' = [due EXCEPT ![w] = {t \in Txns : /\ rows[t].status = "pending"
                                               /\ rows[t].account = req[w].account}]
    /\ pc' = [pc EXCEPT ![w] = "rows"]
    /\ UNCHANGED <<now, tables, locks, req, at, outage>>

CommitDisconnect(w) ==
    LET s == req[w].subject
        loaded == seen[w].conn
        wanted == [status |-> "disconnected", account |-> loaded.account,
                   tokens |-> None, version |-> loaded.version + 1]
    IN
    /\ pc[w] = "rows"
    /\ AllLocked(w)
    /\ Erase(due[w], "cancelled")
    /\ conns' = [conns EXCEPT ![s] = Flushed(loaded, wanted, @)]
    /\ Finish(w)
    /\ UNCHANGED <<now, users, receipts, outage>>

-----------------------------------------------------------------------------
(* Failures                                                                *)

(* A crash, a lost connection or a cancelled request: all is rolled back.  *)
Abort(p) ==
    /\ pc[p] # "idle"
    /\ outage
    /\ Finish(p)
    /\ UNCHANGED <<now, tables, outage>>

(* From here on nothing fails: only liveness needs to speak of it.         *)
OutagesEnd ==
    /\ outage
    /\ outage' = FALSE
    /\ UNCHANGED <<now, tables, locks, pc, req, at, due, seen>>

(* p waits for row t, which q has locked.                                  *)
WaitsFor(p, q, t) ==
    /\ pc[p] \in {"sweeping", "rows"}
    /\ q # p
    /\ t \in due[p]
    /\ rowLock[t] = q

(* Bulk updates lock their rows in any order, so they may wait for each    *)
(* other; PostgreSQL breaks the circle (D) by rolling one of them back,    *)
(* and its row goes to the one in the circle that is queued for it.        *)
DeadlockVictim(p) ==
    /\ \E D \in SUBSET Procs :
         /\ p \in D
         /\ \A q \in D : /\ \E r \in D, t \in Txns : WaitsFor(q, r, t)
                         /\ \E r \in D, t \in Txns : WaitsFor(r, q, t)
         /\ \E q \in D, t \in Txns :
              /\ WaitsFor(q, p, t)
              /\ rowLock' = [u \in Txns |-> IF u = t THEN q
                                            ELSE IF rowLock[u] = p THEN None ELSE rowLock[u]]
    /\ acctLock' = [a \in Accounts |-> IF acctLock[a] = p THEN None ELSE acctLock[a]]
    /\ Forget(p)
    /\ UNCHANGED <<now, tables, outage>>

-----------------------------------------------------------------------------
WorkerStep(w) ==
    \/ CommitCleanup(w) \/ LockAccount(w)
    \/ ReadForStage(w) \/ ReadForComplete(w) \/ CancelPending(w) \/ AnswerUnchanged(w)
    \/ CommitStage(w) \/ CommitComplete(w) \/ RefusedInsert(w)
    \/ RefreshConnection(w) \/ CommitDisconnect(w)
    \/ \E t \in Txns : LockRow(w, t)

SweeperStep ==
    \/ StartMaintenance \/ CommitMaintenance
    \/ \E t \in Txns : LockRow(Sweeper, t)

Next ==
    \/ Tick
    \/ SweeperStep
    \/ \E w \in Workers : (\E r \in Handoff : Receive(w, r)) \/ (\E s \in Subjects : FindConnection(w, s))
    \/ \E w \in Workers : WorkerStep(w)
    \/ \E p \in Procs : Abort(p) \/ DeadlockVictim(p)

Spec == Init /\ [][Next]_vars

(* Scheduling: time passes, the event loop runs what can run, PostgreSQL   *)
(* queues its lock requests, so that none waits for ever on a lock that is *)
(* freed again and again (SF), and it detects deadlocks.  Outages end.     *)
(* Nobody has to send a request, and nothing has to fail.                  *)
Fairness ==
    /\ WF_vars(Tick) /\ WF_vars(OutagesEnd)
    /\ \A w \in Workers : SF_vars(WorkerStep(w))
    /\ SF_vars(SweeperStep)
    /\ WF_vars(\E p \in Procs : DeadlockVictim(p))

FairSpec == Init /\ [][Next \/ OutagesEnd]_vars /\ Fairness

-----------------------------------------------------------------------------
(* Safety                                                                  *)

(* An account has one owner, a connection is to its owner's account, and   *)
(* the tokens it can use come from a login that the same owner completed   *)
(* for that account; a disconnected one has none.  So two logins that race *)
(* for an account, or one subject that logs in with two accounts, cannot   *)
(* cross-wire credentials.                                                 *)
OwnerIsolation ==
    /\ \A s, o \in Subjects : users[s] = users[o] /\ users[s] # None => s = o
    /\ \A s \in Subjects :
        /\ conns[s].account = users[s]
        /\ conns[s].status = "absent" <=> users[s] = None
        /\ conns[s].status = "active" <=> conns[s].tokens # None
        /\ conns[s].tokens # None =>
              LET row == rows[conns[s].tokens] IN
              /\ row.status = "completed"
              /\ row.subject = s
              /\ row.account = users[s]

(* A completed login, and only that, has a receipt, for the subject and    *)
(* the account that completed it: what complete retries are answered from. *)
ReceiptsMatch ==
    \A t \in Txns :
        IF rows[t].status = "completed"
        THEN /\ receipts[t] = [owner |-> rows[t].subject, account |-> rows[t].account]
             /\ users[receipts[t].owner] = rows[t].account
        ELSE receipts[t] = NoReceipt

(* A login is finished, or given up, by a request that names the same      *)
(* account and browser session as the one that staged it, unless it is     *)
(* swept away at its deadline or by the owner's disconnect.                *)
SameSession ==
    [][\A t \in Txns :
         rows[t].status = "pending" /\ rows'[t].status # "pending" =>
           \/ rows'[t].status = "expired" /\ rows[t].deadline <= now
           \/ \E w \in Workers :
                /\ acctLock[rows[t].account] = w
                /\ acctLock'[rows[t].account] = None
                /\ req[w].account = rows[t].account
                /\ req[w].kind # "disconnect" =>
                      req[w].txn = t /\ req[w].binding = rows[t].binding]_vars

(* Ciphertext exists exactly as long as its login is pending.              *)
ErasedUnlessPending == \A t \in Txns : rows[t].held <=> rows[t].status = "pending"

(* A transaction that is about to write has read what is still there,      *)
(* although it read before it commits and others commit in between: a      *)
(* completion or a disconnect never overwrites a version it did not see,   *)
(* and an envelope is stored with the version its login starts from.       *)
NoStaleWrite ==
    \A w \in Workers :
        /\ pc[w] = "write" /\ req[w].kind = "stage" =>
              seen[w].conn = ConnOfAccount(req[w].account)
        /\ pc[w] = "write" /\ req[w].kind = "complete" /\ InsertsAllowed(w) =>
              /\ seen[w].conn = conns[req[w].subject]
              /\ conns[req[w].subject].version = rows[req[w].txn].expected
              /\ rows[req[w].txn].status = "pending"
        /\ pc[w] = "rows" => seen[w].conn = conns[req[w].subject]

(* Why these hold: what each process relies on at each point.  VaultInv is *)
(* inductive.                                                              *)

ProcessShape ==
    /\ pc[Sweeper] \in {"idle", "sweeping"}
    /\ \A w \in Workers :
        /\ pc[w] = "sweeping" => req[w] \in Handoff
        /\ pc[w] \in {"lock", "read"} => req[w] \in Handoff \cup DisconnectRequest
        /\ pc[w] = "write" => req[w] \in StageRequest \cup CompleteRequest
        /\ pc[w] = "rows" => req[w] \in DisconnectRequest

(* From the lock to the end a worker holds its account, and a completion   *)
(* the row it has read; a locked row is pending until its holder writes.   *)
LocksHeld ==
    /\ \A w \in Workers :
        /\ pc[w] \in {"read", "rows", "write"} => acctLock[req[w].account] = w
        /\ pc[w] = "write" /\ req[w].kind = "complete" => rowLock[req[w].txn] = w
    /\ \A t \in Txns : rowLock[t] # None => rows[t].status = "pending"

StageSnapshot ==
    \A w \in Workers :
        pc[w] = "write" /\ req[w].kind = "stage" =>
          seen[w].conn = ConnOfAccount(req[w].account)

(* What a completion has read is still there, except that a subject that   *)
(* was unknown may have become the owner of another account: then the      *)
(* unique constraint refuses the insert.                                   *)
CompletionSnapshot ==
    \A w \in Workers :
        pc[w] = "write" /\ req[w].kind = "complete" =>
          LET r == req[w]
              row == rows[r.txn]
          IN
          /\ row.status = "pending" /\ Bound(r)
          /\ row.expected = seen[w].conn.version
          /\ IF seen[w].user = None
             THEN /\ seen[w].conn = NoConn
                  /\ \A s \in Subjects : users[s] # r.account
             ELSE /\ seen[w].conn = conns[r.subject]
                  /\ users[r.subject] = r.account

DisconnectSnapshot ==
    \A w \in Workers :
        /\ pc[w] \in {"lock", "read", "rows"} /\ req[w].kind = "disconnect" =>
              users[req[w].subject] = req[w].account
        /\ pc[w] = "rows" =>
              /\ seen[w].conn = conns[req[w].subject]
              /\ \A t \in due[w] : rows[t].account = req[w].account
              /\ \A t \in Txns :
                   rows[t].status = "pending" /\ rows[t].account = req[w].account => t \in due[w]

VaultInv ==
    /\ TypeOK /\ ProcessShape /\ LocksHeld
    /\ StageSnapshot /\ CompletionSnapshot /\ DisconnectSnapshot
    /\ OwnerIsolation /\ ReceiptsMatch /\ ErasedUnlessPending

(* The committed tables go through the steps of the abstract ledger: an    *)
(* envelope is installed at most once and only onto the version it was     *)
(* staged at, a disconnect voids in the same step every login under way    *)
(* for the account, and what is void or completed stays so.                *)
Ledger ==
    INSTANCE CredentialLedger WITH
        stage <- [t \in Txns |-> IF rows[t].status \in {"cancelled", "expired"}
                                 THEN "void" ELSE rows[t].status],
        account <- [t \in Txns |-> rows[t].account],
        basis <- [t \in Txns |-> rows[t].expected],
        holder <- users,
        version <- [s \in Subjects |-> conns[s].version],
        live <- [s \in Subjects |-> conns[s].tokens]

ImplementsLedger == Ledger!Spec

(* An envelope whose deadline passes while nobody works on its account is  *)
(* never installed, however long a request has been waiting for the lock:  *)
(* lock contention does not extend the lifetime of a login.                *)
Lapsed(t) ==
    /\ rows[t].status = "pending"
    /\ rows[t].deadline <= now
    /\ acctLock[rows[t].account] = None

LapsedNeverInstalled ==
    \A t \in Txns : [](Lapsed(t) => [](rows[t].status # "completed"))

(* Liveness                                                                *)

(* The ciphertext of a login that nobody finishes is erased in the end.    *)
EnvelopesErased == \A t \in Txns : rows[t].held ~> ~ rows[t].held

(* Every request is answered: no lock, row or deadlock holds it for ever.  *)
RequestsAnswered == \A w \in Workers : pc[w] # "idle" ~> pc[w] = "idle"
=============================================================================
