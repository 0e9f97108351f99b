---------------------------- MODULE DirectIngress ----------------------------
(***************************************************************************)
(* process_credential_ingress (ingress.py): a signed request that passes   *)
(* the replay protection of HandoffNonce installs its tokens at once.  It  *)
(* takes no account lock: what it reads in three queries, and loads, may   *)
(* be out of date when it commits, and only the unique keys of the tables  *)
(* and the receipt of its transaction stand between two of its kind.  The  *)
(* owner may disconnect meanwhile.                                         *)
(*                                                                         *)
(* Its flushes are seen by others at the commit only, as in                *)
(* CredentialVault; a flush that meets an uncommitted row of another       *)
(* transaction waits for the end of that one, and then goes on or is       *)
(* refused as if it came after it.  A subject stands for an issuer and a   *)
(* subject.                                                                *)
(***************************************************************************)
EXTENDS HandoffNonce

CONSTANTS
    Txns, Subjects, Accounts,
    KeyIds,     \* a key has one identifier everywhere
    KeyEnv,     \* KeyEnv[h]: the key settings of the process that h runs in
    MaxVersion  \* bound: no disconnect is asked for from this version on

Payloads == [txn : Txns, subject : Subjects, account : Accounts, refresh : BOOLEAN]

\* A ciphertext: the key and the additional data that it was sealed with; `by'
\* is the request it is from, and makes it unlike any other.  In the column of
\* the access token None is the tombstone of a disconnect.
Ciphertext ==
    [key : KeyIds, owner : Subjects, account : Accounts, by : Nonces \cup {None}]

Receipt == [owner : Subjects, account : Accounts, digest : Payloads]

\* CredentialCipher.from_env: the key of the settings is the primary one.
Ring(h) ==
    LET e == KeyEnv[h]
        keys == e.fallback \cup (IF e.material THEN {e.id} ELSE {})
    IN [keys |-> keys, primary |-> IF e.id \in keys THEN e.id ELSE CHOOSE k \in keys : TRUE]

ASSUME IngressAssumption ==
    /\ KeyEnv \in [Handlers -> [id : KeyIds, material : BOOLEAN, fallback : SUBSET KeyIds]]
    /\ \A h \in Handlers : Ring(h).keys # {}
    /\ None \notin Subjects \cup Accounts \cup Payloads \cup Ciphertext \cup Receipt
    /\ None \notin {"persisted", "duplicate", "refused"}
    /\ MaxVersion \in Nat
\* Keys are changed in phases: every process has a key before one of them
\* seals with it, and keeps it as long as it seals anything.
ASSUME RingAssumption == \A g, h \in Handlers : Ring(g).primary \in Ring(h).keys

VARIABLES
    body,       \* body[n]: the payload of the request with nonce n
    users,      \* users[s]: the account of subject s
    conns,      \* conns[s]: the connection that s owns
    receipts,   \* receipts[t]: the completion receipt of t
    job,        \* job[h]: the transaction of an authenticated request
    leaving,    \* the disconnect in progress
    installs,   \* installs[t]: how often tokens of t were installed
    answers     \* answers[n]: what the sender of n was told

tables == <<users, conns, receipts>>
vars == <<nonceVars, body, tables, job, leaving, installs, answers>>

NoConn == [status |-> "none"]
NoJob == [stage |-> "idle"]
Nobody == [subject |-> None]

PinterestConnection ==
    [account : Accounts, access : Ciphertext \cup {None}, refresh : Ciphertext \cup {None},
     keyId : KeyIds, version : Nat, status : {"active", "disconnected"}]

TypeOK ==
    /\ NonceTypeOK
    /\ body \in [Nonces -> Payloads \cup {None}]
    /\ users \in [Subjects -> Accounts \cup {None}]
    /\ conns \in [Subjects -> PinterestConnection \cup {NoConn}]
    /\ receipts \in [Txns -> Receipt \cup {None}]
    /\ job \in [Handlers -> {NoJob} \cup
                  [stage : {"receipt", "user", "account", "create", "update"},
                   nonce : Nonces, loaded : PinterestConnection \cup {NoConn}]]
    /\ leaving \in [subject : Subjects, loaded : PinterestConnection] \cup {Nobody}
    /\ installs \in [Txns -> Nat]
    /\ answers \in [Nonces -> {None, "persisted", "duplicate", "refused"}]

\* There may be an owner already, from an earlier login.
Init ==
    /\ NonceInit
    /\ body = [n \in Nonces |-> None]
    /\ receipts = [t \in Txns |-> None]
    /\ job = [h \in Handlers |-> NoJob]
    /\ leaving = Nobody
    /\ installs = [t \in Txns |-> 0]
    /\ answers = [n \in Nonces |-> None]
    /\ \/ users = [s \in Subjects |-> None] /\ conns = [s \in Subjects |-> NoConn]
       \/ \E s \in Subjects, a \in Accounts, h \in Handlers :
            LET sealed == [key |-> Ring(h).primary, owner |-> s, account |-> a, by |-> None]
            IN /\ users = [t \in Subjects |-> IF t = s THEN a ELSE None]
               /\ conns = [t \in Subjects |-> IF t # s THEN NoConn ELSE
                     [account |-> a, access |-> sealed, refresh |-> None,
                      keyId |-> Ring(h).primary, version |-> 1, status |-> "active"]]

-----------------------------------------------------------------------------
\* The sender signs a payload, perhaps one that it has sent before.
SignPayload(n, stamp, p) ==
    /\ Sign(n, stamp)
    /\ body' = [body EXCEPT ![n] = p]
    /\ UNCHANGED <<tables, job, leaving, installs, answers>>

Authenticate(h, n) ==
    /\ job[h] = NoJob
    /\ Verify(h, n)
    /\ UNCHANGED <<body, tables, job, leaving, installs, answers>>

\* The answer of the nonce store: the first copy begins its transaction.
Begin(h) ==
    LET n == checked[h].nonce
    IN /\ Consume(h)
       /\ job' = IF Remembered(n) THEN job
                 ELSE [job EXCEPT ![h] = [stage |-> "receipt", nonce |-> n, loaded |-> NoConn]]
       /\ UNCHANGED <<body, tables, leaving, installs, answers>>

Sent(h) == body[job[h].nonce]

Go(h, stage, loaded) ==
    /\ job' = [job EXCEPT ![h] = [stage |-> stage, nonce |-> job[h].nonce, loaded |-> loaded]]
    /\ UNCHANGED <<nonceVars, body, tables, leaving, installs, answers>>

\* The transaction ends with nothing written.
Reply(h, answer) ==
    /\ job' = [job EXCEPT ![h] = NoJob]
    /\ answers' = [answers EXCEPT ![job[h].nonce] = answer]
    /\ UNCHANGED <<nonceVars, body, tables, leaving, installs>>

\* Mutant: a receipt with another digest is a duplicate, too.
CheckReceipt_AnyDigest(h) ==
    LET receipt == receipts[Sent(h).txn]
    IN /\ job[h].stage = "receipt"
       /\ \/ receipt = None /\ Go(h, "user", NoConn)
          \/ receipt # None /\ Reply(h, "duplicate")

CheckReceipt(h) ==
    LET receipt == receipts[Sent(h).txn]
    IN /\ job[h].stage = "receipt"
       /\ \/ receipt = None /\ Go(h, "user", NoConn)
          \/ receipt # None /\ receipt.digest = Sent(h) /\ Reply(h, "duplicate")
          \/ receipt # None /\ receipt.digest # Sent(h) /\ Reply(h, "refused")

\* get_by_issuer_subject; the connection of a user that exists is loaded.
FindUser(h) ==
    LET s == Sent(h).subject
    IN /\ job[h].stage = "user"
       /\ \/ users[s] = None /\ Go(h, "account", NoConn)
          \/ users[s] = Sent(h).account /\ Go(h, "update", conns[s])
          \/ users[s] \notin {None, Sent(h).account} /\ Reply(h, "refused")

OwnerOf(a) == {s \in Subjects : users[s] = a}

\* get_by_provider_account, and create_user.
FindAccountOwner(h) ==
    /\ job[h].stage = "account"
    /\ \/ OwnerOf(Sent(h).account) = {} /\ Go(h, "create", NoConn)
       \/ OwnerOf(Sent(h).account) # {} /\ Reply(h, "refused")

-----------------------------------------------------------------------------
Sealed(h) ==
    [key |-> Ring(h).primary, owner |-> Sent(h).subject, account |-> Sent(h).account,
     by |-> job[h].nonce]

Refresh(h) == IF Sent(h).refresh THEN Sealed(h) ELSE None

\* save_initial_connection without a connection.
NewConnection(h) ==
    [account |-> Sent(h).account, access |-> Sealed(h), refresh |-> Refresh(h),
     keyId |-> Ring(h).primary, version |-> 1, status |-> "active"]

\* Every change counts the version; the column that names the key stays.
Changed(row, access, refresh, status) ==
    [account |-> row.account, access |-> access, refresh |-> refresh,
     keyId |-> row.keyId, version |-> row.version + 1, status |-> status]

\* reconnect_connection.
Reconnected(h) == Changed(job[h].loaded, Sealed(h), Refresh(h), "active")

Wanted(h) == IF job[h].loaded = NoConn THEN NewConnection(h) ELSE Reconnected(h)

\* What a flush makes of the row that is there now: an insert, or the columns
\* that have changed since they were loaded.
Flushed(loaded, wanted, current) ==
    LET Column(l, w, c) == IF w = l THEN c ELSE w
    IN IF loaded = NoConn THEN wanted ELSE
       [account |-> current.account,
        access |-> Column(loaded.access, wanted.access, current.access),
        refresh |-> Column(loaded.refresh, wanted.refresh, current.refresh),
        keyId |-> current.keyId,
        version |-> Column(loaded.version, wanted.version, current.version),
        status |-> Column(loaded.status, wanted.status, current.status)]

\* Mutant: a receipt does not have the transaction as its key.
InsertsAllowed_AnyReceipt(h) ==
    LET s == Sent(h).subject
    IN /\ job[h].stage = "create" => users[s] = None /\ OwnerOf(Sent(h).account) = {}
       /\ job[h].loaded = NoConn => conns[s] = NoConn

\* Mutant: an account is not unique among the users.
InsertsAllowed_AnyAccount(h) ==
    LET s == Sent(h).subject
    IN /\ receipts[Sent(h).txn] = None
       /\ job[h].stage = "create" => users[s] = None
       /\ job[h].loaded = NoConn => conns[s] = NoConn

\* The unique keys of the tables.
InsertsAllowed(h) ==
    LET s == Sent(h).subject
    IN /\ receipts[Sent(h).txn] = None
       /\ job[h].stage = "create" => users[s] = None /\ OwnerOf(Sent(h).account) = {}
       /\ job[h].loaded = NoConn => conns[s] = NoConn

\* User, connection and receipt, in one commit.
Commit(h) ==
    LET p == Sent(h)
    IN /\ job[h].stage \in {"create", "update"}
       /\ InsertsAllowed(h)
       /\ users' = [users EXCEPT ![p.subject] = p.account]
       /\ conns' = [conns EXCEPT ![p.subject] = Flushed(job[h].loaded, Wanted(h), @)]
       /\ receipts' = [receipts EXCEPT ![p.txn] =
                        [owner |-> p.subject, account |-> p.account, digest |-> p]]
       /\ installs' = [installs EXCEPT ![p.txn] = @ + 1]
       /\ answers' = [answers EXCEPT ![job[h].nonce] = "persisted"]
       /\ job' = [job EXCEPT ![h] = NoJob]
       /\ UNCHANGED <<nonceVars, body, leaving>>

\* IntegrityError: the whole transaction is rolled back.
RefusedInsert(h) ==
    /\ job[h].stage \in {"create", "update"}
    /\ ~InsertsAllowed(h)
    /\ Reply(h, "refused")

\* A crash or an outage: a rollback, and no answer.
Abort(h) ==
    /\ job[h] # NoJob
    /\ job' = [job EXCEPT ![h] = NoJob]
    /\ UNCHANGED <<nonceVars, body, tables, leaving, installs, answers>>

\* disconnect_connection: the row is read again under the account lock, which
\* keeps other disconnects away, and nobody of this module.
LoadToDisconnect(s) ==
    /\ leaving = Nobody
    /\ conns[s] # NoConn
    /\ conns[s].version < MaxVersion
    /\ leaving' = [subject |-> s, loaded |-> conns[s]]
    /\ UNCHANGED <<nonceVars, body, tables, job, installs, answers>>

CommitDisconnect ==
    LET gone == Changed(leaving.loaded, None, None, "disconnected")
    IN /\ leaving # Nobody
       /\ conns' = [conns EXCEPT ![leaving.subject] = Flushed(leaving.loaded, gone, @)]
       /\ leaving' = Nobody
       /\ UNCHANGED <<nonceVars, body, users, receipts, job, installs, answers>>

Clock == Tick /\ UNCHANGED <<body, tables, job, leaving, installs, answers>>

Next ==
    \/ Clock
    \/ \E n \in Nonces, stamp \in 0 .. MaxTime, p \in Payloads : SignPayload(n, stamp, p)
    \/ \E h \in Handlers, n \in Nonces : Authenticate(h, n)
    \/ \E h \in Handlers :
         Begin(h) \/ CheckReceipt(h) \/ FindUser(h) \/ FindAccountOwner(h)
           \/ Commit(h) \/ RefusedInsert(h) \/ Abort(h)
    \/ \E s \in Subjects : LoadToDisconnect(s)
    \/ CommitDisconnect

Spec == Init /\ [][Next]_vars

-----------------------------------------------------------------------------
\* The tokens of a transaction are installed at most once, however many
\* requests carry it, in however many copies, at the same time or late
\* (ingress.py 221-237, models.py 141).
InstalledOnce == \A t \in Txns : installs[t] <= 1

\* An account has one owner, a connection is to its owner's account, and a
\* receipt names both, although nothing locks the account (ingress.py 246-270).
OneOwner ==
    /\ \A s, t \in Subjects : users[s] # None /\ users[s] = users[t] => s = t
    /\ \A s \in Subjects : conns[s] # NoConn => conns[s].account = users[s]
    /\ \A t \in Txns : receipts[t] # None => users[receipts[t].owner] = receipts[t].account

\* Who is told that a payload is persisted, or was before, can rely on it:
\* this payload, and no other of its transaction, was installed, for this
\* owner.
AnswersTrue ==
    \A n \in Nonces : answers[n] \in {"persisted", "duplicate"} =>
        /\ receipts[body[n].txn] =
             [owner |-> body[n].subject, account |-> body[n].account, digest |-> body[n]]
        /\ installs[body[n].txn] > 0

\* Mutant: a process opens with its primary key, whatever a ciphertext names.
Opens_Primary(h, c, s, a) == c.key = Ring(h).primary /\ c.owner = s /\ c.account = a

\* CredentialCipher.decrypt.
Opens(h, c, s, a) == c.key \in Ring(h).keys /\ c.owner = s /\ c.account = a

\* Whatever tokens a connection holds can be opened by every process, for
\* their owner and account, while keys are changed and although requests and
\* disconnects overwrite each other column by column (repository.py 95-126 and
\* 245-312).
Readable ==
    \A s \in Subjects, h \in Handlers : conns[s] # NoConn =>
        \A c \in {conns[s].access, conns[s].refresh} \ {None} :
            Opens(h, c, s, conns[s].account)
=============================================================================
