------------------------- MODULE DirectIngressProofs -------------------------
(***************************************************************************)
(* The safety of the direct ingress, for any number of requests, copies,   *)
(* handlers, transactions, owners and keys.  That no request is accepted   *)
(* twice is inherited from HandoffNonce: every step here is a step, or no  *)
(* step, of its nonces.  The rest follows from one inductive invariant: a  *)
(* row of a connection, as it is now or as somebody has loaded it, names   *)
(* its owner's account and holds what was sealed for that owner, so that   *)
(* no mixture of columns can hold anything else.                           *)
(***************************************************************************)
EXTENDS DirectIngress, TLAPS

(* HandoffNonce, for every number of requests and copies, and for all      *)
(* constants that respect TtlAssumption: IndInv is inductive.              *)

(* Nothing is signed, served or remembered in the initial state.           *)
LEMMA NonceStarts == NonceInit => IndInv
  BY NonceAssumption DEF NonceInit, IndInv, NonceTypeOK, SignedOnce, InFlightWasFresh, KeptWhileFresh, NotServing

(* Type correctness of every step.                                         *)
LEMMA NonceTypeStep == IndInv /\ [NonceNext]_nonceVars => NonceTypeOK'
<1> SUFFICES ASSUME IndInv, [NonceNext]_nonceVars PROVE NonceTypeOK'
  OBVIOUS
<1> USE NonceAssumption DEF IndInv, NonceTypeOK
<1>1. CASE Tick
  BY <1>1 DEF Tick
<1>2. ASSUME NEW n \in Nonces, NEW stamp \in 0 .. MaxTime, Sign(n, stamp) PROVE NonceTypeOK'
  BY <1>2 DEF Sign
<1>3. ASSUME NEW h \in Handlers, NEW n \in Nonces, Verify(h, n) PROVE NonceTypeOK'
  BY <1>3 DEF Verify
<1>4. ASSUME NEW h \in Handlers, Consume(h) PROVE NonceTypeOK'
  BY <1>4 DEF Consume, NotServing
<1>5. CASE UNCHANGED nonceVars
  BY <1>5 DEF nonceVars
<1> QED
  BY <1>1, <1>2, <1>3, <1>4, <1>5 DEF NonceNext

(* A copy in flight stays within MaxStall of the moment it was fresh.      *)
LEMMA InFlightStep == IndInv /\ [NonceNext]_nonceVars => InFlightWasFresh'
<1> SUFFICES ASSUME IndInv, [NonceNext]_nonceVars PROVE InFlightWasFresh'
  OBVIOUS
<1> USE NonceAssumption DEF IndInv, NonceTypeOK, InFlightWasFresh
<1>1. CASE Tick
  BY <1>1 DEF Tick
<1>2. ASSUME NEW n \in Nonces, NEW stamp \in 0 .. MaxTime, Sign(n, stamp) PROVE InFlightWasFresh'
  BY <1>2 DEF Sign, NotServing
<1>3. ASSUME NEW h \in Handlers, NEW n \in Nonces, Verify(h, n) PROVE InFlightWasFresh'
  BY <1>3 DEF Verify, Fresh
<1>4. ASSUME NEW h \in Handlers, Consume(h) PROVE InFlightWasFresh'
  BY <1>4 DEF Consume
<1>5. CASE UNCHANGED nonceVars
  BY <1>5 DEF nonceVars
<1> QED
  BY <1>1, <1>2, <1>3, <1>4, <1>5 DEF NonceNext

(* A nonce that was accepted is kept until no copy of it can go through:   *)
(* the store's answer comes at most MaxStall after the freshness check.    *)
LEMMA KeptStep == IndInv /\ [NonceNext]_nonceVars => SignedOnce' /\ KeptWhileFresh'
<1> SUFFICES ASSUME IndInv, [NonceNext]_nonceVars PROVE SignedOnce' /\ KeptWhileFresh'
  OBVIOUS
<1> USE NonceAssumption DEF IndInv, NonceTypeOK, SignedOnce, KeptWhileFresh
<1>1. CASE Tick
  BY <1>1 DEF Tick
<1>2. ASSUME NEW n \in Nonces, NEW stamp \in 0 .. MaxTime, Sign(n, stamp)
      PROVE  SignedOnce' /\ KeptWhileFresh'
  BY <1>2 DEF Sign
<1>3. ASSUME NEW h \in Handlers, NEW n \in Nonces, Verify(h, n)
      PROVE  SignedOnce' /\ KeptWhileFresh'
  BY <1>3 DEF Verify
<1>4. ASSUME NEW h \in Handlers, Consume(h) PROVE SignedOnce' /\ KeptWhileFresh'
  <2> DEFINE n == checked[h].nonce
  <2>1. /\ n \in Nonces /\ checked[h].stamp \in signed[n]
        /\ checked[h].at \in Nat /\ checked[h].stamp \in Nat
        /\ now <= checked[h].at + MaxStall
        /\ checked[h].at <= now
        /\ checked[h].at - checked[h].stamp <= MaxAge
        /\ checked[h].stamp - checked[h].at <= MaxAge
    BY <1>4 DEF Consume, InFlightWasFresh
  <2>2. \A stamp \in signed[n] : stamp = checked[h].stamp
    BY <2>1
  <2>3. CASE Remembered(n)
    BY <1>4, <2>3 DEF Consume
  <2>4. CASE ~ Remembered(n)
    <3>1. expiry[n] = None
      <4> SUFFICES ASSUME expiry[n] # None PROVE FALSE
        OBVIOUS
      <4>1. expiry[n] \in Nat /\ expiry[n] >= checked[h].stamp - MaxAge + Ttl
        BY <2>1
      <4>2. expiry[n] <= now
        BY <2>4, <4>1 DEF Remembered
      <4> QED
        BY <2>1, <4>1, <4>2, TtlAssumption
    <3>2. /\ expiry' = [expiry EXCEPT ![n] = now + Ttl]
          /\ accepted' = [accepted EXCEPT ![n] = @ + 1]
          /\ UNCHANGED signed
      BY <1>4, <2>4 DEF Consume
    <3>3. accepted'[n] = 1 /\ expiry'[n] = now + Ttl
      BY <2>1, <3>1, <3>2
    <3>4. \A stamp \in signed'[n] : expiry'[n] >= stamp - MaxAge + Ttl
      BY <2>1, <2>2, <3>2, <3>3
    <3> QED
      BY <2>1, <3>2, <3>3, <3>4
  <2> QED
    BY <2>3, <2>4
<1>5. CASE UNCHANGED nonceVars
  BY <1>5 DEF nonceVars
<1> QED
  BY <1>1, <1>2, <1>3, <1>4, <1>5 DEF NonceNext

(* No signed request of the broker is processed twice, in every instance   *)
(* of authenticate_ingress and its nonce store.                            *)
THEOREM NonceSafety == NonceSpec => [](IndInv /\ AcceptedAtMostOnce)
<1>1. NonceInit => IndInv
  BY NonceStarts
<1>2. IndInv /\ [NonceNext]_nonceVars => IndInv'
  BY NonceTypeStep, InFlightStep, KeptStep DEF IndInv
<1>3. IndInv => AcceptedAtMostOnce
  <2> SUFFICES ASSUME IndInv, NEW n \in Nonces PROVE accepted[n] <= 1
    BY DEF AcceptedAtMostOnce
  <2>1. accepted[n] = 0 \/ accepted[n] = 1
    BY DEF IndInv, KeptWhileFresh
  <2> QED
    BY <2>1
<1> QED
  BY <1>1, <1>2, <1>3, PTL DEF NonceSpec

-----------------------------------------------------------------------------
\* A row that the owner s of account a has, or had.
SealedFor(s, a, c) == c.owner = s /\ c.account = a /\ \E g \in Handlers : c.key = Ring(g).primary

Held(s, a, conn) ==
    /\ conn.account = a
    /\ conn.access # None => SealedFor(s, a, conn.access)
    /\ conn.refresh # None => SealedFor(s, a, conn.refresh)

IngressTypes ==
    /\ body \in [Nonces -> Payloads \cup {None}]
    /\ users \in [Subjects -> Accounts \cup {None}]
    /\ conns \in [Subjects -> PinterestConnection \cup {NoConn}]
    /\ receipts \in [Txns -> Receipt \cup {None}]
    /\ job \in [Handlers -> {NoJob} \cup
                  [stage : {"receipt", "user", "account", "create", "update"},
                   nonce : Nonces, loaded : PinterestConnection \cup {NoConn}]]
    /\ leaving \in [subject : Subjects, loaded : PinterestConnection] \cup {Nobody}
    /\ installs \in [Txns -> Nat]
    /\ answers \in [Nonces -> {None, "persisted", "duplicate", "refused"}]

\* What is in hand, or answered, was signed before, and stays what it is.
Signed ==
    /\ \A n \in Nonces : signed[n] = {} <=> body[n] = None
    /\ \A n \in Nonces : answers[n] # None => body[n] # None
    /\ \A h \in Handlers : job[h] # NoJob => body[job[h].nonce] # None

\* What a transaction found is still so, except for the columns of its row.
JobSound(h) ==
    /\ job[h].stage # "update" => job[h].loaded = NoConn
    /\ job[h].stage = "update" => users[Sent(h).subject] = Sent(h).account
    /\ job[h].loaded # NoConn =>
         /\ conns[Sent(h).subject] # NoConn
         /\ Held(Sent(h).subject, users[Sent(h).subject], job[h].loaded)

JobsInv == \A h \in Handlers : job[h] # NoJob => JobSound(h)

RowsHeld ==
    /\ \A s \in Subjects : conns[s] # NoConn => Held(s, users[s], conns[s])
    /\ leaving # Nobody => conns[leaving.subject] # NoConn /\ Held(leaving.subject, users[leaving.subject], leaving.loaded)

ReceiptsKept ==
    \A t \in Txns :
        /\ installs[t] = IF receipts[t] = None THEN 0 ELSE 1
        /\ receipts[t] # None =>
             /\ receipts[t].digest.txn = t
             /\ receipts[t].owner = receipts[t].digest.subject
             /\ receipts[t].account = receipts[t].digest.account

IngressInv ==
    /\ IngressTypes /\ Signed /\ JobsInv /\ RowsHeld /\ ReceiptsKept
    /\ OneOwner /\ AnswersTrue

-----------------------------------------------------------------------------
\* The composition: the nonces do what HandoffNonce says.
LEMMA NonceSteps == ASSUME [Next]_vars PROVE [NonceNext]_nonceVars
<1>1. CASE Clock
  BY <1>1 DEF Clock, NonceNext
<1>2. ASSUME NEW n \in Nonces, NEW stamp \in 0 .. MaxTime, NEW p \in Payloads,
             SignPayload(n, stamp, p)
      PROVE  NonceNext
  BY <1>2 DEF SignPayload, NonceNext
<1>3. ASSUME NEW h \in Handlers, NEW n \in Nonces, Authenticate(h, n) PROVE NonceNext
  BY <1>3 DEF Authenticate, NonceNext
<1>4. ASSUME NEW h \in Handlers, Begin(h) PROVE NonceNext
  BY <1>4 DEF Begin, NonceNext
<1>5. ASSUME NEW h \in Handlers,
             CheckReceipt(h) \/ FindUser(h) \/ FindAccountOwner(h)
               \/ Commit(h) \/ RefusedInsert(h) \/ Abort(h)
      PROVE  UNCHANGED nonceVars
  BY <1>5 DEF CheckReceipt, FindUser, FindAccountOwner, Commit, RefusedInsert, Abort, Go, Reply
<1>6. ASSUME NEW s \in Subjects, LoadToDisconnect(s) PROVE UNCHANGED nonceVars
  BY <1>6 DEF LoadToDisconnect
<1>7. CASE CommitDisconnect
  BY <1>7 DEF CommitDisconnect
<1>8. CASE UNCHANGED vars
  BY <1>8 DEF vars
<1> QED
  BY <1>1, <1>2, <1>3, <1>4, <1>5, <1>6, <1>7, <1>8 DEF Next

\* Every key that seals is a key, and every process has it.
LEMMA PrimaryKey ==
  ASSUME NEW h \in Handlers
  PROVE  Ring(h).primary \in KeyIds /\ \A g \in Handlers : Ring(h).primary \in Ring(g).keys
<1>1. Ring(h).primary \in Ring(h).keys
  BY RingAssumption
<1>2. Ring(h).keys \subseteq KeyIds
  BY IngressAssumption DEF Ring
<1> QED
  BY <1>1, <1>2, RingAssumption

\* What a reconnect, or a disconnect, makes of a row that it has loaded.
LEMMA ChangedRow ==
  ASSUME NEW row \in PinterestConnection,
         NEW access \in Ciphertext \cup {None}, NEW refresh \in Ciphertext \cup {None},
         NEW status \in {"active", "disconnected"}
  PROVE  LET wanted == Changed(row, access, refresh, status)
         IN /\ wanted \in PinterestConnection /\ wanted.account = row.account
            /\ wanted.access = access /\ wanted.refresh = refresh
  BY DEF Changed, PinterestConnection

\* A mixture of the columns of rows that a subject holds is such a row.
LEMMA FlushedHeld ==
  ASSUME NEW s \in Subjects, NEW loaded \in PinterestConnection,
         NEW wanted \in PinterestConnection, NEW current \in PinterestConnection,
         NEW a, Held(s, a, wanted), Held(s, a, current)
  PROVE  /\ Flushed(loaded, wanted, current) \in PinterestConnection
         /\ Held(s, a, Flushed(loaded, wanted, current))
<1>1. loaded # NoConn
  BY DEF PinterestConnection, NoConn
<1> DEFINE row == Flushed(loaded, wanted, current)
<1>2. /\ row.account = current.account /\ row.keyId = current.keyId
      /\ row.access \in {wanted.access, current.access}
      /\ row.refresh \in {wanted.refresh, current.refresh}
      /\ row.version \in {wanted.version, current.version}
      /\ row.status \in {wanted.status, current.status}
      /\ row = [account |-> row.account, access |-> row.access, refresh |-> row.refresh,
                keyId |-> row.keyId, version |-> row.version, status |-> row.status]
  BY <1>1 DEF Flushed
<1> HIDE DEF row
<1>3. row \in PinterestConnection
  BY <1>2 DEF PinterestConnection
<1>4. Held(s, a, row)
  BY <1>2 DEF Held
<1> QED
  BY <1>3, <1>4 DEF row

LEMMA IngressStarts == ASSUME Init PROVE IngressInv
<1>1. CASE users = [s \in Subjects |-> None] /\ conns = [s \in Subjects |-> NoConn]
  <2>1. IngressTypes /\ Signed /\ JobsInv /\ ReceiptsKept /\ AnswersTrue
    BY <1>1, IngressAssumption
    DEF Init, NonceInit, IngressTypes, Signed, JobsInv, ReceiptsKept, AnswersTrue, NoJob, Nobody
  <2>2. RowsHeld /\ OneOwner
    BY <1>1 DEF Init, RowsHeld, OneOwner, Nobody
  <2> QED
    BY <2>1, <2>2 DEF IngressInv
<1>2. ASSUME NEW s \in Subjects, NEW a \in Accounts, NEW h \in Handlers,
             NEW sealed, sealed = [key |-> Ring(h).primary, owner |-> s, account |-> a, by |-> None],
             users = [t \in Subjects |-> IF t = s THEN a ELSE None],
             conns = [t \in Subjects |-> IF t # s THEN NoConn ELSE
                       [account |-> a, access |-> sealed, refresh |-> None,
                        keyId |-> Ring(h).primary, version |-> 1, status |-> "active"]]
      PROVE  IngressInv
  <2>1. sealed \in Ciphertext /\ sealed # None
    BY <1>2, PrimaryKey, IngressAssumption DEF Ciphertext
  <2> DEFINE row == [account |-> a, access |-> sealed, refresh |-> None,
                     keyId |-> Ring(h).primary, version |-> 1, status |-> "active"]
  <2>2. row \in PinterestConnection
    BY <2>1, PrimaryKey DEF PinterestConnection
  <2>3. row.account = a /\ row.access = sealed /\ row.refresh = None /\ row # NoConn
    BY DEF NoConn
  <2>4. \A t \in Subjects : conns[t] = IF t = s THEN row ELSE NoConn
    BY <1>2
  <2>5. conns \in [Subjects -> PinterestConnection \cup {NoConn}]
    BY <1>2, <2>2
  <2> HIDE DEF row
  <2>6. IngressTypes /\ Signed /\ JobsInv /\ ReceiptsKept /\ AnswersTrue
    BY <1>2, <2>5, IngressAssumption
    DEF Init, NonceInit, IngressTypes, Signed, JobsInv, ReceiptsKept, AnswersTrue, NoJob, Nobody
  <2>7. users[s] = a /\ \A t \in Subjects : t # s => users[t] = None
    BY <1>2
  <2>8. SealedFor(s, a, sealed)
    BY <1>2, <2>7 DEF SealedFor
  <2>9. RowsHeld
    BY <2>3, <2>4, <2>7, <2>8 DEF Init, RowsHeld, Held, Nobody
  <2>10. OneOwner
    BY <2>3, <2>4, <2>7, IngressAssumption DEF Init, OneOwner
  <2> QED
    BY <2>6, <2>9, <2>10 DEF IngressInv
<1> QED
  BY <1>1, <1>2 DEF Init

-----------------------------------------------------------------------------
\* The steps, one lemma for each kind.

LEMMA NothingHere ==
  ASSUME IngressInv, UNCHANGED <<signed, body, tables, job, leaving, installs, answers>>
  PROVE  IngressInv'
<1>1. IngressTypes' /\ Signed' /\ ReceiptsKept' /\ OneOwner' /\ AnswersTrue'
  BY DEF IngressInv, IngressTypes, Signed, ReceiptsKept, OneOwner, AnswersTrue, tables
<1>2. JobsInv' /\ RowsHeld'
  BY DEF IngressInv, JobsInv, JobSound, RowsHeld, Held, SealedFor, Sent, tables
<1> QED
  BY <1>1, <1>2 DEF IngressInv

\* Only a nonce that nobody knows yet is signed.
LEMMA SignStep ==
  ASSUME IngressInv, NEW n \in Nonces, NEW stamp, NEW p \in Payloads, SignPayload(n, stamp, p),
         signed \in [Nonces -> SUBSET Nat]
  PROVE  IngressInv'
<1>1. /\ signed[n] = {} /\ signed' = [signed EXCEPT ![n] = {stamp}]
      /\ body' = [body EXCEPT ![n] = p]
      /\ UNCHANGED <<tables, job, leaving, installs, answers>>
  BY DEF SignPayload, Sign
<1>2. body[n] = None /\ answers[n] = None /\ p # None
  BY <1>1, IngressAssumption DEF IngressInv, Signed
<1>3. \A h \in Handlers : job[h] # NoJob => job[h].nonce \in Nonces /\ job[h].nonce # n
  BY <1>2 DEF IngressInv, IngressTypes, Signed, NoJob
<1>4. \A m \in Nonces : m # n => body'[m] = body[m] /\ signed'[m] = signed[m]
  BY <1>1 DEF IngressInv, IngressTypes
<1>5. body'[n] = p /\ signed'[n] # {}
  BY <1>1 DEF IngressInv, IngressTypes
<1>6. IngressTypes' /\ ReceiptsKept' /\ OneOwner'
  BY <1>1 DEF IngressInv, IngressTypes, ReceiptsKept, OneOwner, tables
<1>7. Signed'
  BY <1>1, <1>2, <1>3, <1>4, <1>5 DEF IngressInv, Signed
<1>8. AnswersTrue'
  <2> SUFFICES ASSUME NEW m \in Nonces, answers'[m] \in {"persisted", "duplicate"}
               PROVE  /\ receipts'[body'[m].txn] =
                           [owner |-> body'[m].subject, account |-> body'[m].account,
                            digest |-> body'[m]]
                      /\ installs'[body'[m].txn] > 0
    BY DEF AnswersTrue
  <2>1. answers[m] \in {"persisted", "duplicate"} /\ m # n
    BY <1>1, <1>2, IngressAssumption
  <2> QED
    BY <1>1, <1>4, <2>1 DEF IngressInv, AnswersTrue, tables
<1>9. JobsInv'
  <2> SUFFICES ASSUME NEW h \in Handlers, job'[h] # NoJob
               PROVE  JobSound(h)'
    BY DEF JobsInv
  <2>1. job'[h] = job[h] /\ Sent(h)' = Sent(h) /\ users' = users /\ conns' = conns
    BY <1>1, <1>3, <1>4 DEF Sent, tables
  <2> QED
    BY <2>1 DEF IngressInv, JobsInv, JobSound, Held, SealedFor
<1>10. RowsHeld'
  BY <1>1 DEF IngressInv, RowsHeld, Held, SealedFor, tables
<1> QED
  BY <1>6, <1>7, <1>8, <1>9, <1>10 DEF IngressInv

\* A handler takes up a request, goes on with it, or is interrupted.
LEMMA JobStep ==
  ASSUME IngressInv, NEW h \in Handlers, NEW next, job' = [job EXCEPT ![h] = next],
         UNCHANGED <<signed, body, tables, leaving, installs, answers>>,
         \/ next = NoJob
         \/ /\ next \in [stage : {"receipt", "user", "account", "create", "update"},
                         nonce : Nonces, loaded : PinterestConnection \cup {NoConn}]
            /\ body[next.nonce] # None
            /\ next.stage # "update" => next.loaded = NoConn
            /\ next.stage = "update" => users[body[next.nonce].subject] = body[next.nonce].account
            /\ next.loaded # NoConn =>
                 LET s == body[next.nonce].subject
                 IN conns[s] # NoConn /\ Held(s, users[s], next.loaded)
  PROVE  IngressInv'
<1>1. \A g \in Handlers : job'[g] = IF g = h THEN next ELSE job[g]
  BY DEF IngressInv, IngressTypes
<1>2. IngressTypes' /\ ReceiptsKept' /\ OneOwner' /\ AnswersTrue'
  BY DEF IngressInv, IngressTypes, ReceiptsKept, OneOwner, AnswersTrue, tables
<1>3. Signed'
  BY <1>1 DEF IngressInv, Signed
<1>4. JobsInv'
  <2> SUFFICES ASSUME NEW g \in Handlers, job'[g] # NoJob
               PROVE  JobSound(g)'
    BY DEF JobsInv
  <2>1. CASE g # h
    BY <1>1, <2>1, SMTT(30) DEF IngressInv, JobsInv, JobSound, Held, SealedFor, Sent, tables
  <2>2. CASE g = h
    BY <1>1, <2>2 DEF JobSound, Held, SealedFor, Sent, tables
  <2> QED
    BY <2>1, <2>2
<1>5. RowsHeld'
  BY DEF IngressInv, RowsHeld, Held, SealedFor, tables
<1> QED
  BY <1>2, <1>3, <1>4, <1>5 DEF IngressInv

LEMMA GoStep ==
  ASSUME IngressInv, NEW h \in Handlers, job[h] # NoJob, NEW stage, NEW loaded, Go(h, stage, loaded),
         stage \in {"receipt", "user", "account", "create", "update"},
         loaded \in PinterestConnection \cup {NoConn},
         stage # "update" => loaded = NoConn,
         stage = "update" => users[Sent(h).subject] = Sent(h).account,
         loaded # NoConn =>
           conns[Sent(h).subject] # NoConn
             /\ Held(Sent(h).subject, users[Sent(h).subject], loaded)
  PROVE  IngressInv'
<1> DEFINE next == [stage |-> stage, nonce |-> job[h].nonce, loaded |-> loaded]
<1>1. job[h].nonce \in Nonces /\ body[job[h].nonce] # None
  BY DEF IngressInv, IngressTypes, Signed, NoJob
<1>2. /\ job' = [job EXCEPT ![h] = next]
      /\ UNCHANGED <<signed, body, tables, leaving, installs, answers>>
  BY DEF Go, nonceVars
<1>3. next.stage = stage /\ next.nonce = job[h].nonce /\ next.loaded = loaded
  OBVIOUS
<1>4. next \in [stage : {"receipt", "user", "account", "create", "update"},
                nonce : Nonces, loaded : PinterestConnection \cup {NoConn}]
  BY <1>1
<1> HIDE DEF next
<1> QED
  BY <1>1, <1>2, <1>3, <1>4, JobStep DEF Sent

\* An answer that promises something needs its receipt.
LEMMA ReplyStep ==
  ASSUME IngressInv, NEW h \in Handlers, job[h] # NoJob, NEW answer \in {"duplicate", "refused"},
         Reply(h, answer),
         answer = "duplicate" => receipts[Sent(h).txn] # None /\ receipts[Sent(h).txn].digest = Sent(h)
  PROVE  IngressInv'
<1> DEFINE n == job[h].nonce
<1>1. n \in Nonces /\ body[n] # None /\ Sent(h) = body[n] /\ body[n] \in Payloads
  BY DEF IngressInv, IngressTypes, Signed, NoJob, Sent
<1>2. /\ job' = [job EXCEPT ![h] = NoJob] /\ answers' = [answers EXCEPT ![n] = answer]
      /\ UNCHANGED <<signed, body, tables, leaving, installs>>
  BY DEF Reply, nonceVars
<1>3. \A g \in Handlers : job'[g] # NoJob => job'[g] = job[g]
  BY <1>2 DEF IngressInv, IngressTypes
<1>4. \A m \in Nonces : answers'[m] = IF m = n THEN answer ELSE answers[m]
  BY <1>2 DEF IngressInv, IngressTypes
<1>5. IngressTypes' /\ ReceiptsKept' /\ OneOwner'
  BY <1>1, <1>2 DEF IngressInv, IngressTypes, ReceiptsKept, OneOwner, tables
<1>6. Signed'
  BY <1>1, <1>2, <1>3, <1>4 DEF IngressInv, Signed
<1>7. JobsInv' /\ RowsHeld'
  BY <1>2, <1>3, SMTT(30) DEF IngressInv, JobsInv, JobSound, RowsHeld, Held, SealedFor, Sent, tables
<1>8. AnswersTrue'
  <2> SUFFICES ASSUME NEW m \in Nonces, answers'[m] \in {"persisted", "duplicate"}
               PROVE  /\ receipts[body[m].txn] =
                           [owner |-> body[m].subject, account |-> body[m].account,
                            digest |-> body[m]]
                      /\ installs[body[m].txn] > 0
    BY <1>2 DEF AnswersTrue, tables
  <2>1. CASE m # n
    BY <1>4, <2>1 DEF IngressInv, AnswersTrue
  <2>2. CASE m = n
    <3> DEFINE t == body[n].txn
    <3>1. t \in Txns /\ receipts[t] # None /\ receipts[t].digest = body[n] /\ installs[t] = 1
      BY <1>1, <1>4, <2>2 DEF IngressInv, ReceiptsKept, Payloads
    <3>2. receipts[t] \in Receipt
      BY <3>1 DEF IngressInv, IngressTypes
    <3>3. receipts[t] = [owner |-> body[n].subject, account |-> body[n].account, digest |-> body[n]]
      BY <3>1, <3>2 DEF IngressInv, ReceiptsKept, Receipt
    <3> QED
      BY <2>2, <3>1, <3>3
  <2> QED
    BY <2>1, <2>2
<1> QED
  BY <1>5, <1>6, <1>7, <1>8 DEF IngressInv

\* What a request stores is a row of its subject.
LEMMA RowStored ==
  ASSUME IngressInv, NEW h \in Handlers, job[h].stage \in {"create", "update"}
  PROVE  LET p == Sent(h)
             row == Flushed(job[h].loaded, Wanted(h), conns[p.subject])
         IN row \in PinterestConnection /\ Held(p.subject, p.account, row)
<1> DEFINE p == Sent(h)
<1> DEFINE s == p.subject
<1> DEFINE loaded == job[h].loaded
<1>1. /\ job[h].nonce \in Nonces /\ p \in Payloads /\ s \in Subjects /\ p.account \in Accounts
      /\ loaded \in PinterestConnection \cup {NoConn} /\ job[h] # NoJob
  BY DEF IngressInv, IngressTypes, Signed, NoJob, Sent, Payloads
<1>2. Sealed(h) \in Ciphertext /\ Sealed(h) # None /\ SealedFor(s, p.account, Sealed(h))
  BY <1>1, PrimaryKey, IngressAssumption DEF Sealed, SealedFor, Ciphertext
<1>3. /\ Refresh(h) \in Ciphertext \cup {None}
      /\ Refresh(h) # None => SealedFor(s, p.account, Refresh(h))
  BY <1>2 DEF Refresh
<1>4. CASE loaded = NoConn
  <2>1. Flushed(loaded, Wanted(h), conns[s]) = NewConnection(h)
    BY <1>4 DEF Flushed, Wanted
  <2>2. NewConnection(h) \in PinterestConnection
    BY <1>1, <1>2, <1>3, PrimaryKey DEF NewConnection, PinterestConnection
  <2>3. Held(s, p.account, NewConnection(h))
    BY <1>2, <1>3 DEF NewConnection, Held
  <2> QED
    BY <2>1, <2>2, <2>3
<1>5. CASE loaded # NoConn
  <2>1. /\ loaded \in PinterestConnection /\ job[h].stage = "update"
        /\ users[s] = p.account /\ Held(s, p.account, loaded) /\ conns[s] # NoConn
    BY <1>1, <1>5 DEF IngressInv, JobsInv, JobSound
  <2>2. conns[s] \in PinterestConnection /\ Held(s, p.account, conns[s])
    BY <1>1, <2>1 DEF IngressInv, IngressTypes, RowsHeld
  <2> DEFINE wanted == Reconnected(h)
  <2>3. Wanted(h) = wanted
    BY <1>5 DEF Wanted
  <2>4. /\ wanted \in PinterestConnection /\ wanted.account = loaded.account
        /\ wanted.access = Sealed(h) /\ wanted.refresh = Refresh(h)
    <3>1. /\ loaded \in PinterestConnection
          /\ Sealed(h) \in Ciphertext \cup {None} /\ Refresh(h) \in Ciphertext \cup {None}
      BY <1>2, <1>3, <2>1
    <3>2. wanted = Changed(loaded, Sealed(h), Refresh(h), "active")
      BY DEF Reconnected
    <3> HIDE DEF wanted, loaded
    <3> QED
      BY <3>1, <3>2, ChangedRow, ZenonT(40)
  <2> HIDE DEF wanted
  <2>5. Held(s, p.account, wanted)
    BY <1>2, <1>3, <2>1, <2>4 DEF Held
  <2> QED
    BY <1>1, <2>1, <2>2, <2>3, <2>4, <2>5, FlushedHeld
<1> QED
  BY <1>4, <1>5

\* The commit: user, connection and receipt appear together.
LEMMA CommitStep ==
  ASSUME IngressInv, NEW h \in Handlers, Commit(h)
  PROVE  IngressInv'
<1> DEFINE p == Sent(h)
<1> DEFINE s == p.subject
<1> DEFINE a == p.account
<1> DEFINE t == p.txn
<1> DEFINE n == job[h].nonce
<1> DEFINE row == Flushed(job[h].loaded, Wanted(h), conns[s])
<1> DEFINE receipt == [owner |-> s, account |-> a, digest |-> p]
<1>1. /\ job[h].stage \in {"create", "update"} /\ InsertsAllowed(h)
      /\ users' = [users EXCEPT ![s] = a]
      /\ conns' = [conns EXCEPT ![s] = row]
      /\ receipts' = [receipts EXCEPT ![t] = receipt]
      /\ installs' = [installs EXCEPT ![t] = @ + 1]
      /\ answers' = [answers EXCEPT ![n] = "persisted"]
      /\ job' = [job EXCEPT ![h] = NoJob]
      /\ UNCHANGED <<signed, body, leaving>>
  BY DEF Commit, nonceVars
<1>2. /\ n \in Nonces /\ p = body[n] /\ p \in Payloads /\ job[h] # NoJob
      /\ s \in Subjects /\ a \in Accounts /\ t \in Txns
  BY <1>1 DEF IngressInv, IngressTypes, Signed, NoJob, Sent, Payloads
<1>3. row \in PinterestConnection /\ Held(s, a, row) /\ row # NoConn
  <2>1. row \in PinterestConnection /\ Held(s, a, row)
    BY <1>1, RowStored
  <2> QED
    BY <2>1 DEF PinterestConnection, NoConn
<1>4. /\ receipts[t] = None /\ installs[t] = 0
      /\ users[s] # None => users[s] = a
      /\ users[s] = None => \A r \in Subjects : users[r] # a
      /\ conns[s] = NoConn \/ users[s] = a
  <2>1. receipts[t] = None /\ installs[t] = 0
    BY <1>1, <1>2 DEF InsertsAllowed, IngressInv, ReceiptsKept
  <2>2. CASE job[h].stage = "update"
    BY <1>1, <1>2, <2>1, <2>2, IngressAssumption DEF IngressInv, JobsInv, JobSound
  <2>3. CASE job[h].stage = "create"
    <3>1. job[h].loaded = NoConn
      BY <1>2, <2>3 DEF IngressInv, JobsInv, JobSound
    <3> QED
      BY <1>1, <1>2, <2>1, <2>3, <3>1 DEF InsertsAllowed, OwnerOf
  <2> QED
    BY <1>1, <2>2, <2>3
<1>5. receipt \in Receipt /\ receipt # None
  BY <1>2, IngressAssumption DEF Receipt
<1>6. receipt.owner = s /\ receipt.account = a /\ receipt.digest = p
  OBVIOUS
<1> HIDE DEF row, receipt
<1>7. /\ \A r \in Subjects : users'[r] = IF r = s THEN a ELSE users[r]
      /\ \A r \in Subjects : conns'[r] = IF r = s THEN row ELSE conns[r]
      /\ \A r \in Txns : receipts'[r] = IF r = t THEN receipt ELSE receipts[r]
      /\ \A r \in Txns : installs'[r] = IF r = t THEN 1 ELSE installs[r]
      /\ \A m \in Nonces : answers'[m] = IF m = n THEN "persisted" ELSE answers[m]
      /\ \A g \in Handlers : job'[g] = IF g = h THEN NoJob ELSE job[g]
  BY <1>1, <1>2, <1>4, SMTT(30) DEF IngressInv, IngressTypes
<1>8. IngressTypes'
  BY <1>1, <1>2, <1>3, <1>5, SMTT(30) DEF IngressInv, IngressTypes
<1>9. Signed'
  BY <1>1, <1>2, <1>7, IngressAssumption DEF IngressInv, Signed
<1>10. \A r \in Subjects : users[r] # None => users'[r] = users[r]
  BY <1>4, <1>7
<1>11. \A r \in Subjects : conns[r] # NoConn => users[r] # None /\ conns'[r] # NoConn
  <2> SUFFICES ASSUME NEW r \in Subjects, conns[r] # NoConn PROVE users[r] # None /\ conns'[r] # NoConn
    OBVIOUS
  <2>1. conns[r] \in PinterestConnection /\ conns[r].account = users[r]
    BY DEF IngressInv, IngressTypes, OneOwner
  <2> QED
    BY <1>3, <1>7, <2>1, IngressAssumption DEF PinterestConnection
<1>12. JobsInv'
  <2> SUFFICES ASSUME NEW g \in Handlers, job'[g] # NoJob PROVE JobSound(g)'
    BY DEF JobsInv
  <2>1. /\ g # h /\ job'[g] = job[g] /\ Sent(g)' = Sent(g) /\ JobSound(g)
        /\ Sent(g).subject \in Subjects /\ Sent(g).account \in Accounts
    BY <1>1, <1>7 DEF IngressInv, IngressTypes, Signed, JobsInv, NoJob, Sent, Payloads
  <2> QED
    BY <1>10, <1>11, <2>1, IngressAssumption DEF JobSound
<1>13. RowsHeld'
  <2>1. ASSUME NEW r \in Subjects, conns'[r] # NoConn PROVE Held(r, users'[r], conns'[r])
    BY <1>3, <1>7, <1>10, <1>11, <2>1 DEF IngressInv, RowsHeld
  <2>2. ASSUME leaving # Nobody
        PROVE  conns'[leaving.subject] # NoConn
                 /\ Held(leaving.subject, users'[leaving.subject], leaving.loaded)
    <3>1. leaving.subject \in Subjects
      BY <2>2 DEF IngressInv, IngressTypes
    <3> QED
      BY <1>10, <1>11, <2>2, <3>1 DEF IngressInv, RowsHeld
  <2> QED
    BY <1>1, <2>1, <2>2 DEF RowsHeld
<1>14. ReceiptsKept'
  BY <1>2, <1>5, <1>6, <1>7 DEF IngressInv, ReceiptsKept
<1>15. OneOwner'
  <2>1. \A r, q \in Subjects : users'[r] # None /\ users'[r] = users'[q] => r = q
    BY <1>2, <1>4, <1>7 DEF IngressInv, OneOwner
  <2>2. \A r \in Subjects : conns'[r] # NoConn => conns'[r].account = users'[r]
    BY <1>3, <1>7 DEF IngressInv, OneOwner, Held
  <2>3. ASSUME NEW r \in Txns, receipts'[r] # None
        PROVE  users'[receipts'[r].owner] = receipts'[r].account
    <3>1. CASE r = t
      BY <1>2, <1>6, <1>7, <3>1
    <3>2. CASE r # t
      <4>1. receipts'[r] = receipts[r] /\ receipts[r] \in Receipt
        BY <1>7, <2>3, <3>2 DEF IngressInv, IngressTypes
      <4>2. /\ receipts[r].owner \in Subjects /\ receipts[r].account \in Accounts
            /\ users[receipts[r].owner] = receipts[r].account
        BY <2>3, <4>1 DEF IngressInv, OneOwner, Receipt
      <4> QED
        BY <1>10, <4>1, <4>2, IngressAssumption
    <3> QED
      BY <3>1, <3>2
  <2> QED
    BY <2>1, <2>2, <2>3 DEF OneOwner
<1>16. AnswersTrue'
  <2> SUFFICES ASSUME NEW m \in Nonces, answers'[m] \in {"persisted", "duplicate"}
               PROVE  /\ receipts'[body[m].txn] =
                           [owner |-> body[m].subject, account |-> body[m].account,
                            digest |-> body[m]]
                      /\ installs'[body[m].txn] > 0
    BY <1>1 DEF AnswersTrue
  <2>1. CASE m = n
    BY <1>2, <1>7, <2>1 DEF receipt
  <2>2. CASE m # n
    <3>1. /\ answers[m] \in {"persisted", "duplicate"}
          /\ receipts[body[m].txn] = [owner |-> body[m].subject, account |-> body[m].account,
                                      digest |-> body[m]]
          /\ installs[body[m].txn] > 0
      BY <1>7, <2>2 DEF IngressInv, AnswersTrue
    <3>2. body[m] \in Payloads
      BY <3>1, IngressAssumption DEF IngressInv, IngressTypes, Signed
    <3>3. body[m].txn \in Txns /\ body[m].txn # t
      BY <1>4, <3>1, <3>2 DEF Payloads
    <3> QED
      BY <1>7, <3>1, <3>3
  <2> QED
    BY <2>1, <2>2
<1> QED
  BY <1>8, <1>9, <1>12, <1>13, <1>14, <1>15, <1>16 DEF IngressInv

\* A disconnect starts from the row as it is.
LEMMA LeaveStep ==
  ASSUME IngressInv, NEW s \in Subjects, LoadToDisconnect(s)
  PROVE  IngressInv'
<1>1. /\ conns[s] # NoConn /\ leaving' = [subject |-> s, loaded |-> conns[s]]
      /\ UNCHANGED <<signed, body, tables, job, installs, answers>>
  BY DEF LoadToDisconnect, nonceVars
<1>2. IngressTypes'
  BY <1>1 DEF IngressInv, IngressTypes, tables
<1>3. Signed' /\ ReceiptsKept' /\ OneOwner' /\ AnswersTrue'
  BY <1>1 DEF IngressInv, Signed, ReceiptsKept, OneOwner, AnswersTrue, tables
<1>4. JobsInv'
  BY <1>1 DEF IngressInv, JobsInv, JobSound, Sent, tables
<1>5. RowsHeld'
  <2>1. leaving'.subject = s /\ leaving'.loaded = conns[s]
    BY <1>1
  <2> QED
    BY <1>1, <2>1 DEF IngressInv, RowsHeld, tables
<1> QED
  BY <1>2, <1>3, <1>4, <1>5 DEF IngressInv

\* It writes what it changes of the row that it started from.
LEMMA DisconnectStep ==
  ASSUME IngressInv, CommitDisconnect
  PROVE  IngressInv'
<1> DEFINE s == leaving.subject
<1> DEFINE loaded == leaving.loaded
<1> DEFINE gone == Changed(loaded, None, None, "disconnected")
<1> DEFINE row == Flushed(loaded, gone, conns[s])
<1>1. /\ leaving # Nobody /\ conns' = [conns EXCEPT ![s] = row] /\ leaving' = Nobody
      /\ UNCHANGED <<signed, body, users, receipts, job, installs, answers>>
  BY DEF CommitDisconnect, nonceVars
<1>2. /\ s \in Subjects /\ loaded \in PinterestConnection /\ Held(s, users[s], loaded)
      /\ conns[s] \in PinterestConnection /\ Held(s, users[s], conns[s])
  BY <1>1 DEF IngressInv, IngressTypes, RowsHeld
<1>3. /\ gone \in PinterestConnection /\ gone.account = loaded.account
      /\ gone.access = None /\ gone.refresh = None
  BY <1>2, ChangedRow
<1> HIDE DEF gone
<1>4. Held(s, users[s], gone)
  BY <1>2, <1>3 DEF Held
<1>5. row \in PinterestConnection /\ Held(s, users[s], row)
  BY <1>2, <1>3, <1>4, FlushedHeld
<1> HIDE DEF row
<1>6. row # NoConn
  BY <1>5 DEF PinterestConnection, NoConn
<1>7. \A r \in Subjects : conns'[r] = IF r = s THEN row ELSE conns[r]
  BY <1>1, <1>2 DEF IngressInv, IngressTypes
<1>8. IngressTypes'
  BY <1>1, <1>2, <1>5 DEF IngressInv, IngressTypes
<1>9. Signed' /\ ReceiptsKept' /\ AnswersTrue'
  BY <1>1 DEF IngressInv, Signed, ReceiptsKept, AnswersTrue
<1>10. OneOwner'
  BY <1>1, <1>5, <1>7 DEF IngressInv, OneOwner, Held
<1>11. JobsInv'
  <2> SUFFICES ASSUME NEW g \in Handlers, job[g] # NoJob PROVE JobSound(g)'
    BY <1>1 DEF JobsInv
  <2>1. JobSound(g) /\ Sent(g)' = Sent(g) /\ Sent(g).subject \in Subjects
    BY <1>1 DEF IngressInv, IngressTypes, Signed, JobsInv, NoJob, Sent, Payloads
  <2> QED
    BY <1>1, <1>6, <1>7, <2>1 DEF JobSound
<1>12. RowsHeld'
  BY <1>1, <1>5, <1>7 DEF IngressInv, RowsHeld
<1> QED
  BY <1>8, <1>9, <1>10, <1>11, <1>12 DEF IngressInv

\* Every step keeps the invariant, in states that the nonces can be in.
LEMMA IngressSteps == ASSUME IngressInv, IndInv, [Next]_vars PROVE IngressInv'
<1>1. CASE Clock
  BY <1>1, NothingHere DEF Clock, Tick
<1>2. ASSUME NEW n \in Nonces, NEW stamp \in 0 .. MaxTime, NEW p \in Payloads,
             SignPayload(n, stamp, p)
      PROVE  IngressInv'
  BY <1>2, SignStep DEF IndInv, NonceTypeOK
<1>3. ASSUME NEW h \in Handlers, NEW n \in Nonces, Authenticate(h, n) PROVE IngressInv'
  BY <1>3, NothingHere DEF Authenticate, Verify
<1>4. ASSUME NEW h \in Handlers, Begin(h) PROVE IngressInv'
  <2> DEFINE n == checked[h].nonce
  <2> DEFINE next == [stage |-> "receipt", nonce |-> n, loaded |-> NoConn]
  <2>1. /\ checked[h] # NotServing
        /\ UNCHANGED <<signed, body, tables, leaving, installs, answers>>
        /\ job' = IF Remembered(n) THEN job ELSE [job EXCEPT ![h] = next]
    BY <1>4 DEF Begin, Consume
  <2>2. n \in Nonces /\ body[n] # None
    BY <2>1 DEF IndInv, NonceTypeOK, InFlightWasFresh, IngressInv, Signed
  <2>3. CASE Remembered(n)
    BY <2>1, <2>3, NothingHere
  <2>4. CASE ~Remembered(n)
    <3>1. next.stage = "receipt" /\ next.nonce = n /\ next.loaded = NoConn
      OBVIOUS
    <3>2. next \in [stage : {"receipt", "user", "account", "create", "update"},
                    nonce : Nonces, loaded : PinterestConnection \cup {NoConn}]
      BY <2>2
    <3>3. job' = [job EXCEPT ![h] = next]
      BY <2>1, <2>4
    <3> HIDE DEF next
    <3> QED
      BY <2>1, <2>2, <3>1, <3>2, <3>3, JobStep
  <2> QED
    BY <2>3, <2>4
<1>5. ASSUME NEW h \in Handlers, CheckReceipt(h) PROVE IngressInv'
  <2>1. job[h] # NoJob
    BY <1>5 DEF CheckReceipt, NoJob
  <2> QED
    BY <1>5, <2>1, GoStep, ReplyStep DEF CheckReceipt
<1>6. ASSUME NEW h \in Handlers, FindUser(h) PROVE IngressInv'
  <2> DEFINE s == Sent(h).subject
  <2>1. job[h] # NoJob
    BY <1>6 DEF FindUser, NoJob
  <2>2. Sent(h) \in Payloads /\ s \in Subjects
    BY <2>1 DEF IngressInv, IngressTypes, Signed, NoJob, Sent, Payloads
  <2>3. CASE Go(h, "account", NoConn)
    BY <2>1, <2>3, GoStep
  <2>4. CASE users[s] = Sent(h).account /\ Go(h, "update", conns[s])
    <3>1. conns[s] \in PinterestConnection \cup {NoConn}
      BY <2>2 DEF IngressInv, IngressTypes
    <3>2. conns[s] # NoConn => Held(s, users[s], conns[s])
      BY <2>2 DEF IngressInv, RowsHeld
    <3> QED
      BY <2>1, <2>4, <3>1, <3>2, GoStep
  <2>5. CASE Reply(h, "refused")
    BY <2>1, <2>5, ReplyStep
  <2> QED
    BY <1>6, <2>3, <2>4, <2>5 DEF FindUser
<1>7. ASSUME NEW h \in Handlers, FindAccountOwner(h) PROVE IngressInv'
  <2>1. job[h] # NoJob
    BY <1>7 DEF FindAccountOwner, NoJob
  <2> QED
    BY <1>7, <2>1, GoStep, ReplyStep DEF FindAccountOwner
<1>8. ASSUME NEW h \in Handlers, Commit(h) PROVE IngressInv'
  BY <1>8, CommitStep
<1>9. ASSUME NEW h \in Handlers, RefusedInsert(h) PROVE IngressInv'
  <2>1. job[h] # NoJob /\ Reply(h, "refused")
    BY <1>9 DEF RefusedInsert, NoJob
  <2> QED
    BY <2>1, ReplyStep
<1>10. ASSUME NEW h \in Handlers, Abort(h) PROVE IngressInv'
  BY <1>10, JobStep DEF Abort, nonceVars
<1>11. ASSUME NEW s \in Subjects, LoadToDisconnect(s) PROVE IngressInv'
  BY <1>11, LeaveStep
<1>12. CASE CommitDisconnect
  BY <1>12, DisconnectStep
<1>13. CASE UNCHANGED vars
  BY <1>13, NothingHere DEF vars, nonceVars
<1> QED
  BY <1>1, <1>2, <1>3, <1>4, <1>5, <1>6, <1>7, <1>8, <1>9, <1>10, <1>11, <1>12, <1>13 DEF Next

-----------------------------------------------------------------------------
\* The nonces of the direct ingress behave as HandoffNonce says, whatever is
\* done with the requests that they let through.
THEOREM IngressImplementsNonces == Spec => NonceSpec
<1>1. Init => NonceInit
  BY DEF Init
<1>2. [Next]_vars => [NonceNext]_nonceVars
  BY NonceSteps
<1> QED
  BY <1>1, <1>2, PTL DEF Spec, NonceSpec

\* So no signed request begins a transaction twice (ingress.py 175).
THEOREM RequestsAcceptedOnce == Spec => []AcceptedAtMostOnce
<1> QED
  BY IngressImplementsNonces, NonceSafety, PTL

\* Every reachable state, of every instance, satisfies the invariant.
THEOREM IngressInvariance == Spec => []IngressInv
<1>1. Spec => []IndInv
  BY IngressImplementsNonces, NonceSafety, PTL
<1>2. Init => IngressInv
  BY IngressStarts
<1>3. IngressInv /\ IndInv /\ [Next]_vars => IngressInv'
  BY IngressSteps
<1> QED
  BY <1>1, <1>2, <1>3, PTL DEF Spec

\* Every variable keeps its type.
THEOREM IngressTyped == Spec => []TypeOK
<1>1. IndInv /\ IngressInv => TypeOK
  BY DEF IndInv, IngressInv, IngressTypes, TypeOK
<1> QED
  BY <1>1, IngressImplementsNonces, NonceSafety, IngressInvariance, PTL

\* Requests of one transaction install its tokens once (ingress.py 221-237).
THEOREM TokensInstalledOnce == Spec => []InstalledOnce
<1>1. IngressInv => InstalledOnce
  BY DEF IngressInv, ReceiptsKept, InstalledOnce
<1> QED
  BY <1>1, IngressInvariance, PTL

\* Without any lock, an account has one owner (ingress.py 246-270).
THEOREM AccountsHaveOneOwner == Spec => []OneOwner
<1>1. IngressInv => OneOwner
  BY DEF IngressInv
<1> QED
  BY <1>1, IngressInvariance, PTL

\* A promise to a sender is kept (ingress.py 228-237, 296-301).
THEOREM AnswersAreTrue == Spec => []AnswersTrue
<1>1. IngressInv => AnswersTrue
  BY DEF IngressInv
<1> QED
  BY <1>1, IngressInvariance, PTL

\* In any change of keys that RingAssumption allows, every process opens what
\* a connection holds (encryption.py 76-186).
THEOREM TokensReadable == Spec => []Readable
<1>1. ASSUME IngressInv PROVE Readable
  <2> SUFFICES ASSUME NEW s \in Subjects, NEW h \in Handlers, conns[s] # NoConn,
                      NEW c \in {conns[s].access, conns[s].refresh} \ {None}
               PROVE  Opens(h, c, s, conns[s].account)
    BY DEF Readable
  <2>1. conns[s].account = users[s] /\ SealedFor(s, users[s], c)
    BY <1>1 DEF IngressInv, RowsHeld, Held
  <2> QED
    BY <2>1, PrimaryKey DEF SealedFor, Opens
<1> QED
  BY <1>1, IngressInvariance, PTL
=============================================================================
