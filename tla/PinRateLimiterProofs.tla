------------------------ MODULE PinRateLimiterProofs ------------------------
(* Proofs about PinRateLimiter, for any limit, window and length of a bulk *)
(* call: no sleep is needless, whatever the number of callers, and a       *)
(* client with one caller at a time stays within the limit.                *)
EXTENDS PinRateLimiter, FiniteSetTheorems, WellFoundedInduction, TLAPS

Ages == 0 .. Window

(* The j-th newest element of a list, from 0 on.                           *)
Newest(s, j) == s[Len(s) - j]
Positions(s) == 0 .. Len(s) - 1

LEMMA Constants == MaxBulk \in Nat \ {0} /\ Limit \in Nat \ {0} /\ Window \in Nat \ {0}
  BY LimiterAssumption

USE Constants

-----------------------------------------------------------------------------
(* The lists of the limiter.                                               *)

LEMMA NewestType ==
  ASSUME NEW s \in Seq(Ages)
  PROVE  /\ Len(s) \in Nat
         /\ \A j \in Positions(s) : j \in Nat /\ Newest(s, j) \in Ages /\ Newest(s, j) \in Nat
<1>1. Len(s) \in Nat /\ DOMAIN s = 1 .. Len(s)
  OBVIOUS
<1>2. ASSUME NEW j \in Positions(s) PROVE j \in Nat /\ Len(s) - j \in 1 .. Len(s)
  BY <1>1, <1>2 DEF Positions
<1>3. \A i \in 1 .. Len(s) : s[i] \in Ages
  OBVIOUS
<1> QED
  BY <1>1, <1>2, <1>3 DEF Newest, Ages

LEMMA AppendNewest ==
  ASSUME NEW s \in Seq(Ages), NEW a \in Ages
  PROVE  LET r == Append(s, a) IN
         /\ r \in Seq(Ages) /\ Len(r) = Len(s) + 1
         /\ Newest(r, 0) = a
         /\ \A j \in Positions(s) : Newest(r, j + 1) = Newest(s, j)
<1> DEFINE r == Append(s, a)
<1>1. /\ r \in Seq(Ages) /\ Len(r) = Len(s) + 1 /\ Len(s) \in Nat
      /\ r[Len(s) + 1] = a /\ \A i \in 1 .. Len(s) : r[i] = s[i]
  OBVIOUS
<1> HIDE DEF r
<1>2. Newest(r, 0) = a
  BY <1>1 DEF Newest
<1>3. ASSUME NEW j \in Positions(s) PROVE Newest(r, j + 1) = Newest(s, j)
  <2>1. Len(s) - j \in 1 .. Len(s) /\ Len(r) - (j + 1) = Len(s) - j
    BY <1>1, <1>3 DEF Positions
  <2> QED
    BY <1>1, <2>1 DEF Newest
<1> QED
  BY <1>1, <1>2, <1>3 DEF r

Aged(s) == [i \in DOMAIN s |-> Older(s[i])]

LEMMA OlderType == ASSUME NEW a \in Ages PROVE Older(a) \in Ages /\ Older(a) = IF a < Window THEN a + 1 ELSE a
  BY DEF Ages, Older

LEMMA AgedNewest ==
  ASSUME NEW s \in Seq(Ages)
  PROVE  /\ Aged(s) \in Seq(Ages) /\ Len(Aged(s)) = Len(s)
         /\ \A j \in Positions(s) : Newest(Aged(s), j) = Older(Newest(s, j))
<1>1. Len(s) \in Nat /\ DOMAIN s = 1 .. Len(s) /\ \A i \in 1 .. Len(s) : s[i] \in Ages
  OBVIOUS
<1>2. Aged(s) \in [1 .. Len(s) -> Ages]
  BY <1>1, OlderType DEF Aged
<1>3. Aged(s) \in Seq(Ages) /\ Len(Aged(s)) = Len(s)
  BY <1>1, <1>2
<1>4. ASSUME NEW j \in Positions(s) PROVE Newest(Aged(s), j) = Older(Newest(s, j))
  <2>1. Len(s) - j \in 1 .. Len(s)
    BY <1>1, <1>4 DEF Positions
  <2> QED
    BY <1>1, <1>3, <2>1 DEF Newest, Aged
<1> QED
  BY <1>3, <1>4

(* There is a first age within the window, or the end of the list.         *)
LEMMA FirstRecent ==
  ASSUME NEW s \in Seq(Ages)
  PROVE  \E n \in 1 .. Len(s) + 1 : /\ \A i \in 1 .. n - 1 : s[i] >= Window
                                    /\ n <= Len(s) => s[n] < Window
<1> DEFINE N == {n \in 1 .. Len(s) + 1 : n <= Len(s) => s[n] < Window}
           Before == OpToRel(<, Nat)
<1>1. Len(s) \in Nat /\ \A i \in 1 .. Len(s) : s[i] \in Nat
  BY DEF Ages
<1>2. Len(s) + 1 \in N /\ N \subseteq Nat
  BY <1>1
<1>3. PICK n \in N : \A m \in N : ~ (<<m, n>> \in Before)
  <2> HIDE DEF N, Before
  <2>1. IsWellFoundedOn(Before, Nat)
    BY NatLessThanWellFounded DEF Before
  <2> QED
    BY <1>2, <2>1, WFMin, Zenon
<1>4. ASSUME NEW i \in 1 .. n - 1 PROVE s[i] >= Window
  <2>1. n \in 1 .. Len(s) + 1
    OBVIOUS
  <2>2. i \in Nat /\ n \in Nat /\ i < n /\ i \in 1 .. Len(s)
    BY <1>1, <1>4, <2>1
  <2>3. <<i, n>> \in Before
    BY <2>2 DEF OpToRel
  <2>4. i \notin N
    BY <1>3, <2>3
  <2> QED
    BY <1>1, <2>2, <2>4
<1> QED
  BY <1>4

(* Recent drops what is too old, and no more.                              *)
LEMMA RecentFacts ==
  ASSUME NEW s \in Seq(Ages)
  PROVE  LET r == Recent(s) IN
         /\ r \in Seq(Ages) /\ Len(r) <= Len(s)
         /\ \A j \in Positions(r) : j \in Positions(s) /\ Newest(r, j) = Newest(s, j)
         /\ \A j \in Positions(s) : Newest(s, j) < Window => j \in Positions(r)
         /\ Len(r) > 0 => r[1] < Window /\ r[1] = Newest(r, Len(r) - 1)
<1> DEFINE First(n) == /\ \A i \in 1 .. n - 1 : s[i] >= Window
                       /\ n <= Len(s) => s[n] < Window
           k == CHOOSE n \in 1 .. Len(s) + 1 : First(n)
           r == SubSeq(s, k, Len(s))
<1>1. Len(s) \in Nat /\ \A i \in 1 .. Len(s) : s[i] \in Ages /\ s[i] \in Nat
  BY DEF Ages
<1>2. k \in 1 .. Len(s) + 1 /\ First(k)
  <2>1. \E n \in 1 .. Len(s) + 1 : First(n)
    BY FirstRecent
  <2> HIDE DEF First
  <2> QED
    BY <2>1
<1>3. Recent(s) = r
  BY DEF Recent
<1> HIDE DEF k
<1>4. k \in Nat /\ 1 <= k /\ k <= Len(s) + 1
  BY <1>1, <1>2
<1>5. r \in Seq(Ages) /\ Len(r) = Len(s) + 1 - k /\ \A i \in 1 .. Len(s) + 1 - k : r[i] = s[k + i - 1]
  BY <1>1, <1>4
<1> HIDE DEF r
<1>6. ASSUME NEW j \in Positions(r) PROVE j \in Positions(s) /\ Newest(r, j) = Newest(s, j)
  <2>1. j \in Positions(s) /\ Len(r) - j \in 1 .. Len(s) + 1 - k /\ k + (Len(r) - j) - 1 = Len(s) - j
    BY <1>1, <1>4, <1>5, <1>6 DEF Positions
  <2> QED
    BY <1>5, <2>1 DEF Newest
<1>7. ASSUME NEW j \in Positions(s), Newest(s, j) < Window PROVE j \in Positions(r)
  <2>1. Len(s) - j \in 1 .. Len(s)
    BY <1>1, <1>7 DEF Positions
  <2>2. Len(s) - j \notin 1 .. k - 1
    BY <1>1, <1>2, <1>7, <2>1 DEF Newest
  <2> QED
    BY <1>1, <1>4, <1>5, <2>1, <2>2 DEF Positions
<1>8. ASSUME Len(r) > 0 PROVE r[1] < Window /\ r[1] = Newest(r, Len(r) - 1)
  <2>1. 1 \in 1 .. Len(s) + 1 - k /\ k <= Len(s) /\ Len(r) - (Len(r) - 1) = 1
    BY <1>1, <1>4, <1>5, <1>8
  <2>2. r[1] = s[k + 1 - 1] /\ k + 1 - 1 = k
    BY <1>4, <1>5, <2>1
  <2> QED
    BY <1>2, <2>1, <2>2 DEF Newest
<1>9. Len(r) <= Len(s)
  BY <1>1, <1>4, <1>5
<1> QED
  BY <1>3, <1>5, <1>6, <1>7, <1>8, <1>9

(* Counting what is within the window, from above and from below.          *)
LEMMA CountAtMost ==
  ASSUME NEW s \in Seq(Ages), NEW n \in Nat,
         \A j \in Positions(s) : Newest(s, j) < Window => j < n
  PROVE  InWindow(s) \in Nat /\ InWindow(s) <= n
<1> DEFINE I == {i \in DOMAIN s : s[i] < Window}
           J == Len(s) - n + 1 .. Len(s)
<1>1. Len(s) \in Nat /\ DOMAIN s = 1 .. Len(s)
  OBVIOUS
<1>2. I \subseteq J
  <2> SUFFICES ASSUME NEW i \in 1 .. Len(s), s[i] < Window PROVE i \in J
    BY <1>1
  <2>1. Len(s) - i \in Positions(s) /\ Len(s) - (Len(s) - i) = i
    BY <1>1 DEF Positions
  <2>2. Len(s) - i < n
    BY <2>1 DEF Newest
  <2> QED
    BY <1>1, <2>2
<1>3. Len(s) - n + 1 \in Int /\ Len(s) \in Int
  BY <1>1
<1>4. IsFiniteSet(J) /\ Cardinality(J) = n
  <2>1. IsFiniteSet(J) /\ Cardinality(J) = IF Len(s) - n + 1 > Len(s) THEN 0 ELSE Len(s) - (Len(s) - n + 1) + 1
    BY <1>3, FS_Interval
  <2> HIDE DEF J
  <2> QED
    BY <1>1, <2>1
<1> HIDE DEF I, J
<1>5. IsFiniteSet(I) /\ Cardinality(I) <= Cardinality(J)
  BY <1>2, <1>4, FS_Subset
<1>6. Cardinality(I) \in Nat
  BY <1>5, FS_CardinalityType
<1> QED
  BY <1>4, <1>5, <1>6 DEF InWindow, I

LEMMA CountAtLeast ==
  ASSUME NEW s \in Seq(Ages), NEW n \in Nat, n <= Len(s),
         \A j \in Positions(s) : j < n => Newest(s, j) < Window
  PROVE  InWindow(s) \in Nat /\ InWindow(s) >= n
<1> DEFINE I == {i \in DOMAIN s : s[i] < Window}
           J == Len(s) - n + 1 .. Len(s)
<1>1. Len(s) \in Nat /\ DOMAIN s = 1 .. Len(s)
  OBVIOUS
<1>2. J \subseteq I
  <2> SUFFICES ASSUME NEW i \in J PROVE i \in 1 .. Len(s) /\ s[i] < Window
    BY <1>1
  <2>1. i \in 1 .. Len(s) /\ Len(s) - i \in Positions(s) /\ Len(s) - (Len(s) - i) = i /\ Len(s) - i < n
    BY <1>1 DEF Positions
  <2>2. s[i] < Window
    BY <2>1 DEF Newest
  <2> QED
    BY <2>1, <2>2
<1>3. IsFiniteSet(I)
  <2>1. IsFiniteSet(1 .. Len(s))
    BY <1>1, FS_Interval
  <2>2. I \in SUBSET (1 .. Len(s))
    BY <1>1
  <2> HIDE DEF I
  <2> QED
    BY <2>1, <2>2, FS_Subset
<1>4. Cardinality(J) = n
  <2>1. Len(s) - n + 1 \in Int /\ Len(s) \in Int
    BY <1>1
  <2>2. Cardinality(J) = IF Len(s) - n + 1 > Len(s) THEN 0 ELSE Len(s) - (Len(s) - n + 1) + 1
    BY <2>1, FS_Interval
  <2> HIDE DEF J
  <2> QED
    BY <1>1, <2>2
<1> HIDE DEF I, J
<1>5. Cardinality(J) <= Cardinality(I)
  BY <1>2, <1>3, FS_Subset
<1>6. Cardinality(I) \in Nat
  BY <1>3, FS_CardinalityType
<1> QED
  BY <1>4, <1>5, <1>6 DEF InWindow, I

-----------------------------------------------------------------------------
(* What every interleaving of callers keeps.  Newest(stamps, Limit - 1) is *)
(* the reply whose leaving the window makes room for one more pin.         *)

CallState == [stage : {"idle", "preparing", "sleeping", "sending", "arrived"},
              pins : Int, left : Nat, age : Ages]

LimiterTypes == /\ stamps \in Seq(Ages) /\ created \in Seq(Ages)
                /\ call \in [Callers -> CallState]

Ordered == \A i, j \in Positions(stamps) : i <= j => Newest(stamps, i) <= Newest(stamps, j)

(* A sleeper has Limit replies before it, all within the window till then. *)
Sleepers ==
  \A c \in Callers : call[c].stage = "sleeping" /\ call[c].left > 0 =>
    /\ call[c].left <= Window /\ Len(stamps) >= Limit
    /\ Newest(stamps, Limit - 1) + call[c].left <= Window

(* Each pin within the window has its stamp there, for a reply is stamped  *)
(* no earlier than its pin arrived.                                        *)
Stamped ==
  \A j \in Positions(created) : Newest(created, j) < Window =>
    j \in Positions(stamps) /\ Newest(stamps, j) <= Newest(created, j)

LimiterInv == LimiterTypes /\ Ordered /\ Sleepers /\ Stamped

(* With one caller, moreover, there is room for the pin it is sending, and *)
(* there will be when its sleep ends.                                      *)
Room ==
  /\ Len(stamps) > Limit => Newest(stamps, Limit) >= Window
  /\ \A c \in Callers : Len(stamps) >= Limit =>
       /\ call[c].stage \in {"sending", "arrived"} => Newest(stamps, Limit - 1) >= Window
       /\ call[c].stage = "sleeping" => Newest(stamps, Limit - 1) + call[c].left >= Window

(* The properties follow.                                                  *)
LEMMA SleepsNeeded == LimiterInv => NoNeedlessSleep
<1> SUFFICES ASSUME LimiterInv, NEW c \in Callers, call[c].stage = "sleeping", call[c].left > 0
             PROVE  InWindow(stamps) >= Limit /\ call[c].left <= Window
  BY DEF NoNeedlessSleep
<1>1. /\ stamps \in Seq(Ages) /\ call[c].left \in Nat /\ call[c].left <= Window
      /\ Len(stamps) >= Limit /\ Newest(stamps, Limit - 1) + call[c].left <= Window
  BY DEF LimiterInv, LimiterTypes, CallState, Sleepers
<1>2. Limit - 1 \in Positions(stamps)
  BY <1>1, NewestType DEF Positions
<1>3. ASSUME NEW j \in Positions(stamps), j < Limit PROVE Newest(stamps, j) < Window
  <2>1. j \in Nat /\ Newest(stamps, j) \in Nat /\ Newest(stamps, Limit - 1) \in Nat
    BY <1>1, <1>2, NewestType
  <2>2. Newest(stamps, j) <= Newest(stamps, Limit - 1)
    BY <1>2, <1>3, <2>1 DEF LimiterInv, Ordered
  <2> QED
    BY <1>1, <2>1, <2>2
<1>4. InWindow(stamps) >= Limit
  BY <1>1, <1>3, CountAtLeast
<1> QED
  BY <1>1, <1>4

LEMMA LimitKept ==
  ASSUME LimiterInv, Room, \A c, d \in Callers : c = d
  PROVE  WithinLimit
<1>0. /\ stamps \in Seq(Ages) /\ created \in Seq(Ages) /\ Len(stamps) \in Nat /\ Len(created) \in Nat
      /\ \A j \in Positions(stamps) : j \in Nat /\ Newest(stamps, j) \in Nat
      /\ \A j \in Positions(created) : j \in Nat /\ Newest(created, j) \in Nat
  BY NewestType DEF LimiterInv, LimiterTypes
<1>1. ASSUME NEW j \in Positions(created), Newest(created, j) < Window
      PROVE  j \in Positions(stamps) /\ Newest(stamps, j) < Window
  BY <1>0, <1>1 DEF LimiterInv, Stamped
<1>2. ASSUME NEW n \in {Limit - 1, Limit}, Len(stamps) > n => Newest(stamps, n) >= Window
      PROVE  InWindow(created) \in Nat /\ InWindow(created) <= n
  <2>1. ASSUME NEW j \in Positions(created), Newest(created, j) < Window PROVE j < n
    <3>1. j \in Positions(stamps) /\ Newest(stamps, j) < Window /\ j \in Nat /\ j < Len(stamps)
      BY <1>0, <1>1, <2>1 DEF Positions
    <3> SUFFICES ASSUME n <= j PROVE FALSE
      BY <3>1
    <3>2. n \in Positions(stamps)
      BY <1>0, <3>1 DEF Positions
    <3>3. Newest(stamps, n) <= Newest(stamps, j)
      BY <3>1, <3>2 DEF LimiterInv, Ordered
    <3> QED
      BY <1>0, <1>2, <3>1, <3>2, <3>3 DEF Positions
  <2> QED
    BY <1>0, <2>1, CountAtMost
<1>3. CASE Flying = {}
  <2>1. Cardinality(Flying) = 0
    BY <1>3, FS_EmptySet
  <2>2. InWindow(created) \in Nat /\ InWindow(created) <= Limit
    BY <1>2 DEF Room
  <2> QED
    BY <2>1, <2>2 DEF WithinLimit
<1>4. CASE Flying # {}
  <2>1. PICK c \in Callers : call[c].stage = "arrived" /\ c \in Flying
    BY <1>4 DEF Flying
  <2>2. Flying = {c}
    BY <2>1 DEF Flying
  <2>3. Cardinality(Flying) = 1
    BY <2>2, FS_Singleton
  <2>4. Len(stamps) > Limit - 1 => Newest(stamps, Limit - 1) >= Window
    BY <1>0, <2>1 DEF Room
  <2>5. InWindow(created) \in Nat /\ InWindow(created) <= Limit - 1
    BY <1>2, <2>4
  <2> QED
    BY <2>3, <2>5 DEF WithinLimit
<1> QED
  BY <1>3, <1>4

-----------------------------------------------------------------------------
LEMMA LimiterInit == Init => LimiterInv /\ Room
<1> SUFFICES ASSUME Init PROVE LimiterInv /\ Room
  OBVIOUS
<1>1. stamps = << >> /\ created = << >> /\ Len(stamps) = 0 /\ Len(created) = 0
  BY DEF Init
<1>2. Positions(stamps) = {} /\ Positions(created) = {}
  BY <1>1 DEF Positions
<1>3. Idle \in CallState /\ Idle.stage = "idle"
  BY DEF Idle, CallState, Ages
<1>4. call \in [Callers -> CallState] /\ \A c \in Callers : call[c].stage = "idle"
  BY <1>3 DEF Init
<1>5. << >> \in Seq(Ages)
  OBVIOUS
<1>6. LimiterTypes
  BY <1>1, <1>4, <1>5 DEF LimiterTypes
<1> QED
  BY <1>1, <1>2, <1>4, <1>6 DEF LimiterInv, Ordered, Sleepers, Stamped, Room

(* A step that moves one call, and no list.                                *)
LEMMA MoveStep ==
  ASSUME LimiterInv, NEW c \in Callers, NEW r \in CallState, call' = [call EXCEPT ![c] = r],
         UNCHANGED <<stamps, created>>,
         r.stage # "sleeping"
  PROVE  /\ LimiterInv'
         /\ Room /\ (r.stage \in {"sending", "arrived"} =>
                       \/ call[c].stage \in {"sending", "arrived"}
                       \/ call[c].stage = "sleeping" /\ call[c].left = 0)
              => Room'
<1>1. \A d \in Callers : call'[d] = IF d = c THEN r ELSE call[d]
  BY DEF LimiterInv, LimiterTypes
<1>2. LimiterTypes' /\ Ordered' /\ Stamped'
  BY DEF LimiterInv, LimiterTypes, Ordered, Stamped
<1>3. Sleepers'
  BY <1>1 DEF LimiterInv, Sleepers
<1>4. ASSUME Room, r.stage \in {"sending", "arrived"} =>
                       \/ call[c].stage \in {"sending", "arrived"}
                       \/ call[c].stage = "sleeping" /\ call[c].left = 0
      PROVE  Room'
  <2>1. ASSUME Len(stamps) >= Limit, r.stage \in {"sending", "arrived"}
        PROVE  Newest(stamps, Limit - 1) >= Window
    <3>1. Limit - 1 \in Positions(stamps) /\ stamps \in Seq(Ages)
      BY <2>1, NewestType DEF Positions, LimiterInv, LimiterTypes
    <3>2. Newest(stamps, Limit - 1) \in Nat
      BY <3>1, NewestType
    <3>3. CASE call[c].stage \in {"sending", "arrived"}
      BY <1>4, <2>1, <3>3 DEF Room
    <3>4. CASE call[c].stage = "sleeping" /\ call[c].left = 0
      BY <1>4, <2>1, <3>2, <3>4 DEF Room
    <3> QED
      BY <1>4, <2>1, <3>3, <3>4
  <2> QED
    BY <1>1, <1>4, <2>1 DEF Room
<1> QED
  BY <1>2, <1>3, <1>4 DEF LimiterInv

(* The synchronous and the remote steps between the two list operations.   *)
LEMMA QuietStep ==
  ASSUME LimiterInv, NEW c \in Callers,
         Call(c) \/ RefusePin(c) \/ Wake(c) \/ Arrive(c) \/ Fail(c)
  PROVE  LimiterInv' /\ (Room => Room')
<1>0. call \in [Callers -> CallState] /\ call[c] \in CallState
  BY DEF LimiterInv, LimiterTypes
<1>1. CASE Call(c)
  <2>1. PICK n \in 1 .. MaxBulk : call' = [call EXCEPT ![c] = [Idle EXCEPT !.stage = "preparing", !.pins = n]]
    BY <1>1 DEF Call
  <2> DEFINE r == [Idle EXCEPT !.stage = "preparing", !.pins = n]
  <2>2. r \in CallState /\ r.stage = "preparing"
    <3>1. Idle \in CallState /\ n \in Int
      BY DEF Idle, CallState, Ages
    <3> QED
      BY <3>1 DEF CallState
  <2> HIDE DEF r
  <2>3. call' = [call EXCEPT ![c] = r]
    BY <2>1 DEF r
  <2> QED
    BY <1>1, <2>2, <2>3, MoveStep DEF Call
<1>2. CASE RefusePin(c) \/ Fail(c)
  <2>1. Idle \in CallState /\ Idle.stage = "idle"
    BY DEF Idle, CallState, Ages
  <2> QED
    BY <1>2, <2>1, MoveStep DEF RefusePin, Fail
<1>3. CASE Wake(c)
  <2> DEFINE r == [call[c] EXCEPT !.stage = "sending"]
  <2>1. r \in CallState /\ r.stage = "sending" /\ call' = [call EXCEPT ![c] = r]
    BY <1>0, <1>3 DEF Wake, Move, CallState
  <2> HIDE DEF r
  <2> QED
    BY <1>3, <2>1, MoveStep DEF Wake
<1>4. CASE Arrive(c)
  <2> DEFINE r == [call[c] EXCEPT !.stage = "arrived", !.age = 0]
  <2>1. r \in CallState /\ r.stage = "arrived"
    <3>1. 0 \in Ages
      BY DEF Ages
    <3> QED
      BY <1>0, <3>1 DEF CallState
  <2>2. call' = [call EXCEPT ![c] = r]
    BY <1>0, <1>4 DEF Arrive
  <2> HIDE DEF r
  <2> QED
    BY <1>4, <2>1, <2>2, MoveStep DEF Arrive
<1> QED
  BY <1>1, <1>2, <1>3, <1>4

(* The count: what it drops does not matter to anybody.                    *)
LEMMA CountStep ==
  ASSUME LimiterInv, NEW c \in Callers, Count(c)
  PROVE  LimiterInv' /\ (Room /\ (\A d \in Callers : d = c) => Room')
<1> DEFINE r == Recent(stamps)
           to == IF Len(r) >= Limit
                 THEN [call[c] EXCEPT !.stage = "sleeping", !.left = Window - r[1]]
                 ELSE [call[c] EXCEPT !.stage = "sending"]
<1>0. stamps \in Seq(Ages) /\ call \in [Callers -> CallState] /\ call[c] \in CallState
  BY DEF LimiterInv, LimiterTypes
<1>1. stamps' = r /\ created' = created /\ call[c].stage = "preparing"
      /\ call' = IF Len(r) >= Limit
                 THEN [call EXCEPT ![c].stage = "sleeping", ![c].left = Window - r[1]]
                 ELSE [call EXCEPT ![c].stage = "sending"]
  BY DEF Count
<1>2. /\ r \in Seq(Ages) /\ Len(r) <= Len(stamps) /\ Len(r) \in Nat
      /\ \A j \in Positions(r) : j \in Positions(stamps) /\ Newest(r, j) = Newest(stamps, j)
      /\ \A j \in Positions(stamps) : Newest(stamps, j) < Window => j \in Positions(r)
      /\ Len(r) > 0 => r[1] < Window /\ r[1] = Newest(r, Len(r) - 1)
  BY <1>0, RecentFacts, NewestType
<1> HIDE DEF r
<1>3. /\ Len(stamps) \in Nat
      /\ \A j \in Positions(r) : j \in Nat /\ Newest(r, j) \in Nat
      /\ \A j \in Positions(stamps) : j \in Nat /\ Newest(stamps, j) \in Nat
  BY <1>0, <1>2, NewestType
<1>4. Len(r) >= Limit => /\ Limit - 1 \in Positions(r) /\ Len(r) - 1 \in Positions(r)
                         /\ r[1] \in Nat /\ Newest(r, Limit - 1) <= r[1]
  <2> SUFFICES ASSUME Len(r) >= Limit
               PROVE  /\ Limit - 1 \in Positions(r) /\ Len(r) - 1 \in Positions(r)
                      /\ r[1] \in Nat /\ Newest(r, Limit - 1) <= r[1]
    OBVIOUS
  <2>1. Limit - 1 \in Positions(r) /\ Len(r) - 1 \in Positions(r) /\ Limit - 1 <= Len(r) - 1
    BY <1>2 DEF Positions
  <2>2. Newest(r, Limit - 1) <= Newest(r, Len(r) - 1)
    BY <1>2, <2>1 DEF LimiterInv, Ordered
  <2> QED
    BY <1>2, <1>3, <2>1, <2>2
<1>5. to \in CallState /\ call' = [call EXCEPT ![c] = to]
  <2>1. CASE Len(r) >= Limit
    <3>1. Window - r[1] \in Nat
      BY <1>2, <1>4, <2>1
    <3> QED
      BY <1>0, <1>1, <2>1, <3>1 DEF CallState
  <2>2. CASE ~ (Len(r) >= Limit)
    BY <1>0, <1>1, <2>2 DEF CallState
  <2> QED
    BY <2>1, <2>2
<1>6. /\ Len(r) >= Limit => to.stage = "sleeping" /\ to.left = Window - r[1]
      /\ ~ (Len(r) >= Limit) => to.stage = "sending"
  BY <1>0 DEF CallState
<1> HIDE DEF to
<1>7. \A d \in Callers : call'[d] = IF d = c THEN to ELSE call[d]
  BY <1>0, <1>5
<1>8. LimiterTypes'
  BY <1>0, <1>1, <1>2, <1>5 DEF LimiterInv, LimiterTypes
<1>9. Ordered'
  BY <1>1, <1>2 DEF LimiterInv, Ordered
<1>10. Stamped'
  <2> SUFFICES ASSUME NEW j \in Positions(created), Newest(created, j) < Window
               PROVE  j \in Positions(r) /\ Newest(r, j) <= Newest(created, j)
    BY <1>1 DEF Stamped
  <2>1. j \in Positions(stamps) /\ Newest(stamps, j) <= Newest(created, j)
    BY DEF LimiterInv, Stamped
  <2>2. Newest(created, j) \in Nat /\ Newest(stamps, j) \in Nat
    BY <1>3, <2>1, NewestType DEF LimiterInv, LimiterTypes
  <2> QED
    BY <1>2, <2>1, <2>2
<1>11. Sleepers'
  <2> SUFFICES ASSUME NEW d \in Callers, call'[d].stage = "sleeping", call'[d].left > 0
               PROVE  /\ call'[d].left <= Window /\ Len(r) >= Limit
                      /\ Newest(r, Limit - 1) + call'[d].left <= Window
    BY <1>1 DEF Sleepers
  <2>1. CASE d = c
    BY <1>2, <1>3, <1>4, <1>6, <1>7, <2>1
  <2>2. CASE d # c
    <3>1. /\ call'[d] = call[d] /\ call[d].left \in Nat
          /\ call[d].left <= Window /\ Len(stamps) >= Limit
          /\ Newest(stamps, Limit - 1) + call[d].left <= Window
      BY <1>0, <1>7, <2>2 DEF LimiterInv, Sleepers, CallState
    <3>2. Limit - 1 \in Positions(stamps)
      BY <1>3, <3>1 DEF Positions
    <3>3. Limit - 1 \in Positions(r)
      BY <1>2, <1>3, <3>1, <3>2
    <3> QED
      BY <1>2, <3>1, <3>3 DEF Positions
  <2> QED
    BY <2>1, <2>2
<1>12. ASSUME Room, \A d \in Callers : d = c PROVE Room'
  <2>1. Len(r) <= Limit
    <3> SUFFICES ASSUME Len(r) > Limit PROVE FALSE
      BY <1>2
    <3>1. Limit \in Positions(r) /\ Len(r) - 1 \in Positions(r) /\ Limit <= Len(r) - 1
      BY <1>2 DEF Positions
    <3>2. Newest(r, Limit) <= Newest(r, Len(r) - 1) /\ Newest(r, Len(r) - 1) < Window
      BY <1>2, <3>1, <1>9, <1>1 DEF Ordered
    <3>3. Newest(r, Limit) >= Window
      BY <1>2, <1>3, <1>12, <3>1 DEF Room, Positions
    <3> QED
      BY <1>3, <3>1, <3>2, <3>3
  <2>2. Len(r) >= Limit => /\ call'[c].stage = "sleeping"
                           /\ Newest(r, Limit - 1) + call'[c].left >= Window
    <3> SUFFICES ASSUME Len(r) >= Limit PROVE to.stage = "sleeping" /\ Newest(r, Limit - 1) + to.left >= Window
      BY <1>7
    <3>1. Len(r) = Limit
      BY <1>2, <2>1
    <3> QED
      BY <1>2, <1>4, <1>6, <3>1
  <2>3. Len(r) >= Limit =>
          /\ call'[c].stage \notin {"sending", "arrived"}
          /\ Newest(r, Limit - 1) + call'[c].left >= Window
    BY <2>2
  <2>4. ~ (Len(r) > Limit)
    BY <1>2, <2>1
  <2> QED
    BY <1>1, <1>12, <2>3, <2>4 DEF Room
<1> QED
  BY <1>8, <1>9, <1>10, <1>11, <1>12 DEF LimiterInv
(* The reply: its stamp is the newest, and all the others are a place      *)
(* further from the end.                                                   *)
LEMMA AcknowledgeStep ==
  ASSUME LimiterInv, NEW c \in Callers, Acknowledge(c)
  PROVE  LimiterInv' /\ (Room /\ (\A d \in Callers : d = c) => Room')
<1> DEFINE to == IF call[c].pins = 1 THEN Idle
                 ELSE [call[c] EXCEPT !.stage = "preparing", !.pins = @ - 1, !.age = 0]
           s == Append(stamps, 0)
           k == Append(created, call[c].age)
<1>0. /\ stamps \in Seq(Ages) /\ created \in Seq(Ages) /\ call \in [Callers -> CallState]
      /\ call[c] \in CallState /\ call[c].age \in Ages /\ 0 \in Ages /\ call[c].stage = "arrived"
  BY DEF LimiterInv, LimiterTypes, CallState, Ages, Acknowledge
<1>1. stamps' = s /\ created' = k /\ call' = [call EXCEPT ![c] = to]
  <2>1. stamps' = s /\ created' = k
    BY DEF Acknowledge
  <2>2. call' = [call EXCEPT ![c] = to]
    BY DEF Acknowledge
  <2> QED
    BY <2>1, <2>2
<1>2. /\ s \in Seq(Ages) /\ Len(s) = Len(stamps) + 1 /\ Newest(s, 0) = 0
      /\ \A j \in Positions(stamps) : Newest(s, j + 1) = Newest(stamps, j)
  BY <1>0, AppendNewest
<1>3. /\ k \in Seq(Ages) /\ Len(k) = Len(created) + 1 /\ Newest(k, 0) = call[c].age
      /\ \A j \in Positions(created) : Newest(k, j + 1) = Newest(created, j)
  BY <1>0, AppendNewest
<1> HIDE DEF s, k
<1>4. /\ Len(stamps) \in Nat /\ Len(created) \in Nat
      /\ \A j \in Positions(stamps) : j \in Nat /\ Newest(stamps, j) \in Nat
      /\ \A j \in Positions(s) : j \in Nat /\ Newest(s, j) \in Nat
      /\ \A j \in Positions(k) : j \in Nat /\ Newest(k, j) \in Nat
  BY <1>0, <1>2, <1>3, NewestType
<1>5. ASSUME NEW j \in Positions(s), j # 0
      PROVE  j - 1 \in Positions(stamps) /\ Newest(s, j) = Newest(stamps, j - 1)
  <2>1. j - 1 \in Positions(stamps) /\ (j - 1) + 1 = j
    BY <1>2, <1>4, <1>5 DEF Positions
  <2> QED
    BY <1>2, <2>1
<1>6. to \in CallState /\ to.stage \in {"idle", "preparing"}
  <2>1. CASE call[c].pins = 1
    BY <2>1 DEF Idle, CallState, Ages
  <2>2. CASE call[c].pins # 1
    <3>1. call[c].pins - 1 \in Int
      BY <1>0 DEF CallState
    <3> QED
      BY <1>0, <2>2, <3>1 DEF CallState
  <2> QED
    BY <2>1, <2>2
<1> HIDE DEF to
<1>7. \A d \in Callers : call'[d] = IF d = c THEN to ELSE call[d]
  BY <1>0, <1>1
<1>8. LimiterTypes'
  BY <1>0, <1>1, <1>2, <1>3, <1>6 DEF LimiterTypes
<1>9. Ordered'
  <2> SUFFICES ASSUME NEW i \in Positions(s), NEW j \in Positions(s), i <= j
               PROVE  Newest(s, i) <= Newest(s, j)
    BY <1>1 DEF Ordered
  <2>1. CASE i = 0
    BY <1>2, <1>4, <2>1
  <2>2. CASE i # 0
    BY <1>4, <1>5, <2>2 DEF LimiterInv, Ordered
  <2> QED
    BY <2>1, <2>2
<1>10. Stamped'
  <2> SUFFICES ASSUME NEW j \in Positions(k), Newest(k, j) < Window
               PROVE  j \in Positions(s) /\ Newest(s, j) <= Newest(k, j)
    BY <1>1 DEF Stamped
  <2>1. CASE j = 0
    BY <1>2, <1>3, <1>4, <2>1 DEF Positions
  <2>2. CASE j # 0
    <3>1. j - 1 \in Positions(created) /\ (j - 1) + 1 = j
      BY <1>3, <1>4, <2>2 DEF Positions
    <3>2. Newest(k, j) = Newest(created, j - 1)
      BY <1>3, <3>1
    <3>3. j - 1 \in Positions(stamps) /\ Newest(stamps, j - 1) <= Newest(created, j - 1)
      BY <3>1, <3>2 DEF LimiterInv, Stamped
    <3>4. j \in Positions(s) /\ Newest(s, j) = Newest(stamps, j - 1)
      <4>1. Newest(s, (j - 1) + 1) = Newest(stamps, j - 1)
        BY <1>2, <3>3
      <4> QED
        BY <1>2, <1>4, <3>1, <3>3, <4>1 DEF Positions
    <3> QED
      BY <3>2, <3>3, <3>4
  <2> QED
    BY <2>1, <2>2
<1>11. Sleepers'
  <2> SUFFICES ASSUME NEW d \in Callers, call'[d].stage = "sleeping", call'[d].left > 0
               PROVE  /\ call'[d].left <= Window /\ Len(s) >= Limit
                      /\ Newest(s, Limit - 1) + call'[d].left <= Window
    BY <1>1 DEF Sleepers
  <2>1. /\ call'[d] = call[d] /\ call[d].left \in Nat
        /\ call[d].left <= Window /\ Len(stamps) >= Limit
        /\ Newest(stamps, Limit - 1) + call[d].left <= Window
    BY <1>0, <1>6, <1>7 DEF LimiterInv, Sleepers, CallState
  <2>2. Limit - 1 \in Positions(stamps) /\ Limit - 1 \in Positions(s)
    BY <1>2, <1>4, <2>1 DEF Positions
  <2>3. Newest(s, Limit - 1) <= Newest(stamps, Limit - 1)
    <3>1. CASE Limit - 1 = 0
      BY <1>2, <1>4, <2>2, <3>1
    <3>2. CASE Limit - 1 # 0
      <4>1. Limit - 1 - 1 \in Positions(stamps) /\ Newest(s, Limit - 1) = Newest(stamps, Limit - 1 - 1)
        BY <1>5, <2>2, <3>2
      <4> QED
        BY <1>4, <2>2, <4>1 DEF LimiterInv, Ordered
    <3> QED
      BY <3>1, <3>2
  <2> QED
    BY <1>2, <1>4, <2>1, <2>2, <2>3
<1>12. ASSUME Room, \A d \in Callers : d = c PROVE Room'
  <2>1. ASSUME Len(s) > Limit PROVE Newest(s, Limit) >= Window
    <3>1. Len(stamps) >= Limit /\ Limit - 1 \in Positions(stamps) /\ (Limit - 1) + 1 = Limit
      BY <1>2, <1>4, <2>1 DEF Positions
    <3>2. Newest(stamps, Limit - 1) >= Window
      BY <1>0, <1>12, <3>1 DEF Room
    <3>3. Newest(s, (Limit - 1) + 1) = Newest(stamps, Limit - 1)
      BY <1>2, <3>1
    <3> QED
      BY <3>1, <3>2, <3>3
  <2>2. \A d \in Callers : call'[d].stage \in {"idle", "preparing"}
    BY <1>6, <1>7, <1>12
  <2> QED
    BY <1>1, <2>1, <2>2 DEF Room
<1> QED
  BY <1>8, <1>9, <1>10, <1>11, <1>12 DEF LimiterInv

(* Time: a stamp ages as fast as a sleep runs out.                         *)
LEMMA TickStep ==
  ASSUME LimiterInv, Tick
  PROVE  LimiterInv' /\ (Room => Room')
<1> DEFINE s == Aged(stamps)
           k == Aged(created)
           r == Recent(k)
<1>0. stamps \in Seq(Ages) /\ created \in Seq(Ages) /\ call \in [Callers -> CallState]
  BY DEF LimiterInv, LimiterTypes
<1>1. stamps' = s /\ created' = r
  BY DEF Tick, Aged
<1>2. /\ s \in Seq(Ages) /\ Len(s) = Len(stamps) /\ Positions(s) = Positions(stamps)
      /\ \A j \in Positions(stamps) : Newest(s, j) = Older(Newest(stamps, j))
  BY <1>0, AgedNewest DEF Positions
<1>3. /\ k \in Seq(Ages) /\ Positions(k) = Positions(created)
      /\ \A j \in Positions(created) : Newest(k, j) = Older(Newest(created, j))
  BY <1>0, AgedNewest DEF Positions
<1> HIDE DEF s, k
<1>4. /\ r \in Seq(Ages)
      /\ \A j \in Positions(r) : j \in Positions(k) /\ Newest(r, j) = Newest(k, j)
  BY <1>3, RecentFacts
<1> HIDE DEF r
<1>5. /\ Len(stamps) \in Nat
      /\ \A j \in Positions(stamps) : j \in Nat /\ Newest(stamps, j) \in Ages
      /\ \A j \in Positions(created) : j \in Nat /\ Newest(created, j) \in Ages
  BY <1>0, NewestType
<1>6. ASSUME NEW a \in Ages, NEW b \in Ages, a <= b PROVE Older(a) <= Older(b)
  BY <1>6, OlderType DEF Ages
<1>7. \A c \in Callers : call'[c] = [call[c] EXCEPT !.left = Sooner(@),
                                      !.age = IF call[c].stage = "arrived" THEN Older(@) ELSE @]
  BY DEF Tick
<1>8. ASSUME NEW c \in Callers
      PROVE  /\ call'[c] \in CallState /\ call'[c].stage = call[c].stage
             /\ call[c].left \in Nat
             /\ call'[c].left = IF call[c].left > 0 THEN call[c].left - 1 ELSE call[c].left
  <2>1. call[c] \in CallState /\ call[c].age \in Ages /\ call[c].left \in Nat
    BY <1>0 DEF CallState
  <2>2. Sooner(call[c].left) \in Nat /\ Older(call[c].age) \in Ages
    BY <2>1, OlderType DEF Sooner
  <2> QED
    BY <1>7, <2>1, <2>2 DEF CallState, Sooner
<1>9. LimiterTypes'
  <2>1. call' \in [Callers -> CallState]
    BY <1>8 DEF Tick
  <2> QED
    BY <1>1, <1>2, <1>4, <2>1 DEF LimiterTypes
<1>10. Ordered'
  BY <1>1, <1>2, <1>5, <1>6 DEF LimiterInv, Ordered
<1>11. Stamped'
  <2> SUFFICES ASSUME NEW j \in Positions(r), Newest(r, j) < Window
               PROVE  j \in Positions(s) /\ Newest(s, j) <= Newest(r, j)
    BY <1>1 DEF Stamped
  <2>1. j \in Positions(created) /\ Newest(r, j) = Older(Newest(created, j))
    BY <1>3, <1>4
  <2>2. Newest(created, j) \in Ages /\ Newest(created, j) < Window
    BY <1>5, <2>1, OlderType DEF Ages
  <2>3. j \in Positions(stamps) /\ Newest(stamps, j) <= Newest(created, j)
    BY <2>1, <2>2 DEF LimiterInv, Stamped
  <2> QED
    BY <1>2, <1>5, <1>6, <2>1, <2>2, <2>3
<1>12. Sleepers'
  <2> SUFFICES ASSUME NEW c \in Callers, call'[c].stage = "sleeping", call'[c].left > 0
               PROVE  /\ call'[c].left <= Window /\ Len(s) >= Limit
                      /\ Newest(s, Limit - 1) + call'[c].left <= Window
    BY <1>1 DEF Sleepers
  <2>1. /\ call[c].left \in Nat /\ call[c].left > 0 /\ call'[c].left = call[c].left - 1
        /\ call[c].left <= Window /\ Len(stamps) >= Limit
        /\ Newest(stamps, Limit - 1) + call[c].left <= Window
    BY <1>8 DEF LimiterInv, Sleepers
  <2>2. Limit - 1 \in Positions(stamps)
    BY <1>5, <2>1 DEF Positions
  <2>3. Newest(stamps, Limit - 1) \in Ages /\ Newest(s, Limit - 1) = Older(Newest(stamps, Limit - 1))
    BY <1>2, <1>5, <2>2
  <2>4. Newest(s, Limit - 1) <= Newest(stamps, Limit - 1) + 1 /\ Newest(s, Limit - 1) \in Nat
    BY <2>3, OlderType DEF Ages
  <2> QED
    BY <1>2, <2>1, <2>3, <2>4 DEF Ages
<1>13. ASSUME Room PROVE Room'
  <2>1. ASSUME Len(s) > Limit PROVE Newest(s, Limit) >= Window
    <3>1. Limit \in Positions(stamps) /\ Newest(stamps, Limit) >= Window
      BY <1>2, <1>5, <1>13, <2>1 DEF Room, Positions
    <3> QED
      BY <1>2, <1>5, <3>1, OlderType DEF Ages
  <2>2. ASSUME NEW c \in Callers, Len(s) >= Limit
        PROVE  /\ call[c].stage \in {"sending", "arrived"} => Newest(s, Limit - 1) >= Window
               /\ call[c].stage = "sleeping" => Newest(s, Limit - 1) + call'[c].left >= Window
    <3>1. /\ Limit - 1 \in Positions(stamps)
          /\ call[c].stage \in {"sending", "arrived"} => Newest(stamps, Limit - 1) >= Window
          /\ call[c].stage = "sleeping" => Newest(stamps, Limit - 1) + call[c].left >= Window
      BY <1>2, <1>5, <1>13, <2>2 DEF Room, Positions
    <3>2. Newest(stamps, Limit - 1) \in Ages /\ Newest(s, Limit - 1) = Older(Newest(stamps, Limit - 1))
      BY <1>2, <1>5, <3>1
    <3> QED
      BY <1>8, <3>1, <3>2, OlderType DEF Ages
  <2> QED
    BY <1>1, <1>8, <2>1, <2>2 DEF Room
<1> QED
  BY <1>9, <1>10, <1>11, <1>12, <1>13 DEF LimiterInv

-----------------------------------------------------------------------------
LEMMA LimiterStep == LimiterInv /\ [Next]_vars => LimiterInv'
<1>1. LimiterInv /\ UNCHANGED vars => LimiterInv'
  BY DEF vars, LimiterInv, LimiterTypes, Ordered, Sleepers, Stamped
<1> QED
  BY <1>1, QuietStep, CountStep, AcknowledgeStep, TickStep DEF Next

LEMMA RoomStep ==
  ASSUME \A c, d \in Callers : c = d
  PROVE  LimiterInv /\ Room /\ [Next]_vars => Room'
<1>1. Room /\ UNCHANGED vars => Room'
  BY DEF vars, Room
<1> QED
  BY <1>1, QuietStep, CountStep, AcknowledgeStep, TickStep DEF Next

LEMMA LimiterInvariance == Spec => []LimiterInv
  BY LimiterInit, LimiterStep, PTL DEF Spec

(* However many coroutines share the limiter, none of them sleeps while    *)
(* the window has room, and none for longer than the window lasts.         *)
THEOREM SleepsTheorem == Spec => []NoNeedlessSleep
  BY LimiterInvariance, SleepsNeeded, PTL

(* A client that is used by one call at a time, as the limiter supposes    *)
(* (_rate_limited_pin does not count again after its sleep), never has     *)
(* more than Limit pins arrive within one window, in bulks of any length.  *)
THEOREM LimitTheorem ==
  ASSUME \A c, d \in Callers : c = d
  PROVE  Spec => []WithinLimit
<1>1. LimiterInv /\ Room => WithinLimit
  BY LimitKept
<1>2. LimiterInv /\ Room /\ [Next]_vars => Room'
  BY RoomStep
<1> QED
  BY <1>1, <1>2, LimiterInit, LimiterInvariance, PTL DEF Spec
=============================================================================
