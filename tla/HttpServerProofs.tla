--------------------------- MODULE HttpServerProofs ---------------------------
(* Proofs about HttpServer and the EventStore that it keeps, for any       *)
(* settings and requests, any number of streams and clients and any limit  *)
(* of the deques.                                                          *)
EXTENDS HttpServer, WellFoundedInduction, TLAPS

LEMMA StoreConstants ==
  /\ MaxPerStream \in Nat /\ MaxPerStream >= 1 /\ MaxEvents \in Nat
  /\ None \notin Streams /\ None \notin Nat
  BY StoreAssumption

USE StoreConstants

-----------------------------------------------------------------------------
(* The store.  A log has the events of its stream in the order in which    *)
(* they were stored, no event is in two logs, and a deque is the end of    *)
(* its log.                                                                *)
StoreTypes ==
    /\ deques \in [Streams -> Seq(Entry)]
    /\ log \in [Streams -> Seq(Entry)]
    /\ index \in [Events -> Streams \cup {None}]
    /\ count \in 0 .. MaxEvents

LogsOrdered ==
    \A s \in Streams :
        /\ Len(log[s]) <= count
        /\ \A i \in 1 .. Len(log[s]) : log[s][i].event <= count
        /\ \A i, j \in 1 .. Len(log[s]) : i < j => log[s][i].event < log[s][j].event

LogsApart ==
    \A s, t \in Streams : \A i \in 1 .. Len(log[s]), j \in 1 .. Len(log[t]) :
        log[s][i].event = log[t][j].event => s = t

DequesEnd ==
    \A s \in Streams :
        /\ Len(deques[s]) <= MaxPerStream /\ Len(deques[s]) <= Len(log[s])
        /\ \A i \in 1 .. Len(deques[s]) : deques[s][i] = log[s][Len(log[s]) - Len(deques[s]) + i]

IndexExact ==
    \A e \in Events, s \in Streams :
        index[e] = s <=> \E i \in 1 .. Len(deques[s]) : deques[s][i].event = e

StoreInv == StoreTypes /\ LogsOrdered /\ LogsApart /\ DequesEnd /\ IndexExact

(* The entries of the tables.                                              *)
LEMMA Entries ==
  ASSUME StoreTypes, NEW s \in Streams
  PROVE  /\ Len(log[s]) \in Nat /\ Len(deques[s]) \in Nat
         /\ DOMAIN log[s] = 1 .. Len(log[s]) /\ DOMAIN deques[s] = 1 .. Len(deques[s])
         /\ \A i \in 1 .. Len(log[s]) : /\ log[s][i] \in Entry
                                        /\ log[s][i].event \in Events /\ log[s][i].event \in Nat
                                        /\ log[s][i].message \in BOOLEAN
         /\ \A i \in 1 .. Len(deques[s]) : /\ deques[s][i] \in Entry
                                           /\ deques[s][i].event \in Events /\ deques[s][i].event \in Nat
                                           /\ deques[s][i].message \in BOOLEAN
<1>1. log[s] \in Seq(Entry) /\ deques[s] \in Seq(Entry)
  BY DEF StoreTypes
<1>2. ASSUME NEW q \in Seq(Entry), NEW i \in 1 .. Len(q)
      PROVE  q[i] \in Entry /\ q[i].event \in Events /\ q[i].event \in Nat /\ q[i].message \in BOOLEAN
  <2>1. q[i] \in Entry
    OBVIOUS
  <2> QED
    BY <2>1 DEF Entry, Events
<1> QED
  BY <1>1, <1>2

(* The events of a deque are in order.                                     *)
LEMMA DequeOrdered ==
  ASSUME StoreInv, NEW s \in Streams
  PROVE  /\ \A i \in 1 .. Len(deques[s]) : deques[s][i].event <= count
         /\ \A i, j \in 1 .. Len(deques[s]) : i < j => deques[s][i].event < deques[s][j].event
<1> DEFINE off == Len(log[s]) - Len(deques[s])
<1>0. Len(log[s]) \in Nat /\ Len(deques[s]) \in Nat /\ Len(deques[s]) <= Len(log[s])
  BY Entries DEF StoreInv, DequesEnd
<1>1. off \in Nat /\ Len(log[s]) = off + Len(deques[s])
  BY <1>0
<1>2. \A i \in 1 .. Len(deques[s]) : deques[s][i] = log[s][off + i]
  BY DEF StoreInv, DequesEnd
<1> HIDE DEF off
<1>3. \A i \in 1 .. Len(deques[s]) : off + i \in 1 .. Len(log[s])
  BY <1>0, <1>1
<1>4. \A i, j \in 1 .. Len(deques[s]) : i < j => off + i < off + j
  BY <1>0, <1>1
<1> QED
  BY <1>2, <1>3, <1>4 DEF StoreInv, LogsOrdered

LEMMA StoreInitInv == StoreInit => StoreInv
<1> SUFFICES ASSUME StoreInit PROVE StoreInv
  OBVIOUS
<1>1. << >> \in Seq(Entry) /\ Len(<< >>) = 0 /\ 1 .. 0 = {}
  OBVIOUS
<1>2. \A s \in Streams : deques[s] = << >> /\ log[s] = << >>
  BY DEF StoreInit
<1>3. StoreTypes
  BY <1>1 DEF StoreInit, StoreTypes
<1>4. LogsOrdered /\ LogsApart /\ DequesEnd
  BY <1>1, <1>2 DEF StoreInit, LogsOrdered, LogsApart, DequesEnd
<1>5. IndexExact
  BY <1>1, <1>2 DEF StoreInit, IndexExact
<1> QED
  BY <1>3, <1>4, <1>5 DEF StoreInv

(* The store of a process that is gone.                                    *)
LEMMA StoreLostInv == StoreInv /\ StoreLost => StoreInv'
<1> SUFFICES ASSUME StoreInv, StoreLost PROVE StoreInv'
  OBVIOUS
<1>1. << >> \in Seq(Entry) /\ Len(<< >>) = 0 /\ 1 .. 0 = {}
  OBVIOUS
<1>2. /\ \A s \in Streams : deques'[s] = << >>
      /\ \A e \in Events : index'[e] = None
      /\ log' = log /\ count' = count
  BY DEF StoreLost
<1>3. StoreTypes'
  BY <1>1 DEF StoreLost, StoreInv, StoreTypes
<1>4. LogsOrdered' /\ LogsApart'
  BY <1>2 DEF StoreInv, LogsOrdered, LogsApart
<1>5. DequesEnd'
  <2>1. \A s \in Streams : Len(log[s]) >= 0 /\ Len(log[s]) \in Nat
    BY Entries DEF StoreInv
  <2>2. \A s \in Streams : Len(deques'[s]) = 0 /\ log'[s] = log[s]
    BY <1>1, <1>2
  <2>3. 0 <= MaxPerStream
    OBVIOUS
  <2> QED
    BY <1>1, <2>1, <2>2, <2>3 DEF DequesEnd
<1>6. IndexExact'
  BY <1>1, <1>2 DEF IndexExact
<1> QED
  BY <1>3, <1>4, <1>5, <1>6 DEF StoreInv

(* A deque that takes one more entry.                                      *)
LEMMA AppendedFacts ==
  ASSUME NEW q \in Seq(Entry), NEW e \in Entry, Len(q) <= MaxPerStream
  PROVE  LET r == Appended(q, e)
             gone == IF Len(q) = MaxPerStream THEN 1 ELSE 0
         IN /\ r \in Seq(Entry) /\ Len(r) = Len(q) - gone + 1 /\ Len(r) <= MaxPerStream
            /\ r[Len(r)] = e
            /\ \A i \in 1 .. Len(r) - 1 : r[i] = q[i + gone]
<1>0. Len(q) \in Nat
  OBVIOUS
<1>1. CASE Len(q) = MaxPerStream
  <2> DEFINE t == Tail(q)
  <2>1. t \in Seq(Entry) /\ Len(t) = Len(q) - 1 /\ Len(q) >= 1 /\ Len(t) \in Nat
    BY <1>1
  <2>2. \A i \in 1 .. Len(t) : t[i] = q[i + 1]
    BY <1>1, <2>1
  <2> HIDE DEF t
  <2>3. /\ Append(t, e) \in Seq(Entry) /\ Len(Append(t, e)) = Len(t) + 1
        /\ Append(t, e)[Len(t) + 1] = e /\ \A i \in 1 .. Len(t) : Append(t, e)[i] = t[i]
    BY <2>1
  <2> QED
    BY <1>1, <2>1, <2>2, <2>3 DEF Appended, t
<1>2. CASE Len(q) # MaxPerStream
  <2>1. /\ Append(q, e) \in Seq(Entry) /\ Len(Append(q, e)) = Len(q) + 1
        /\ Append(q, e)[Len(q) + 1] = e /\ \A i \in 1 .. Len(q) : Append(q, e)[i] = q[i]
    OBVIOUS
  <2> QED
    BY <1>0, <1>2, <2>1 DEF Appended
<1> QED
  BY <1>1, <1>2

(* Storing an event: the log and the deque of its stream grow, the event   *)
(* that falls out of the deque leaves the index.                           *)
LEMMA StoreStepInv ==
  ASSUME StoreInv, NEW s \in Streams, Store(s)
  PROVE  StoreInv'
<1> DEFINE q == deques[s]
           l == log[s]
           gone == IF Len(q) = MaxPerStream THEN 1 ELSE 0
<1>0. /\ count \in Nat /\ count + 1 \in Events /\ count' = count + 1
      /\ StoreTypes /\ q \in Seq(Entry) /\ l \in Seq(Entry)
      /\ Len(q) \in Nat /\ Len(l) \in Nat /\ Len(q) <= MaxPerStream /\ Len(q) <= Len(l)
      /\ gone \in {0, 1} /\ (gone = 1 => Len(q) >= 1)
  BY DEF StoreInv, StoreTypes, DequesEnd, Store, Events
<1>1. PICK message \in BOOLEAN :
        LET entry == [event |-> count + 1, message |-> message]
        IN /\ deques' = [deques EXCEPT ![s] = Appended(@, entry)]
           /\ log' = [log EXCEPT ![s] = Append(@, entry)]
  BY DEF Store
<1> DEFINE entry == [event |-> count + 1, message |-> message]
           q2 == Appended(q, entry)
           l2 == Append(l, entry)
<1> HIDE DEF gone
<1>2. entry \in Entry /\ entry.event = count + 1
  BY <1>0 DEF Entry
<1>3. /\ \A t \in Streams : deques'[t] = IF t = s THEN q2 ELSE deques[t]
      /\ \A t \in Streams : log'[t] = IF t = s THEN l2 ELSE log[t]
  BY <1>0, <1>1 DEF StoreTypes
<1>4. /\ q2 \in Seq(Entry) /\ Len(q2) = Len(q) - gone + 1 /\ Len(q2) <= MaxPerStream
      /\ q2[Len(q2)] = entry
      /\ \A i \in 1 .. Len(q2) - 1 : q2[i] = q[i + gone]
  BY <1>0, <1>2, AppendedFacts DEF gone
<1>5. /\ l2 \in Seq(Entry) /\ Len(l2) = Len(l) + 1 /\ l2[Len(l) + 1] = entry
      /\ \A i \in 1 .. Len(l) : l2[i] = l[i]
  BY <1>0, <1>2
<1>6. index' = [Forgotten(s) EXCEPT ![count + 1] = s]
  BY DEF Store
<1>7. StoreTypes'
  <2>1. deques' \in [Streams -> Seq(Entry)] /\ log' \in [Streams -> Seq(Entry)]
    BY <1>0, <1>1, <1>4, <1>5 DEF StoreTypes
  <2>2. Forgotten(s) \in [Events -> Streams \cup {None}]
    BY <1>0 DEF Forgotten, StoreTypes
  <2>3. index' \in [Events -> Streams \cup {None}]
    BY <1>6, <2>2
  <2>4. count' \in 0 .. MaxEvents
    BY <1>0 DEF Events
  <2> QED
    BY <2>1, <2>3, <2>4 DEF StoreTypes
<1> HIDE DEF q2, l2, entry
<1>8. \A i \in 1 .. Len(l) : l[i].event \in Nat /\ l[i].event <= count
  BY <1>0, Entries DEF StoreInv, LogsOrdered
<1>13. \A i \in 1 .. Len(l) + 1 : i \in 1 .. Len(l) \/ i = Len(l) + 1
  <2> HIDE DEF l
  <2> QED
    BY <1>0
<1>9. LogsOrdered'
  <2> SUFFICES ASSUME NEW t \in Streams
               PROVE  /\ Len(log'[t]) <= count + 1
                      /\ \A i \in 1 .. Len(log'[t]) : log'[t][i].event <= count + 1
                      /\ \A i, j \in 1 .. Len(log'[t]) : i < j => log'[t][i].event < log'[t][j].event
    BY <1>0 DEF LogsOrdered
  <2>0. /\ Len(log[t]) <= count
        /\ \A i \in 1 .. Len(log[t]) : log[t][i].event <= count /\ log[t][i].event \in Nat
        /\ \A i, j \in 1 .. Len(log[t]) : i < j => log[t][i].event < log[t][j].event
        /\ Len(log[t]) \in Nat
    BY Entries DEF StoreInv, LogsOrdered
  <2>1. CASE t # s
    <3>1. log'[t] = log[t]
      BY <1>3, <2>1
    <3>2. Len(log[t]) <= count + 1 /\ \A i \in 1 .. Len(log[t]) : log[t][i].event <= count + 1
      BY <1>0, <2>0
    <3> QED
      BY <2>0, <3>1, <3>2
  <2>2. CASE t = s
    <3>1. \A i \in 1 .. Len(l2) : (i \in 1 .. Len(l) /\ l2[i] = l[i]) \/ (i = Len(l) + 1 /\ l2[i] = entry)
      BY <1>5, <1>13
    <3>2. log'[t] = l2 /\ l = log[t]
      BY <1>3, <2>2
    <3> HIDE DEF l
    <3>3. Len(l2) <= count + 1
      BY <1>0, <1>5, <2>0, <3>2
    <3>4. \A i \in 1 .. Len(l2) : l2[i].event <= count + 1
      BY <1>0, <1>2, <2>0, <3>1, <3>2
    <3>5. ASSUME NEW i \in 1 .. Len(l2), NEW j \in 1 .. Len(l2), i < j
          PROVE  l2[i].event < l2[j].event
      <4>1. i # Len(l) + 1
        BY <1>0, <1>5, <3>5
      <4>2. i \in 1 .. Len(l) /\ l2[i] = l[i]
        BY <3>1, <4>1
      <4>3. CASE j = Len(l) + 1 /\ l2[j] = entry
        BY <1>0, <1>2, <2>0, <3>2, <4>2, <4>3
      <4>4. CASE j \in 1 .. Len(l) /\ l2[j] = l[j]
        BY <2>0, <3>2, <3>5, <4>2, <4>4
      <4> QED
        BY <3>1, <4>3, <4>4
    <3> QED
      BY <3>2, <3>3, <3>4, <3>5
  <2> QED
    BY <2>1, <2>2
<1>10. LogsApart'
  <2> SUFFICES ASSUME NEW t \in Streams, NEW u \in Streams,
                      NEW i \in 1 .. Len(log'[t]), NEW j \in 1 .. Len(log'[u]),
                      log'[t][i].event = log'[u][j].event
               PROVE  t = u
    BY DEF LogsApart
  <2>1. \A v \in Streams : \A n \in 1 .. Len(log'[v]) :
          \/ n \in 1 .. Len(log[v]) /\ log'[v][n] = log[v][n] /\ log[v][n].event <= count
          \/ v = s /\ log'[v][n].event = count + 1
    <3> SUFFICES ASSUME NEW v \in Streams, NEW n \in 1 .. Len(log'[v])
                 PROVE  \/ n \in 1 .. Len(log[v]) /\ log'[v][n] = log[v][n] /\ log[v][n].event <= count
                        \/ v = s /\ log'[v][n].event = count + 1
      OBVIOUS
    <3>1. CASE v # s
      BY <1>3, <3>1 DEF StoreInv, LogsOrdered
    <3>2. CASE v = s
      <4>1. n \in 1 .. Len(l) + 1
        BY <1>3, <1>5, <3>2
      <4>2. n \in 1 .. Len(l) \/ n = Len(l) + 1
        BY <1>13, <4>1
      <4> QED
        BY <1>2, <1>3, <1>5, <1>8, <3>2, <4>2
    <3> QED
      BY <3>1, <3>2
  <2>2. \A v \in Streams : \A n \in 1 .. Len(log[v]) : log[v][n].event \in Nat
    BY <1>0, Entries
  <2>3. CASE i \in 1 .. Len(log[t]) /\ log'[t][i] = log[t][i] /\ log[t][i].event <= count
    <3>1. log[t][i].event # count + 1
      BY <1>0, <2>2, <2>3
    <3> QED
      BY <2>1, <2>3, <3>1, SMTT(30) DEF StoreInv, LogsApart
  <2>4. CASE t = s /\ log'[t][i].event = count + 1
    <3>1. \A n \in 1 .. Len(log[u]) : ~(log[u][n].event <= count /\ log[u][n].event = count + 1)
      BY <1>0, <2>2
    <3> QED
      BY <2>1, <2>4, <3>1
  <2> QED
    BY <2>1, <2>3, <2>4
<1>11. DequesEnd'
  <2> SUFFICES ASSUME NEW t \in Streams
               PROVE  /\ Len(deques'[t]) <= MaxPerStream /\ Len(deques'[t]) <= Len(log'[t])
                      /\ \A i \in 1 .. Len(deques'[t]) :
                           deques'[t][i] = log'[t][Len(log'[t]) - Len(deques'[t]) + i]
    BY DEF DequesEnd
  <2>1. CASE t # s
    BY <1>3, <2>1 DEF StoreInv, DequesEnd
  <2>2. CASE t = s
    <3>0. \A m \in 1 .. Len(q) : q[m] = l[Len(l) - Len(q) + m]
      BY DEF StoreInv, DequesEnd
    <3>9. deques'[t] = q2 /\ log'[t] = l2
      BY <1>3, <2>2
    <3> HIDE DEF q, l
    <3>1. Len(q2) <= MaxPerStream /\ Len(q2) <= Len(l2) /\ Len(q2) \in Nat /\ Len(q2) >= 1
      BY <1>0, <1>4, <1>5
    <3>2. ASSUME NEW i \in 1 .. Len(q2) PROVE q2[i] = l2[Len(l2) - Len(q2) + i]
      <4>1. CASE i = Len(q2)
        <5>1. Len(l2) - Len(q2) + i = Len(l) + 1
          BY <1>0, <1>5, <3>1, <4>1
        <5> QED
          BY <1>4, <1>5, <4>1, <5>1
      <4>2. CASE i # Len(q2)
        <5>0. /\ i \in Nat /\ Len(q2) = Len(q) - gone + 1 /\ gone \in {0, 1}
              /\ Len(q) \in Nat /\ i >= 1 /\ i <= Len(q2)
          BY <1>0, <1>4, <3>1, <3>2
        <5>1. i \in 1 .. Len(q2) - 1 /\ i + gone \in 1 .. Len(q)
          <6> HIDE DEF q2
          <6>1. CASE gone = 0
            BY <5>0, <4>2, <6>1
          <6>2. CASE gone = 1
            BY <5>0, <4>2, <6>2
          <6> QED
            BY <5>0, <6>1, <6>2
        <5>2. q2[i] = q[i + gone] /\ q[i + gone] = l[Len(l) - Len(q) + (i + gone)]
          BY <1>4, <3>0, <5>1
        <5>3. /\ Len(l2) - Len(q2) + i = Len(l) - Len(q) + (i + gone)
              /\ Len(l2) - Len(q2) + i \in 1 .. Len(l)
          BY <1>0, <1>4, <1>5, <3>1, <5>1, SMTT(30)
        <5> QED
          BY <1>5, <5>2, <5>3
      <4> QED
        BY <4>1, <4>2
    <3> QED
      BY <3>1, <3>2, <3>9
  <2> QED
    BY <2>1, <2>2
<1>12. IndexExact'
  <2> SUFFICES ASSUME NEW e \in Events, NEW t \in Streams
               PROVE  index'[e] = t <=> \E i \in 1 .. Len(deques'[t]) : deques'[t][i].event = e
    BY DEF IndexExact
  <2>1. index'[e] = IF e = count + 1 THEN s
                    ELSE IF gone = 1 /\ e = q[1].event THEN None ELSE index[e]
    <3>1. gone = 1 => q[1].event \in Events
      BY <1>0, Entries
    <3>2. Forgotten(s) \in [Events -> Streams \cup {None}]
      BY <1>0 DEF Forgotten, StoreTypes
    <3>3. Forgotten(s)[e] = IF gone = 1 /\ e = q[1].event THEN None ELSE index[e]
      BY <1>0, <3>1 DEF Forgotten, StoreTypes, gone
    <3> QED
      BY <1>0, <1>6, <3>2, <3>3
  <2>2. \A u \in Streams : \A i \in 1 .. Len(deques[u]) : deques[u][i].event <= count /\ deques[u][i].event \in Nat
    BY <1>0, DequeOrdered, Entries
  <2>3. index[e] = t <=> \E i \in 1 .. Len(deques[t]) : deques[t][i].event = e
    BY DEF StoreInv, IndexExact
  <2>4. CASE t # s
    <3>1. gone = 1 /\ e = q[1].event => index[e] = s
      BY <1>0 DEF StoreInv, IndexExact
    <3>2. e = count + 1 => ~ \E i \in 1 .. Len(deques[t]) : deques[t][i].event = e
      BY <1>0, <2>2
    <3> QED
      BY <1>3, <2>1, <2>3, <2>4, <3>1, <3>2
  <2>5. CASE t = s
    <3>0. Len(q2) \in Nat /\ Len(q2) >= 1
      BY <1>0, <1>4
    <3>1. CASE e = count + 1
      <4>1. Len(q2) \in 1 .. Len(q2) /\ q2[Len(q2)].event = e
        BY <1>2, <1>4, <3>0, <3>1
      <4> QED
        BY <1>3, <2>1, <2>5, <3>1, <4>1
    <3>2. CASE e # count + 1
      <4>1. (\E i \in 1 .. Len(q2) : q2[i].event = e) <=> \E i \in 1 .. Len(q2) - 1 : q[i + gone].event = e
        <5>1. \A i \in 1 .. Len(q2) : i = Len(q2) \/ i \in 1 .. Len(q2) - 1
          BY <3>0
        <5>2. \A i \in 1 .. Len(q2) - 1 : i \in 1 .. Len(q2)
          BY <3>0
        <5> QED
          BY <1>2, <1>4, <3>2, <5>1, <5>2
      <4>2. CASE gone = 0
        <5>1. Len(q2) - 1 = Len(q) /\ \A i \in 1 .. Len(q) : i + gone = i
          BY <1>0, <1>4, <4>2
        <5> QED
          BY <1>3, <2>1, <2>3, <2>5, <3>2, <4>1, <4>2, <5>1
      <4>3. CASE gone = 1
        <5>1. Len(q2) - 1 = Len(q) - 1 /\ Len(q) >= 1
          BY <1>0, <1>4, <4>3
        <5>2. (\E i \in 1 .. Len(q) - 1 : q[i + 1].event = e)
                <=> e # q[1].event /\ \E i \in 1 .. Len(q) : q[i].event = e
          <6>1. ASSUME NEW i \in 1 .. Len(q) - 1, q[i + 1].event = e
                PROVE  e # q[1].event /\ \E n \in 1 .. Len(q) : q[n].event = e
            <7>1. i + 1 \in 1 .. Len(q) /\ 1 \in 1 .. Len(q) /\ 1 < i + 1
              BY <1>0, <5>1
            <7>2. q[1].event < q[i + 1].event /\ q[1].event \in Nat
              BY <1>0, <7>1, DequeOrdered, Entries
            <7> QED
              BY <6>1, <7>1, <7>2
          <6>2. ASSUME NEW n \in 1 .. Len(q), q[n].event = e, e # q[1].event
                PROVE  \E i \in 1 .. Len(q) - 1 : q[i + 1].event = e
            <7>1. n - 1 \in 1 .. Len(q) - 1 /\ (n - 1) + 1 = n
              BY <1>0, <6>2
            <7> QED
              BY <6>2, <7>1
          <6> QED
            BY <6>1, <6>2
        <5>3. index'[e] = t <=> e # q[1].event /\ index[e] = t
          BY <2>1, <3>2, <4>3
        <5> QED
          BY <1>3, <2>3, <2>5, <4>1, <4>3, <5>1, <5>2, <5>3
      <4> QED
        BY <1>0, <4>2, <4>3
    <3> QED
      BY <3>1, <3>2
  <2> QED
    BY <2>4, <2>5
<1> QED
  BY <1>7, <1>9, <1>10, <1>11, <1>12 DEF StoreInv
-----------------------------------------------------------------------------
(* The clients.  A client that lost its stream belongs to one log, which   *)
(* only grows: it has the messages of that log from the event it lost the  *)
(* stream at to its Last-Event-ID, and a replay that runs has still to     *)
(* send what follows.                                                      *)
Clientele ==
    [stage : {"new", "replaying", "away", "refused"},
     first : Events \cup {None}, last : Events \cup {None},
     got : Seq(Events), todo : Seq(Entry), known : 0 .. MaxEvents]

Ordered(l) ==
    /\ l \in Seq(Entry)
    /\ \A i, j \in 1 .. Len(l) : i < j => l[i].event < l[j].event

Has(l, e) == \E p \in 1 .. Len(l) : l[p].event = e

Knows(l, k) ==
    /\ k.first \in Events /\ k.last \in Events /\ k.first <= k.last
    /\ Has(l, k.first) /\ Has(l, k.last)
    /\ \A i, j \in 1 .. Len(k.got) : i < j => k.got[i] < k.got[j]
    /\ \A m \in Events :
         (\E i \in 1 .. Len(k.got) : k.got[i] = m)
            <=> \E j \in 1 .. Len(l) : l[j].event = m /\ l[j].message /\ k.first < m /\ m <= k.last

Behind(l, k) ==
    /\ k.known <= Len(l) /\ Len(k.todo) <= k.known
    /\ \A i \in 1 .. Len(k.todo) : /\ k.todo[i] = l[k.known - Len(k.todo) + i]
                                   /\ k.todo[i].event > k.last
    /\ \A j \in 1 .. Len(l) : l[j].message /\ j <= k.known - Len(k.todo) => l[j].event <= k.last
    /\ \A j \in 1 .. Len(l) : l[j].event <= k.last => j <= k.known

AtHome(k) ==
    \E s \in Streams : Knows(log[s], k) /\ (k.stage = "replaying" => Behind(log[s], k))

ClientInv ==
    /\ client \in [Clients -> Clientele]
    /\ \A c \in Clients : client[c].stage = "new" => client[c].first = None /\ client[c].got = << >>
    /\ \A c \in Clients : client[c].stage \in {"replaying", "away"} => AtHome(client[c])

(* What a client knows depends on three of its fields.                     *)
LEMMA KnowsSame ==
  ASSUME NEW l, NEW k, NEW k2, Knows(l, k),
         k2.first = k.first, k2.last = k.last, k2.got = k.got
  PROVE  Knows(l, k2)
  BY DEF Knows

LEMMA EventsAreNumbers == Events \subseteq Nat
  BY DEF Events

(* The entries of a log as plain facts.                                    *)
LEMMA OrderedEntries ==
  ASSUME NEW l, Ordered(l)
  PROVE  /\ Len(l) \in Nat /\ l \in Seq(Entry)
         /\ \A i \in 1 .. Len(l) : l[i] \in Entry /\ l[i].event \in Nat /\ l[i].message \in BOOLEAN
<1>1. l \in Seq(Entry)
  BY DEF Ordered
<1>2. \A i \in 1 .. Len(l) : l[i] \in Entry
  BY <1>1
<1> QED
  BY <1>1, <1>2 DEF Entry, Events

(* What a client knows stays so when its log grows.                        *)
LEMMA KnowsMore ==
  ASSUME NEW l, Ordered(l), NEW e \in Entry, NEW k \in Clientele,
         \A i \in 1 .. Len(l) : l[i].event < e.event,
         Knows(l, k)
  PROVE  Knows(Append(l, e), k) /\ (Behind(l, k) => Behind(Append(l, e), k))
<1> DEFINE l2 == Append(l, e)
<1>1. /\ Len(l) \in Nat /\ l2 \in Seq(Entry) /\ Len(l2) = Len(l) + 1
      /\ l2[Len(l) + 1] = e /\ \A i \in 1 .. Len(l) : l2[i] = l[i]
  BY OrderedEntries
<1> HIDE DEF l2
<1>2. e.event \in Nat /\ k.first \in Nat /\ k.last \in Nat /\ k.known \in Nat /\ Len(k.todo) \in Nat
  <2>1. e.event \in Nat
    BY DEF Entry, Events
  <2>2. k.first \in Nat /\ k.last \in Nat
    BY EventsAreNumbers DEF Knows
  <2>3. k.known \in 0 .. MaxEvents /\ k.todo \in Seq(Entry)
    BY DEF Clientele
  <2> QED
    BY <2>1, <2>2, <2>3
<1>3. k.last < e.event /\ k.first < e.event
  BY <1>2, OrderedEntries DEF Knows, Has
<1>4. \A i \in 1 .. Len(l) : i \in 1 .. Len(l2) /\ i # Len(l) + 1
  BY <1>1
<1>5. \A i \in 1 .. Len(l2) : i \in 1 .. Len(l) \/ i = Len(l) + 1
  BY <1>1
<1>6. Has(l2, k.first) /\ Has(l2, k.last)
  BY <1>1, <1>4 DEF Knows, Has
<1>7. ASSUME NEW m \in Events
      PROVE  (\E j \in 1 .. Len(l) : l[j].event = m /\ l[j].message /\ k.first < m /\ m <= k.last)
                <=> \E j \in 1 .. Len(l2) : l2[j].event = m /\ l2[j].message /\ k.first < m /\ m <= k.last
  <2>1. ~(e.event = m /\ m <= k.last)
    BY <1>2, <1>3
  <2> QED
    BY <1>1, <1>4, <1>5, <2>1
<1>8. Knows(l2, k)
  BY <1>6, <1>7 DEF Knows
<1>9. ASSUME Behind(l, k) PROVE Behind(l2, k)
  <2>1. k.known <= Len(l2) /\ Len(k.todo) <= k.known /\ k.known <= Len(l)
    BY <1>1, <1>2, <1>9 DEF Behind
  <2>2. \A i \in 1 .. Len(k.todo) : k.known - Len(k.todo) + i \in 1 .. Len(l)
    BY <1>1, <1>2, <2>1
  <2>3. \A i \in 1 .. Len(k.todo) : k.todo[i] = l2[k.known - Len(k.todo) + i] /\ k.todo[i].event > k.last
    BY <1>1, <1>9, <2>2 DEF Behind
  <2>4. ~(Len(l) + 1 <= k.known - Len(k.todo))
    BY <1>1, <1>2, <2>1
  <2>5. \A j \in 1 .. Len(l2) : l2[j].message /\ j <= k.known - Len(k.todo) => l2[j].event <= k.last
    BY <1>1, <1>5, <1>9, <2>4 DEF Behind
  <2>6. \A j \in 1 .. Len(l2) : l2[j].event <= k.last => j <= k.known
    BY <1>1, <1>2, <1>3, <1>5, <1>9 DEF Behind
  <2> QED
    BY <2>1, <2>3, <2>5, <2>6 DEF Behind
<1> QED
  BY <1>8, <1>9 DEF l2
(* One turn of a replay: the client has one message more, or passes over   *)
(* an event without one.                                                   *)
LEMMA SendKeeps ==
  ASSUME NEW l, Ordered(l), NEW k \in Clientele, Knows(l, k), Behind(l, k), k.todo # << >>,
         NEW k2 \in Clientele,
         k2.first = k.first, k2.todo = Tail(k.todo), k2.known = k.known,
         IF Head(k.todo).message
         THEN k2.last = Head(k.todo).event /\ k2.got = Append(k.got, Head(k.todo).event)
         ELSE k2.last = k.last /\ k2.got = k.got
  PROVE  Knows(l, k2) /\ Behind(l, k2)
<1> DEFINE todo == k.todo
           rest == Tail(todo)
           n == Head(todo)
           at == k.known - Len(todo) + 1
<1>1. todo \in Seq(Entry) /\ todo # << >> /\ k.got \in Seq(Events) /\ k.known \in Nat
  <2>1. k.known \in 0 .. MaxEvents /\ k.todo \in Seq(Entry) /\ k.got \in Seq(Events)
    BY DEF Clientele
  <2> QED
    BY <2>1
<1>2. /\ Len(todo) \in Nat /\ Len(todo) >= 1 /\ n = todo[1]
      /\ Len(rest) = Len(todo) - 1 /\ \A i \in 1 .. Len(rest) : rest[i] = todo[i + 1]
  <2> HIDE DEF todo
  <2> QED
    BY <1>1
<1>3. /\ k.known <= Len(l) /\ Len(todo) <= k.known
      /\ \A i \in 1 .. Len(todo) : todo[i] = l[k.known - Len(todo) + i] /\ todo[i].event > k.last
      /\ \A j \in 1 .. Len(l) : l[j].message /\ j <= k.known - Len(todo) => l[j].event <= k.last
      /\ \A j \in 1 .. Len(l) : l[j].event <= k.last => j <= k.known
  BY DEF Behind
<1>4. /\ Len(l) \in Nat /\ \A i \in 1 .. Len(l) : l[i].event \in Nat
      /\ \A i, j \in 1 .. Len(l) : i < j => l[i].event < l[j].event
  BY OrderedEntries DEF Ordered
<1>5. k.first \in Nat /\ k.last \in Nat /\ k.first <= k.last
  BY EventsAreNumbers DEF Knows
<1> HIDE DEF todo, rest, n
<1>6. /\ at \in 1 .. Len(l) /\ at <= k.known /\ k.known - Len(rest) = at
      /\ \A i \in 1 .. Len(rest) : i + 1 \in 1 .. Len(todo) /\ k.known - Len(todo) + (i + 1) = at + i
  <2>1. /\ Len(todo) \in Nat /\ Len(todo) >= 1 /\ Len(rest) = Len(todo) - 1
        /\ k.known \in Nat /\ Len(l) \in Nat /\ k.known <= Len(l) /\ Len(todo) <= k.known
    BY <1>1, <1>2, <1>3, <1>4
  <2>2. at \in 1 .. Len(l) /\ at <= k.known /\ k.known - Len(rest) = at
    BY <2>1
  <2>3. ASSUME NEW i \in 1 .. Len(rest)
        PROVE  i + 1 \in 1 .. Len(todo) /\ k.known - Len(todo) + (i + 1) = at + i
    <3>1. i \in Nat /\ i >= 1 /\ i + 1 <= Len(todo)
      BY <2>1
    <3>2. i + 1 \in 1 .. Len(todo)
      BY <2>1, <3>1
    <3>3. k.known - Len(todo) + (i + 1) = (k.known - Len(todo) + 1) + i
      <4>1. \A a, b, x \in Nat : a - b + (x + 1) = (a - b + 1) + x
        OBVIOUS
      <4> QED
        BY <2>1, <3>1, <4>1, ZenonT(40)
    <3> QED
      BY <3>2, <3>3
  <2> QED
    BY <2>2, <2>3
<1>7. n = l[at] /\ n.event > k.last /\ n.event \in Nat
  BY <1>2, <1>3, <1>4, <1>6
<1>8. /\ \A i \in 1 .. Len(rest) : rest[i] = l[at + i]
      /\ \A i \in 1 .. Len(rest) : at + i \in 1 .. Len(l) /\ at < at + i /\ rest[i].event > k.last
  <2> SUFFICES ASSUME NEW i \in 1 .. Len(rest)
               PROVE  rest[i] = l[at + i] /\ at + i \in 1 .. Len(l) /\ at < at + i /\ rest[i].event > k.last
    OBVIOUS
  <2>1. i + 1 \in 1 .. Len(todo) /\ k.known - Len(todo) + (i + 1) = at + i /\ rest[i] = todo[i + 1]
    BY <1>2, <1>6
  <2>2. todo[i + 1] = l[at + i] /\ todo[i + 1].event > k.last
    BY <1>3, <2>1
  <2>3. at + i \in 1 .. Len(l) /\ at < at + i
    <3>1. i + 1 <= Len(todo) /\ i \in Nat /\ i >= 1
      BY <1>2, <2>1
    <3>2. at \in Nat /\ at >= 1 /\ at = k.known - Len(todo) + 1
      BY <1>4, <1>6
    <3>3. Len(todo) \in Nat /\ k.known \in Nat /\ k.known <= Len(l) /\ Len(l) \in Nat
      BY <1>1, <1>2, <1>3, <1>4
    <3> HIDE DEF at
    <3> QED
      BY <3>1, <3>2, <3>3, SMTT(30)
  <2> QED
    BY <2>1, <2>2, <2>3
<1>9. \A j \in 1 .. Len(l) : j < at => j <= k.known - Len(todo)
  BY <1>1, <1>2, <1>4
<1>10. Has(l, n.event) /\ n.event \in Events
  <2>1. Has(l, n.event)
    BY <1>6, <1>7 DEF Has
  <2>2. n \in Entry
    BY <1>1, <1>2
  <2> QED
    BY <2>1, <2>2 DEF Entry
<1>11. k2.todo = rest /\ k2.known = k.known /\ k2.first = k.first
  BY DEF rest, todo
<1>12. CASE n.message
  <2>1. k2.last = n.event /\ k2.got = Append(k.got, n.event)
    BY <1>12 DEF n, todo
  <2> DEFINE g == Append(k.got, n.event)
  <2>2. /\ Len(k.got) \in Nat /\ Len(g) = Len(k.got) + 1 /\ g[Len(k.got) + 1] = n.event
        /\ \A i \in 1 .. Len(k.got) : g[i] = k.got[i] /\ k.got[i] \in Events
    BY <1>1, <1>10
  <2> HIDE DEF g
  <2>3. /\ \A i, j \in 1 .. Len(k.got) : i < j => k.got[i] < k.got[j]
        /\ \A m \in Events :
             (\E i \in 1 .. Len(k.got) : k.got[i] = m)
                <=> \E j \in 1 .. Len(l) : l[j].event = m /\ l[j].message /\ k.first < m /\ m <= k.last
    BY DEF Knows
  <2>4. \A i \in 1 .. Len(k.got) : k.got[i] < n.event
    <3> SUFFICES ASSUME NEW i \in 1 .. Len(k.got) PROVE k.got[i] < n.event
      OBVIOUS
    <3>1. k.got[i] \in Events /\ k.got[i] \in Nat
      BY <2>2, EventsAreNumbers
    <3>2. k.got[i] <= k.last
      BY <2>3, <3>1
    <3> QED
      BY <1>5, <1>7, <3>1, <3>2
  <2>5. \A i \in 1 .. Len(g) : i \in 1 .. Len(k.got) \/ i = Len(k.got) + 1
    BY <2>2
  <2>6. ASSUME NEW i \in 1 .. Len(g), NEW j \in 1 .. Len(g), i < j PROVE g[i] < g[j]
    <3>1. i \in 1 .. Len(k.got)
      BY <2>2, <2>6
    <3> QED
      BY <2>2, <2>3, <2>4, <2>5, <2>6, <3>1
  <2>7. ASSUME NEW j \in 1 .. Len(l), l[j].message, k.last < l[j].event, l[j].event <= n.event
        PROVE  l[j].event = n.event
    <3>1. ~(j < at)
      BY <1>3, <1>4, <1>5, <1>9, <2>7
    <3>2. ~(at < j)
      BY <1>4, <1>6, <1>7, <2>7
    <3>3. j = at
      BY <1>4, <1>6, <3>1, <3>2
    <3> QED
      BY <1>7, <3>3
  <2>8. ASSUME NEW m \in Events
        PROVE  (\E i \in 1 .. Len(g) : g[i] = m)
                  <=> \E j \in 1 .. Len(l) : l[j].event = m /\ l[j].message /\ k.first < m /\ m <= n.event
    <3>0. m \in Nat
      BY EventsAreNumbers
    <3>1. ASSUME NEW i \in 1 .. Len(g), g[i] = m
          PROVE  \E j \in 1 .. Len(l) : l[j].event = m /\ l[j].message /\ k.first < m /\ m <= n.event
      <4>1. CASE i \in 1 .. Len(k.got)
        <5>1. k.got[i] = m
          BY <2>2, <3>1, <4>1
        <5>2. PICK j \in 1 .. Len(l) : l[j].event = m /\ l[j].message /\ k.first < m /\ m <= k.last
          BY <2>3, <4>1, <5>1
        <5>3. m <= n.event
          BY <1>5, <1>7, <3>0, <5>2
        <5> QED
          BY <5>2, <5>3
      <4>2. CASE i = Len(k.got) + 1
        <5>1. m = n.event /\ l[at].event = m /\ l[at].message
          BY <1>7, <1>12, <2>2, <3>1, <4>2
        <5>2. k.first < m /\ m <= n.event
          BY <1>5, <1>7, <3>0, <5>1
        <5> QED
          BY <1>6, <5>1, <5>2
      <4> QED
        BY <2>5, <4>1, <4>2
    <3>2. ASSUME NEW j \in 1 .. Len(l), l[j].event = m, l[j].message, k.first < m, m <= n.event
          PROVE  \E i \in 1 .. Len(g) : g[i] = m
      <4>1. CASE m <= k.last
        <5>1. PICK i \in 1 .. Len(k.got) : k.got[i] = m
          BY <2>3, <3>2, <4>1
        <5>2. i \in 1 .. Len(g) /\ g[i] = m
          BY <2>2, <5>1
        <5> QED
          BY <5>2
      <4>2. CASE ~(m <= k.last)
        <5>1. m = n.event
          BY <1>5, <2>7, <3>0, <3>2, <4>2
        <5>2. Len(k.got) + 1 \in 1 .. Len(g)
          BY <2>2
        <5> QED
          BY <2>2, <5>1, <5>2
      <4> QED
        BY <4>1, <4>2
    <3> QED
      BY <3>1, <3>2
  <2>9. Knows(l, k2)
    <3>1. k.first <= n.event
      BY <1>5, <1>7
    <3> QED
      BY <1>10, <1>11, <2>1, <2>6, <2>8, <3>1 DEF Knows, g
  <2>10. \A j \in 1 .. Len(l) : l[j].message /\ j <= at => l[j].event <= n.event
    BY <1>4, <1>6, <1>7, SMTT(30)
  <2>11. \A j \in 1 .. Len(l) : l[j].event <= n.event => j <= k.known
    BY <1>1, <1>4, <1>6, <1>7, SMTT(30)
  <2>12. \A i \in 1 .. Len(rest) : rest[i].event > n.event
    BY <1>4, <1>6, <1>7, <1>8
  <2>13. Behind(l, k2)
    <3>1. Len(rest) <= k.known /\ \A i \in 1 .. Len(rest) : rest[i] = l[k.known - Len(rest) + i]
      BY <1>1, <1>2, <1>3, <1>6, <1>8, SMTT(30)
    <3> QED
      BY <1>3, <1>6, <1>11, <2>1, <2>10, <2>11, <2>12, <3>1 DEF Behind
  <2> QED
    BY <2>9, <2>13
<1>13. CASE ~n.message
  <2>1. k2.last = k.last /\ k2.got = k.got
    BY <1>13 DEF n, todo
  <2>2. Knows(l, k2)
    BY <1>11, <2>1 DEF Knows
  <2>3. \A j \in 1 .. Len(l) : l[j].message /\ j <= at => l[j].event <= k.last
    <3> SUFFICES ASSUME NEW j \in 1 .. Len(l), l[j].message, j <= at PROVE l[j].event <= k.last
      OBVIOUS
    <3>1. j # at
      BY <1>7, <1>13
    <3>2. j < at
      BY <1>6, <3>1
    <3> QED
      BY <1>3, <1>9, <3>2
  <2>4. Len(rest) <= k.known /\ \A i \in 1 .. Len(rest) : rest[i] = l[k.known - Len(rest) + i]
    BY <1>1, <1>2, <1>3, <1>6, <1>8, SMTT(30)
  <2> QED
    BY <1>3, <1>6, <1>8, <1>11, <2>1, <2>2, <2>3, <2>4, ZenonT(40) DEF Behind
<1> QED
  BY <1>12, <1>13

(* A replay that begins: what it has to send is the end of the log behind  *)
(* the event, whatever was evicted before it.                              *)
LEMMA ReplayBegins ==
  ASSUME NEW l, Ordered(l), NEW q \in Seq(Entry), Len(q) <= Len(l),
         \A i \in 1 .. Len(q) : q[i] = l[Len(l) - Len(q) + i],
         NEW i \in 1 .. Len(q), NEW k,
         k.last = q[i].event, k.todo = SubSeq(q, i + 1, Len(q)), k.known = Len(l)
  PROVE  Behind(l, k) /\ k.todo \in Seq(Entry) /\ Has(l, k.last) /\ k.last \in Events
<1> DEFINE todo == SubSeq(q, i + 1, Len(q))
           at == Len(l) - Len(q) + i
<1>1. Len(q) \in Nat /\ i \in Nat /\ i >= 1 /\ i <= Len(q)
  OBVIOUS
<1>2. /\ todo \in Seq(Entry) /\ Len(todo) = Len(q) - i
      /\ \A n \in 1 .. Len(todo) : todo[n] = q[i + n]
  BY <1>1
<1> HIDE DEF todo
<1>3. /\ Len(l) \in Nat /\ \A n \in 1 .. Len(l) : l[n].event \in Nat
      /\ \A n, j \in 1 .. Len(l) : n < j => l[n].event < l[j].event
  BY OrderedEntries DEF Ordered
<1>4. at \in 1 .. Len(l) /\ q[i] = l[at] /\ Len(l) - Len(todo) = at
  BY <1>1, <1>2, <1>3, SMTT(30)
<1>5. \A n \in 1 .. Len(todo) : i + n \in 1 .. Len(q) /\ Len(l) - Len(q) + (i + n) = at + n
  BY <1>1, <1>2, <1>3
<1>6. \A n \in 1 .. Len(todo) : todo[n] = l[at + n] /\ at + n \in 1 .. Len(l) /\ at < at + n
  BY <1>1, <1>2, <1>3, <1>4, <1>5
<1>7. k.todo = todo /\ k.known = Len(l) /\ k.last = l[at].event /\ q[i] \in Entry
  BY <1>4 DEF todo
<1>8. \A j \in 1 .. Len(l) : j <= at => l[j].event <= l[at].event
  BY <1>3, <1>4, SMTT(30)
<1>9. \A n \in 1 .. Len(todo) : todo[n].event > l[at].event
  BY <1>3, <1>4, <1>6
<1>10. Len(todo) <= Len(l) /\ \A j \in 1 .. Len(l) : j <= Len(l)
  BY <1>1, <1>2, <1>3
<1>11. Behind(l, k)
  <2>1. /\ k.known = Len(l) /\ Len(k.todo) = Len(todo) /\ Len(l) - Len(todo) = at
        /\ k.known - Len(k.todo) = at
    BY <1>4, <1>7
  <2>2. \A n \in 1 .. Len(k.todo) : k.todo[n] = l[k.known - Len(k.todo) + n] /\ k.todo[n].event > k.last
    BY <1>6, <1>7, <1>9, <2>1
  <2>3. \A j \in 1 .. Len(l) : l[j].message /\ j <= k.known - Len(k.todo) => l[j].event <= k.last
    BY <1>7, <1>8, <2>1
  <2>4. k.known <= Len(l) /\ Len(k.todo) <= k.known
    BY <1>3, <1>10, <2>1
  <2>5. \A j \in 1 .. Len(l) : l[j].event <= k.last => j <= k.known
    BY <1>10, <2>1
  <2> QED
    BY <2>2, <2>3, <2>4, <2>5 DEF Behind
<1> QED
  BY <1>2, <1>4, <1>7, <1>11 DEF Has, Entry
(* Every log is in order.                                                  *)
LEMMA LogIsOrdered ==
  ASSUME StoreInv, NEW s \in Streams
  PROVE  Ordered(log[s]) /\ \A i \in 1 .. Len(log[s]) : log[s][i].event <= count
  BY DEF StoreInv, StoreTypes, LogsOrdered, Ordered

LEMMA StoreInitClients == StoreInit => ClientInv
<1> SUFFICES ASSUME StoreInit PROVE ClientInv
  OBVIOUS
<1>1. << >> \in Seq(Events) /\ << >> \in Seq(Entry) /\ 0 \in 0 .. MaxEvents
  OBVIOUS
<1>2. NoClient \in Clientele /\ NoClient.stage = "new" /\ NoClient.first = None /\ NoClient.got = << >>
  BY <1>1 DEF NoClient, Clientele
<1>3. client = [c \in Clients |-> NoClient]
  BY DEF StoreInit
<1> QED
  BY <1>2, <1>3 DEF ClientInv

(* A step of one client.                                                   *)
LEMMA OneClientInv ==
  ASSUME ClientInv, log' = log, NEW c \in Clients, NEW k \in Clientele,
         client' = [client EXCEPT ![c] = k],
         k.stage # "new", k.stage \in {"replaying", "away"} => AtHome(k)
  PROVE  ClientInv'
<1>1. client' \in [Clients -> Clientele] /\ \A d \in Clients : client'[d] = IF d = c THEN k ELSE client[d]
  BY DEF ClientInv
<1>2. ASSUME NEW d \in Clients, client'[d].stage \in {"replaying", "away"} PROVE AtHome(client[d])'
  <2>1. AtHome(client'[d])
    BY <1>1, <1>2 DEF ClientInv
  <2> QED
    BY <2>1 DEF AtHome
<1>3. \A d \in Clients : client'[d].stage = "new" => client'[d].first = None /\ client'[d].got = << >>
  BY <1>1 DEF ClientInv
<1> QED
  BY <1>1, <1>2, <1>3 DEF ClientInv

LEMMA StoreClients ==
  ASSUME StoreInv, ClientInv, NEW s \in Streams, Store(s)
  PROVE  ClientInv'
<1>1. PICK message \in BOOLEAN :
        log' = [log EXCEPT ![s] = Append(@, [event |-> count + 1, message |-> message])]
  BY DEF Store
<1> DEFINE entry == [event |-> count + 1, message |-> message]
<1>2. client' = client /\ count \in Nat /\ entry \in Entry /\ entry.event = count + 1
  BY DEF Store, Entry, Events, StoreInv, StoreTypes
<1>3. \A t \in Streams : log'[t] = IF t = s THEN Append(log[s], entry) ELSE log[t]
  BY <1>1 DEF StoreInv, StoreTypes
<1> HIDE DEF entry
<1>4. ASSUME NEW c \in Clients, client[c].stage \in {"replaying", "away"} PROVE AtHome(client[c])'
  <2>1. client[c] \in Clientele /\ AtHome(client[c])
    BY <1>4 DEF ClientInv
  <2>2. PICK t \in Streams :
          Knows(log[t], client[c]) /\ (client[c].stage = "replaying" => Behind(log[t], client[c]))
    BY <2>1 DEF AtHome
  <2>3. CASE t = s
    <3>1. Ordered(log[s]) /\ \A i \in 1 .. Len(log[s]) : log[s][i].event < entry.event
      BY <1>2, LogIsOrdered, OrderedEntries
    <3>2. /\ Knows(Append(log[s], entry), client[c])
          /\ Behind(log[s], client[c]) => Behind(Append(log[s], entry), client[c])
      BY <1>2, <2>1, <2>2, <2>3, <3>1, KnowsMore
    <3> QED
      BY <1>2, <1>3, <2>2, <2>3, <3>2 DEF AtHome
  <2>4. CASE t # s
    BY <1>2, <1>3, <2>2, <2>4 DEF AtHome
  <2> QED
    BY <2>3, <2>4
<1> QED
  BY <1>2, <1>4 DEF ClientInv

(* A client asks for a replay: the event that it knows is in the log that  *)
(* it belongs to and in no other one.                                      *)
LEMMA ReplayClients ==
  ASSUME StoreInv, ClientInv, NEW c \in Clients, NEW e \in Events, Replay(c, e), log' = log,
         client[c].stage = "new" \/ (client[c].stage = "away" /\ e = client[c].last)
  PROVE  ClientInv'
<1> DEFINE k == client[c]
           s == index[e]
<1>1. k \in Clientele /\ client \in [Clients -> Clientele] /\ s \in Streams \cup {None}
  BY DEF ClientInv, StoreInv, StoreTypes
<1>2. CASE s = None \/ Position(deques[s], e) = {}
  <2>1. client' = [client EXCEPT ![c].stage = "refused"]
    BY <1>2 DEF Replay
  <2> DEFINE k2 == [k EXCEPT !.stage = "refused"]
  <2>2. k2 \in Clientele /\ k2.stage = "refused"
    BY <1>1 DEF Clientele
  <2>3. client' = [client EXCEPT ![c] = k2]
    BY <1>1, <2>1
  <2> QED
    BY <2>2, <2>3, OneClientInv
<1>3. CASE s # None /\ Position(deques[s], e) # {}
  <2> DEFINE q == deques[s]
             l == log[s]
             i == CHOOSE i \in Position(q, e) : TRUE
             todo2 == After(q, e)
             first2 == IF k.first = None THEN e ELSE k.first
             k2 == [k EXCEPT !.stage = "replaying", !.first = first2, !.last = e,
                             !.todo = todo2, !.known = Len(l)]
  <2>1. s \in Streams /\ q \in Seq(Entry) /\ Len(l) \in 0 .. MaxEvents
    <3>1. s \in Streams
      BY <1>1, <1>3
    <3>2. count <= MaxEvents /\ count \in Nat
      BY DEF StoreInv, StoreTypes
    <3> QED
      BY <3>1, <3>2, Entries DEF StoreInv, StoreTypes, LogsOrdered
  <2>2. client' = [client EXCEPT ![c].stage = "replaying", ![c].first = IF @ = None THEN e ELSE @,
                                 ![c].last = e, ![c].todo = todo2, ![c].known = Len(l)]
    BY <1>3 DEF Replay
  <2>12. todo2 = SubSeq(q, i + 1, Len(q))
    BY DEF After
  <2>3. i \in 1 .. Len(q) /\ q[i].event = e
    BY <1>3, <2>1 DEF Position
  <2>4. Ordered(l) /\ Len(q) <= Len(l) /\ \A n \in 1 .. Len(q) : q[n] = l[Len(l) - Len(q) + n]
    BY <2>1, LogIsOrdered DEF StoreInv, DequesEnd
  <2>5. todo2 \in Seq(Entry)
    <3> HIDE DEF i, q, todo2
    <3>1. i \in Nat /\ i >= 1 /\ i <= Len(q) /\ Len(q) \in Nat
      BY <2>1, <2>3
    <3> QED
      BY <2>1, <2>12, <3>1
  <2>6. k2 \in Clientele
    BY <1>1, <2>1, <2>5 DEF Clientele
  <2>7. /\ k2.stage = "replaying" /\ k2.first = first2 /\ k2.last = e /\ k2.got = k.got
        /\ k2.todo = todo2 /\ k2.known = Len(l)
    BY <1>1 DEF Clientele
  <2>8. client' = [client EXCEPT ![c] = k2]
    BY <1>1, <2>2
  <2> HIDE DEF k2, i, todo2
  <2>9. Behind(l, k2) /\ Has(l, e)
    <3>1. k2.last = q[i].event /\ k2.todo = SubSeq(q, i + 1, Len(q)) /\ k2.known = Len(l)
      BY <2>3, <2>7, <2>12
    <3> HIDE DEF q, l
    <3>2. Behind(l, k2) /\ Has(l, k2.last)
      BY <2>1, <2>3, <2>4, <3>1, ReplayBegins
    <3> QED
      BY <2>7, <3>2
  <2>10. Knows(l, k2)
    <3>1. CASE k.stage = "new"
      <4>1. k.first = None /\ k.got = << >>
        BY <3>1 DEF ClientInv
      <4>2. k2.first = e /\ k2.last = e /\ k2.got = << >>
        BY <2>7, <4>1
      <4>3. e \in Nat /\ Len(<< >>) = 0 /\ 1 .. 0 = {}
        BY EventsAreNumbers
      <4>4. \A m \in Events : ~(e < m /\ m <= e)
        BY <4>3, EventsAreNumbers
      <4>5. \A m \in Events : ~ \E n \in 1 .. Len(k2.got) : k2.got[n] = m
        BY <4>2, <4>3
      <4>6. \A n, j \in 1 .. Len(k2.got) : n < j => k2.got[n] < k2.got[j]
        BY <4>2, <4>3
      <4>7. /\ k2.first \in Events /\ k2.last \in Events /\ k2.first <= k2.last
            /\ Has(l, k2.first) /\ Has(l, k2.last)
        BY <2>9, <4>2, <4>3
      <4>8. \A m \in Events : ~(k2.first < m /\ m <= k2.last)
        BY <4>2, <4>4
      <4> QED
        BY <4>5, <4>6, <4>7, <4>8 DEF Knows
    <3>2. CASE k.stage = "away" /\ e = k.last
      <4>1. PICK t \in Streams : Knows(log[t], k)
        BY <3>2 DEF ClientInv, AtHome
      <4>2. Has(log[t], e) /\ Has(l, e)
        BY <2>9, <3>2, <4>1 DEF Knows
      <4>3. t = s
        BY <2>1, <4>2 DEF Has, StoreInv, LogsApart
      <4>4. first2 = k.first
        BY <4>1, StoreConstants, EventsAreNumbers DEF Knows
      <4>5. Knows(l, k)
        BY <4>1, <4>3
      <4>6. k2.first = k.first /\ k2.last = k.last /\ k2.got = k.got
        BY <2>7, <3>2, <4>4
      <4> QED
        BY <4>5, <4>6, KnowsSame
    <3> QED
      BY <3>1, <3>2
  <2>11. AtHome(k2)
    BY <2>1, <2>9, <2>10 DEF AtHome
  <2> QED
    BY <2>6, <2>7, <2>8, <2>11, OneClientInv
<1> QED
  BY <1>2, <1>3

LEMMA SendClients ==
  ASSUME StoreInv, ClientInv, NEW c \in Clients, Send(c)
  PROVE  ClientInv'
<1> DEFINE k == client[c]
           n == Head(k.todo)
           k2 == IF n.message
                 THEN [k EXCEPT !.todo = Tail(k.todo), !.last = n.event, !.got = Append(k.got, n.event)]
                 ELSE [k EXCEPT !.todo = Tail(k.todo)]
<1>1. /\ k \in Clientele /\ client \in [Clients -> Clientele] /\ log' = log
      /\ k.stage = "replaying" /\ k.todo # << >>
  BY DEF ClientInv, Send
<1>2. client' = [client EXCEPT ![c] = k2]
  BY <1>1 DEF Send
<1>3. k.todo \in Seq(Entry) /\ k.got \in Seq(Events)
  BY <1>1 DEF Clientele
<1>4. n \in Entry /\ n.event \in Events /\ Tail(k.todo) \in Seq(Entry)
  <2>1. n \in Entry /\ Tail(k.todo) \in Seq(Entry)
    BY <1>1, <1>3
  <2> QED
    BY <2>1 DEF Entry
<1>5. Append(k.got, n.event) \in Seq(Events)
  BY <1>3, <1>4
<1>6. k2 \in Clientele
  BY <1>1, <1>4, <1>5 DEF Clientele
<1>7. /\ k2.stage = "replaying" /\ k2.first = k.first /\ k2.known = k.known /\ k2.todo = Tail(k.todo)
      /\ IF n.message THEN k2.last = n.event /\ k2.got = Append(k.got, n.event)
                      ELSE k2.last = k.last /\ k2.got = k.got
  BY <1>1 DEF Clientele
<1>8. PICK s \in Streams : Knows(log[s], k) /\ Behind(log[s], k)
  BY <1>1 DEF ClientInv, AtHome
<1> HIDE DEF k2
<1>9. Knows(log[s], k2) /\ Behind(log[s], k2)
  BY <1>1, <1>6, <1>7, <1>8, LogIsOrdered, SendKeeps
<1> QED
  BY <1>1, <1>2, <1>6, <1>7, <1>9, OneClientInv DEF AtHome

(* A replay ends, or the client is cut off.                                *)
LEMMA LeftAway ==
  ASSUME ClientInv, log' = log, NEW c \in Clients, client[c].stage = "replaying",
         \/ client' = [client EXCEPT ![c].stage = "away"]
         \/ client' = [client EXCEPT ![c].stage = "away", ![c].todo = << >>]
  PROVE  ClientInv'
<1> DEFINE k == client[c]
<1>1. k \in Clientele /\ client \in [Clients -> Clientele] /\ << >> \in Seq(Entry)
  BY DEF ClientInv
<1>2. PICK s \in Streams : Knows(log[s], k)
  BY DEF ClientInv, AtHome
<1>3. ASSUME NEW k2 \in Clientele, k2.stage = "away", client' = [client EXCEPT ![c] = k2],
             k2.first = k.first, k2.last = k.last, k2.got = k.got
      PROVE  ClientInv'
  <2>1. Knows(log[s], k2)
    BY <1>2, <1>3 DEF Knows
  <2> QED
    BY <1>3, <2>1, OneClientInv DEF AtHome
<1>4. CASE client' = [client EXCEPT ![c].stage = "away"]
  <2> DEFINE k2 == [k EXCEPT !.stage = "away"]
  <2>1. /\ k2 \in Clientele /\ k2.stage = "away"
        /\ k2.first = k.first /\ k2.last = k.last /\ k2.got = k.got
    BY <1>1 DEF Clientele
  <2>2. client' = [client EXCEPT ![c] = k2]
    BY <1>1, <1>4
  <2> QED
    BY <1>3, <2>1, <2>2
<1>5. CASE client' = [client EXCEPT ![c].stage = "away", ![c].todo = << >>]
  <2> DEFINE k2 == [k EXCEPT !.stage = "away", !.todo = << >>]
  <2>1. /\ k2 \in Clientele /\ k2.stage = "away"
        /\ k2.first = k.first /\ k2.last = k.last /\ k2.got = k.got
    BY <1>1 DEF Clientele
  <2>2. client' = [client EXCEPT ![c] = k2]
    BY <1>1, <1>5
  <2> QED
    BY <1>3, <2>1, <2>2
<1> QED
  BY <1>4, <1>5

LEMMA StoreLostClients ==
  ASSUME ClientInv, StoreLost
  PROVE  ClientInv'
<1> DEFINE Gone(k) == IF k.stage = "replaying" THEN [k EXCEPT !.stage = "away", !.todo = << >>] ELSE k
<1>0. log' = log /\ client' = [c \in Clients |-> Gone(client[c])]
  BY Zenon DEF StoreLost
<1>1. log' = log /\ client' = [c \in Clients |-> Gone(client[c])] /\ << >> \in Seq(Entry)
  <2>1. << >> \in Seq(Entry)
    OBVIOUS
  <2> QED
    BY <1>0, <2>1
<1>2. ASSUME NEW k \in Clientele
      PROVE  /\ Gone(k) \in Clientele
             /\ Gone(k).first = k.first /\ Gone(k).last = k.last /\ Gone(k).got = k.got
             /\ Gone(k).stage # "replaying"
             /\ Gone(k).stage = "new" => k.stage = "new"
             /\ Gone(k).stage = "away" => k.stage \in {"replaying", "away"}
  BY <1>1 DEF Clientele
<1> HIDE DEF Gone
<1>3. client \in [Clients -> Clientele] /\ \A c \in Clients : client'[c] = Gone(client[c])
  BY <1>1 DEF ClientInv
<1>4. client' \in [Clients -> Clientele]
  BY <1>1, <1>2, <1>3
<1>5. \A c \in Clients : client'[c].stage = "new" => client'[c].first = None /\ client'[c].got = << >>
  BY <1>2, <1>3 DEF ClientInv
<1>6. ASSUME NEW c \in Clients, client'[c].stage \in {"replaying", "away"} PROVE AtHome(client[c])'
  <2>1. PICK s \in Streams : Knows(log[s], client[c])
    BY <1>2, <1>3, <1>6 DEF ClientInv, AtHome
  <2>2. Knows(log[s], Gone(client[c])) /\ Gone(client[c]).stage # "replaying"
    BY <1>2, <1>3, <2>1 DEF Knows
  <2> QED
    BY <1>1, <1>3, <2>2 DEF AtHome
<1> QED
  BY <1>4, <1>5, <1>6 DEF ClientInv
(* What a client has and what its replay will send, by entries of the log. *)
LEMMA ReplayCovers ==
  ASSUME NEW l, Ordered(l), NEW k \in Clientele, Knows(l, k), Behind(l, k), NEW m
  PROVE  (\/ \E i \in 1 .. Len(k.got) : k.got[i] = m
          \/ \E i \in 1 .. Len(k.todo) : k.todo[i].event = m /\ k.todo[i].message)
            <=> \E j \in 1 .. k.known : l[j].event = m /\ l[j].message /\ m > k.first
<1>1. k.known \in Nat /\ k.got \in Seq(Events) /\ k.todo \in Seq(Entry) /\ Len(k.todo) \in Nat
  <2>1. k.known \in 0 .. MaxEvents /\ k.got \in Seq(Events) /\ k.todo \in Seq(Entry)
    BY DEF Clientele
  <2> QED
    BY <2>1
<1>2. /\ k.known <= Len(l) /\ Len(k.todo) <= k.known
      /\ \A i \in 1 .. Len(k.todo) : /\ k.todo[i] = l[k.known - Len(k.todo) + i]
                                     /\ k.todo[i].event > k.last
      /\ \A j \in 1 .. Len(l) : l[j].message /\ j <= k.known - Len(k.todo) => l[j].event <= k.last
      /\ \A j \in 1 .. Len(l) : l[j].event <= k.last => j <= k.known
  BY DEF Behind
<1>3. /\ Len(l) \in Nat /\ \A i \in 1 .. Len(l) : l[i].event \in Nat /\ l[i].event \in Events
  <2>1. \A i \in 1 .. Len(l) : l[i] \in Entry
    BY OrderedEntries
  <2> QED
    BY <2>1, OrderedEntries DEF Entry
<1>4. k.first \in Nat /\ k.last \in Nat /\ k.first <= k.last
  BY EventsAreNumbers DEF Knows
<1>5. \A n \in Events :
        (\E i \in 1 .. Len(k.got) : k.got[i] = n)
          <=> \E j \in 1 .. Len(l) : l[j].event = n /\ l[j].message /\ k.first < n /\ n <= k.last
  BY DEF Knows
<1>6. ASSUME NEW i \in 1 .. Len(k.got), k.got[i] = m
      PROVE  \E j \in 1 .. k.known : l[j].event = m /\ l[j].message /\ m > k.first
  <2>0. \A n \in 1 .. Len(k.got) : k.got[n] \in Events
    BY <1>1
  <2>1. m \in Events /\ m \in Nat
    BY <1>6, <2>0, EventsAreNumbers
  <2>2. PICK j \in 1 .. Len(l) : l[j].event = m /\ l[j].message /\ k.first < m /\ m <= k.last
    BY <1>5, <1>6, <2>1
  <2>3. j <= k.known /\ j \in 1 .. k.known
    BY <1>1, <1>2, <1>3, <2>2
  <2> QED
    BY <1>4, <2>1, <2>2, <2>3
<1>7. ASSUME NEW i \in 1 .. Len(k.todo), k.todo[i].event = m, k.todo[i].message
      PROVE  \E j \in 1 .. k.known : l[j].event = m /\ l[j].message /\ m > k.first
  <2> DEFINE j == k.known - Len(k.todo) + i
  <2>1. j \in 1 .. k.known /\ j \in 1 .. Len(l)
    BY <1>1, <1>2, <1>3
  <2>2. l[j] = k.todo[i] /\ m > k.last
    BY <1>2, <1>7
  <2>3. m \in Nat
    BY <1>3, <1>7, <2>1, <2>2
  <2>4. m > k.first
    BY <1>4, <2>2, <2>3
  <2> QED
    BY <1>7, <2>1, <2>2, <2>4
<1>8. ASSUME NEW j \in 1 .. k.known, l[j].event = m, l[j].message, m > k.first
      PROVE  \/ \E i \in 1 .. Len(k.got) : k.got[i] = m
             \/ \E i \in 1 .. Len(k.todo) : k.todo[i].event = m /\ k.todo[i].message
  <2>1. j \in 1 .. Len(l) /\ m \in Nat /\ m \in Events
    BY <1>1, <1>2, <1>3, <1>8
  <2>2. CASE m <= k.last
    BY <1>4, <1>5, <1>8, <2>1, <2>2
  <2>3. CASE ~(m <= k.last)
    <3> DEFINE i == j - (k.known - Len(k.todo))
    <3>1. ~(j <= k.known - Len(k.todo))
      BY <1>2, <1>8, <2>1, <2>3
    <3>2. i \in 1 .. Len(k.todo) /\ k.known - Len(k.todo) + i = j
      BY <1>1, <1>2, <3>1
    <3>3. k.todo[i] = l[j]
      BY <1>2, <3>2
    <3> QED
      BY <1>8, <3>2, <3>3
  <2> QED
    BY <2>2, <2>3
<1> QED
  BY <1>6, <1>7, <1>8

(* What a client has and what its replay will send is in order.            *)
LEMMA ReplayRises ==
  ASSUME NEW l, Ordered(l), NEW k \in Clientele, Knows(l, k), Behind(l, k)
  PROVE  Increasing(k.got \o Numbers(k.todo))
<1> DEFINE g == k.got
           n == Numbers(k.todo)
           both == g \o n
<1>1. k.known \in Nat /\ g \in Seq(Events) /\ k.todo \in Seq(Entry) /\ Len(k.todo) \in Nat
  <2>1. k.known \in 0 .. MaxEvents /\ k.got \in Seq(Events) /\ k.todo \in Seq(Entry)
    BY DEF Clientele
  <2> QED
    BY <2>1
<1>2. n = [i \in 1 .. Len(k.todo) |-> k.todo[i].event]
  BY <1>1 DEF Numbers
<1>3. \A i \in 1 .. Len(k.todo) : k.todo[i] \in Entry
  BY <1>1
<1>4. n \in Seq(Events) /\ Len(n) = Len(k.todo) /\ \A i \in 1 .. Len(n) : n[i] = k.todo[i].event
  <2>1. \A i \in 1 .. Len(k.todo) : k.todo[i].event \in Events
    BY <1>3 DEF Entry
  <2> HIDE DEF n
  <2>2. n \in [1 .. Len(k.todo) -> Events]
    BY <1>2, <2>1
  <2>3. n \in Seq(Events) /\ Len(n) = Len(k.todo)
    BY <1>1, <2>2
  <2> QED
    BY <1>2, <2>3
<1> HIDE DEF g, n
<1>5. /\ both \in Seq(Events) /\ Len(both) = Len(g) + Len(n) /\ Len(g) \in Nat /\ Len(n) \in Nat
      /\ \A i \in 1 .. Len(g) : both[i] = g[i]
      /\ \A i \in 1 .. Len(both) : i > Len(g) => both[i] = n[i - Len(g)]
  <2>1. g \in Seq(Events) /\ n \in Seq(Events)
    BY <1>1, <1>4
  <2> QED
    BY <2>1
<1> HIDE DEF both
<1>6. k.first \in Nat /\ k.last \in Nat /\ k.first <= k.last
  BY EventsAreNumbers DEF Knows
<1>7. /\ \A i, j \in 1 .. Len(g) : i < j => g[i] < g[j]
      /\ \A i \in 1 .. Len(g) : g[i] <= k.last /\ g[i] \in Nat
  <2>1. \A i \in 1 .. Len(g) : g[i] \in Events
    BY <1>1
  <2> QED
    BY <2>1, EventsAreNumbers DEF Knows, g
<1>8. /\ \A i, j \in 1 .. Len(n) : i < j => n[i] < n[j]
      /\ \A i \in 1 .. Len(n) : n[i] > k.last /\ n[i] \in Nat
  <2>1. /\ \A i \in 1 .. Len(k.todo) : k.todo[i] = l[k.known - Len(k.todo) + i] /\ k.todo[i].event > k.last
        /\ k.known <= Len(l) /\ Len(k.todo) <= k.known /\ Len(l) \in Nat
    BY OrderedEntries DEF Behind
  <2>2. \A i \in 1 .. Len(k.todo) : k.known - Len(k.todo) + i \in 1 .. Len(l)
    BY <1>1, <2>1
  <2>3. \A i, j \in 1 .. Len(k.todo) : i < j => k.known - Len(k.todo) + i < k.known - Len(k.todo) + j
    BY <1>1
  <2>4. \A i, j \in 1 .. Len(k.todo) : i < j => k.todo[i].event < k.todo[j].event
    BY <2>1, <2>2, <2>3 DEF Ordered
  <2>5. \A i \in 1 .. Len(n) : n[i] \in Events
    BY <1>4
  <2> QED
    BY <1>4, <2>1, <2>4, <2>5, EventsAreNumbers, ZenonT(40)
<1>9. ASSUME NEW i \in 1 .. Len(both), NEW j \in 1 .. Len(both), i < j PROVE both[i] < both[j]
  <2>1. CASE j <= Len(g)
    <3>1. i \in 1 .. Len(g) /\ j \in 1 .. Len(g)
      BY <1>5, <1>9, <2>1
    <3> QED
      BY <1>5, <1>7, <1>9, <3>1
  <2>2. CASE i <= Len(g) /\ j > Len(g)
    <3>1. i \in 1 .. Len(g) /\ j - Len(g) \in 1 .. Len(n)
      BY <1>5, <1>9, <2>2
    <3>2. both[i] = g[i] /\ both[j] = n[j - Len(g)]
      BY <1>5, <2>2, <3>1
    <3>3. g[i] <= k.last /\ g[i] \in Nat /\ n[j - Len(g)] > k.last /\ n[j - Len(g)] \in Nat
      BY <1>7, <1>8, <3>1
    <3> QED
      BY <1>6, <3>2, <3>3
  <2>3. CASE i > Len(g)
    <3>1. i - Len(g) \in 1 .. Len(n) /\ j - Len(g) \in 1 .. Len(n) /\ i - Len(g) < j - Len(g) /\ j > Len(g)
      BY <1>5, <1>9, <2>3
    <3> QED
      BY <1>5, <1>8, <2>3, <3>1
  <2> QED
    BY <1>5, <2>1, <2>2, <2>3
<1>10. DOMAIN both = 1 .. Len(both)
  BY <1>5
<1> QED
  BY <1>9, <1>10 DEF Increasing, both, g, n

LEMMA ReplayIsExact == StoreInv /\ ClientInv => ReplayExact
<1> SUFFICES ASSUME StoreInv, ClientInv, NEW c \in Clients, client[c].stage = "replaying"
             PROVE  /\ Increasing(client[c].got \o Numbers(client[c].todo))
                    /\ Range(client[c].got) \cup Messages(client[c].todo) =
                          Followed(client[c].first, client[c].known)
  BY DEF ReplayExact
<1> DEFINE k == client[c]
<1>1. k \in Clientele
  BY DEF ClientInv
<1>2. PICK s \in Streams : Knows(log[s], k) /\ Behind(log[s], k)
  BY DEF ClientInv, AtHome
<1> DEFINE l == log[s]
<1>3. Ordered(l)
  BY LogIsOrdered
<1>4. k.got \in Seq(Events) /\ k.todo \in Seq(Entry) /\ k.known \in Nat /\ k.known <= Len(l)
      /\ Len(l) \in Nat /\ l \in Seq(Entry)
  <2>1. k.known \in 0 .. MaxEvents /\ k.got \in Seq(Events) /\ k.todo \in Seq(Entry)
    BY <1>1 DEF Clientele
  <2> QED
    BY <1>2, <1>3, <2>1, OrderedEntries DEF Behind
<1>5. s = CHOOSE t \in Streams : Position(log[t], k.first) # {}
  <2>1. \A t \in Streams : Position(log[t], k.first) # {} <=> Has(log[t], k.first)
    <3>1. \A t \in Streams : DOMAIN log[t] = 1 .. Len(log[t])
      BY Entries DEF StoreInv
    <3> QED
      BY <3>1 DEF Position, Has
  <2>2. Has(log[s], k.first)
    BY <1>2 DEF Knows
  <2>3. \A t \in Streams : Has(log[t], k.first) => t = s
    BY <2>2 DEF Has, StoreInv, LogsApart
  <2> QED
    BY <2>1, <2>2, <2>3
<1>6. Followed(k.first, k.known) = {m \in Messages(SubSeq(l, 1, k.known)) : m > k.first}
  BY <1>5 DEF Followed
<1> HIDE DEF k, l
<1>7. /\ DOMAIN SubSeq(l, 1, k.known) = 1 .. k.known
      /\ \A j \in 1 .. k.known : SubSeq(l, 1, k.known)[j] = l[j]
  BY <1>4
<1>8. \A m : m \in Messages(SubSeq(l, 1, k.known)) <=> \E j \in 1 .. k.known : l[j].event = m /\ l[j].message
  BY <1>7 DEF Messages
<1>9. \A m : m \in Messages(k.todo) <=> \E i \in 1 .. Len(k.todo) : k.todo[i].event = m /\ k.todo[i].message
  <2>1. DOMAIN k.todo = 1 .. Len(k.todo)
    BY <1>4
  <2> QED
    BY <2>1 DEF Messages
<1>10. \A m : m \in Range(k.got) <=> \E i \in 1 .. Len(k.got) : k.got[i] = m
  <2>1. DOMAIN k.got = 1 .. Len(k.got)
    BY <1>4
  <2> QED
    BY <2>1 DEF Range
<1>11. ASSUME NEW m
       PROVE  m \in Range(k.got) \cup Messages(k.todo) <=> m \in {x \in Messages(SubSeq(l, 1, k.known)) : x > k.first}
  <2>1. (\/ \E i \in 1 .. Len(k.got) : k.got[i] = m
         \/ \E i \in 1 .. Len(k.todo) : k.todo[i].event = m /\ k.todo[i].message)
           <=> \E j \in 1 .. k.known : l[j].event = m /\ l[j].message /\ m > k.first
    BY <1>1, <1>2, <1>3, ReplayCovers DEF l
  <2> QED
    BY <1>8, <1>9, <1>10, <2>1
<1>12. Increasing(k.got \o Numbers(k.todo))
  BY <1>1, <1>2, <1>3, ReplayRises DEF l
<1> QED
  BY <1>6, <1>11, <1>12 DEF k, l

(* The events of a deque are those that the index names.                   *)
LEMMA IndexIsExact == StoreInv => IndexMatches
<1> SUFFICES ASSUME StoreInv, NEW e \in Events, NEW s \in Streams
             PROVE  index[e] = s <=> Position(deques[s], e) # {}
  BY DEF IndexMatches
<1>1. DOMAIN deques[s] = 1 .. Len(deques[s])
  BY Entries DEF StoreInv
<1> QED
  BY <1>1 DEF StoreInv, IndexExact, Position
-----------------------------------------------------------------------------
(* The store in a server: its own steps, and its loss with the process.    *)
LEMMA StoreSideStep ==
  StoreInv /\ ClientInv /\ [Next]_vars => StoreInv' /\ ClientInv'
<1> SUFFICES ASSUME StoreInv, ClientInv, [Next]_vars PROVE StoreInv' /\ ClientInv'
  OBVIOUS
<1>1. ASSUME UNCHANGED storeVars PROVE StoreInv' /\ ClientInv'
  BY <1>1 DEF storeVars, StoreInv, StoreTypes, LogsOrdered, LogsApart, DequesEnd, IndexExact,
              ClientInv, AtHome
<1>2. ASSUME StoreLost PROVE StoreInv' /\ ClientInv'
  BY <1>2, StoreLostInv, StoreLostClients
<1>3. ASSUME UNCHANGED <<deques, index, count, log>> PROVE StoreInv'
  BY <1>3 DEF StoreInv, StoreTypes, LogsOrdered, LogsApart, DequesEnd, IndexExact
<1>4. ASSUME NEW s \in SettingsPool, Boot(s) PROVE StoreInv' /\ ClientInv'
  BY <1>2, <1>4 DEF Boot
<1>5. ASSUME NEW k \in Slots,
             \/ PostCall(k) \/ HealthCall(k) \/ OpenStream(k) \/ PostMessage(k) \/ ReadLine(k)
             \/ Dispatch(k) \/ Return(k) \/ Cancel(k) \/ Abandon(k) \/ CloseStream(k)
      PROVE  StoreInv' /\ ClientInv'
  <2>1. UNCHANGED storeVars
    BY <1>5 DEF PostCall, HealthCall, OpenStream, PostMessage, ReadLine, Opened, Dispatch, Return, Cancel, Abandon,
                CloseStream, SetCall
  <2> QED
    BY <1>1, <2>1
<1>6. CASE StoreStep
  <2>1. ASSUME NEW c \in Clients, Resume(c) PROVE StoreInv' /\ ClientInv'
    <3>1. PICK e : /\ e \in Events /\ Replay(c, e)
                   /\ client[c].stage = "new" \/ (client[c].stage = "away" /\ e = client[c].last)
      <4>1. 1 .. count \subseteq Events
        BY DEF StoreInv, StoreTypes, Events
      <4>2. client[c].stage = "away" => client[c].last \in Events
        BY DEF ClientInv, AtHome, Knows
      <4> QED
        BY <2>1, <4>1, <4>2 DEF Resume
    <3> QED
      BY <1>3, <2>1, <3>1, ReplayClients DEF Resume
  <2>2. ASSUME NEW s \in Streams, Store(s) PROVE StoreInv' /\ ClientInv'
    BY <2>2, StoreStepInv, StoreClients
  <2>3. ASSUME NEW c \in Clients, Send(c) PROVE StoreInv' /\ ClientInv'
    BY <1>3, <2>3, SendClients DEF Send
  <2>4. ASSUME NEW c \in Clients, Done(c) \/ Disconnect(c) PROVE StoreInv' /\ ClientInv'
    BY <1>3, <2>4, LeftAway DEF Done, Disconnect
  <2> QED
    BY <1>6, <2>1, <2>2, <2>3, <2>4 DEF StoreStep
<1>7. CASE Stop \/ Drained \/ TakeClient
  BY <1>1, <1>7 DEF Stop, Drained, TakeClient, To
<1>8. CASE Closed \/ Kill
  BY <1>2, <1>8 DEF Closed, Kill
<1>9. CASE UNCHANGED vars
  BY <1>1, <1>9 DEF vars
<1> QED
  BY <1>4, <1>5, <1>6, <1>7, <1>8, <1>9 DEF Next

-----------------------------------------------------------------------------
(* The server.  Only the close that runs and the client that calls share   *)
(* are open, and a server that closes has no calls any more.               *)
Phases == {"down", "serving", "draining", "ending", "closing"}
CallRecords ==
    [stage : {"free", "stream", "sse", "queued", "running"}, held : BOOLEAN,
     of : Slots \cup {None}, caller : Callers, client : Https \cup {None}]

Sharing ==
    /\ phase \in Phases
    /\ IF phase = "down" THEN settings = None ELSE settings \in SettingsPool /\ Valid(settings)
    /\ call \in [Slots -> CallRecords]
    /\ shared \in Https \cup {None} /\ closing \in Https \cup {None}
    /\ open = {shared, closing} \ {None}
    /\ phase # "closing" => closing = None
    /\ phase \in {"closing", "down"} => shared = None /\ \A k \in Slots : call[k].stage = "free"
    /\ \A k \in Slots : call[k].stage = "running" => call[k].client = shared /\ shared # None

LEMMA DoorsAreTyped ==
  ASSUME NEW s \in SettingsPool, NEW d \in Doors[s]
  PROVE  d.caller \in Callers
<1>1. PICK q \in Requests : d = [to |-> Target(s, q), method |-> q.method, caller |-> Caller(s, q)]
  BY DEF Doors
<1>2. Caller(s, q) \in Callers
  BY DEF Caller, Callers
<1> QED
  BY <1>1, <1>2

(* The settings, the calls and the phase, as Init and each step leave them. *)
LEMMA SharingInit == Init => Sharing
<1> SUFFICES ASSUME Init PROVE Sharing
  OBVIOUS
<1>1. Free \in CallRecords /\ Free.stage = "free"
  BY DEF Free, CallRecords, Callers
<1> QED
  BY <1>1 DEF Init, Sharing, Phases

LEMMA OpenedSharing ==
  ASSUME Sharing, NEW k \in Slots, NEW stage \in {"stream", "sse", "queued"}, NEW held \in BOOLEAN,
         NEW of \in Slots \cup {None}, NEW caller \in Callers,
         Opened(k, stage, held, of, caller)
  PROVE  Sharing'
<1> DEFINE new == [stage |-> stage, held |-> held, of |-> of, caller |-> caller, client |-> None]
<1>1. new \in CallRecords /\ new.stage \notin {"free", "running"}
  BY DEF CallRecords
<1>2. /\ call' = [call EXCEPT ![k] = new] /\ phase = "serving"
      /\ UNCHANGED <<phase, settings, closing, shared, open>>
  BY DEF Opened, life
<1> HIDE DEF new
<1> QED
  BY <1>1, <1>2 DEF Sharing

LEMMA SetCallSharing ==
  ASSUME Sharing, NEW k \in Slots, NEW new \in CallRecords, SetCall(k, new), call[k].stage # "free",
         UNCHANGED <<shared, open>>,
         new.stage = "running" => new.client = shared /\ shared # None
  PROVE  Sharing'
<1>1. /\ call' = [call EXCEPT ![k] = new]
      /\ UNCHANGED <<phase, settings, closing, shared, open>>
  BY DEF SetCall, life
<1> QED
  BY <1>1 DEF Sharing

LEMMA DispatchSharing ==
  ASSUME Sharing, NEW k \in Slots, Dispatch(k)
  PROVE  Sharing'
<1>1. call[k].stage = "queued" /\ call[k] \in CallRecords /\ Free \in CallRecords /\ Free.stage = "free"
  BY DEF Dispatch, Sharing, Free, CallRecords, Callers
<1>2. CASE SetCall(k, Free) /\ UNCHANGED <<shared, open>>
  BY <1>1, <1>2, SetCallSharing
<1>3. CASE /\ shared # None
           /\ SetCall(k, [call[k] EXCEPT !.stage = "running", !.client = shared])
           /\ UNCHANGED <<shared, open>>
  <2> DEFINE new == [call[k] EXCEPT !.stage = "running", !.client = shared]
  <2>1. new \in CallRecords /\ new.client = shared
    BY <1>1 DEF CallRecords, Sharing
  <2> HIDE DEF new
  <2> QED
    BY <1>1, <1>3, <2>1, SetCallSharing DEF new
<1>4. ASSUME shared = None,
             NEW h \in Https \ (open \cup {closing} \cup {call[j].client : j \in Slots}),
             SetCall(k, [call[k] EXCEPT !.stage = "running", !.client = h]),
             shared' = h, open' = open \cup {h}
      PROVE  Sharing'
  <2> DEFINE new == [call[k] EXCEPT !.stage = "running", !.client = h]
  <2>1. new \in CallRecords /\ new.client = h
    BY <1>1, <1>4 DEF CallRecords
  <2>2. /\ call' = [call EXCEPT ![k] = new] /\ UNCHANGED <<phase, settings, closing>>
    BY <1>4 DEF SetCall, life
  <2> HIDE DEF new
  <2>3. h # None /\ h \in Https
    BY ServerAssumption
  <2>4. phase \notin {"closing", "down"} /\ closing = None /\ open = {}
    BY <1>1, <1>4 DEF Sharing
  <2>5. \A j \in Slots : call[j].stage # "running"
    BY <1>4 DEF Sharing
  <2> QED
    BY <1>4, <2>1, <2>2, <2>3, <2>4, <2>5 DEF Sharing
<1> QED
  BY <1>2, <1>3, <1>4 DEF Dispatch

LEMMA SharingStep == Sharing /\ [Next]_vars => Sharing'
<1> SUFFICES ASSUME Sharing, [Next]_vars PROVE Sharing'
  OBVIOUS
<1>0. Free \in CallRecords /\ Free.stage = "free"
  BY DEF Free, CallRecords, Callers
<1>1. ASSUME NEW s \in SettingsPool, Boot(s) PROVE Sharing'
  <2>1. phase = "down" /\ Valid(s) /\ phase' = "serving" /\ settings' = s /\ UNCHANGED <<call, shared, open, closing>>
    BY <1>1 DEF Boot
  <2> QED
    BY <2>1 DEF Sharing, Phases
<1>2. ASSUME NEW k \in Slots, PostCall(k) \/ HealthCall(k) \/ OpenStream(k) \/ PostMessage(k) \/ ReadLine(k)
      PROVE  Sharing'
  <2>1. settings # None => settings \in SettingsPool
    BY DEF Sharing
  <2>2. CASE PostCall(k) \/ HealthCall(k)
    <3>1. settings # None /\ \E d \in Doors[settings] : Opened(k, "queued", TRUE, None, d.caller)
      BY <2>2 DEF PostCall, HealthCall
    <3> QED
      BY <2>1, <3>1, OpenedSharing, DoorsAreTyped
  <2>3. CASE OpenStream(k)
    <3>1. PICK d \in Doors[settings] : \/ Opened(k, "sse", TRUE, None, d.caller)
                                       \/ Opened(k, "stream", TRUE, None, d.caller)
      BY <2>3 DEF OpenStream
    <3> QED
      BY <2>1, <2>3, <3>1, OpenedSharing, DoorsAreTyped DEF OpenStream
  <2>4. CASE PostMessage(k)
    <3>1. PICK d \in Doors[settings], j \in Slots : Opened(k, "queued", FALSE, j, d.caller)
      BY <2>4 DEF PostMessage
    <3> QED
      BY <2>1, <2>4, <3>1, OpenedSharing, DoorsAreTyped DEF PostMessage
  <2>5. CASE ReadLine(k)
    BY <2>5, OpenedSharing DEF ReadLine, Callers
  <2> QED
    BY <1>2, <2>2, <2>3, <2>4, <2>5
<1>3. ASSUME NEW k \in Slots, Dispatch(k) PROVE Sharing'
  BY <1>3, DispatchSharing
<1>4. ASSUME NEW k \in Slots, Return(k) \/ Cancel(k) \/ CloseStream(k) PROVE Sharing'
  <2>1. SetCall(k, Free) /\ UNCHANGED <<shared, open>> /\ call[k].stage # "free"
    BY <1>4 DEF Return, Cancel, CloseStream, IsStream
  <2> QED
    BY <1>0, <2>1, SetCallSharing
<1>5. ASSUME NEW k \in Slots, Abandon(k) PROVE Sharing'
  <2> DEFINE new == [call[k] EXCEPT !.held = FALSE]
  <2>1. call' = [call EXCEPT ![k] = new] /\ UNCHANGED <<phase, settings, closing, shared, open>>
    BY <1>5 DEF Abandon, SetCall, life
  <2>2. new \in CallRecords /\ new.stage = call[k].stage /\ new.client = call[k].client
    BY DEF Sharing, CallRecords
  <2> HIDE DEF new
  <2> QED
    BY <2>1, <2>2 DEF Sharing
<1>6. CASE StoreStep
  BY <1>6 DEF StoreStep, life, Sharing
<1>7. CASE Stop \/ Drained
  <2>1. /\ phase \in {"serving", "draining"} /\ phase' \in {"draining", "ending"}
        /\ UNCHANGED <<settings, call, shared, open, closing>>
    BY <1>7 DEF Stop, Drained, To
  <2> QED
    BY <2>1 DEF Sharing, Phases
<1>8. CASE TakeClient
  <2>1. /\ phase = "ending" /\ phase' = "closing" /\ \A k \in Slots : call[k].stage = "free"
        /\ closing' = shared /\ shared' = None /\ UNCHANGED <<settings, call, open>>
    BY <1>8 DEF TakeClient, To
  <2> QED
    BY <2>1 DEF Sharing, Phases
<1>9. CASE Closed
  <2>1. /\ phase = "closing" /\ phase' = "down" /\ settings' = None
        /\ open' = open \ {closing} /\ closing' = None /\ UNCHANGED <<call, shared>>
    BY <1>9 DEF Closed
  <2> QED
    BY <2>1 DEF Sharing, Phases
<1>10. CASE Kill
  <2>1. /\ phase' = "down" /\ settings' = None /\ call' = [k \in Slots |-> Free]
        /\ shared' = None /\ open' = {} /\ closing' = None
    BY <1>10 DEF Kill
  <2> QED
    BY <1>0, <2>1 DEF Sharing, Phases
<1>11. CASE UNCHANGED vars
  BY <1>11 DEF vars, life, Sharing
<1> QED
  BY <1>1, <1>2, <1>3, <1>4, <1>5, <1>6, <1>7, <1>8, <1>9, <1>10, <1>11 DEF Next
-----------------------------------------------------------------------------
(* Paths and routes.  The provers do not know of a literal that it is in   *)
(* STRING.                                                                 *)
Paths == Seq(STRING \cup {"healthz", "readyz"})

LEMMA StringsArePaths == \A path \in Seq(STRING) : path \in Paths
<1>1. \A S, T : S \subseteq T => Seq(S) \subseteq Seq(T)
  OBVIOUS
<1> QED
  BY <1>1 DEF Paths

LEMMA PrefixByElements ==
  ASSUME NEW a \in Paths, NEW b \in Paths
  PROVE  IsPrefix(a, b) <=> Len(a) <= Len(b) /\ \A i \in 1 .. Len(a) : a[i] = b[i]
<1>1. Len(a) \in Nat /\ Len(b) \in Nat
  BY DEF Paths
<1>2. CASE Len(a) <= Len(b)
  <2> DEFINE x == SubSeq(a, 1, Len(a))
             y == SubSeq(b, 1, Len(a))
  <2>1. /\ x \in Paths /\ y \in Paths /\ Len(x) = Len(a) /\ Len(y) = Len(a)
        /\ \A i \in 1 .. Len(a) : x[i] = a[i] /\ y[i] = b[i]
    BY <1>1, <1>2 DEF Paths
  <2> HIDE DEF x, y
  <2>2. x = y <=> \A i \in 1 .. Len(a) : x[i] = y[i]
    BY <1>1, <2>1 DEF Paths
  <2> QED
    BY <1>2, <2>1, <2>2 DEF IsPrefix, x, y
<1> QED
  BY <1>2 DEF IsPrefix

LEMMA PrefixReflexive == \A a \in Paths : IsPrefix(a, a)
<1>1. \A a \in Paths : Len(a) \in Nat
  BY DEF Paths
<1> QED
  BY <1>1, PrefixByElements

(* Of two prefixes of a path one is a prefix of the other.                 *)
LEMMA PrefixesCompare ==
  ASSUME NEW a \in Paths, NEW b \in Paths, NEW p \in Paths, IsPrefix(a, p), IsPrefix(b, p)
  PROVE  IsPrefix(a, b) \/ IsPrefix(b, a)
<1>1. Len(a) \in Nat /\ Len(b) \in Nat /\ Len(p) \in Nat
  BY DEF Paths
<1>2. /\ \A i \in 1 .. Len(a) : a[i] = p[i]
      /\ \A i \in 1 .. Len(b) : b[i] = p[i]
  BY PrefixByElements
<1>3. CASE Len(a) <= Len(b)
  <2>1. \A i \in 1 .. Len(a) : a[i] = b[i]
    BY <1>1, <1>2, <1>3
  <2> QED
    BY <1>3, <2>1, PrefixByElements
<1>4. CASE Len(b) <= Len(a)
  <2>1. \A i \in 1 .. Len(b) : b[i] = a[i]
    BY <1>1, <1>2, <1>4
  <2> QED
    BY <1>4, <2>1, PrefixByElements
<1> QED
  BY <1>1, <1>3, <1>4

(* A set of positions of a sequence has a last one.                        *)
LEMMA LastOf ==
  ASSUME NEW n \in Nat, NEW P \in SUBSET (1 .. n), P # {}
  PROVE  \E i \in P : \A j \in P : j <= i
<1> DEFINE N == {m \in Nat : \A j \in P : j <= m}
           Before == OpToRel(<, Nat)
<1>1. n \in N /\ N \subseteq Nat /\ P \subseteq Nat
  OBVIOUS
<1>2. PICK m \in N : \A k \in N : ~ (<<k, m>> \in Before)
  <2> HIDE DEF N, Before
  <2>1. IsWellFoundedOn(Before, Nat)
    BY NatLessThanWellFounded DEF Before
  <2> QED
    BY <1>1, <2>1, WFMin, Zenon
<1>3. m \in Nat /\ \A j \in P : j <= m
  OBVIOUS
<1>4. m >= 1
  <2>1. PICK j \in P : TRUE
    OBVIOUS
  <2> QED
    BY <1>3, <2>1
<1>5. m \in P
  <2>1. SUFFICES ASSUME m \notin P PROVE FALSE
    OBVIOUS
  <2>2. \A j \in P : j <= m - 1
    BY <1>1, <1>3, <2>1
  <2>3. m - 1 \in Nat /\ m - 1 \in N
    BY <1>3, <1>4, <2>2
  <2>4. <<m - 1, m>> \in Before
    BY <1>3, <2>3 DEF OpToRel
  <2> QED
    BY <1>2, <2>3, <2>4
<1> QED
  BY <1>3, <1>5

(* rstrip leaves a path or the beginning of it.                            *)
LEMMA StrippedIsPrefix ==
  ASSUME NEW path \in Paths
  PROVE  Stripped(path) \in Paths /\ IsPrefix(Stripped(path), path)
<1> DEFINE named == {i \in DOMAIN path : path[i] # ""}
           last == CHOOSE i \in named : \A j \in named : j <= i
<1>0. Len(path) \in Nat /\ DOMAIN path = 1 .. Len(path)
  BY DEF Paths
<1>1. Len(path) \in Nat /\ named \in SUBSET (1 .. Len(path))
  BY <1>0, Zenon
<1>5. Stripped(path) = IF named = {} THEN << >> ELSE SubSeq(path, 1, last)
  BY Zenon DEF Stripped
<1> HIDE DEF named
<1>2. CASE named = {}
  <2>1. Stripped(path) = << >>
    BY <1>2, <1>5
  <2>2. << >> \in Paths /\ Len(<< >>) = 0 /\ 1 .. 0 = {}
    BY DEF Paths
  <2> QED
    BY <1>1, <2>1, <2>2, PrefixByElements
<1>3. CASE named # {}
  <2>1. \E i \in named : \A j \in named : j <= i
    BY <1>1, <1>3, LastOf
  <2>2. last \in 1 .. Len(path)
    BY <1>1, <2>1
  <2>3. Stripped(path) = SubSeq(path, 1, last)
    BY <1>3, <1>5
  <2> HIDE DEF last
  <2>4. /\ SubSeq(path, 1, last) \in Paths /\ Len(SubSeq(path, 1, last)) = last
        /\ \A i \in 1 .. last : SubSeq(path, 1, last)[i] = path[i]
    BY <1>1, <2>2 DEF Paths
  <2>5. last <= Len(path)
    BY <1>1, <2>2
  <2> QED
    BY <2>3, <2>4, <2>5, PrefixByElements
<1> QED
  BY <1>2, <1>3

LEMMA HealthPaths == Healthz \in Paths /\ Readyz \in Paths
<1>1. \A S : \A x \in S : <<x>> \in Seq(S)
  OBVIOUS
<1> QED
  BY <1>1 DEF Healthz, Readyz, Paths

(* The routes of a server, one by one.                                     *)
StreamableRoute(s) == Exact(Normal(s.path), {"GET", "POST", "DELETE"}, "streamable")
StreamableMount(s) == Mounted(s.path, "streamable")
SseRoute(s) == Exact(Normal(s.ssePath), {"GET"}, "sse")
MessagesMount(s) == Mounted(s.messagePath, "messages")
SseAt(s) == IF IsStreamable(s) THEN 5 ELSE 3

LEMMA Concatenated ==
  ASSUME NEW S, NEW x \in Seq(S), NEW y \in Seq(S)
  PROVE  /\ x \o y \in Seq(S) /\ Len(x \o y) = Len(x) + Len(y)
         /\ \A i \in 1 .. Len(x) : (x \o y)[i] = x[i]
         /\ \A i \in 1 .. Len(y) : (x \o y)[Len(x) + i] = y[i]
  OBVIOUS

LEMMA RouteList ==
  ASSUME NEW s
  PROVE  /\ DOMAIN Routes(s) = 1 .. Len(Routes(s))
         /\ Len(Routes(s)) = IF IsSse(s) THEN SseAt(s) + 1 ELSE SseAt(s) - 1
         /\ Routes(s)[1] = Exact(Healthz, {"GET"}, "healthz")
         /\ Routes(s)[2] = Exact(Readyz, {"GET"}, "readyz")
         /\ IsStreamable(s) => Routes(s)[3] = StreamableRoute(s) /\ Routes(s)[4] = StreamableMount(s)
         /\ IsSse(s) => Routes(s)[SseAt(s)] = SseRoute(s) /\ Routes(s)[SseAt(s) + 1] = MessagesMount(s)
<1> DEFINE h == Exact(Healthz, {"GET"}, "healthz")
           r == Exact(Readyz, {"GET"}, "readyz")
           a == <<h, r>>
           b == IF IsStreamable(s) THEN <<StreamableRoute(s), StreamableMount(s)>> ELSE << >>
           c == IF IsSse(s) THEN <<SseRoute(s), MessagesMount(s)>> ELSE << >>
           R == {h, r, StreamableRoute(s), StreamableMount(s), SseRoute(s), MessagesMount(s)}
<1>1. Routes(s) = a \o (b \o c)
  BY DEF Routes, HealthRoutes, SurfaceRoutes, StreamableRoute, StreamableMount, SseRoute, MessagesMount
<1> HIDE DEF h, r
<1>2. a \in Seq(R) /\ Len(a) = 2 /\ a[1] = h /\ a[2] = r
  OBVIOUS
<1>3. /\ b \in Seq(R) /\ Len(b) = IF IsStreamable(s) THEN 2 ELSE 0
      /\ IsStreamable(s) => b[1] = StreamableRoute(s) /\ b[2] = StreamableMount(s)
  <2>1. CASE IsStreamable(s)
    BY <2>1
  <2>2. CASE ~IsStreamable(s)
    BY <2>2
  <2> QED
    BY <2>1, <2>2
<1>4. /\ c \in Seq(R) /\ Len(c) = IF IsSse(s) THEN 2 ELSE 0
      /\ IsSse(s) => c[1] = SseRoute(s) /\ c[2] = MessagesMount(s)
  <2>1. CASE IsSse(s)
    BY <2>1
  <2>2. CASE ~IsSse(s)
    BY <2>2
  <2> QED
    BY <2>1, <2>2
<1> HIDE DEF a, b, c, R
<1>5. /\ b \o c \in Seq(R) /\ Len(b \o c) = Len(b) + Len(c)
      /\ \A i \in 1 .. Len(b) : (b \o c)[i] = b[i]
      /\ \A i \in 1 .. Len(c) : (b \o c)[Len(b) + i] = c[i]
  <2>1. b \in Seq(R) /\ c \in Seq(R)
    BY <1>3, <1>4
  <2> QED
    BY <2>1, Concatenated
<1> DEFINE bc == b \o c
<1> HIDE DEF bc
<1>6. /\ a \o bc \in Seq(R) /\ Len(a \o bc) = 2 + Len(bc)
      /\ (a \o bc)[1] = a[1] /\ (a \o bc)[2] = a[2]
      /\ \A i \in 1 .. Len(bc) : (a \o bc)[2 + i] = bc[i]
  <2>0. Len(a) = 2
    BY <1>2
  <2>1. a \in Seq(R) /\ bc \in Seq(R)
    BY <1>2, <1>5 DEF bc
  <2>2. /\ a \o bc \in Seq(R) /\ Len(a \o bc) = Len(a) + Len(bc)
        /\ \A i \in 1 .. Len(a) : (a \o bc)[i] = a[i]
        /\ \A i \in 1 .. Len(bc) : (a \o bc)[Len(a) + i] = bc[i]
    BY <2>1, Concatenated
  <2>3. 1 \in 1 .. 2 /\ 2 \in 1 .. 2
    OBVIOUS
  <2> HIDE DEF bc
  <2> QED
    BY <2>0, <2>2, <2>3, Zenon
<1>7. Routes(s) = a \o bc
  BY <1>1 DEF bc
<1>8. /\ bc \in Seq(R) /\ Len(bc) = Len(b) + Len(c)
      /\ IsStreamable(s) => bc[1] = StreamableRoute(s) /\ bc[2] = StreamableMount(s)
      /\ IsSse(s) => bc[Len(b) + 1] = SseRoute(s) /\ bc[Len(b) + 2] = MessagesMount(s)
  BY <1>3, <1>4, <1>5 DEF bc
<1>9. /\ Len(Routes(s)) = SseAt(s) - 1 + Len(c) /\ SseAt(s) = Len(b) + 3
      /\ DOMAIN Routes(s) = 1 .. Len(Routes(s))
  BY <1>3, <1>4, <1>6, <1>7, <1>8 DEF SseAt
<1>10. Routes(s)[1] = h /\ Routes(s)[2] = r
  BY <1>2, <1>6, <1>7
<1>11. IsStreamable(s) => Routes(s)[3] = bc[1] /\ Routes(s)[4] = bc[2]
  BY <1>3, <1>4, <1>6, <1>7, <1>8
<1>12. ASSUME IsSse(s)
       PROVE  Routes(s)[SseAt(s)] = bc[Len(b) + 1] /\ Routes(s)[SseAt(s) + 1] = bc[Len(b) + 2]
  <2>1. Len(b) \in Nat /\ Len(c) = 2
    BY <1>3, <1>4, <1>12
  <2>2. Len(b) + 1 \in 1 .. Len(bc) /\ Len(b) + 2 \in 1 .. Len(bc)
    BY <1>8, <2>1
  <2>3. (a \o bc)[2 + (Len(b) + 1)] = bc[Len(b) + 1] /\ (a \o bc)[2 + (Len(b) + 2)] = bc[Len(b) + 2]
    BY <1>6, <2>2, Zenon
  <2>4. SseAt(s) = 2 + (Len(b) + 1) /\ SseAt(s) + 1 = 2 + (Len(b) + 2)
    BY <1>9, <2>1
  <2> QED
    BY <1>7, <2>3, <2>4
<1> QED
  BY <1>4, <1>8, <1>9, <1>10, <1>11, <1>12 DEF h, r

(* The first route that takes a request is the one that it gets to.        *)
LEMMA FirstRoute ==
  ASSUME NEW s, NEW q, NEW n \in DOMAIN Routes(s),
         Takes(Routes(s)[n], q), \A i \in 1 .. n - 1 : ~Takes(Routes(s)[i], q)
  PROVE  Target(s, q) = Routes(s)[n].to
<1> DEFINE taking == {i \in DOMAIN Routes(s) : Takes(Routes(s)[i], q)}
<1>1. n \in taking /\ taking \subseteq Nat
  BY RouteList
<1>2. \A i \in taking : n <= i
  BY <1>1, RouteList
<1>3. n = CHOOSE i \in taking : \A j \in taking : i <= j
  BY <1>1, <1>2
<1> QED
  BY <1>1, <1>3 DEF Target
-----------------------------------------------------------------------------
(* Callers, and the paths of settings.                                     *)
LEMMA PathsOfSettings ==
  ASSUME NEW s \in SettingsPool, Valid(s)
  PROVE  s.path \in Paths /\ s.ssePath \in Paths /\ s.messagePath \in Paths
<1>1. \A path \in {s.path, s.ssePath, s.messagePath} : path = Unset \/ path \in Seq(STRING)
  BY ServerAssumption DEF WellFormed
<1>2. Unset \notin {s.path, s.ssePath, s.messagePath}
  BY DEF Valid
<1> QED
  BY <1>1, <1>2, StringsArePaths

LEMMA NormalApart ==
  ASSUME NEW path \in Paths, NEW p \in Paths, ~IsPrefix(Stripped(path), p)
  PROVE  Normal(path) = Stripped(path) /\ Normal(path) # p
<1>1. Stripped(path) # << >>
  <2>1. << >> \in Paths /\ Len(<< >>) = 0 /\ 1 .. 0 = {} /\ Len(p) \in Nat
    BY DEF Paths
  <2>2. IsPrefix(<< >>, p)
    BY <2>1, PrefixByElements
  <2> QED
    BY <2>2
<1>2. Stripped(path) # p
  BY PrefixReflexive
<1> QED
  BY <1>1, <1>2 DEF Normal

(* What each kind of route takes.                                          *)
LEMMA TakenBy ==
  ASSUME NEW path, NEW methods, NEW to, NEW q
  PROVE  /\ Takes(Exact(path, methods, to), q) <=> q.path = path /\ q.method \in methods
         /\ Takes(Mounted(path, to), q) <=>
              Len(q.path) > Len(Stripped(path)) /\ IsPrefix(Stripped(path), q.path)
         /\ Exact(path, methods, to).to = to /\ Mounted(path, to).to = to
  BY DEF Takes, Exact, Mounted

(* A request that some route takes gets to one of these.                   *)
LEMMA TargetTakes ==
  ASSUME NEW s, NEW q, Target(s, q) # "nothing"
  PROVE  \E i \in DOMAIN Routes(s) : Takes(Routes(s)[i], q) /\ Target(s, q) = Routes(s)[i].to
<1> DEFINE taking == {i \in DOMAIN Routes(s) : Takes(Routes(s)[i], q)}
           Before == OpToRel(<, Nat)
<1>1. taking # {} /\ taking \subseteq Nat
  BY RouteList DEF Target
<1>2. PICK m \in taking : \A k \in taking : ~ (<<k, m>> \in Before)
  <2> HIDE DEF taking, Before
  <2>1. IsWellFoundedOn(Before, Nat)
    BY NatLessThanWellFounded DEF Before
  <2> QED
    BY <1>1, <2>1, WFMin, Zenon
<1>3. \A k \in taking : k < m => <<k, m>> \in Before
  BY <1>1 DEF OpToRel
<1>4. \A k \in taking : m <= k
  <2> HIDE DEF taking, Before
  <2>1. m \in Nat /\ \A k \in taking : k \in Nat /\ ~(k < m)
    BY <1>1, <1>2, <1>3
  <2> QED
    BY <2>1
<1>5. (CHOOSE i \in taking : \A j \in taking : i <= j) \in taking
  BY <1>2, <1>4
<1> QED
  BY <1>1, <1>5 DEF Target

(* A request of a health path that gets to an endpoint gets there by a     *)
(* surface at that path or at the root: a stream of the SSE transport does *)
(* not count, since the health route takes its method, too.                *)
LEMMA HealthTakenInside ==
  ASSUME NEW s \in SettingsPool, Valid(s), NEW q, q.path \in Exempt, Target(s, q) \in Endpoints
  PROVE  HealthInside(s)
<1>1. PICK i \in DOMAIN Routes(s) : Takes(Routes(s)[i], q) /\ Target(s, q) = Routes(s)[i].to
  BY TargetTakes DEF Endpoints
<1>2. i # 1 /\ i # 2
  BY <1>1, RouteList, TakenBy DEF Endpoints
<1>3. i \in 1 .. Len(Routes(s)) /\ Len(Routes(s)) = IF IsSse(s) THEN SseAt(s) + 1 ELSE SseAt(s) - 1
  BY RouteList
<1>4. \/ IsStreamable(s) /\ i \in {3, 4}
      \/ IsSse(s) /\ i \in {SseAt(s), SseAt(s) + 1}
  BY <1>2, <1>3 DEF SseAt
<1>5. ASSUME NEW path \in {s.path, s.messagePath}, NEW to, Takes(Mounted(path, to), q)
      PROVE  Stripped(path) = << >>
  <2>1. Stripped(path) \in Paths
    BY PathsOfSettings, StrippedIsPrefix
  <2>2. Len(q.path) > Len(Stripped(path)) /\ Len(q.path) = 1
    BY <1>5, TakenBy DEF Exempt, Healthz, Readyz
  <2> QED
    BY <2>1, <2>2 DEF Paths
<1>6. CASE IsStreamable(s) /\ i = 3
  <2>1. Routes(s)[3] = Exact(Normal(s.path), {"GET", "POST", "DELETE"}, "streamable")
    BY <1>6, RouteList, Zenon DEF StreamableRoute
  <2>2. Takes(Exact(Normal(s.path), {"GET", "POST", "DELETE"}, "streamable"), q)
    BY <1>1, <1>6, <2>1
  <2>3. Normal(s.path) = q.path
    BY <2>2, Zenon DEF Takes, Exact
  <2> QED
    BY <1>6, <2>3 DEF Normal, HealthInside
<1>7. CASE IsStreamable(s) /\ i = 4
  <2>1. Takes(Mounted(s.path, "streamable"), q)
    BY <1>1, <1>7, RouteList DEF StreamableMount
  <2> QED
    BY <1>5, <1>7, <2>1 DEF HealthInside
<1>8. CASE IsSse(s) /\ i = SseAt(s)
  <2>1. q.method = "GET"
    <3>1. Routes(s)[SseAt(s)] = Exact(Normal(s.ssePath), {"GET"}, "sse")
      BY <1>8, RouteList, Zenon DEF SseRoute
    <3>2. Takes(Exact(Normal(s.ssePath), {"GET"}, "sse"), q)
      BY <1>1, <1>8, <3>1
    <3>3. q.method \in {"GET"}
      BY <3>2, TakenBy
    <3> QED
      BY <3>3
  <2>2. Routes(s)[1] = Exact(Healthz, {"GET"}, "healthz") /\ Routes(s)[2] = Exact(Readyz, {"GET"}, "readyz")
    BY RouteList
  <2>3. 1 \in DOMAIN Routes(s) /\ 2 \in DOMAIN Routes(s)
    BY RouteList DEF SseAt
  <2>4. CASE q.path = Healthz
    <3>1. Takes(Routes(s)[1], q) /\ Routes(s)[1].to = "healthz"
      BY <2>1, <2>2, <2>4, TakenBy
    <3>2. \A n \in 1 .. 0 : ~Takes(Routes(s)[n], q)
      OBVIOUS
    <3>3. Target(s, q) = "healthz"
      BY <2>3, <3>1, <3>2, FirstRoute
    <3> QED
      BY <3>3 DEF Endpoints
  <2>5. CASE q.path # Healthz
    <3>1. Takes(Routes(s)[2], q) /\ Routes(s)[2].to = "readyz"
      BY <2>1, <2>2, <2>5, TakenBy DEF Exempt
    <3>2. \A n \in 1 .. 1 : ~Takes(Routes(s)[n], q)
      BY <2>2, <2>5, TakenBy
    <3>3. Target(s, q) = "readyz"
      BY <2>3, <3>1, <3>2, FirstRoute
    <3> QED
      BY <3>3 DEF Endpoints
  <2> QED
    BY <2>4, <2>5
<1>9. CASE IsSse(s) /\ i = SseAt(s) + 1
  <2>1. Takes(Mounted(s.messagePath, "messages"), q)
    BY <1>1, <1>9, RouteList DEF MessagesMount
  <2> QED
    BY <1>5, <1>9, <2>1 DEF HealthInside
<1> QED
  BY <1>4, <1>6, <1>7, <1>8, <1>9

(* Who comes through a door to an endpoint is admitted.                    *)
LEMMA DoorsAreGuarded ==
  ASSUME NEW s \in SettingsPool, NEW d \in Doors[s], d.to \in Endpoints
  PROVE  Admitted(s, d.caller)
<1>1. Valid(s) /\ IsHttp(s)
  BY DEF Doors
<1>2. PICK q \in Requests :
        /\ d = [to |-> Target(s, q), method |-> q.method, caller |-> Caller(s, q)]
        /\ Passes(s, q)
  BY <1>1 DEF Doors
<1>3. Target(s, q) \in Endpoints /\ PassesBearer(s, q) /\ PassesOAuth(s, q)
  BY <1>2 DEF Passes
<1>4. d.caller = Caller(s, q)
  BY <1>2
<1>5. CASE Trusted(s, q.cred)
  <2>1. Caller(s, q) = "trusted"
    BY <1>5, Zenon DEF Caller
  <2> QED
    BY <1>4, <2>1 DEF Admitted
<1>6. CASE ~Trusted(s, q.cred)
  <2>1. AuthMode(s) # "none" /\ AuthMode(s) # "oauth"
    BY <1>1, <1>3, <1>6, Zenon DEF Valid, Trusted, PassesOAuth
  <2>2. AuthMode(s) = "bearer"
    BY <2>1 DEF AuthMode
  <2>3. q.path \in Exempt
    BY <1>3, <1>6, <2>2, Zenon DEF PassesBearer, Trusted
  <2>4. HealthInside(s)
    BY <1>1, <1>3, <2>3, HealthTakenInside
  <2>5. Caller(s, q) = "health"
    BY <1>6, <2>2, <2>3, Zenon DEF Caller
  <2> QED
    BY <1>4, <2>4, <2>5 DEF Admitted
<1> QED
  BY <1>5, <1>6

(* A server that starts or has stopped has no calls, and one that runs     *)
(* keeps its settings: a call stays with the settings that admitted it.    *)
LEMMA TrustStep ==
  ASSUME Sharing, CallersTrusted, [Next]_vars
  PROVE  CallersTrusted'
<1>0. Free.stage = "free"
  BY DEF Free
<1>1. ASSUME NEW k \in Slots, NEW stage, NEW held, NEW of, NEW caller, Admitted(settings, caller),
             Opened(k, stage, held, of, caller)
      PROVE  CallersTrusted'
  <2>1. /\ call' = [call EXCEPT ![k] = [stage |-> stage, held |-> held, of |-> of,
                                        caller |-> caller, client |-> None]]
        /\ settings' = settings
    BY <1>1 DEF Opened, life
  <2> QED
    BY <1>1, <2>1 DEF CallersTrusted, Sharing
<1>2. ASSUME NEW k \in Slots, NEW new, call' = [call EXCEPT ![k] = new], settings' = settings,
             new.stage # "free" => new.caller = call[k].caller /\ call[k].stage # "free"
      PROVE  CallersTrusted'
  BY <1>2 DEF CallersTrusted, Sharing
<1>3. ASSUME UNCHANGED <<call, settings>> PROVE CallersTrusted'
  BY <1>3 DEF CallersTrusted
<1>4. ASSUME NEW k \in Slots, PostCall(k) \/ HealthCall(k) \/ OpenStream(k) \/ PostMessage(k) \/ ReadLine(k)
      PROVE  CallersTrusted'
  <2>1. settings # None => settings \in SettingsPool
    BY DEF Sharing
  <2>2. CASE PostCall(k) \/ HealthCall(k)
    <3>0. settings # None
      BY <2>2 DEF PostCall, HealthCall
    <3>1. PICK d \in Doors[settings] : d.to = "streamable" /\ Opened(k, "queued", TRUE, None, d.caller)
      BY <2>2 DEF PostCall, HealthCall
    <3>2. Admitted(settings, d.caller)
      BY <2>1, <3>0, <3>1, DoorsAreGuarded DEF Endpoints
    <3> QED
      BY <1>1, <3>1, <3>2
  <2>3. CASE OpenStream(k)
    <3>1. PICK d \in Doors[settings] :
            /\ d.to \in {"sse", "streamable"}
            /\ Opened(k, "sse", TRUE, None, d.caller) \/ Opened(k, "stream", TRUE, None, d.caller)
      BY <2>3 DEF OpenStream
    <3>2. Admitted(settings, d.caller)
      BY <2>1, <2>3, <3>1, DoorsAreGuarded DEF OpenStream, Endpoints
    <3> QED
      BY <1>1, <3>1, <3>2
  <2>4. CASE PostMessage(k)
    <3>1. PICK d \in Doors[settings], j \in Slots :
            d.to = "messages" /\ Opened(k, "queued", FALSE, j, d.caller)
      BY <2>4 DEF PostMessage
    <3>2. Admitted(settings, d.caller)
      BY <2>1, <2>4, <3>1, DoorsAreGuarded DEF PostMessage, Endpoints
    <3> QED
      BY <1>1, <3>1, <3>2
  <2>5. CASE ReadLine(k)
    BY <1>1, <2>5 DEF ReadLine, Admitted
  <2> QED
    BY <1>4, <2>2, <2>3, <2>4, <2>5
<1>5. ASSUME NEW k \in Slots, Dispatch(k) PROVE CallersTrusted'
  <2>1. call[k].stage = "queued" /\ call[k] \in CallRecords
    BY <1>5 DEF Dispatch, Sharing
  <2>2. PICK new : /\ call' = [call EXCEPT ![k] = new]
                   /\ settings' = settings
                   /\ new.stage # "free" => new.caller = call[k].caller
    <3>1. \A h : [call[k] EXCEPT !.stage = "running", !.client = h].caller = call[k].caller
      BY <2>1 DEF CallRecords
    <3> QED
      BY <1>0, <1>5, <3>1 DEF Dispatch, SetCall, life
  <2> QED
    BY <1>2, <2>1, <2>2
<1>6. ASSUME NEW k \in Slots, Return(k) \/ Cancel(k) \/ CloseStream(k) PROVE CallersTrusted'
  <2>1. call' = [call EXCEPT ![k] = Free] /\ settings' = settings
    BY <1>6 DEF Return, Cancel, CloseStream, SetCall, life
  <2> QED
    BY <1>0, <1>2, <2>1
<1>7. ASSUME NEW k \in Slots, Abandon(k) PROVE CallersTrusted'
  <2> DEFINE new == [call[k] EXCEPT !.held = FALSE]
  <2>1. call' = [call EXCEPT ![k] = new] /\ settings' = settings
    BY <1>7 DEF Abandon, SetCall, life
  <2>2. new.stage = call[k].stage /\ new.caller = call[k].caller
    BY DEF Sharing, CallRecords
  <2> HIDE DEF new
  <2> QED
    BY <1>2, <2>1, <2>2
<1>8. ASSUME Kill PROVE CallersTrusted'
  BY <1>0, <1>8 DEF Kill, CallersTrusted
<1>9. ASSUME (\E s \in SettingsPool : Boot(s)) \/ Closed PROVE CallersTrusted'
  <2>1. phase \in {"down", "closing"} /\ UNCHANGED call
    BY <1>9 DEF Boot, Closed
  <2> QED
    BY <2>1 DEF CallersTrusted, Sharing
<1>10. ASSUME StoreStep \/ Stop \/ Drained \/ TakeClient \/ UNCHANGED vars PROVE CallersTrusted'
  <2>1. UNCHANGED <<call, settings>>
    BY <1>10 DEF StoreStep, Stop, Drained, TakeClient, To, vars, life
  <2> QED
    BY <1>3, <2>1
<1> QED
  BY <1>4, <1>5, <1>6, <1>7, <1>8, <1>9, <1>10 DEF Next
-----------------------------------------------------------------------------
(* Surfaces, where MessagesBelow holds.                                    *)
LEMMA ApartPairs ==
  ASSUME NEW s, Apart(s)
  PROVE  /\ ~IsPrefix(Stripped(s.path), Stripped(s.ssePath))
         /\ ~IsPrefix(Stripped(s.ssePath), Stripped(s.path))
         /\ ~IsPrefix(Stripped(s.path), Stripped(s.messagePath))
         /\ ~IsPrefix(Stripped(s.messagePath), Stripped(s.path))
         /\ \A h \in {Healthz, Readyz} : ~IsPrefix(Stripped(s.ssePath), h) /\ ~IsPrefix(Stripped(s.path), h)
<1> DEFINE paths == <<Stripped(s.path), Stripped(s.ssePath), Stripped(s.messagePath), Healthz, Readyz>>
<1>1. \A i, j \in DOMAIN paths : IsPrefix(paths[i], paths[j]) => i = j
  BY Zenon DEF Apart
<1>2. DOMAIN paths = 1 .. 5
  OBVIOUS
<1>3. /\ paths[1] = Stripped(s.path) /\ paths[2] = Stripped(s.ssePath) /\ paths[3] = Stripped(s.messagePath)
      /\ paths[4] = Healthz /\ paths[5] = Readyz
  OBVIOUS
<1> HIDE DEF paths
<1>4. \A i, j \in 1 .. 5 : i # j => ~IsPrefix(paths[i], paths[j])
  BY <1>1, <1>2
<1>5. /\ ~IsPrefix(paths[1], paths[2]) /\ ~IsPrefix(paths[2], paths[1])
      /\ ~IsPrefix(paths[1], paths[3]) /\ ~IsPrefix(paths[3], paths[1])
      /\ ~IsPrefix(paths[1], paths[4]) /\ ~IsPrefix(paths[1], paths[5])
      /\ ~IsPrefix(paths[2], paths[4]) /\ ~IsPrefix(paths[2], paths[5])
  BY <1>4
<1> QED
  BY <1>3, <1>5

(* Each surface is taken by a route, and by none before it.                *)
LEMMA SurfaceTargets ==
  ASSUME MessagesBelow, NEW s \in SettingsPool, Valid(s), Apart(s),
         NEW surface \in Surfaces(s), NEW q \in Requests,
         q.method = surface.method, q.path = surface.path
  PROVE  Target(s, q) = surface.to
<1> DEFINE P == Stripped(s.path)
           S == Stripped(s.ssePath)
           M == Stripped(s.messagePath)
<1>1. /\ s.path \in Paths /\ s.ssePath \in Paths /\ s.messagePath \in Paths
      /\ P \in Paths /\ S \in Paths /\ M \in Paths /\ IsPrefix(M, s.messagePath)
  BY PathsOfSettings, StrippedIsPrefix
<1>2. /\ ~IsPrefix(P, S) /\ ~IsPrefix(S, P) /\ ~IsPrefix(P, M) /\ ~IsPrefix(M, P)
      /\ \A h \in {Healthz, Readyz} : ~IsPrefix(S, h) /\ ~IsPrefix(P, h)
  BY ApartPairs
<1>3. Normal(s.path) = P /\ Normal(s.ssePath) = S
  BY <1>1, <1>2, NormalApart, HealthPaths
<1>4. S # Healthz /\ S # Readyz /\ S # P
  BY <1>1, <1>2, PrefixReflexive
<1> HIDE DEF P, S, M
<1>5. CASE surface = [to |-> "streamable", method |-> "POST", path |-> Normal(s.path)] /\ IsStreamable(s)
  <2>1. q.method = "POST"
    BY <1>5
  <2>2. ~Takes(Routes(s)[1], q) /\ ~Takes(Routes(s)[2], q)
    BY <2>1, RouteList, TakenBy
  <2>3. Takes(StreamableRoute(s), q)
    BY <1>5, <2>1, TakenBy DEF StreamableRoute
  <2>4. 3 \in DOMAIN Routes(s) /\ Routes(s)[3] = StreamableRoute(s)
    BY <1>5, RouteList DEF SseAt
  <2>5. \A i \in 1 .. 3 - 1 : i = 1 \/ i = 2
    OBVIOUS
  <2>6. Target(s, q) = StreamableRoute(s).to
    BY <2>2, <2>3, <2>4, <2>5, FirstRoute
  <2>20. StreamableRoute(s).to = "streamable" /\ surface.to = "streamable"
    BY <1>5 DEF StreamableRoute, Exact
  <2> QED
    BY <2>6, <2>20
<1>6. CASE surface = [to |-> "sse", method |-> "GET", path |-> Normal(s.ssePath)] /\ IsSse(s)
  <2>1. q.method = "GET" /\ q.path = S
    BY <1>3, <1>6
  <2>2. ~Takes(Routes(s)[1], q) /\ ~Takes(Routes(s)[2], q)
    BY <1>4, <2>1, RouteList, TakenBy
  <2>3. ~Takes(StreamableRoute(s), q) /\ ~Takes(StreamableMount(s), q)
    <3>1. Normal(s.path) # q.path /\ ~IsPrefix(Stripped(s.path), q.path)
      BY <1>2, <1>3, <1>4, <2>1 DEF P
    <3>2. ~Takes(StreamableRoute(s), q)
      BY <3>1, TakenBy DEF StreamableRoute
    <3>3. ~Takes(StreamableMount(s), q)
      BY <3>1, TakenBy DEF StreamableMount
    <3> QED
      BY <3>2, <3>3
  <2>4. Takes(SseRoute(s), q)
    BY <1>3, <2>1, TakenBy DEF SseRoute
  <2>5. SseAt(s) \in DOMAIN Routes(s) /\ Routes(s)[SseAt(s)] = SseRoute(s)
    BY <1>6, RouteList DEF SseAt
  <2>6. \A i \in 1 .. SseAt(s) - 1 : ~Takes(Routes(s)[i], q)
    <3>1. \A i \in 1 .. SseAt(s) - 1 : i \in {1, 2} \/ (IsStreamable(s) /\ i \in {3, 4})
      BY DEF SseAt
    <3> QED
      BY <2>2, <2>3, <3>1, RouteList
  <2>7. Target(s, q) = SseRoute(s).to
    BY <2>4, <2>5, <2>6, FirstRoute
  <2>20. SseRoute(s).to = "sse" /\ surface.to = "sse"
    BY <1>6 DEF SseRoute, Exact
  <2> QED
    BY <2>7, <2>20
<1>7. CASE surface = [to |-> "messages", method |-> "POST", path |-> s.messagePath] /\ IsSse(s)
  <2>1. q.method = "POST" /\ q.path = s.messagePath
    BY <1>7
  <2>2. ~Takes(Routes(s)[1], q) /\ ~Takes(Routes(s)[2], q)
    BY <2>1, RouteList, TakenBy
  <2>3. ~IsPrefix(P, s.messagePath)
    BY <1>1, <1>2, PrefixesCompare
  <2>4. Normal(s.path) # s.messagePath
    BY <1>1, <1>3, <2>3, PrefixReflexive
  <2>5. ~Takes(StreamableRoute(s), q) /\ ~Takes(StreamableMount(s), q)
    BY <2>1, <2>3, <2>4, TakenBy DEF StreamableRoute, StreamableMount, P
  <2>6. ~Takes(SseRoute(s), q)
    BY <2>1, TakenBy DEF SseRoute
  <2>7. Takes(MessagesMount(s), q)
    <3>1. Len(s.messagePath) > Len(Stripped(s.messagePath))
      BY DEF MessagesBelow
    <3> QED
      BY <1>1, <2>1, <3>1, TakenBy DEF MessagesMount, M
  <2>8. SseAt(s) + 1 \in DOMAIN Routes(s) /\ Routes(s)[SseAt(s) + 1] = MessagesMount(s)
    BY <1>7, RouteList DEF SseAt
  <2>9. \A i \in 1 .. (SseAt(s) + 1) - 1 : ~Takes(Routes(s)[i], q)
    <3>1. \A i \in 1 .. (SseAt(s) + 1) - 1 :
            i \in {1, 2} \/ (IsStreamable(s) /\ i \in {3, 4}) \/ i = SseAt(s)
      BY DEF SseAt
    <3> QED
      BY <1>7, <2>2, <2>5, <2>6, <3>1, RouteList
  <2>10. Target(s, q) = MessagesMount(s).to
    BY <2>7, <2>8, <2>9, FirstRoute
  <2>20. MessagesMount(s).to = "messages" /\ surface.to = "messages"
    BY <1>7 DEF MessagesMount, Mounted
  <2> QED
    BY <2>10, <2>20
<1> QED
  BY <1>5, <1>6, <1>7 DEF Surfaces, IsSse

LEMMA SurfacesAreReached ==
  ASSUME MessagesBelow, NEW s \in SettingsPool, Valid(s), Apart(s)
  PROVE  s \in Reachable
<1> SUFFICES ASSUME NEW surface \in Surfaces(s), NEW q \in Requests,
                    q.method = surface.method, q.path = surface.path,
                    Trusted(s, q.cred), PassesOrigin(s, q)
             PROVE  Target(s, q) = surface.to /\ Passes(s, q)
  BY DEF Reachable
<1>1. Target(s, q) = surface.to
  BY SurfaceTargets
<1>2. PassesBearer(s, q)
  BY Zenon DEF Trusted, PassesBearer, AuthMode
<1>3. PassesOAuth(s, q)
  BY Zenon DEF Trusted, PassesOAuth, AuthMode
<1> QED
  BY <1>1, <1>2, <1>3 DEF Passes

-----------------------------------------------------------------------------
(* Readiness: a token file that can be read has a token.                   *)
LEMMA ReadyIsTokens ==
  ASSUME Sharing PROVE ReadyMeansTokens
<1> SUFFICES ASSUME settings # None, settings.mode = "local", NEW file \in TokenFiles
             PROVE  CredentialsReady(settings, file) <=>
                      ClientTokens(settings, file).access
                        \/ (ClientTokens(settings, file).refresh /\ settings.app)
  BY DEF ReadyMeansTokens
<1>1. settings.access \in BOOLEAN /\ settings.refresh \in BOOLEAN /\ settings.app \in BOOLEAN
  BY ServerAssumption DEF Sharing, WellFormed
<1>2. /\ file.readable \in BOOLEAN /\ file.access \in BOOLEAN /\ file.refresh \in BOOLEAN
      /\ file.readable => file.access \/ file.refresh
  <2>1. CASE file = [readable |-> FALSE, access |-> FALSE, refresh |-> FALSE]
    BY <2>1
  <2>2. CASE file \in {f \in [readable : {TRUE}, access : BOOLEAN, refresh : BOOLEAN] : f.access \/ f.refresh}
    <3>1. /\ file.readable = TRUE /\ file.access \in BOOLEAN /\ file.refresh \in BOOLEAN
          /\ file.access \/ file.refresh
      BY <2>2
    <3> QED
      BY <3>1
  <2> QED
    BY <2>1, <2>2, Zenon DEF TokenFiles
<1>3. CredentialsReady(settings, file) <=>
        \/ settings.access
        \/ settings.refresh /\ settings.app
        \/ file.readable /\ (file.access \/ (file.refresh /\ settings.app))
  BY DEF CredentialsReady
<1>4. CASE settings.access \/ ~file.readable
  <2>1. /\ ClientTokens(settings, file).access = settings.access
        /\ ClientTokens(settings, file).refresh = settings.refresh
    BY <1>4 DEF ClientTokens
  <2> QED
    BY <1>1, <1>2, <1>3, <1>4, <2>1, Zenon
<1>5. CASE ~(settings.access \/ ~file.readable)
  <2>1. /\ ClientTokens(settings, file).access = file.access
        /\ ClientTokens(settings, file).refresh = file.refresh
    BY <1>5 DEF ClientTokens
  <2> QED
    BY <1>1, <1>2, <1>3, <1>5, <2>1, Zenon
<1> QED
  BY <1>4, <1>5

-----------------------------------------------------------------------------
ServerInv == StoreInv /\ ClientInv /\ Sharing

LEMMA ServerTypes == ServerInv => TypeOK
<1> SUFFICES ASSUME ServerInv PROVE TypeOK
  OBVIOUS
<1>1. StoreTypeOK
  BY DEF ServerInv, StoreInv, StoreTypes, DequesEnd, ClientInv, Clientele, StoreTypeOK
<1>2. {shared, closing} \subseteq Https \cup {None} /\ open \subseteq Https
  BY DEF ServerInv, Sharing
<1> QED
  BY <1>1, <1>2 DEF TypeOK, ServerInv, Sharing, Phases, CallRecords

LEMMA CallsShareClient == Sharing => CallsHaveClients
  BY DEF Sharing, CallsHaveClients

LEMMA ServerInvariance == Spec => []ServerInv
<1>1. Init => ServerInv
  BY StoreInitInv, StoreInitClients, SharingInit DEF Init, ServerInv
<1>2. ServerInv /\ [Next]_vars => ServerInv'
  BY StoreSideStep, SharingStep DEF ServerInv
<1> QED
  BY <1>1, <1>2, PTL DEF Spec

(* What the variables hold, whatever requests arrive and events are stored. *)
THEOREM ServerTypeCorrect == Spec => []TypeOK
  BY ServerInvariance, ServerTypes, PTL

(* The index of the event store and its deques say the same: what is       *)
(* evicted cannot be looked up, and what is held can.                      *)
THEOREM IndexTheorem == Spec => []IndexMatches
<1>1. ServerInv => IndexMatches
  BY IndexIsExact DEF ServerInv
<1> QED
  BY <1>1, ServerInvariance, PTL

(* For any number of streams and clients and any limit of the deques, a    *)
(* resumption has no gap, no message twice and none of another stream,     *)
(* through evictions, losses of the connection and restarts of the server. *)
THEOREM ReplayTheorem == Spec => []ReplayExact
<1>1. ServerInv => ReplayExact
  BY ReplayIsExact DEF ServerInv
<1> QED
  BY <1>1, ServerInvariance, PTL

(* A call in hand never finds its client closed, and a server that has     *)
(* stopped leaves no client open.                                          *)
THEOREM ClientsTheorem == Spec => []CallsHaveClients
<1>1. ServerInv => CallsHaveClients
  BY CallsShareClient DEF ServerInv
<1> QED
  BY <1>1, ServerInvariance, PTL

(* /readyz of a local server and the client that its next call makes agree *)
(* on whether there are credentials, for any settings and token file.      *)
THEOREM ReadyTheorem == Spec => []ReadyMeansTokens
<1>1. ServerInv => ReadyMeansTokens
  BY ReadyIsTokens DEF ServerInv
<1> QED
  BY <1>1, ServerInvariance, PTL

(* Every stream and call came from a caller whom the settings call for, by *)
(* any route, for all settings that the validators accept and all          *)
(* requests; a caller without the token comes by a health path, and only   *)
(* to a server whose surface is at that path or at the root.               *)
THEOREM TrustTheorem == Spec => []CallersTrusted
<1>1. Init => CallersTrusted
  BY DEF Init, Free, CallersTrusted
<1>2. ServerInv /\ CallersTrusted /\ [Next]_vars => CallersTrusted'
  BY TrustStep DEF ServerInv
<1> QED
  BY <1>1, <1>2, ServerInvariance, PTL DEF Spec

(* No route hides a surface that /healthz names, for all settings whose    *)
(* paths are apart and whose message path ends with a slash.               *)
THEOREM SurfacesTheorem ==
  ASSUME MessagesBelow
  PROVE  Spec => []SurfacesLead
<1>1. ServerInv => SurfacesLead
  <2> SUFFICES ASSUME ServerInv, settings # None, Apart(settings) PROVE settings \in Reachable
    BY DEF SurfacesLead
  <2>1. settings \in SettingsPool /\ Valid(settings)
    BY DEF ServerInv, Sharing
  <2> QED
    BY <2>1, SurfacesAreReached
<1> QED
  BY <1>1, ServerInvariance, PTL
=============================================================================
