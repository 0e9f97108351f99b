--------------------------- MODULE PinRateLimiter ---------------------------
(***************************************************************************)
(* The limit of Limit pins per Window that every pin of a client passes:   *)
(* PinterestClient._rate_limited_pin, with create_pin and bulk_create_pins *)
(* (client.py) around it.  The coroutines of one event loop share the list *)
(* of time stamps.                                                         *)
(*                                                                         *)
(* Time is kept as ages: an age is capped at Window, from where on nothing *)
(* looks at it any more, so the clock needs no bound.                      *)
(***************************************************************************)
EXTENDS Naturals, Sequences, FiniteSets

CONSTANTS
  Callers,   \* tool calls that run in one event loop
  MaxBulk,   \* most pins of one bulk call (a bound of the model)
  Limit,     \* _PIN_RATE_LIMIT
  Window     \* _PIN_RATE_WINDOW

ASSUME LimiterAssumption == /\ MaxBulk \in Nat \ {0}
                            /\ Limit   \in Nat \ {0}
                            /\ Window  \in Nat \ {0}

VARIABLES
  stamps,    \* _pin_timestamps: ages of the replies, oldest first, up to Window
  created,   \* ages of the acknowledged pins, counted from their arrival
  call       \* call[c]: the tool call that c runs: its stage, the pins it has
             \* still to create, the sleep left, the time since the arrival

vars == <<stamps, created, call>>

(***************************************************************************)
(* "idle": no call.  "preparing": synchronous, from create_pin's checks to *)
(* the count.  "sleeping": until `left' is 0.  "sending": getting a token  *)
(* and a connection.  "arrived": Pinterest has the pin, `age' ago.         *)
(***************************************************************************)
Idle == [stage |-> "idle", pins |-> 0, left |-> 0, age |-> 0]

Init ==
  /\ stamps = << >>
  /\ created = << >>
  /\ call = [c \in Callers |-> Idle]

\* create_pin runs without an await up to the limiter's first one: meanwhile
\* no other coroutine of the loop gets a turn.
LoopFree == \A c \in Callers : call[c].stage # "preparing"

Move(c, stage) == call' = [call EXCEPT ![c].stage = stage]

\* create_pin is a bulk of one.
Call(c) ==
  /\ LoopFree
  /\ call[c].stage = "idle"
  /\ \E n \in 1 .. MaxBulk : call' = [call EXCEPT ![c] = [Idle EXCEPT !.stage = "preparing", !.pins = n]]
  /\ UNCHANGED <<stamps, created>>

\* No image, a forbidden path or URL: the exception ends a bulk at this pin.
\* A dry run leaves in the same way, with nothing changed.
RefusePin(c) ==
  /\ call[c].stage = "preparing"
  /\ call' = [call EXCEPT ![c] = Idle]
  /\ UNCHANGED <<stamps, created>>

\* The list without the ages that have left the window.  It is in the order
\* of the replies, oldest first, so that these are the first ones.
Recent(ages) ==
  SubSeq(ages, CHOOSE n \in 1 .. Len(ages) + 1 :
                 /\ \A i \in 1 .. n - 1 : ages[i] >= Window
                 /\ n <= Len(ages) => ages[n] < Window,
         Len(ages))

\* A mutant: one pin more than the limit.
Count_OneMore(c) ==
  LET recent == Recent(stamps)
  IN /\ call[c].stage = "preparing"
     /\ stamps' = recent
     /\ call' = IF Len(recent) > Limit
                THEN [call EXCEPT ![c].stage = "sleeping", ![c].left = Window - recent[1]]
                ELSE [call EXCEPT ![c].stage = "sending"]
     /\ UNCHANGED created

\* A mutant: the sleep is measured from the newest stamp.
Count_FromNewest(c) ==
  LET recent == Recent(stamps)
  IN /\ call[c].stage = "preparing"
     /\ stamps' = recent
     /\ call' = IF Len(recent) >= Limit
                THEN [call EXCEPT ![c].stage = "sleeping", ![c].left = Window - recent[Len(recent)]]
                ELSE [call EXCEPT ![c].stage = "sending"]
     /\ UNCHANGED created

\* The count, and the sleep until the oldest stamp has left the window.
Count(c) ==
  LET recent == Recent(stamps)
  IN /\ call[c].stage = "preparing"
     /\ stamps' = recent
     /\ call' = IF Len(recent) >= Limit
                THEN [call EXCEPT ![c].stage = "sleeping", ![c].left = Window - recent[1]]
                ELSE [call EXCEPT ![c].stage = "sending"]
     /\ UNCHANGED created

\* The limiter does not count again after its sleep.
Wake(c) ==
  /\ LoopFree
  /\ call[c].stage = "sleeping"
  /\ call[c].left = 0
  /\ Move(c, "sending")
  /\ UNCHANGED <<stamps, created>>

\* Pinterest gets the pin, whatever the event loop is doing.
Arrive(c) ==
  /\ call[c].stage = "sending"
  /\ call' = [call EXCEPT ![c].stage = "arrived", ![c].age = 0]
  /\ UNCHANGED <<stamps, created>>

\* The loop of bulk_create_pins goes on to its next pin without an await.
Acknowledge(c) ==
  /\ LoopFree
  /\ call[c].stage = "arrived"
  /\ stamps' = Append(stamps, 0)
  /\ created' = Append(created, call[c].age)
  /\ call' = IF call[c].pins = 1
             THEN [call EXCEPT ![c] = Idle]
             ELSE [call EXCEPT ![c].stage = "preparing", ![c].pins = @ - 1, ![c].age = 0]

\* A mutant: a pin that failed is tried again.
Fail_Retry(c) ==
  /\ LoopFree
  /\ call[c].stage \in {"sending", "arrived"}
  /\ call' = [call EXCEPT ![c].stage = "preparing", ![c].age = 0]
  /\ UNCHANGED <<stamps, created>>

\* No token, no connection, an error reply or a timeout: the exception ends
\* the bulk, and an attempt that failed leaves no stamp.
Fail(c) ==
  /\ LoopFree
  /\ call[c].stage \in {"sending", "arrived"}
  /\ call' = [call EXCEPT ![c] = Idle]
  /\ UNCHANGED <<stamps, created>>

Older(a) == IF a < Window THEN a + 1 ELSE a
Sooner(t) == IF t > 0 THEN t - 1 ELSE t

Tick ==
  /\ stamps' = [i \in DOMAIN stamps |-> Older(stamps[i])]
  /\ created' = Recent([i \in DOMAIN created |-> Older(created[i])])
  /\ call' = [c \in Callers |->
                [call[c] EXCEPT !.left = Sooner(@),
                                !.age = IF call[c].stage = "arrived" THEN Older(@) ELSE @]]

Next ==
  \/ Tick
  \/ \E c \in Callers :
       \/ Call(c) \/ RefusePin(c) \/ Count(c) \/ Wake(c)
       \/ Arrive(c) \/ Acknowledge(c) \/ Fail(c)

(***************************************************************************)
(* Time goes on, and no coroutine is left waiting: httpx bounds every      *)
(* request with a timeout, so one that arrived is answered or fails.       *)
(***************************************************************************)
Fairness ==
  /\ WF_vars(Tick)
  /\ \A c \in Callers : /\ WF_vars(RefusePin(c) \/ Count(c))
                        /\ SF_vars(Wake(c))
                        /\ SF_vars(Arrive(c) \/ Acknowledge(c) \/ Fail(c))

Spec == Init /\ [][Next]_vars /\ Fairness

-----------------------------------------------------------------------------

InWindow(ages) == Cardinality({i \in DOMAIN ages : ages[i] < Window})
Flying == {c \in Callers : call[c].stage = "arrived" /\ call[c].age < Window}

\* The limiter's purpose: of the pins that Pinterest has acknowledged or is
\* about to, no more than Limit arrived within one Window (client.py 34-36).
WithinLimit == InWindow(created) + Cardinality(Flying) <= Limit

\* Nobody sleeps for nothing (client.py 199): while a sleep lasts, the window
\* holds Limit replies, whatever other callers did since it began, and no sleep
\* is longer than the window.
NoNeedlessSleep ==
  \A c \in Callers : call[c].stage = "sleeping" /\ call[c].left > 0 =>
    InWindow(stamps) >= Limit /\ call[c].left <= Window

\* Every call ends: a bulk larger than the limit is slowed down, never stuck.
CallsEnd == \A c \in Callers : call[c].stage # "idle" ~> call[c].stage = "idle"

=============================================================================
