----------------------------- MODULE Authorisation -----------------------------
(***************************************************************************)
(* pinterest-mcp-auth (auth.py): the command sends a browser to Pinterest, *)
(* waits on a local port for the redirect that carries a code and the      *)
(* state of this run, exchanges the code for tokens and saves them in the  *)
(* token file, which servers read and write meanwhile.  A run's state is   *)
(* its number.                                                             *)
(*                                                                         *)
(* Requests on the port are the redirects of Pinterest, which a browser    *)
(* may repeat, hold back, or deliver to a later run, and whatever else     *)
(* browsers ask for.  Pinterest redeems a code once.                       *)
(***************************************************************************)
EXTENDS TokenFile, FiniteSets

CONSTANTS
    Command,    \* the writer that is the command; the others are servers
    Codes,      \* authorisation codes; the record that a code buys has its name
    Refreshed,  \* the record that a server saves after a refresh
    Slots,      \* connections to the port at one time
    MaxRuns     \* bound of the model: how often the command is run

ASSUME AuthAssumption ==
    /\ Command \in Writers
    /\ MaxRuns \in Nat
    /\ Records = Codes \cup {Old, Refreshed}
    /\ Old \notin Codes \cup {Refreshed} /\ Refreshed \notin Codes
    /\ {"pending", "cancelled"} \cap Codes = {}

VARIABLES
    flow,       \* where the command is
    run,        \* the number of its run
    future,     \* code_future
    conn,       \* conn[k]: a connection to the port
    sentTo,     \* sentTo[c]: the run whose page was answered with code c
    redeemed,   \* codes that Pinterest has exchanged
    welcomed    \* codes whose browser was told "Authorized.", in this run

port == <<future, conn, welcomed>>
vars == <<fileVars, flow, run, future, conn, sentTo, redeemed, welcomed>>

Stages == {"off", "waiting", "failing", "closing", "exchanging", "saving"}
Pending == "pending"
Cancelled == "cancelled"

TypeOK ==
    /\ FileTypeOK
    /\ flow \in Stages
    /\ run \in 0 .. MaxRuns
    /\ future \in Codes \cup {Pending, Cancelled}
    /\ conn \in [Slots -> {"free", "open", "answered"}]
    /\ sentTo \in [Codes -> 0 .. MaxRuns]
    /\ redeemed \subseteq Codes
    /\ welcomed \subseteq Codes

Init ==
    /\ FileInit
    /\ flow = "off"
    /\ run = 0
    /\ future = Cancelled
    /\ conn = [k \in Slots |-> "free"]
    /\ sentTo = [c \in Codes |-> 0]
    /\ redeemed = {}
    /\ welcomed = {}

-----------------------------------------------------------------------------
\* run_auth_flow draws a state, opens the browser and listens.
Start ==
    /\ flow = "off"
    /\ run < MaxRuns
    /\ flow' = "waiting"
    /\ run' = run + 1
    /\ future' = Pending
    /\ welcomed' = {}
    /\ UNCHANGED <<fileVars, conn, sentTo, redeemed>>

\* Pinterest: the user agrees, on the page of this run or of an older one,
\* also on the same page twice.
Agree(c) ==
    /\ sentTo[c] = 0
    /\ \E r \in 1 .. run : sentTo' = [sentTo EXCEPT ![c] = r]
    /\ UNCHANGED <<fileVars, flow, run, port, redeemed>>

Listening == flow = "waiting"

Connect(k) ==
    /\ Listening
    /\ conn[k] = "free"
    /\ conn' = [conn EXCEPT ![k] = "open"]
    /\ UNCHANGED <<fileVars, flow, run, future, sentTo, redeemed, welcomed>>

\* The redirects that exist; a request without a code is one of the others.
Redirects == {[code |-> c, state |-> sentTo[c]] : c \in {d \in Codes : sentTo[d] # 0}}

\* Mutant: the state is not compared.
Accepted_AnyState(r) == future = Pending

\* Mutant: the last redirect wins.
Accepted_Last(r) == r.state = run /\ future # Cancelled

Accepted(r) == r.state = run /\ future = Pending

\* _process_callback_request and the answer: the request line is judged and
\* the future set without an await in between.
Callback(k, r) ==
    /\ conn[k] = "open"
    /\ conn' = [conn EXCEPT ![k] = "answered"]
    /\ IF Accepted(r)
       THEN future' = r.code /\ welcomed' = welcomed \cup {r.code}
       ELSE UNCHANGED <<future, welcomed>>
    /\ UNCHANGED <<fileVars, flow, run, sentTo, redeemed>>

\* Mutant: a redirect without a code, which a refusal is, ends the wait.
OtherRequest_NoCode(k) ==
    /\ conn[k] = "open"
    /\ conn' = [conn EXCEPT ![k] = "answered"]
    /\ future' = IF future = Pending THEN None ELSE future
    /\ UNCHANGED <<fileVars, flow, run, sentTo, redeemed, welcomed>>

\* Too long, not a GET of /callback, without a code: answered and forgotten.
OtherRequest(k) ==
    /\ conn[k] = "open"
    /\ conn' = [conn EXCEPT ![k] = "answered"]
    /\ UNCHANGED <<fileVars, flow, run, future, sentTo, redeemed, welcomed>>

\* Mutant: a browser that connects and sends nothing is waited for.
CloseConnection_NoTimeout(k) ==
    /\ conn[k] = "answered"
    /\ conn' = [conn EXCEPT ![k] = "free"]
    /\ UNCHANGED <<fileVars, flow, run, future, sentTo, redeemed, welcomed>>

\* The writer is closed after the answer, after five seconds without a
\* request line, and when the browser is gone.
CloseConnection(k) ==
    /\ conn[k] \in {"open", "answered"}
    /\ conn' = [conn EXCEPT ![k] = "free"]
    /\ UNCHANGED <<fileVars, flow, run, future, sentTo, redeemed, welcomed>>

\* The main task wakes up with the code.
TakeCode ==
    /\ flow = "waiting"
    /\ future \in Codes
    /\ flow' = "closing"
    /\ UNCHANGED <<fileVars, run, port, sentTo, redeemed>>

\* wait_for gives up.  A code that was set in the same turn of the event loop
\* is lost, although its browser was welcomed.
TimeOut ==
    /\ flow = "waiting"
    /\ flow' = "failing"
    /\ future' = IF future = Pending THEN Cancelled ELSE future
    /\ UNCHANGED <<fileVars, run, conn, sentTo, redeemed, welcomed>>

\* server.close and wait_closed: the port is closed to new connections, and
\* the open ones are waited for.
Closed ==
    /\ flow \in {"failing", "closing"}
    /\ \A k \in Slots : conn[k] = "free"
    /\ flow' = IF flow = "failing" THEN "off" ELSE "exchanging"
    /\ UNCHANGED <<fileVars, run, port, sentTo, redeemed>>

\* The exchange: the reply arrives, and the save begins.
Exchange ==
    /\ flow = "exchanging"
    /\ future \notin redeemed
    /\ redeemed' = redeemed \cup {future}
    /\ OpenTmp(Command, future)
    /\ flow' = "saving"
    /\ UNCHANGED <<run, port, sentTo>>

\* An error, a timeout or a reply that is lost ends the command.
ExchangeFails ==
    /\ flow = "exchanging"
    /\ flow' = "off"
    /\ redeemed' \in {redeemed, redeemed \cup {future}}
    /\ UNCHANGED <<fileVars, run, port, sentTo>>

SaveTokens ==
    /\ flow = "saving"
    /\ SaveStep(Command)
    /\ flow' = IF save'[Command] = NoSave THEN "off" ELSE "saving"
    /\ UNCHANGED <<run, port, sentTo, redeemed>>

\* The command is interrupted, anywhere.
Interrupt ==
    /\ flow # "off"
    /\ flow' = "off"
    /\ conn' = [k \in Slots |-> "free"]
    /\ save' = [save EXCEPT ![Command] = NoSave]
    /\ UNCHANGED <<files, run, future, sentTo, redeemed, welcomed>>

\* _save_token_file of a server, which does not yield, but other processes run.
ServerSaves(w) ==
    /\ w # Command
    /\ OpenTmp(w, Refreshed) \/ SaveStep(w) \/ Killed(w)
    /\ UNCHANGED <<flow, run, port, sentTo, redeemed>>

PortStep ==
    \E k \in Slots : CloseConnection(k) \/ OtherRequest(k) \/ \E r \in Redirects : Callback(k, r)

CommandStep == TakeCode \/ TimeOut \/ Closed \/ Exchange \/ ExchangeFails \/ SaveTokens

Next ==
    \/ Start \/ Interrupt \/ CommandStep \/ PortStep
    \/ \E c \in Codes : Agree(c)
    \/ \E k \in Slots : Connect(k)
    \/ \E w \in Writers : ServerSaves(w)

Spec == Init /\ [][Next]_vars

\* The event loop of the command runs what can run, timers fire, and the
\* exchange is bounded by httpx.  Nobody has to connect, agree or interrupt.
Fairness ==
    /\ WF_vars(CommandStep)
    /\ \A k \in Slots : WF_vars(CloseConnection(k))

FairSpec == Spec /\ Fairness

-----------------------------------------------------------------------------
\* The code that a run goes on with came from its own page, not from the page
\* of an earlier run that the user finished late.
OwnPage == future \in Codes => sentTo[future] = run

\* At most one browser of a run is told "Authorized.", and it is the one whose
\* code the run holds: repeats, second pages and redirects that arrive after
\* the timeout or while the port closes are turned away.
OneWelcome ==
    /\ welcomed = {future} \cap Codes
    /\ flow \in {"closing", "exchanging", "saving"} => future \in Codes

\* Every run of the command ends, although browsers keep connections open
\* without a word, and whatever becomes of the callback.
RunEnds == flow # "off" ~> flow = "off"
=============================================================================
