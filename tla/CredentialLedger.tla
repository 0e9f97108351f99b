-------------------------- MODULE CredentialLedger --------------------------
(***************************************************************************)
(* What the credential service promises, with no clock, no lock and no     *)
(* concurrency: every operation is one step on the envelopes and the       *)
(* connections.  CredentialVault, which models the transactions that the   *)
(* code really runs, is shown to implement it.                             *)
(***************************************************************************)
EXTENDS Naturals

CONSTANTS
    Txns,       \* broker transactions (one staged envelope each, at most)
    Accounts,   \* Pinterest account identifiers
    Subjects,   \* identity-provider subjects: one owner each
    None        \* "no such thing"

VARIABLES
    stage,      \* stage[t]: what has become of the envelope of t
    account,    \* account[t]: the account the envelope is bound to
    basis,      \* basis[t]: the connection version the login started from
    holder,     \* holder[s]: the account that s owns, or None
    version,    \* version[s]: how many times the connection of s was written
    live        \* live[s]: the envelope whose tokens s may use, or None

vars == <<stage, account, basis, holder, version, live>>

(* The version of an account's connection: 0 as long as nobody owns it.    *)
VersionOf(a) ==
    IF \E s \in Subjects : holder[s] = a
    THEN version[CHOOSE s \in Subjects : holder[s] = a]
    ELSE 0

Init ==
    /\ stage = [t \in Txns |-> "absent"]
    /\ account = [t \in Txns |-> None]
    /\ basis = [t \in Txns |-> 0]
    /\ holder = [s \in Subjects |-> None]
    /\ version = [s \in Subjects |-> 0]
    /\ live = [s \in Subjects |-> None]

(* A login deposits its tokens, and remembers the version it started from. *)
Stage(t, a) ==
    /\ stage[t] = "absent"
    /\ stage' = [stage EXCEPT ![t] = "pending"]
    /\ account' = [account EXCEPT ![t] = a]
    /\ basis' = [basis EXCEPT ![t] = VersionOf(a)]
    /\ UNCHANGED <<holder, version, live>>

(* The login ends: s owns the account, or becomes its first owner, and     *)
(* nothing was written to the connection since the envelope was staged.    *)
Install(t, s) ==
    /\ stage[t] = "pending"
    /\ holder[s] \in {None, account[t]}
    /\ \A o \in Subjects : holder[o] = account[t] => o = s
    /\ version[s] = basis[t]
    /\ stage' = [stage EXCEPT ![t] = "completed"]
    /\ holder' = [holder EXCEPT ![s] = account[t]]
    /\ version' = [version EXCEPT ![s] = @ + 1]
    /\ live' = [live EXCEPT ![s] = t]
    /\ UNCHANGED <<account, basis>>

(* Envelopes are given up: cancelled by the broker or past their deadline. *)
Void(T) ==
    /\ \A t \in T : stage[t] = "pending"
    /\ stage' = [t \in Txns |-> IF t \in T THEN "void" ELSE stage[t]]
    /\ UNCHANGED <<account, basis, holder, version, live>>

(* The owner disconnects: no usable tokens, and no login that was under    *)
(* way for the account can bring the connection back.                      *)
Disconnect(s) ==
    /\ holder[s] # None
    /\ stage' = [t \in Txns |->
                   IF stage[t] = "pending" /\ account[t] = holder[s]
                   THEN "void" ELSE stage[t]]
    /\ version' = [version EXCEPT ![s] = @ + 1]
    /\ live' = [live EXCEPT ![s] = None]
    /\ UNCHANGED <<account, basis, holder>>

Next ==
    \/ \E t \in Txns, a \in Accounts : Stage(t, a)
    \/ \E t \in Txns, s \in Subjects : Install(t, s)
    \/ \E T \in SUBSET Txns : Void(T)
    \/ \E s \in Subjects : Disconnect(s)

Spec == Init /\ [][Next]_vars
=============================================================================
