---------------------------- MODULE TokenRegister ----------------------------
(***************************************************************************)
(* What save_atomic_token_file promises: the token file is a register that *)
(* holds one record, or nothing yet.  A save puts its own record there in  *)
(* one step, or has no effect; there are no partial files and no names.    *)
(***************************************************************************)
CONSTANTS
    Writers,    \* processes that save tokens
    Records,    \* complete token records
    Old,        \* the record of an earlier authorisation
    None

VARIABLES
    value,      \* the record in the register, or None
    wanted      \* wanted[w]: the record that w is about to save, or None

vars == <<value, wanted>>

Init == value \in {Old, None} /\ wanted = [w \in Writers |-> None]

Begin(w, record) ==
    /\ wanted[w] = None
    /\ wanted' = [wanted EXCEPT ![w] = record]
    /\ UNCHANGED value

Install(w) ==
    /\ wanted[w] # None
    /\ value' = wanted[w]
    /\ wanted' = [wanted EXCEPT ![w] = None]

\* The save fails, or its process is killed.
GiveUp(w) ==
    /\ wanted[w] # None
    /\ wanted' = [wanted EXCEPT ![w] = None]
    /\ UNCHANGED value

Next == \E w \in Writers : (\E r \in Records : Begin(w, r)) \/ Install(w) \/ GiveUp(w)

Spec == Init /\ [][Next]_vars
=============================================================================
