--------------------------- MODULE MCDirectIngress ---------------------------
\* An instance of DirectIngress for TLC.
EXTENDS DirectIngress, TLC

CONSTANTS old, new

\* In the middle of a change of keys: the first process seals with the old
\* key still, the others with the new one.
MCKeyEnv ==
    LET first == CHOOSE h \in Handlers : TRUE
    IN [h \in Handlers |->
         IF h = first THEN [id |-> old, material |-> TRUE, fallback |-> {new}]
         ELSE [id |-> new, material |-> TRUE, fallback |-> {old}]]

IngressSymmetry ==
    Permutations(Nonces) \cup Permutations(Txns)
        \cup Permutations(Subjects) \cup Permutations(Accounts)
=============================================================================
