--------------------------- MODULE MCBrokerHandoff ---------------------------
\* Instances of BrokerHandoff for TLC.
EXTENDS BrokerHandoff, TLC

HandoffSymmetry ==
    Permutations(Sessions) \cup Permutations(Handoffs) \cup Permutations(Txns)
    \cup Permutations(Subjects) \cup Permutations(Accounts)
=============================================================================
