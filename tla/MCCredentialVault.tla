------------------------- MODULE MCCredentialVault -------------------------
(* Instances of CredentialVault for TLC. *)
EXTENDS CredentialVault, TLC

(* Every payload lives for two units of time. *)
MCGrantLife == [g \in Grants |-> 2]

(* Or for one, so that the provider's tokens expire before the deadline. *)
MCShortLife == [g \in Grants |-> 1]

(* Workers, transactions, subjects and accounts are interchangeable. *)
VaultSymmetry ==
    Permutations(Workers) \cup Permutations(Txns)
        \cup Permutations(Subjects) \cup Permutations(Accounts)
=============================================================================
