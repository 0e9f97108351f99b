------------------------ MODULE MCCredentialRenewal ------------------------
(* Instances of CredentialRenewal for TLC. *)
EXTENDS CredentialRenewal

(* Every payload lives for two units of time. *)
MCGrantLife == [g \in Grants |-> 2]
=============================================================================
