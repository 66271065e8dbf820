----------------------------- MODULE MCAccounts -----------------------------
(* The instance of Accounts for TLC. *)
EXTENDS Accounts

(* Everyone has one and the same address: signups meet in both indexes. *)
SharedEmail == [h \in People |-> CHOOSE e \in Emails : TRUE]
=============================================================================
