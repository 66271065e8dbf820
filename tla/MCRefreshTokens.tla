-------------------------- MODULE MCRefreshTokens --------------------------
(***************************************************************************)
(* RefreshTokens for TLC.  Tokens, families and requests are               *)
(* interchangeable model values.                                           *)
(***************************************************************************)
EXTENDS RefreshTokens, TLC

Symmetry == Permutations(Tokens) \cup Permutations(Families) \cup Permutations(Procs)

=============================================================================
