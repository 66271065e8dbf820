--------------------------- MODULE MCAuthRequests ---------------------------
(* Instances of AuthRequests for TLC. *)
EXTENDS AuthRequests, TLC

Symmetry ==
  Permutations(Users) \cup Permutations(Procs) \cup Permutations(Sessions)
    \cup Permutations(Requests)

NoMaxAge == {Null}

AnyMaxAge == {Null, 0}
=============================================================================
