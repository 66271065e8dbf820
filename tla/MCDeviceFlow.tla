---------------------------- MODULE MCDeviceFlow ----------------------------
(* Instances of DeviceFlow for TLC. *)
EXTENDS DeviceFlow, TLC

(* Users are interchangeable where Closable and Policies treat them alike. *)
Symmetry == Permutations(Procs) \cup Permutations(Sessions)

UserSymmetry == Symmetry \cup Permutations(Users)

(* The policy admits everyone, or everyone but one user. *)
AnyPolicy == {Users} \cup {Users \ {u} : u \in Users}

EveryoneAdmitted == {Users}
=============================================================================
