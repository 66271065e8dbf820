--------------------------- MODULE RefreshGrants ---------------------------
(***************************************************************************)
(* What the refresh-token store promises, without transactions, locks,     *)
(* clocks or tombstones: a family is opened with one token, each rotation  *)
(* replaces the token it redeems, a lenient family may gain a sibling,     *)
(* tokens may lapse, and a family that has ended stays empty for ever.     *)
(***************************************************************************)
EXTENDS FiniteSets

CONSTANTS Tokens, Families

VARIABLES
  live,    \* the usable tokens of each family
  spent,   \* every token ever handed out
  kind,    \* "closed" until opened, then "strict" (public client) or "lenient"
  ended    \* families that were revoked as a whole

vars == <<live, spent, kind, ended>>

Init ==
  /\ live = [f \in Families |-> {}]
  /\ spent = {}
  /\ kind = [f \in Families |-> "closed"]
  /\ ended = {}

Open(f, t, k) ==
  /\ kind[f] = "closed"
  /\ t \notin spent
  /\ k \in {"strict", "lenient"}
  /\ live' = [live EXCEPT ![f] = {t}]
  /\ spent' = spent \cup {t}
  /\ kind' = [kind EXCEPT ![f] = k]
  /\ UNCHANGED ended

Rotate(f, t, c) ==
  /\ t \in live[f]
  /\ c \notin spent
  /\ live' = [live EXCEPT ![f] = (@ \ {t}) \cup {c}]
  /\ spent' = spent \cup {c}
  /\ UNCHANGED <<kind, ended>>

(* A redeemed token is honoured once more: a sibling of its first child. *)
Regrant(f, c) ==
  /\ kind[f] = "lenient"
  /\ f \notin ended
  /\ c \notin spent
  /\ live' = [live EXCEPT ![f] = @ \cup {c}]
  /\ spent' = spent \cup {c}
  /\ UNCHANGED <<kind, ended>>

(* Tokens lapse by a user-wide revocation, by cleanup or with the account. *)
Lapse(gone) ==
  /\ live' = [f \in Families |-> live[f] \ gone]
  /\ UNCHANGED <<spent, kind, ended>>

End(f) ==
  /\ kind[f] # "closed"
  /\ live' = [live EXCEPT ![f] = {}]
  /\ ended' = ended \cup {f}
  /\ UNCHANGED <<spent, kind>>

Next ==
  \/ \E f \in Families, t \in Tokens, k \in {"strict", "lenient"} : Open(f, t, k)
  \/ \E f \in Families, t, c \in Tokens : Rotate(f, t, c)
  \/ \E f \in Families, c \in Tokens : Regrant(f, c)
  \/ \E gone \in SUBSET Tokens : Lapse(gone)
  \/ \E f \in Families : End(f)

Spec == Init /\ [][Next]_vars

=============================================================================
