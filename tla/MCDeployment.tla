---------------------------- MODULE MCDeployment ----------------------------
(* The instance of Deployment for TLC.  Each plan asks its own question, so *)
(* that the reachable states add up instead of multiplying.                 *)
EXTENDS Deployment, TLC

CONSTANTS A, B, r1, weak, b1, b2

MCLabels == {"Corp", "corp", "eu", "com"}

MCLower == ("Corp" :> "corp") @@ ("Ann" :> "ann")
             @@ [s \in {"corp", "eu", "com", "ann", ""} |-> s]

Corp == <<"corp", "com">>

----------------------------------------------------------------------------
(* Releases                                                                 *)

Env == [sound |-> TRUE, devMode |-> FALSE, hardened |-> TRUE, enableMCP |-> TRUE]

Legacy(k) == [legacy |-> k, bundle |-> Nil]

Bundle(id, k, keys) ==
  [legacy |-> Nil, bundle |-> [wellFormed |-> TRUE, activeId |-> id, active |-> k, keys |-> keys]]

Everyone == [form |-> "public"]

Staff == [form |-> "rules",
          rules |-> [workspaceDomains |-> {DomainEntry(FALSE, <<"Corp", "com">>)},
                     emailDomains |-> {}, emails |-> {}, denyEmails |-> {}]]

(* Addresses below corp.com, except one. *)
Addresses == [form |-> "rules",
              rules |-> [workspaceDomains |-> {},
                         emailDomains |-> {DomainEntry(TRUE, Corp)},
                         emails |-> {Address("Ann", Corp)},
                         denyEmails |-> {Address("ann", <<"eu", "corp", "com">>)}]]

NullAccess == [form |-> "null"]

Client(channel, access) ==
  [sound |-> TRUE, channel |-> channel, confidential |-> FALSE, secret |-> FALSE,
   skipPKCE |-> FALSE, access |-> access]

Release(signing, client) == [env |-> Env, signing |-> signing, client |-> client]

----------------------------------------------------------------------------
(* Root secrets                                                             *)

Roots(encId, enc, lookupId, lookup) ==
  [encId |-> encId, enc |-> enc, lookupId |-> lookupId, lookup |-> lookup]

Main == Roots("e1", "s1", "l1", "t1")

(* Complete sets that differ in a lookup secret, or in everything, and one  *)
(* with one key_id for both; a short, a partial and an absent set.          *)
Candidates == {Main, Roots("e1", "s1", "l1", "t2"), Roots("e2", "s2", "l2", "t2"),
               Roots("e1", "s1", "e1", "t1"), Roots("e1", weak, "l1", "t1"),
               Roots("e1", "s1", Nil, Nil), NoRoots}

----------------------------------------------------------------------------
(* People                                                                   *)

Ann == Address("Ann", <<"corp", "com">>)

AnnEU == Address("ann", <<"eu", "corp", "com">>)

----------------------------------------------------------------------------
(* The runbook for replacing the legacy key A by B.  Then the client is     *)
(* removed; the last release has an active key that is not the one it names. *)
Rotation ==
  LET web == Client("", Everyone) IN
  [releases |-> <<Release(Legacy(A), web),
                  Release(Bundle(LegacyKid, A, <<Entry(LegacyKid, A, TRUE)>>), web),
                  Release(Bundle(LegacyKid, A, <<Entry(LegacyKid, A, TRUE), Entry(B, B, TRUE)>>), web),
                  Release(Bundle(B, B, <<Entry(LegacyKid, A, TRUE), Entry(B, B, TRUE)>>), web),
                  Release(Bundle(B, B, <<Entry(LegacyKid, A, FALSE), Entry(B, B, TRUE)>>), web),
                  Release(Bundle(B, B, <<Entry(LegacyKid, A, FALSE), Entry(B, B, TRUE)>>), Nil),
                  Release(Bundle(B, A, <<Entry(B, B, TRUE)>>), web)>>,
   roots |-> {Main},
   assertions |-> {Subject(Ann, TRUE, Corp)},
   account |-> Subject(Ann, TRUE, Corp),
   browsers |-> {b1}, accessTTL |-> 2]

(* An MCP client moves to the browser channel, while a person leaves the    *)
(* workspace it is for.                                                     *)
Leaving ==
  [releases |-> <<Release(Legacy(A), Client("mcp", Staff)),
                  Release(Legacy(A), Client("browser", Staff))>>,
   roots |-> {Main},
   assertions |-> {Subject(Ann, TRUE, Corp), Subject(Ann, TRUE, NoDomain)},
   account |-> Subject(Ann, TRUE, Corp),
   browsers |-> {b1}, accessTTL |-> 1]

(* A browser client for a workspace comes to go by addresses, and a person  *)
(* changes address.                                                         *)
Narrowing ==
  [releases |-> <<Release(Legacy(A), Client("browser", Staff)),
                  Release(Legacy(A), Client("browser", Addresses))>>,
   roots |-> {Main},
   assertions |-> {Subject(AnnEU, TRUE, Corp), Subject(Ann, TRUE, NoDomain)},
   account |-> Nil,
   browsers |-> {b1, b2}, accessTTL |-> 1]

(* Replicas that do not agree on their secrets, on an empty database; MCP   *)
(* switched off where the client belongs to it comes next.                  *)
Racing ==
  [releases |-> <<Release(Legacy(A), Client("browser", Everyone)),
                  [Release(Legacy(A), Client("mcp", Everyone)) EXCEPT !.env.enableMCP = FALSE]>>,
   roots |-> Candidates,
   assertions |-> {Subject(Ann, TRUE, NoDomain)},
   account |-> Nil,
   browsers |-> {b1}, accessTTL |-> 1]

(* In development, where no roots are needed and MCP is off. *)
RacingDev ==
  [Racing EXCEPT !.roots = {Main, NoRoots}, !.releases =
     <<[Release(Legacy(A), Client("browser", Everyone)) EXCEPT !.env.devMode = TRUE, !.env.enableMCP = FALSE],
       Release(Legacy(A), Client("browser", NullAccess))>>]

(* A legacy key file that does not parse, and no logins. *)
Damaged ==
  [Rotation EXCEPT !.browsers = {}, !.releases =
     <<Release(Legacy(A), Client("", Everyone)), Release(Legacy(Unreadable), Client("", Everyone))>>]

MCSymmetry == Permutations(Replicas)

MCPlans == {Rotation, Leaving, Narrowing, Racing, RacingDev, Damaged}

(* Each of them keeps to the runbook of key rotation. *)
ASSUME RunbookIsFollowed == \A pl \in MCPlans : FollowsRunbook(pl)
=============================================================================
