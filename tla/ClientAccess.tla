--------------------------- MODULE ClientAccess ---------------------------
(***************************************************************************)
(* The access policy of a client: which accounts may use it.               *)
(*                                                                         *)
(* A domain is the sequence of its labels, an address a local part and a   *)
(* domain.  Lower is asciiLower on a label or local part; Labels are the   *)
(* ones that domainname.Valid accepts.                                     *)
(***************************************************************************)
EXTENDS Integers, Sequences, FiniteSets, SequencesExt

CONSTANTS Lower, Labels

(* No domain, and the domain of something that is not an address. *)
NoDomain == <<>>

Address(local, domain) == [local |-> local, domain |-> domain]

LowerDomain(d) == [i \in 1 .. Len(d) |-> Lower[d[i]]]

LowerEmail(e) == Address(Lower[e.local], LowerDomain(e.domain))

ValidDomain(d) == d # NoDomain /\ \A i \in 1 .. Len(d) : d[i] \in Labels

(* An entry is [wildcard, base]: example.com, or *.example.com. *)
DomainEntry(wildcard, base) == [wildcard |-> wildcard, base |-> base]

NormalizableDomain(entry, allowWildcard) ==
  /\ entry.wildcard => allowWildcard
  /\ ValidDomain(entry.base)
  /\ Len(entry.base) >= 2

NormalizeDomain(entry) == [entry EXCEPT !.base = LowerDomain(@)]

NormalizableEmail(e) == e.local # "" /\ ValidDomain(e.domain) /\ Len(e.domain) >= 2

(* Rules as written: New fails unless each entry normalizes and there is   *)
(* something to allow.                                                     *)
Compiles(rules) ==
  /\ \A d \in rules.workspaceDomains : NormalizableDomain(d, FALSE)
  /\ \A d \in rules.emailDomains : NormalizableDomain(d, TRUE)
  /\ \A e \in rules.emails \cup rules.denyEmails : NormalizableEmail(e)
  /\ rules.workspaceDomains \cup rules.emailDomains \cup rules.emails # {}

New(rules) ==
  [public        |-> FALSE,
   hostedDomains |-> {LowerDomain(d.base) : d \in rules.workspaceDomains},
   emailDomains  |-> {NormalizeDomain(d) : d \in rules.emailDomains},
   emails        |-> {LowerEmail(e) : e \in rules.emails},
   denyEmails    |-> {LowerEmail(e) : e \in rules.denyEmails}]

Public == [public        |-> TRUE,
           hostedDomains |-> {}, emailDomains |-> {}, emails |-> {}, denyEmails |-> {}]

(* The access key of clients.yaml: absent, null, a word, or rules.  Of the *)
(* words only "public" is one, and a null never reaches this decoder.      *)
UnmarshalYAML(access) ==
  \/ access.form \in {"absent", "null", "public"}
  \/ access.form = "rules" /\ Compiles(access.rules)

RejectEmptyAccess(access) == access.form # "null"

(* No access key reads as the policy that admits everyone. *)
Policy(access) == IF access.form = "rules" THEN New(access.rules) ELSE Public

Restricted(p) == ~ p.public

Subject(email, verified, hd) == [email |-> email, emailVerified |-> verified, hostedDomain |-> hd]

EmailDomain(e) == IF ValidDomain(e.domain) THEN LowerDomain(e.domain) ELSE NoDomain

MatchesDomain(entry, domain) ==
  IF entry.wildcard THEN IsStrictSuffix(entry.base, domain) ELSE entry.base = domain

MatchesEmail(p, e) ==
  \/ e \in p.emails
  \/ EmailDomain(e) # NoDomain /\ \E d \in p.emailDomains : MatchesDomain(d, EmailDomain(e))

Evaluate(p, s) ==
  LET email == LowerEmail(s.email)
      hd    == LowerDomain(s.hostedDomain)
  IN  IF ~ Restricted(p)                                   THEN "allowed"
      ELSE IF email \in p.denyEmails                       THEN "deny_listed"
      ELSE IF hd # NoDomain /\ hd \in p.hostedDomains      THEN "allowed"
      ELSE IF ~ MatchesEmail(p, email)                     THEN "not_allowed"
      ELSE IF ~ s.emailVerified                            THEN "email_unverified"
      ELSE "allowed"

Allowed(p, s) == Evaluate(p, s) = "allowed"
=============================================================================
