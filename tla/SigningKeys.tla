---------------------------- MODULE SigningKeys ----------------------------
(***************************************************************************)
(* The RSA keys of a process: read once at startup, from a bundle or from  *)
(* one legacy PEM file, and never changed while it serves.                 *)
(*                                                                         *)
(* A key pair is a model value.  It stands for the private key, the public *)
(* key and the RFC 7638 thumbprint of that, which determine each other.    *)
(* A signature names the kid of its header and the key that made it.       *)
(***************************************************************************)
EXTENDS Integers, Sequences

CONSTANTS
  LegacyKid,    \* "authgate-key-1"
  MaxKeys,      \* signingKeyBundleMaxKeys
  Unreadable,   \* a legacy file that is no PKCS #1 RSA key in PEM
  Nil

ASSUME SigningConstants == MaxKeys \in Nat \ {0}

(* One verification key of a bundle that names itself so. *)
Entry(id, key, publish) == [id |-> id, key |-> key, publish |-> publish]

Signature(kid, key) == [kid |-> kid, key |-> key]

Entries(b) == {b.keys[i] : i \in 1 .. Len(b.keys)}

(* bundlePublicKey: the kid is the thumbprint, or the legacy name. *)
Identified(e) == e.id \in {e.key, LegacyKid}

(* Size, UTF-8, JSON without duplicates or null, exactly the fields of the *)
(* schema, version 1, non-empty strings, RSA keys of 2048 to 4096 bits in  *)
(* the one accepted encoding.                                              *)
WellFormed(b) == b.wellFormed

ParseBundle(b) ==
  /\ WellFormed(b)
  /\ Len(b.keys) \in 1 .. MaxKeys
  /\ \A i, j \in 1 .. Len(b.keys) :
       i # j => b.keys[i].id # b.keys[j].id /\ b.keys[i].key # b.keys[j].key
  /\ \A e \in Entries(b) : Identified(e)
  /\ \A e \in Entries(b) : e.id = b.activeId => e.publish /\ e.key = b.active
  /\ \E e \in Entries(b) : e.id = b.activeId

(* A file that is there; the generation of a missing one is left out. *)
ParseRSAKey(file) == file # Unreadable

(* configureSigningKey: one of the two sources, and it loads. *)
ConfigureSigningKey(s) ==
  \/ s.bundle # Nil /\ s.legacy = Nil /\ ParseBundle(s.bundle)
  \/ s.bundle = Nil /\ s.legacy # Nil /\ ParseRSAKey(s.legacy)

SigningKey(s) ==
  IF s.bundle # Nil THEN Signature(s.bundle.activeId, s.bundle.active)
                    ELSE Signature(LegacyKid, s.legacy)

(* Publishes the active key alone. *)
PublishedKeys_Bug(b) == {Signature(b.activeId, b.active)}

PublishedKeys(b) == {Signature(e.id, e.key) : e \in {f \in Entries(b) : f.publish}}

(* What /keys shows and access tokens are verified with.  The slot for a   *)
(* previous key of legacy mode stays empty: nothing calls SetPrevious.     *)
KeySet(s) == IF s.bundle # Nil THEN PublishedKeys(s.bundle) ELSE {SigningKey(s)}

(* With a bundle, every key it lists; without one the provider falls back  *)
(* on KeySet.                                                              *)
IDTokenHintKeySet(s) ==
  IF s.bundle # Nil THEN {Signature(e.id, e.key) : e \in Entries(s.bundle)} ELSE KeySet(s)

(* The key of the set with the kid of the header has made the signature. *)
VerifySignature(keys, sig) == sig \in keys
=============================================================================
