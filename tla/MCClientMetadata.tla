-------------------------- MODULE MCClientMetadata --------------------------
(* The instance of ClientMetadata for TLC. *)
EXTENDS ClientMetadata, TLC

CONSTANTS key, alias, other, p1, p2, broken

Ids == {key, alias, other}

(* alias is another spelling of key, other is key with a query. *)
MCKeyOf == (alias :> key) @@ [id \in {key, other} |-> id]

MCBaseOf == (other :> key) @@ [id \in {key, alias} |-> id]

MCDocOf == [id \in Ids |-> key]

MCHostOf == [id \in Ids |-> "claude.ai"]

(* Valid documents of key, as a connector publishes them, and one that      *)
(* names no redirect URI.                                                   *)
MCContent ==
  [d \in Documents |->
    [sound |-> TRUE, clientId |-> key,
     redirectURIs |-> IF d = broken THEN {} ELSE {d},
     grantTypes |-> {"authorization_code", "refresh_token"},
     authMethod |-> "private_key_jwt", methodsSupported |-> {"none"},
     responseTypes |-> {"code"}]]

MCAsks == (p1 :> {key, alias}) @@ (p2 :> {key, other})

(* The last one overflows. *)
MCHeaders == {<<"absent">>, <<"no-store">>, <<"max-age", 6>>, <<"max-age", 9>>}
=============================================================================
