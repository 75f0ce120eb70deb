--------------------------- MODULE MCOAuthService ---------------------------
(* Instances of OAuthService for TLC. *)
EXTENDS OAuthService, TLC

CONSTANTS alice, read, write

(* Alice may use both scopes. *)
AliceMay == [u \in Users |-> {read, write}]

ReadOrBoth == {{read}, {read, write}}

Symmetry == Permutations(Requests)
=============================================================================
