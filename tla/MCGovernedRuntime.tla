-------------------------- MODULE MCGovernedRuntime --------------------------
(* Instances of GovernedRuntime for TLC. *)
EXTENDS GovernedRuntime, TLC

CONSTANTS alice, bob, k, pay, wipe, drop

AnyRequest == [ action : Actions, tenant : Tenants, key : Keys \cup {Null} ]

(* Keyed payments of one tenant, an action of another that needs an        *)
(* approval, and a barred one; both tenants decide about challenges, and   *)
(* one of either may be there from before.                                 *)
RivalRequests ==
  [ action : {pay}, tenant : {alice}, key : {k} ]
    \cup [ action : {wipe}, tenant : {bob}, key : {Null} ]
    \cup [ action : {drop}, tenant : {alice}, key : {Null} ]

(* The operator has the file of the payment's first envelope.              *)
PaymentFile == {e \in RuntimeEnvelopes : e.key = k /\ e.expires_at = 1}
=============================================================================
