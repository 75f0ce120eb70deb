------------------------- MODULE ApprovalChallenges -------------------------
(***************************************************************************)
(* The approval challenges of src/apps/approval-store.ts, with each of     *)
(* create, decide and consume as one atomic step.  ApprovalStore is the    *)
(* same store as the code runs it, over a file and a lock directory.       *)
(*                                                                         *)
(* A challenge is identified by its place in the store (its id is a random *)
(* UUID).  An action names what the challenge is bound to: the tool and    *)
(* adapter with their revisions, and the digest of the arguments.          *)
(***************************************************************************)
EXTENDS Naturals, Sequences

CONSTANTS
  Actions,        \* exact governed actions: tool, adapter, revisions, arguments
  Tenants,        \* (subject, client, workspace) triples
  ChallengeTtl,   \* ttl_seconds of the approval contract
  MaxTime,        \* bound on the clock
  MaxChallenges   \* bound on the number of challenges prepared

ASSUME ChallengeAssumption ==
  /\ ChallengeTtl \in Nat \ {0}
  /\ MaxTime \in Nat
  /\ MaxChallenges \in Nat

VARIABLES
  challenges,  \* the challenges array of approval-challenges.json
  now          \* the wall clock

vars == <<challenges, now>>

Statuses == {"pending", "confirmed", "denied", "consumed"}

Challenge ==
  [ action : Actions, tenant : Tenants, expires_at : Nat, status : Statuses ]

TypeOK == challenges \in Seq(Challenge) /\ now \in 0..MaxTime

Init == challenges = <<>> /\ now = 0

-----------------------------------------------------------------------------
(* The three mutations as functions of the array.                          *)

(* Mutant: the life of the challenge is subtracted. *)
Prepared_Past(cs, action, tenant, at) ==
  Append(cs, [ action |-> action, tenant |-> tenant,
               expires_at |-> at - ChallengeTtl, status |-> "pending" ])

Prepared(cs, action, tenant, at) ==
  Append(cs, [ action |-> action, tenant |-> tenant,
               expires_at |-> at + ChallengeTtl, status |-> "pending" ])

WithStatus(cs, i, s) == [cs EXCEPT ![i].status = s]

(* Mutant: a decided challenge can be decided again. *)
Decidable_Again(cs, i, tenant, at) ==
  i \in DOMAIN cs /\ cs[i].tenant = tenant /\ cs[i].expires_at > at

Decidable(cs, i, tenant, at) ==
  /\ i \in DOMAIN cs
  /\ cs[i].tenant = tenant
  /\ cs[i].expires_at > at
  /\ cs[i].status = "pending"

Verdicts == {"confirmed", "denied"}

(* Mutant: another tenant's approval is found. *)
Matches_AnyTenant(ch, action, tenant, at) ==
  /\ ch.status = "confirmed"
  /\ ch.action = action
  /\ ch.expires_at > at

(* Mutant: a consumed challenge is still found. *)
Matches_Consumed(ch, action, tenant, at) ==
  /\ ch.status \in {"confirmed", "consumed"}
  /\ ch.action = action
  /\ ch.tenant = tenant
  /\ ch.expires_at > at

Matches(ch, action, tenant, at) ==
  /\ ch.status = "confirmed"
  /\ ch.action = action
  /\ ch.tenant = tenant
  /\ ch.expires_at > at

MatchSet(cs, action, tenant, at) ==
  {i \in DOMAIN cs : Matches(cs[i], action, tenant, at)}

(* find: the first one in the array. *)
IsFirstMatch(cs, i, action, tenant, at) ==
  /\ i \in MatchSet(cs, action, tenant, at)
  /\ \A j \in MatchSet(cs, action, tenant, at) : i <= j

-----------------------------------------------------------------------------
(* The times of the callers are captured before the store is reached, so   *)
(* any time up to now may be presented.                                    *)

Prepare(action, tenant, at) ==
  /\ Len(challenges) < MaxChallenges
  /\ challenges' = Prepared(challenges, action, tenant, at)

Decide(i, tenant, verdict, at) ==
  /\ Decidable(challenges, i, tenant, at)
  /\ challenges' = WithStatus(challenges, i, verdict)

Consume(i, action, tenant, at) ==
  /\ IsFirstMatch(challenges, i, action, tenant, at)
  /\ challenges' = WithStatus(challenges, i, "consumed")

Tick == now < MaxTime /\ now' = now + 1 /\ UNCHANGED challenges

Next ==
  \/ /\ \E tenant \in Tenants, at \in 0..now :
          \/ \E action \in Actions : Prepare(action, tenant, at)
          \/ \E i \in DOMAIN challenges, action \in Actions : Consume(i, action, tenant, at)
          \/ \E i \in DOMAIN challenges, verdict \in Verdicts : Decide(i, tenant, verdict, at)
     /\ UNCHANGED now
  \/ Tick

Spec == Init /\ [][Next]_vars
=============================================================================
