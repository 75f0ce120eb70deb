----------------------------- MODULE LedgerRules -----------------------------
(***************************************************************************)
(* The decision rules of the durable dispatch ledger                       *)
(* (src/dispatch/ledger-store.ts), as operators on a journal.              *)
(*                                                                         *)
(* A journal is the sequence of events held by events.jsonl.  Everything   *)
(* the ledger decides, it decides from the state it reconstructs from that *)
(* journal, so every rule below takes either a journal or the              *)
(* reconstructed status function as an argument and has no state.          *)
(*                                                                         *)
(* An authorized envelope is a record; two envelopes are equal exactly     *)
(* when their digests are.  Amounts are naturals (minor currency units),   *)
(* an account is a (budget_ref, currency) pair, and time is a natural.     *)
(***************************************************************************)
EXTENDS Naturals, Sequences, FiniteSets

CONSTANTS
  Envelopes,   \* the envelopes callers may present
  Null         \* the JSON null

(* What the rules need to know of an envelope.  `permitted` stands for the *)
(* clock-free checks of validateAuthorizedEnvelope.                        *)
ASSUME EnvelopeAssumption ==
  \A e \in Envelopes :
     /\ e.permitted \in BOOLEAN
     /\ e.amount \in Nat
     /\ e.remaining_before \in Nat
     /\ e.expires_at \in Nat \cup {Null}
     /\ e # Null

(* null is neither a number nor the reason of a release. *)
ASSUME NullAssumption == Null \notin Nat /\ Null \notin {"cancelled", "expired"}

-----------------------------------------------------------------------------
(* Events.  A reservation id is a hash of the authorization id and the     *)
(* execution nonce; an event id is a hash of position, type, reservation   *)
(* and time, and stands here for the event's digest.                       *)

ReservationId(e) == <<e.authorization_id, e.execution_nonce>>

Reasons == {"cancelled", "expired"}

EventTypes == {"reservation_created", "dispatch_committed", "reservation_released"}

EventDigest(ev) ==
  <<ev.sequence, ev.type, ReservationId(ev.envelope), ev.occurred_at>>

LastDigest(jn) == IF jn = <<>> THEN Null ELSE EventDigest(jn[Len(jn)])

(* Mutant: the sequence number lags one behind. *)
NextEvent_OffByOne(jn, type, e, reason, at) ==
  [ sequence |-> Len(jn), previous |-> LastDigest(jn), type |-> type,
    envelope |-> e, reason |-> reason, occurred_at |-> at ]

(* Mutant: the event is not linked to the one before it. *)
NextEvent_Unlinked(jn, type, e, reason, at) ==
  [ sequence |-> Len(jn) + 1, previous |-> Null, type |-> type,
    envelope |-> e, reason |-> reason, occurred_at |-> at ]

NextEvent(jn, type, e, reason, at) ==
  [ sequence |-> Len(jn) + 1,
    previous |-> LastDigest(jn),
    type     |-> type,
    envelope |-> e,
    reason   |-> reason,
    occurred_at |-> at ]

-----------------------------------------------------------------------------
(* The state the loader derives.                                           *)

IsA(ev, type, e) == ev.type = type /\ ReservationId(ev.envelope) = ReservationId(e)

Occurs(jn, type, e) == \E i \in DOMAIN jn : IsA(jn[i], type, e)

(* The envelope that created a reservation is the one whose digest its     *)
(* reservation_created event carries.                                      *)
Created(jn, e) ==
  \E i \in DOMAIN jn : jn[i].type = "reservation_created" /\ jn[i].envelope = e

StatusOf(jn) ==
  [e \in Envelopes |->
     IF ~Created(jn, e) THEN "absent"
     ELSE IF Occurs(jn, "dispatch_committed", e) THEN "dispatched"
     ELSE IF Occurs(jn, "reservation_released", e) THEN "released"
     ELSE "reserved"]

(* The chain and transition checks of loadLedgerState: contiguous          *)
(* sequence, linked digests, one creation per reservation, and transitions *)
(* only out of an existing reservation that is still reserved.             *)
Chained(jn) ==
  \A i \in DOMAIN jn :
     /\ jn[i].sequence = i
     /\ jn[i].previous = IF i = 1 THEN Null ELSE EventDigest(jn[i - 1])

FirstOfItsKind(jn, i) ==
  LET Earlier(type) == \E j \in 1..(i - 1) : IsA(jn[j], type, jn[i].envelope)
  IN  IF jn[i].type = "reservation_created"
      THEN ~Earlier("reservation_created")
      ELSE /\ Earlier("reservation_created")
           /\ ~Earlier("dispatch_committed")
           /\ ~Earlier("reservation_released")

Verifies(jn) == Chained(jn) /\ \A i \in DOMAIN jn : FirstOfItsKind(jn, i)

-----------------------------------------------------------------------------
(* The rules of reserve, commit and release, on a status function st.      *)

(* A record counts against its account until it is released.               *)
Counts(st, e) == st[e] \in {"reserved", "dispatched"}

(* The units of the account that counting records hold: the code's running *)
(* sum of their amounts is the number of these units.                      *)
UnitsOf(es) == UNION { {e} \X (1..e.amount) : e \in es }

Holders(st, account) == {e \in Envelopes : Counts(st, e) /\ e.account = account}

(* Mutant: the snapshot is compared without what is already reserved. *)
BudgetAvailable_Stale(st, e) == e.account # Null => e.amount <= e.remaining_before

BudgetAvailable(st, e) ==
  e.account # Null =>
     e.amount + Cardinality(UnitsOf(Holders(st, e.account))) <= e.remaining_before

(* Mutant: idempotency keys are not compared. *)
SharesSingleUse_NoKey(f, e) ==
  \/ f.execution_nonce = e.execution_nonce
  \/ e.approval_nonce # Null /\ f.approval_nonce = e.approval_nonce
  \/ f.authorization_id = e.authorization_id

(* What a recorded envelope f takes away from e for good, whatever became  *)
(* of f's reservation.                                                     *)
SharesSingleUse(f, e) ==
  \/ e.key # Null /\ f.key = e.key
  \/ f.execution_nonce = e.execution_nonce
  \/ e.approval_nonce # Null /\ f.approval_nonce = e.approval_nonce
  \/ f.authorization_id = e.authorization_id

(* Mutant: a release gives the nonces back. *)
Consumed_ActiveOnly(st, e) == \E f \in Envelopes : Counts(st, f) /\ SharesSingleUse(f, e)

Consumed(st, e) == \E f \in Envelopes : st[f] # "absent" /\ SharesSingleUse(f, e)

Expired(e, at) == e.expires_at # Null /\ at >= e.expires_at

(* Mutant: an envelope without a key is replayed too. *)
ReserveReplays_Keyless(st, e) == st[e] = "reserved"

ReserveReplays(st, e) == e.key # Null /\ st[e] = "reserved"

ReserveAllowed(st, e) == ~Consumed(st, e) /\ BudgetAvailable(st, e)

CommitReplays(st, e) == st[e] = "dispatched"

(* Mutant: the expiry is not checked again at commit. *)
CommitAllowed_AnyTime(st, e, at) == st[e] = "reserved"

CommitAllowed(st, e, at) == st[e] = "reserved" /\ ~Expired(e, at)

(* The reason of the event that released e. *)
ReleaseReplays(jn, e, reason) ==
  \E i \in DOMAIN jn : IsA(jn[i], "reservation_released", e) /\ jn[i].reason = reason

ReleaseAllowed(st, e, reason, at) ==
  /\ st[e] = "reserved"
  /\ reason = "expired" => Expired(e, at)
=============================================================================
