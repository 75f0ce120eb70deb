--------------------------- MODULE AbstractLedger ---------------------------
(***************************************************************************)
(* What the dispatch ledger promises, with no files, locks, processes or   *)
(* clock: every authorized envelope goes                                   *)
(*                                                                         *)
(*      absent -> reserved -> dispatched | released                        *)
(*                                                                         *)
(* in single atomic steps; a reservation consumes the envelope's nonces,   *)
(* key and authorization id for ever, and the reserved amount fits what    *)
(* the account still has when it is taken.                                 *)
(***************************************************************************)
EXTENDS LedgerRules

VARIABLE status

TypeOK == status \in [Envelopes -> {"absent", "reserved", "dispatched", "released"}]

Init == status = [e \in Envelopes |-> "absent"]

Reserve(e) ==
  /\ e.permitted
  /\ ReserveAllowed(status, e)
  /\ status' = [status EXCEPT ![e] = "reserved"]

Dispatch(e) ==
  /\ status[e] = "reserved"
  /\ status' = [status EXCEPT ![e] = "dispatched"]

Release(e) ==
  /\ status[e] = "reserved"
  /\ status' = [status EXCEPT ![e] = "released"]

Next == \E e \in Envelopes : Reserve(e) \/ Dispatch(e) \/ Release(e)

Spec == Init /\ [][Next]_status

-----------------------------------------------------------------------------
(* No two envelopes that were ever reserved share an execution nonce, an   *)
(* approval nonce, an idempotency key or an authorization id -- released   *)
(* ones included.                                                          *)
SingleUse ==
  \A e, f \in Envelopes :
     (status[e] # "absent" /\ status[f] # "absent" /\ e # f) =>
        /\ e.execution_nonce # f.execution_nonce
        /\ e.authorization_id # f.authorization_id
        /\ e.approval_nonce # Null => e.approval_nonce # f.approval_nonce
        /\ e.key # Null => e.key # f.key
=============================================================================
