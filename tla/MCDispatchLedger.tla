-------------------------- MODULE MCDispatchLedger --------------------------
(* Instances of DispatchLedger for TLC. *)
EXTENDS DispatchLedger, TLC

Env(id, nonce, approval, key, account, amount, remaining, expires) ==
  [ permitted |-> TRUE, authorization_id |-> id, execution_nonce |-> nonce,
    approval_nonce |-> approval, key |-> key, account |-> account,
    amount |-> amount, remaining_before |-> remaining, expires_at |-> expires ]

(* a and b compete for one idempotency key, b and c for one approval, a    *)
(* and c for one account that carries c on top of a but not a on top of c. *)
EnvA == Env("a", "na", Null, "k1", "acct", 2, 3, 1)
EnvB == Env("b", "nb", "ap", "k1", Null, 0, 0, Null)
EnvC == Env("c", "nc", "ap", "k2", "acct", 2, 4, 1)
(* x has no key and was not authorized. *)
EnvX == [Env("x", "nx", Null, Null, "acct", 1, 3, Null) EXCEPT !.permitted = FALSE]

TwoRivals   == {EnvA, EnvC}
Rivals      == {EnvA, EnvB, EnvC, EnvX}

Symmetry == Permutations(Procs)
=============================================================================
