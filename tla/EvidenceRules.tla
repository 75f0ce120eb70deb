------------------------------ MODULE EvidenceRules ------------------------------
(***************************************************************************)
(* What callTool must find before it reserves a dispatch: a credential     *)
(* account for the caller (auth/credential-resolver.ts), the policy's      *)
(* decision (mcp/policy-evaluator.ts) and evidence that is trusted, bound  *)
(* and in time (runtime/secure-preflight.ts).  Pure functions of their     *)
(* arguments; the digests and signatures they verify are taken to match    *)
(* exactly what was digested and signed.                                   *)
(***************************************************************************)
EXTENDS Naturals, FiniteSets

CONSTANTS Nothing,    \* an optional value that is absent
          PolicyTtl   \* life of a policy decision

ASSUME EvidenceAssumption == PolicyTtl \in Nat \ {0}

Unexpired(expires_at, at) == expires_at = Nothing \/ at < expires_at

(* The accounts of a catalog that a binding admits in a context: of its    *)
(* auth contract and mode, active, of the context's provider (and account  *)
(* there, if the context names one), unexpired and with the context's      *)
(* value in every bound dimension.                                         *)
Candidates(binding, catalog, context) ==
  {a \in catalog : /\ a.auth_ref = binding.auth_ref /\ a.mode = binding.auth_mode /\ a.active
                   /\ a.provider_ref = context.provider_ref
                   /\ context.provider_account_ref \in {Nothing, a.provider_account_ref}
                   /\ Unexpired(a.expires_at, context.at)
                   /\ \A d \in binding.dimensions : a[d] = context[d]}

Ordered(catalog) ==
  \A found \in SUBSET catalog : found # {} => \E a \in found : \A b \in found : a.id <= b.id

(* The first candidate by id, whether or not its scopes and audiences do.  *)
SelectedAccount(binding, catalog, context) ==
  LET found == Candidates(binding, catalog, context)
  IN IF found = {} THEN Nothing ELSE CHOOSE a \in found : \A b \in found : a.id <= b.id

(* A binding's audience is Nothing unless it is validated: it is for       *)
(* bearer and OAuth 2.1, and then the account must list it.                *)
AudienceMatches(account, binding) == binding.audience = Nothing \/ binding.audience \in account.audiences

CredentialErrors(binding, catalog, context) ==
  LET account == SelectedAccount(binding, catalog, context)
  IN IF binding = Nothing THEN {}
     ELSE IF account = Nothing THEN {"NO_MATCHING_CREDENTIAL"}
     ELSE (IF binding.scopes \subseteq account.scopes THEN {} ELSE {"INSUFFICIENT_SCOPES"})
            \cup IF AudienceMatches(account, binding) THEN {} ELSE {"AUDIENCE_MISMATCH"}

AskingDecisions == {"require_confirmation", "require_widget", "require_approver"}

(* The cost summary that a proof is made for: the configured budget's, or  *)
(* an estimate for a financial tool.                                       *)
CostSummary(tool, budget) ==
  IF budget # Nothing THEN "budgeted" ELSE IF tool.financial THEN "estimated" ELSE Nothing

(* The decision has the same summary, but none for a tool that is not      *)
(* financial, whatever budget is configured for it.                        *)
PolicyDecision(tool, budget, at) ==
  [allow |-> tool.decision # "deny",
   approval_required |-> tool.governed \/ tool.decision \in AskingDecisions,
   budget_required |-> tool.financial,
   cost |-> IF tool.financial THEN CostSummary(tool, budget) ELSE Nothing,
   evaluated_at |-> at, expires_at |-> at + PolicyTtl]

(* What evidence is bound to.  The context is hashed with requested_at, so *)
(* evidence of another moment is evidence of another execution.            *)
Binding(name, tool, context) == [name |-> name, revision |-> tool.revision, context |-> context]

(* A key that is missing, inactive or trusted for another purpose is one   *)
(* that expired before: its codes name no approval and no budget either.   *)
KeyErrors(trust, purpose, at) ==
  IF Unexpired(trust[purpose], at) THEN {} ELSE {"TRUST_KEY_EXPIRED"}

WindowErrors(issued_at, expires_at, at, code) ==
  IF issued_at <= at /\ at < expires_at THEN {} ELSE {code}

(* A proof is valid if it is approved, for one use, with a nonce and of    *)
(* the tool's approval contract; the mode and the risk summary are checked *)
(* against a decision that takes them from the proof itself.               *)
ApprovalErrors(policy, proof, binding, trust, at) ==
  IF ~policy.approval_required THEN {}
  ELSE IF proof = Nothing THEN {"APPROVAL_REQUIRED"}
  ELSE KeyErrors(trust, "approval", at)
         \cup WindowErrors(proof.issued_at, proof.expires_at, at, "APPROVAL_EXPIRED")
         \cup (IF proof.valid THEN {} ELSE {"APPROVAL_INVALID"})
         \cup (IF proof.binding = binding THEN {} ELSE {"APPROVAL_BINDING_MISMATCH"})
         \cup IF proof.cost = policy.cost THEN {} ELSE {"APPROVAL_COST_MISMATCH"}

(* Mutant: every tool needs a budget. *)
BudgetErrors_Always(required, budget, binding, trust, at) ==
  IF budget = Nothing THEN {"BUDGET_REQUIRED"} ELSE KeyErrors(trust, "budget", at)

(* A budget is sufficient if it is approved and covers the estimate; the   *)
(* decision takes its cost summary from it.                                *)
BudgetErrors(required, budget, binding, trust, at) ==
  IF ~required THEN {}
  ELSE IF budget = Nothing THEN {"BUDGET_REQUIRED"}
  ELSE KeyErrors(trust, "budget", at)
         \cup WindowErrors(budget.issued_at, budget.expires_at, at, "BUDGET_EXPIRED")
         \cup (IF budget.binding = binding THEN {} ELSE {"BUDGET_BINDING_MISMATCH"})
         \cup IF budget.sufficient THEN {} ELSE {"BUDGET_LIMIT_EXCEEDED"}

(* authorizeExecution: dispatch is permitted when no check fails.  A tool  *)
(* is secretive if its request carries a field that the scan of the plans  *)
(* takes for secret material by its name (password, api_key, ...) or by    *)
(* its value.                                                              *)
PreflightErrors(name, tool, proof, budget, catalog, context, trust) ==
  LET policy == PolicyDecision(tool, budget, context.at)
      binding == Binding(name, tool, context)
  IN (IF CredentialErrors(tool.binding, catalog, context) = {} THEN {}
        ELSE {"CREDENTIAL_PLAN_NOT_READY"})
       \cup KeyErrors(trust, "policy", context.at)
       \cup (IF policy.allow THEN {} ELSE {"POLICY_DENIED"})
       \cup WindowErrors(policy.evaluated_at, policy.expires_at, context.at, "POLICY_EXPIRED")
       \cup ApprovalErrors(policy, proof, binding, trust, context.at)
       \cup BudgetErrors(policy.budget_required, budget, binding, trust, context.at)
       \cup IF tool.secretive THEN {"SECRET_MATERIAL_DETECTED"} ELSE {}

(* preflightFailure names one cause: an approval error before all others,  *)
(* a budget error before the rest.                                         *)
ApprovalCodes ==
  {"APPROVAL_REQUIRED", "APPROVAL_EXPIRED", "APPROVAL_INVALID", "APPROVAL_BINDING_MISMATCH",
   "APPROVAL_COST_MISMATCH"}

FailureCategory(errors) ==
  IF errors \cap ApprovalCodes # {}
    THEN "approval_required"
  ELSE IF errors \cap {"BUDGET_REQUIRED", "BUDGET_EXPIRED", "BUDGET_BINDING_MISMATCH",
                       "BUDGET_LIMIT_EXCEEDED"} # {} THEN "budget_required"
  ELSE "preflight_blocked"
=============================================================================
