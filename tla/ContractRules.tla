----------------------------- MODULE ContractRules -----------------------------
(***************************************************************************)
(* From reviewed capabilities to the contract bundle the runtime loads:    *)
(* the compiler (tool-contract-compiler.ts), Studio's authentication step  *)
(* (pipeline-service.ts), the tool enrichment (src/tools) and the semantic *)
(* validator (semantic-validator.ts).  Pure operators, no state.           *)
(*                                                                         *)
(* A tool, its policy and its approval are found by the capability's name, *)
(* unique after the review; a contract is a record of the fields that some *)
(* decision reads.  A revision is the digest of a value: here the value.   *)
(***************************************************************************)
EXTENDS CapabilityRules

None == "none"

ArgumentName(parameters, p) ==
  IF \E q \in parameters : q.name = p.name /\ q.location # p.location
  THEN <<p.location>> \o p.name ELSE p.name
Body == <<"body">>

(* createInputSchema: the properties of the tool's arguments, and the      *)
(* required ones.                                                          *)
InputSchema(op) ==
  LET parameters == MergedParameters(op)
      body == IF op.body.types # {} THEN {Body} ELSE {}
  IN [properties |-> {ArgumentName(parameters, p) : p \in parameters} \cup body,
      required |-> {ArgumentName(parameters, p) : p \in {q \in parameters : q.required}}
                   \cup IF op.body.required THEN body ELSE {}]

Effects(c) ==
  [writes |-> ~c.signals.read_only,
   external_communication |-> c.signals.external_communication,
   financial |-> c.signals.financial \/ c.risk_class = 4,
   credential_change |-> c.signals.credential_change \/ c.risk_class = 5]

ApprovalContract(c) ==
  [tool |-> c.name, mode |-> c.approval_mode, single_use |-> TRUE,
   ttl_seconds |-> IF c.approval_mode = "dual_control" THEN 300 ELSE 600,
   binding |-> {"subject", "client", "workspace", "tool_id", "tool_revision",
                "arguments_hash", "risk_summary", "nonce"}
               \cup IF c.risk_class \in {4, 5} THEN {"cost_summary"} ELSE {}]

PolicyContract(c) ==
  [tool |-> c.name, risk_class |-> c.risk_class, default_decision |-> c.decision,
   rule |-> [decision |-> c.decision, required_scopes |-> c.required_scopes]]

(* One route for each hint whose two operations have a capability; the     *)
(* operations of a document have different ids.                            *)
CompileRecoveries(capabilities, hints) ==
  LET routed == {t \in hints \X capabilities \X capabilities :
                   /\ t[2].source_operation_id = t[1].steps[1]
                   /\ t[3].source_operation_id = t[1].steps[2]}
  IN {[id |-> t[2].name, next_capability |-> t[3].name,
       trigger |-> IF t[1].kind = "async_create_status" THEN "job_queued"
                   ELSE "upload_completed"] : t \in routed}

(* Mutant: the revision leaves the governance out. *)
Revision_Ungoverned(c, auth, recovery) ==
  <<c.name, c.operation, auth, recovery, Effects(c)>>

Revision(c, auth, recovery) ==
  <<c, c.approval_mode # None, auth, recovery, Effects(c)>>

ToolContract(c, scoped, recoveries) ==
  LET auth == scoped /\ c.required_scopes # {}
      recovery == {r \in recoveries : r.id = c.name} # {}
  IN [name |-> c.name, auth_ref |-> auth, approval_ref |-> c.approval_mode # None,
      recovery_ref |-> recovery, input_schema |-> InputSchema(c.operation),
      effects |-> Effects(c), required_scopes |-> c.required_scopes,
      read_only |-> c.signals.read_only, destructive |-> c.signals.destructive,
      idempotency |-> c.idempotency, asynchronous |-> c.signals.asynchronous,
      domain |-> c.domain, risk_class |-> c.risk_class, operation |-> c.operation,
      revision |-> Revision(c, auth, recovery)]

Scopes(things) == UNION {t.required_scopes : t \in things}

AuthContract(mode, scopes) ==
  [mode |-> mode, required_scopes |-> scopes, tenant_resolution |-> "required",
   token_passthrough |-> FALSE,
   credential_binding_dimensions |-> {"subject", "client", "workspace", "provider",
                                      "provider_account", "scope_set"}]

CompileCapabilityMap(capabilities, hints) ==
  LET scopes == Scopes(capabilities)
      recoveries == CompileRecoveries(capabilities, hints)
  IN [tools |-> {ToolContract(c, scopes # {}, recoveries) : c \in capabilities},
      auth |-> IF scopes # {} THEN {AuthContract("host_managed", scopes)} ELSE {},
      policies |-> {PolicyContract(c) : c \in capabilities},
      approvals |-> {ApprovalContract(c) : c \in {d \in capabilities : d.approval_mode # None}},
      recoveries |-> recoveries]

-----------------------------------------------------------------------------
(* Studio adds the provider's AuthContract only when the compiler made none *)
(* and gives every one the project's mode.                                  *)
EnsureProviderAuth(bundle, mode) ==
  LET added == mode # None /\ bundle.auth = {}
      auth == IF added THEN {AuthContract(mode, Scopes(bundle.tools))} ELSE bundle.auth
  IN [bundle EXCEPT !.auth = {[a EXCEPT !.mode = mode] : a \in auth},
                    !.tools = {[t EXCEPT !.auth_ref = @ \/ added] : t \in bundle.tools}]

(* A tool without scopes is given <<domain, action>>. *)
InferRequiredScopes(t) ==
  LET verb == Last(t.name)
      action ==
        IF t.destructive \/ verb \in {"delete", "remove", "archive", "revoke", "cancel"}
        THEN "delete"
        ELSE IF verb \in {"approve", "refund", "publish", "send", "invite", "assign", "transfer"}
        THEN verb
        ELSE IF t.effects.writes THEN "write" ELSE "read"
  IN IF t.required_scopes # {} THEN t.required_scopes ELSE {<<t.domain, action>>}

(* Mutant: a cookie is an argument like any other. *)
ClassifyName_Cookies(parameters, argument) ==
  LET words == ToSet(argument)
  IN IF words \cap {"authorization", "apikey", "password"} # {} THEN "credential_managed"
     ELSE IF words \cap {"traceid", "requestid", "idempotencykey", "nonce"} # {}
     THEN "runtime_managed"
     ELSE IF words \cap {"signature", "webhooksecret"} # {} THEN "hidden_internal"
     ELSE "model_argument"

(* The location found for an argument is that of a parameter with exactly  *)
(* its name: none for the prefixed name of a duplicated parameter.  A      *)
(* parameter name's first word tells its lexical class, which a prefix     *)
(* leaves alone, except for the leading "x" of a vendor header.            *)
ClassifyName(parameters, argument) ==
  LET words == ToSet(argument)
      location == {p.location : p \in {q \in parameters : q.name = argument}}
  IN IF "cookie" \in location \/ words \cap {"authorization", "apikey", "password"} # {}
     THEN "credential_managed"
     ELSE IF \/ words \cap {"traceid", "requestid", "idempotencykey", "nonce"} # {}
             \/ Head(argument) = "x" /\ "header" \in location
     THEN "runtime_managed"
     ELSE IF words \cap {"signature", "webhooksecret"} # {} THEN "hidden_internal"
     ELSE "model_argument"

ModelInputSchema(t) ==
  LET parameters == MergedParameters(t.operation)
      visible == {a \in t.input_schema.properties :
                    ClassifyName(parameters, a) = "model_argument"}
  IN [properties |-> visible, required |-> t.input_schema.required \cap visible]

(* What the user is shown before the call. *)
ApprovalPresentation(t) ==
  LET required == \/ t.approval_ref \/ t.risk_class \in {3, 4, 5}
                  \/ t.destructive \/ t.effects.financial \/ t.effects.credential_change
  IN [required |-> required,
      mode |-> CASE ~required -> None
                 [] required /\ t.risk_class \in {4, 5} -> "secure_widget"
                 [] OTHER -> "chat_explicit"]

(* Every part of the score but two is earned by any enriched tool: the     *)
(* enrichment writes the description, the scopes, the examples, the error  *)
(* contracts and the approval text that the scorer looks for.  The output  *)
(* schema of an asynchronous tool is the compiler's own and always typed.  *)
QualityScore(t) ==
  80 + (IF ValidName(t.name) THEN 10 ELSE 0)
     + (IF t.asynchronous \/ t.operation.typed_output THEN 10 ELSE 0)

EnrichTool(t) ==
  LET next == [t EXCEPT !.required_scopes = InferRequiredScopes(t)]
      added == [model_input_schema |-> ModelInputSchema(next),
                approval |-> ApprovalPresentation(next), quality |-> QualityScore(next)]
  IN [field \in DOMAIN next \cup DOMAIN added |->
        IF field \in DOMAIN next THEN next[field] ELSE added[field]]

(* Mutant: the inferred scopes are not added to the AuthContract. *)
WidenAuth_Not(auth, tools) == auth

WidenAuth(auth, tools) ==
  {[a EXCEPT !.required_scopes = @ \cup Scopes(tools)] : a \in auth}

EnrichToolBundle(bundle) ==
  LET tools == {EnrichTool(t) : t \in bundle.tools}
  IN [bundle EXCEPT !.tools = tools, !.auth = WidenAuth(@, tools)]

QualityGatePassed(bundle) == \A t \in bundle.tools : t.quality >= 85

(* The account Studio writes for the provider: granted whatever it needs. *)
CredentialCatalog(bundle) ==
  {[mode |-> a.mode, status |-> "active", granted_scopes |-> a.required_scopes] : a \in bundle.auth}

-----------------------------------------------------------------------------
(* The semantic validator: the issues of a bundle, each with its contract. *)

HighImpact(t) ==
  \/ t.destructive \/ t.effects.external_communication
  \/ t.effects.financial \/ t.effects.credential_change

PoliciesOf(bundle, t) == {p \in bundle.policies : p.tool = t.name}
ApprovalsOf(bundle, t) == {a \in bundle.approvals : a.tool = t.name}

ToolIssueHolds(bundle, t) ==
  [TOOL_READ_ONLY_EFFECT_CONFLICT |-> t.read_only /\ (t.effects.writes \/ HighImpact(t)),
   TOOL_WRITE_IDEMPOTENCY_REQUIRED |->
     t.effects.writes /\ t.idempotency \notin {"supported", "required"},
   TOOL_APPROVAL_REQUIRED |-> HighImpact(t) /\ ~t.approval_ref,
   REFERENCE_NOT_FOUND |->
     \/ PoliciesOf(bundle, t) = {}
     \/ t.auth_ref /\ bundle.auth = {}
     \/ t.approval_ref /\ ApprovalsOf(bundle, t) = {}
     \/ t.recovery_ref /\ ~\E r \in bundle.recoveries : r.id = t.name,
   TOOL_FINANCIAL_RISK_TOO_LOW |->
     t.effects.financial /\ \E p \in PoliciesOf(bundle, t) : p.risk_class \notin {4, 5},
   TOOL_AUTH_REFERENCE_REQUIRED |-> t.required_scopes # {} /\ ~t.auth_ref,
   TOOL_SCOPE_NOT_AUTHORIZED |->
     t.auth_ref /\ \E a \in bundle.auth : ~(t.required_scopes \subseteq a.required_scopes)]

PolicyIssues(bundle) ==
  {[code |-> "POLICY_HIGH_RISK_ALLOW", tool |-> p.tool] :
     p \in {q \in bundle.policies :
              q.risk_class \in {3, 4, 5} /\ "allow" \in {q.default_decision, q.rule.decision}}}

ContractIssues(bundle) ==
  {[code |-> "AUTH_TENANT_BINDING_REQUIRED", tool |-> None] :
     a \in {b \in bundle.auth : /\ b.tenant_resolution = "required"
                                /\ ~({"subject", "workspace"} \subseteq b.credential_binding_dimensions)}}
  \cup {[code |-> "AUTH_TOKEN_PASSTHROUGH_FORBIDDEN", tool |-> None] :
          a \in {b \in bundle.auth : b.token_passthrough}}
  \cup {[code |-> "APPROVAL_BINDING_REQUIRED", tool |-> a.tool] :
          a \in {b \in bundle.approvals :
                   ~({"subject", "tool_revision", "arguments_hash"} \subseteq b.binding)}}

(* Rules about what no Studio build makes are left out: a tool without a   *)
(* revision, a synchronous tool that requires tasks, a financial tool      *)
(* without a policy, OAuth 2.1 contracts without audience validation or    *)
(* PKCE, recoveries that escalate, and receipts.                           *)
ValidateSemantics(bundle) ==
  (UNION {LET holds == ToolIssueHolds(bundle, t)
          IN {[code |-> code, tool |-> t.name] : code \in {k \in DOMAIN holds : holds[k]}}
          : t \in bundle.tools})
  \cup PolicyIssues(bundle) \cup ContractIssues(bundle)
=============================================================================
