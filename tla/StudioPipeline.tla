----------------------------- MODULE StudioPipeline -----------------------------
(***************************************************************************)
(* A Studio project as its editor sees it: the OpenAPI source, the         *)
(* provider's authentication mode and the tool overrides are edited, a     *)
(* build turns them into the artifacts the runtime loads, and a tool is    *)
(* called through those artifacts.  Each action is one request to Studio   *)
(* or to the runtime, run alone; StudioProject has the interleavings.      *)
(*                                                                         *)
(* buildStudioProject never runs the validator of the contract bundle (the *)
(* command line does), so what that validator would say of a built bundle  *)
(* is here a matter of invariants.                                         *)
(***************************************************************************)
EXTENDS AdapterRules

CONSTANTS Documents,     \* the OpenAPI documents that may be imported
          Modes,         \* the authentication modes that may be configured
          OverrideSets,  \* the override files that may be saved
          Statuses,      \* the HTTP statuses that the provider may answer
          MaxEdits       \* bound: edits of the project

(* A document is OpenAPI 3 (the loader accepts no other): parameters have  *)
(* one of its four locations, and an operation, like a path item, has one  *)
(* of a location and name.  An override has Studio's risks and approvals.  *)
OneOfAName(parameters) ==
  \A p, q \in parameters : p.location = q.location /\ p.name = q.name => p = q
ParameterSet(parameters) ==
  /\ IsFiniteSet(parameters) /\ OneOfAName(parameters)
  /\ \A p \in parameters :
       /\ p = [name |-> p.name, location |-> p.location, required |-> p.required]
       /\ p.location \in Locations /\ p.required \in BOOLEAN

ASSUME DocumentAssumption ==
  \A doc \in Documents : \A op \in ToSet(doc.operations) :
    /\ ParameterSet(op.parameters) /\ ParameterSet(op.path_parameters)
    /\ DOMAIN op.responses \subseteq ({"exact", "range"} \X Nat) \cup {<<"default", 0>>}

ASSUME OverrideAssumption ==
  /\ Keep \notin 0..5 /\ Keep \notin DOMAIN ApprovalOrder
  /\ \A file \in OverrideSets : \A id \in DOMAIN file :
       /\ file[id].risk_class \in 0..5 \cup {Keep}
       /\ file[id].approval_mode \in DOMAIN ApprovalOrder \cup {Keep}

ASSUME StatusAssumption == Statuses \subseteq Nat

VARIABLES source, mode, overrides,  \* the project
          built,      \* the artifacts of the last build and what they were built from
          previous,   \* those of the build before
          outcome,    \* of the last request
          edits
vars == <<source, mode, overrides, built, previous, outcome, edits>>

NotBuilt == [built |-> FALSE, bundle |-> [tools |-> {}]]
Idle == [kind |-> "idle"]

Init ==
  /\ source \in Documents
  /\ mode = "bearer"
  /\ overrides = << >>
  /\ built = NotBuilt
  /\ previous = NotBuilt
  /\ outcome = Idle
  /\ edits = 0

Edit ==
  /\ edits < MaxEdits
  /\ edits' = edits + 1
  /\ outcome' = Idle
  /\ UNCHANGED <<built, previous>>

ImportSource ==
  /\ Edit
  /\ \E doc \in Documents \ {source} : source' = doc
  /\ UNCHANGED <<mode, overrides>>

ConfigureProvider ==
  /\ Edit
  /\ \E m \in Modes \ {mode} : mode' = m
  /\ UNCHANGED <<source, overrides>>

SaveOverrides ==
  /\ Edit
  /\ \E o \in OverrideSets \ {overrides} : overrides' = o
  /\ UNCHANGED <<source, mode>>

(* The stages of buildStudioProject, in its order. *)
Review == ApplyStudioOverrides(MapCapabilities(source), overrides)

Artifacts ==
  LET hints == ReviewedHints(WorkflowHints(source), Review.capabilities)
      compiled == CompileCapabilityMap(Review.capabilities, hints)
      bundle == EnrichToolBundle(EnsureProviderAuth(compiled, mode))
      adapters == CompileProviderAdapters(bundle)
  IN [built |-> TRUE, source |-> source, mode |-> mode, overrides |-> overrides,
      bundle |-> bundle, adapters |-> adapters,
      auth_bindings |-> CompileProviderAuthBindings(bundle, adapters),
      credential_catalog |-> CredentialCatalog(bundle)]

Build ==
  /\ Review.errors = {}
  /\ built' = Artifacts
  /\ previous' = built
  /\ outcome' = Idle
  /\ UNCHANGED <<source, mode, overrides, edits>>

(* The review throws before anything is written. *)
BuildRefused ==
  /\ Review.errors # {}
  /\ \E error \in Review.errors : outcome' = [kind |-> "refused", error |-> error]
  /\ UNCHANGED <<source, mode, overrides, built, previous, edits>>

AdapterOf(t) == CHOOSE a \in built.adapters : a.tool_name = t.name

(* A tools/call with the arguments that the model chose, up to the network; *)
(* an approval, where one is asked for, is taken as given.                  *)
CallTool(t, args) ==
  LET adapter == AdapterOf(t)
      plan == PlanProviderRequest(adapter, args, None)
      errors == IF ~CallAdmitted(t, args) THEN {"INVALID_TOOL_ARGUMENTS"}
                ELSE IF plan.errors # {} THEN plan.errors
                ELSE InjectionErrors(adapter, built.auth_bindings)
  IN /\ outcome.kind = "idle"
     /\ outcome' = [kind |-> "called", tool |-> t, args |-> args,
                    errors |-> errors, sent |-> IF errors = {} THEN plan.sent ELSE {}]
     /\ UNCHANGED <<source, mode, overrides, built, previous, edits>>

ProviderAnswers(status) ==
  /\ outcome.kind = "called"
  /\ outcome.errors = {}
  /\ outcome' = [kind |-> "answered", tool |-> outcome.tool,
                 response |-> NormalizeProviderResponse(AdapterOf(outcome.tool), status)]
  /\ UNCHANGED <<source, mode, overrides, built, previous, edits>>

Next ==
  \/ ImportSource
  \/ ConfigureProvider
  \/ SaveOverrides
  \/ Build
  \/ BuildRefused
  \/ \E t \in built.bundle.tools :
       \E args \in SUBSET t.model_input_schema.properties : CallTool(t, args)
  \/ \E status \in Statuses : ProviderAnswers(status)

Spec == Init /\ [][Next]_vars

-----------------------------------------------------------------------------
Tools == built.bundle.tools
OverrideOf(t) ==
  LET id == OperationId(t.operation)
  IN IF id \in DOMAIN built.overrides THEN built.overrides[id]
     ELSE [risk_class |-> Keep, approval_mode |-> Keep, required_scopes |-> {}]
Inspected(t) == Signals(built.source, t.operation)
ClassifiedRisk(t) == ClassifyRisk(Inspected(t), Auth(built.source, t.operation))

(* The reviewer raised the risk of a tool that needed no approval, and     *)
(* asked for none.                                                         *)
RaisedUngoverned(t, risk) ==
  /\ ClassifiedRisk(t) < 3
  /\ OverrideOf(t).risk_class # Keep
  /\ OverrideOf(t).risk_class >= risk
  /\ OverrideOf(t).approval_mode \in {Keep, None}

WordsHighImpact(t) ==
  LET s == Inspected(t)
  IN s.destructive \/ s.financial \/ s.external_communication \/ s.credential_change

(* What the bundle's own validator (which the Studio build does not call)  *)
(* can hold against a built bundle: a read whose text sounds like an       *)
(* effect, a TRACE operation, a risk raised without an approval, and a     *)
(* scope inferred for a tool that was given no AuthContract.  Every other  *)
(* rule of ValidateSemantics holds of whatever document, mode and          *)
(* overrides it was built from.                                            *)
IssueExplained(issue, t) ==
  CASE issue.code = "TOOL_READ_ONLY_EFFECT_CONFLICT" ->
         /\ Inspected(t).read_only
         /\ WordsHighImpact(t) \/ OverrideOf(t).risk_class \in {4, 5}
    [] issue.code = "TOOL_WRITE_IDEMPOTENCY_REQUIRED" -> t.operation.method = "trace"
    [] issue.code = "TOOL_APPROVAL_REQUIRED" -> RaisedUngoverned(t, 4)
    [] issue.code = "POLICY_HIGH_RISK_ALLOW" ->
         RaisedUngoverned(t, 3) /\ Auth(built.source, t.operation).scopes = {}
    [] issue.code = "TOOL_AUTH_REFERENCE_REQUIRED" ->
         /\ Auth(built.source, t.operation).scopes \cup OverrideOf(t).required_scopes = {}
         /\ built.mode = None \/ \E u \in Tools : u.auth_ref
    [] OTHER -> FALSE

BuiltIssuesExplained ==
  built.built => \A issue \in ValidateSemantics(built.bundle) :
                   \E t \in Tools : t.name = issue.tool /\ IssueExplained(issue, t)

(* Whatever the overrides say, a tool whose document sounds destructive,   *)
(* financial, outbound or credential-changing is behind a single-use       *)
(* approval bound to its revision and arguments, and a policy that asks    *)
(* for it; and the user is shown a confirmation exactly for the tools      *)
(* behind an approval, but for a risk raised without one.                  *)
Gated(t) ==
  /\ \E p \in PoliciesOf(built.bundle, t) :
        p.default_decision \in {"require_confirmation", "require_widget", "require_approver"}
  /\ \E a \in ApprovalsOf(built.bundle, t) :
        /\ a.single_use
        /\ {"subject", "tool_revision", "arguments_hash"} \subseteq a.binding
        /\ Inspected(t).financial => "cost_summary" \in a.binding

HighImpactIsGated ==
  built.built => \A t \in Tools :
    /\ WordsHighImpact(t) => t.approval_ref /\ Gated(t)
    /\ t.approval.required <=> t.approval_ref \/ RaisedUngoverned(t, 3)

(* Approvals and reservations name a tool by its revision: if a rebuild    *)
(* leaves the revision alone, the tool's governance, schemas and adapter   *)
(* are those the earlier approval was given for, but for the AuthContract  *)
(* that Studio attaches after the revision is computed.                    *)
SameRevisionSameContract ==
  built.built /\ previous.built =>
    \A t \in Tools, u \in previous.bundle.tools :
      t.revision = u.revision =>
        /\ [t EXCEPT !.auth_ref = u.auth_ref] = u
        /\ PoliciesOf(built.bundle, t) = PoliciesOf(previous.bundle, u)
        /\ ApprovalsOf(built.bundle, t) = ApprovalsOf(previous.bundle, u)
        /\ \A a \in built.adapters, b \in previous.adapters :
             a.tool_revision = t.revision /\ b.tool_revision = t.revision =>
               [a EXCEPT !.auth_ref = b.auth_ref] = b

(* A call with arguments that the advertised schema admits reaches the     *)
(* provider, each argument in the place the document names, unless the     *)
(* tool requires an argument that the advertised schema hides, the path    *)
(* template and the path parameters of the document disagree, or Studio    *)
(* left the credential for the runtime to place.                           *)
HidesRequired(t) == ~(t.input_schema.required \subseteq t.model_input_schema.properties)
PathAgrees(t) ==
  {p.name : p \in {q \in MergedParameters(t.operation) : q.location = "path"}}
    = {<<w>> : w \in {t.operation.path[i].word :
                        i \in {j \in DOMAIN t.operation.path : t.operation.path[j].param}}}

AdmittedCallsReachProvider ==
  outcome.kind = "called" =>
    LET t == outcome.tool
    IN /\ \/ outcome.errors = {}
          \/ ~SchemaAdmits(t.model_input_schema, outcome.args)
          \/ HidesRequired(t)
          \/ ~PathAgrees(t)
          \/ built.mode \in {"basic", "host_managed"} /\ t.auth_ref
       /\ outcome.errors = {} =>
            /\ {x[3] : x \in outcome.sent} = outcome.args
            /\ \A x \in outcome.sent :
                 \/ x[1] = "body"
                 \/ \E p \in MergedParameters(t.operation) :
                      x = <<p.location, p.name, ArgumentName(MergedParameters(t.operation), p)>>

(* Credential material never comes from the model: no cookie parameter is  *)
(* among the arguments it may choose, unless the document uses the         *)
(* cookie's name for another parameter too (the classifier then looks the  *)
(* prefixed name up in vain).                                              *)
CredentialsStayHidden ==
  outcome.kind = "called" =>
    \A x \in outcome.sent :
      x[1] = "cookie" => \E p \in MergedParameters(outcome.tool.operation) :
                           p.name = x[2] /\ p.location # "cookie"

(* A success of the provider is reported as a failure only if the document *)
(* declares that status by "default" or by a range alone; a failure never  *)
(* as a success, and nothing reported as a success may be retried.         *)
AnswersReadRight ==
  outcome.kind = "answered" =>
    LET r == outcome.response
        declared == DOMAIN outcome.tool.operation.responses
    IN /\ r.ok => r.status \in 200..299 /\ ~r.retryable
       /\ r.status \in 200..299 /\ ~r.ok =>
            /\ <<"exact", r.status>> \notin declared
            /\ {<<"default", 0>>, <<"range", 2>>} \cap declared # {}
=============================================================================
