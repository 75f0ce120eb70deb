------------------------- MODULE StudioPipeline_proofs -------------------------
(***************************************************************************)
(* What a Studio build computes, for every library of documents, override  *)
(* files, authentication modes and provider statuses.  The first sections  *)
(* are about the pure stages; PipelineInv then says that what is built is  *)
(* always the result of those stages and that an outcome is that of a call *)
(* through it.                                                             *)
(***************************************************************************)
EXTENDS StudioPipeline, FiniteSetTheorems, TLAPS

-----------------------------------------------------------------------------
(* The stages of a build, as functions of the project.                     *)

Files == OverrideSets \cup {<< >>}
ModesInUse == Modes \cup {"bearer"}

ReviewOf(doc, o) == ApplyStudioOverrides(MapCapabilities(doc), o)
Reviewed(doc, o) == ReviewOf(doc, o).capabilities
HintsOf(doc, o) == ReviewedHints(WorkflowHints(doc), Reviewed(doc, o))
RecoveriesOf(doc, o) == CompileRecoveries(Reviewed(doc, o), HintsOf(doc, o))
Scoped(doc, o) == Scopes(Reviewed(doc, o)) # {}
Added(doc, m, o) == m # None /\ ~Scoped(doc, o)

BundleOf(doc, m, o) ==
  EnrichToolBundle(EnsureProviderAuth(CompileCapabilityMap(Reviewed(doc, o), HintsOf(doc, o)), m))
ArtifactsOf(doc, m, o) ==
  LET bundle == BundleOf(doc, m, o)
      adapters == CompileProviderAdapters(bundle)
  IN [built |-> TRUE, source |-> doc, mode |-> m, overrides |-> o,
      bundle |-> bundle, adapters |-> adapters,
      auth_bindings |-> CompileProviderAuthBindings(bundle, adapters),
      credential_catalog |-> CredentialCatalog(bundle)]

(* The tool that comes out for a capability. *)
ToolFor(c, scoped, recoveries, added) ==
  EnrichTool([ToolContract(c, scoped, recoveries) EXCEPT !.auth_ref = @ \/ added])

-----------------------------------------------------------------------------
(* Classification and review.                                              *)

Risk(doc, op) == ClassifyRisk(Signals(doc, op), Auth(doc, op))
Asked(doc, op) == GovernanceFor(Risk(doc, op), Auth(doc, op))
Sounds(s) == s.destructive \/ s.financial \/ s.external_communication \/ s.credential_change
Deciding == {"require_confirmation", "require_widget", "require_approver"}

(* What sounds dangerous is classified so, and what is classified so asks  *)
(* for an approval.                                                        *)
LEMMA Classified ==
  ASSUME NEW doc, NEW op
  PROVE  LET s == Signals(doc, op)
             risk == Risk(doc, op)
             asked == Asked(doc, op)
         IN /\ risk \in 0..5
            /\ Sounds(s) => risk >= 3
            /\ s.financial => risk >= 4
            /\ risk = 4 => s.financial
            /\ risk = 5 => s.credential_change
            /\ asked.approval_mode \in DOMAIN ApprovalOrder
            /\ risk >= 3 => asked.approval_mode # None /\ asked.decision \in Deciding
            /\ risk < 3 => asked.approval_mode = None
<1> DEFINE s == Signals(doc, op)
           auth == Auth(doc, op)
<1>1. /\ Risk(doc, op) \in 0..5
      /\ Sounds(s) => Risk(doc, op) >= 3
      /\ s.financial => Risk(doc, op) >= 4
      /\ Risk(doc, op) = 4 => s.financial
      /\ Risk(doc, op) = 5 => s.credential_change
  <2> HIDE DEF s, auth
  <2> QED
    BY DEF Risk, ClassifyRisk, Sounds, s, auth
<1>2. ASSUME NEW risk \in 0..5
      PROVE  LET asked == GovernanceFor(risk, auth)
             IN /\ asked.approval_mode \in DOMAIN ApprovalOrder
                /\ risk >= 3 => asked.approval_mode # None /\ asked.decision \in Deciding
                /\ risk < 3 => asked.approval_mode = None
  BY <1>2 DEF GovernanceFor, ApprovalOrder, None, Deciding
<1> QED
  BY <1>1, <1>2 DEF Asked

(* A capability of an operation as it leaves the review.                   *)
Described(c, doc, op, o) ==
  LET id == OperationId(op)
      risk == Risk(doc, op)
      asked == Asked(doc, op)
      scopes == Auth(doc, op).scopes
  IN /\ c.source_operation_id = id /\ c.operation = op
     /\ c.signals = Signals(doc, op)
     /\ c.idempotency = Capability(doc, op, c.name).idempotency
     /\ id \notin DOMAIN o =>
          /\ c.risk_class = risk /\ c.required_scopes = scopes
          /\ c.approval_mode = asked.approval_mode /\ c.decision = asked.decision
     /\ id \in DOMAIN o =>
          /\ c.risk_class = Given(o[id].risk_class, risk) /\ c.risk_class >= risk
          /\ c.required_scopes = scopes \cup o[id].required_scopes
          /\ c.approval_mode = Given(o[id].approval_mode, asked.approval_mode)
          /\ ApprovalOrder[c.approval_mode] >= ApprovalOrder[asked.approval_mode]
          /\ c.decision = DecisionForApproval(c.approval_mode, c.required_scopes)

LEMMA OverrideTyped ==
  ASSUME NEW o \in Files, NEW id \in DOMAIN o
  PROVE  /\ o[id].risk_class \in 0..5 \cup {Keep}
         /\ o[id].approval_mode \in DOMAIN ApprovalOrder \cup {Keep}
<1>1. CASE o = << >>
  BY <1>1
<1>2. CASE o \in OverrideSets
  BY <1>2, OverrideAssumption
<1> QED
  BY <1>1, <1>2 DEF Files

LEMMA CapabilityDescribed ==
  ASSUME NEW doc \in Documents, NEW o \in Files, ReviewOf(doc, o).errors = {},
         NEW c \in Reviewed(doc, o)
  PROVE  \E op \in ToSet(doc.operations) : Described(c, doc, op, o)
<1> DEFINE caps == MapCapabilities(doc)
           Overridden(d) == d.source_operation_id \in DOMAIN o
           kept == {i \in DOMAIN caps : Overridden(caps[i]) => o[caps[i].source_operation_id].enabled}
           errors == {OverrideError(caps[i], o[caps[i].source_operation_id]) :
                        i \in {j \in kept : Overridden(caps[j])}} \ {"none"}
<1>1. /\ \E i \in kept : c = IF Overridden(caps[i])
                             THEN ApplyOverride(caps[i], o[caps[i].source_operation_id])
                             ELSE caps[i]
      /\ errors = {}
  BY DEF ReviewOf, Reviewed, ApplyStudioOverrides
<1>2. PICK i \in kept : c = IF Overridden(caps[i])
                            THEN ApplyOverride(caps[i], o[caps[i].source_operation_id])
                            ELSE caps[i]
  BY <1>1
<1> DEFINE op == doc.operations[i]
           name == GivenNames(doc)[i]
           id == OperationId(op)
<1>3. i \in DOMAIN doc.operations /\ op \in ToSet(doc.operations)
      /\ caps[i] = Capability(doc, op, name)
  BY DEF MapCapabilities, ToSet
<1> HIDE DEF op, name, caps
<1>4. /\ caps[i].source_operation_id = id /\ caps[i].operation = op
      /\ caps[i].signals = Signals(doc, op) /\ caps[i].name = name
      /\ caps[i].risk_class = Risk(doc, op) /\ caps[i].required_scopes = Auth(doc, op).scopes
      /\ caps[i].approval_mode = Asked(doc, op).approval_mode
      /\ caps[i].decision = Asked(doc, op).decision
      /\ \A n : caps[i].idempotency = Capability(doc, op, n).idempotency
  BY <1>3 DEF Capability, Risk, Asked
<1>5. CASE ~Overridden(caps[i])
  BY <1>2, <1>3, <1>4, <1>5 DEF Described
<1>6. CASE Overridden(caps[i])
  <2>1. OverrideError(caps[i], o[id]) = "none"
    BY <1>1, <1>2, <1>4, <1>6
  <2>2. /\ ~(Given(o[id].risk_class, Risk(doc, op)) < Risk(doc, op))
        /\ ~(ApprovalOrder[Given(o[id].approval_mode, Asked(doc, op).approval_mode)]
               < ApprovalOrder[Asked(doc, op).approval_mode])
    BY <2>1, <1>4 DEF OverrideError
  <2>3. c = ApplyOverride(caps[i], o[id])
    BY <1>2, <1>4, <1>6
  <2>4. /\ c.source_operation_id = id /\ c.operation = op /\ c.signals = Signals(doc, op)
        /\ c.idempotency = caps[i].idempotency
        /\ c.risk_class = Given(o[id].risk_class, Risk(doc, op))
        /\ c.approval_mode = Given(o[id].approval_mode, Asked(doc, op).approval_mode)
        /\ c.required_scopes = Auth(doc, op).scopes \cup o[id].required_scopes
        /\ c.decision = DecisionForApproval(c.approval_mode, c.required_scopes)
    <3>1. caps[i] = [caps[i] EXCEPT !.name = @]
          /\ {"name", "risk_class", "approval_mode", "required_scopes", "decision",
              "source_operation_id", "operation", "signals", "idempotency"} \subseteq DOMAIN caps[i]
      BY <1>3 DEF Capability
    <3> QED
      BY <1>4, <2>3, <3>1 DEF ApplyOverride
  <2>5. o[id].risk_class \in 0..5 \cup {Keep} /\ o[id].approval_mode \in DOMAIN ApprovalOrder \cup {Keep}
    BY <1>4, <1>6, OverrideTyped
  <2>6. Risk(doc, op) \in 0..5 /\ Asked(doc, op).approval_mode \in DOMAIN ApprovalOrder
    BY Classified
  <2>7. c.risk_class >= Risk(doc, op)
    BY <2>2, <2>4, <2>5, <2>6 DEF Given
  <2>8. ApprovalOrder[c.approval_mode] >= ApprovalOrder[Asked(doc, op).approval_mode]
    <3>1. c.approval_mode \in DOMAIN ApprovalOrder
      BY <2>4, <2>5, <2>6 DEF Given
    <3>2. \A m \in DOMAIN ApprovalOrder : ApprovalOrder[m] \in Nat
      BY DEF ApprovalOrder
    <3> QED
      BY <3>1, <3>2, <2>2, <2>4, <2>6
  <2> QED
    BY <1>3, <1>4, <1>6, <2>4, <2>7, <2>8 DEF Described
<1> QED
  BY <1>5, <1>6

(* Names tell the reviewed capabilities apart. *)
LEMMA NamesUnique ==
  ASSUME NEW doc, NEW o, ReviewOf(doc, o).errors = {},
         NEW c \in Reviewed(doc, o), NEW d \in Reviewed(doc, o), c.name = d.name
  PROVE  c = d
BY DEF ReviewOf, Reviewed, ApplyStudioOverrides

(* What the review leaves of the classification: it is not lowered, what   *)
(* sounds dangerous asks for an approval, and the only dangerous risk that *)
(* asks for none was raised by an override that asks for none.             *)
Raised(c, o, risk) ==
  LET id == c.source_operation_id
  IN /\ id \in DOMAIN o /\ o[id].risk_class # Keep
     /\ o[id].risk_class = c.risk_class /\ o[id].approval_mode \in {Keep, None}
     /\ risk < 3

LEMMA ReviewKeepsGovernance ==
  ASSUME NEW doc, NEW op, NEW o \in Files, NEW c, Described(c, doc, op, o)
  PROVE  LET id == c.source_operation_id
             risk == Risk(doc, op)
         IN /\ c.risk_class \in 0..5 /\ c.risk_class >= risk /\ risk \in 0..5
            /\ c.approval_mode \in DOMAIN ApprovalOrder
            /\ Sounds(c.signals) => c.approval_mode # None
            /\ c.approval_mode # None => c.decision \in Deciding
            /\ c.signals.financial => c.risk_class \in {4, 5}
            /\ c.approval_mode = None /\ c.risk_class >= 3 => Raised(c, o, risk)
            /\ c.decision = "allow" /\ c.risk_class >= 3 =>
                 c.approval_mode = None /\ c.required_scopes = {}
            /\ id \in DOMAIN o /\ o[id].risk_class # Keep => c.risk_class = o[id].risk_class
            /\ Auth(doc, op).scopes \subseteq c.required_scopes
            /\ id \in DOMAIN o => o[id].required_scopes \subseteq c.required_scopes
            /\ c.required_scopes \subseteq
                 Auth(doc, op).scopes \cup (IF id \in DOMAIN o THEN o[id].required_scopes ELSE {})
<1> DEFINE id == OperationId(op)
           risk == Risk(doc, op)
           asked == Asked(doc, op).approval_mode
           decision == Asked(doc, op).decision
<1>1. /\ risk \in 0..5 /\ asked \in DOMAIN ApprovalOrder
      /\ Sounds(c.signals) => risk >= 3
      /\ c.signals.financial => risk >= 4
      /\ risk >= 3 => asked # None /\ decision \in Deciding
      /\ risk < 3 => asked = None
  BY Classified DEF Described
<1>2. c.source_operation_id = id
  BY DEF Described
<1>3. decision = "allow" => risk < 3
  BY <1>1 DEF Deciding
<1>4. CASE id \notin DOMAIN o
  <2>1. /\ c.risk_class = risk /\ c.approval_mode = asked /\ c.decision = decision
        /\ c.required_scopes = Auth(doc, op).scopes
    BY <1>4 DEF Described
  <2> QED
    BY <2>1, <1>1, <1>2, <1>3, <1>4 DEF Described
<1>5. CASE id \in DOMAIN o
  <2>1. /\ c.risk_class = Given(o[id].risk_class, risk) /\ c.risk_class >= risk
        /\ c.required_scopes = Auth(doc, op).scopes \cup o[id].required_scopes
        /\ c.approval_mode = Given(o[id].approval_mode, asked)
        /\ ApprovalOrder[c.approval_mode] >= ApprovalOrder[asked]
        /\ c.decision = DecisionForApproval(c.approval_mode, c.required_scopes)
    BY <1>5 DEF Described
  <2>2. o[id].risk_class \in 0..5 \cup {Keep} /\ o[id].approval_mode \in DOMAIN ApprovalOrder \cup {Keep}
    BY <1>5, OverrideTyped
  <2>3. c.approval_mode \in DOMAIN ApprovalOrder /\ c.risk_class \in 0..5
    BY <2>1, <2>2, <1>1 DEF Given
  <2>4. c.approval_mode = None => asked = None
    BY <2>1, <2>3, <1>1 DEF ApprovalOrder, None
  <2>5. c.approval_mode # None => c.decision \in Deciding
    BY <2>1, <2>3 DEF ApprovalOrder, None, DecisionForApproval, Deciding
  <2>6. c.decision = "allow" => c.approval_mode = None /\ c.required_scopes = {}
    <3>1. c.decision = "allow" => c.approval_mode = None
      BY <2>5 DEF Deciding
    <3>2. c.approval_mode = None => c.decision = ScopedDecision(c.required_scopes)
      BY <2>1 DEF DecisionForApproval, None
    <3> QED
      BY <3>1, <3>2 DEF ScopedDecision
  <2>7. Sounds(c.signals) => c.approval_mode # None
    BY <2>4, <1>1
  <2>8. c.signals.financial => c.risk_class \in {4, 5}
    BY <2>1, <2>3, <1>1
  <2>9. c.approval_mode = None /\ c.risk_class >= 3 => Raised(c, o, risk)
    <3> SUFFICES ASSUME c.approval_mode = None, c.risk_class >= 3 PROVE Raised(c, o, risk)
      OBVIOUS
    <3>1. asked = None /\ risk < 3
      BY <2>4, <1>1
    <3>2. o[id].risk_class # Keep /\ o[id].risk_class = c.risk_class
      BY <3>1, <2>1, <1>1 DEF Given
    <3>3. o[id].approval_mode \in {Keep, None}
      BY <2>1 DEF Given
    <3> QED
      BY <3>1, <3>2, <3>3, <1>2, <1>5 DEF Raised
  <2>10. o[id].risk_class # Keep => c.risk_class = o[id].risk_class
    BY <2>1 DEF Given
  <2> HIDE DEF risk, asked, decision
  <2> QED
    BY <2>1, <2>3, <2>5, <2>6, <2>7, <2>8, <2>9, <2>10, <1>1, <1>2, <1>5 DEF risk
<1> QED
  BY <1>4, <1>5

-----------------------------------------------------------------------------
(* The bundle of a build.                                                  *)

(* A tool is its capability's contract, enriched; only the reference to an *)
(* AuthContract depends on whether Studio added one.                       *)
ShownSchema(op) ==
  LET input == InputSchema(op)
      visible == {a \in input.properties :
                    ClassifyName(MergedParameters(op), a) = "model_argument"}
  IN [properties |-> visible, required |-> input.required \cap visible]

ToolOf(t, c, scoped, recoveries, added) ==
  /\ t.name = c.name /\ t.operation = c.operation
  /\ t.auth_ref = ((scoped /\ c.required_scopes # {}) \/ added)
  /\ t.approval_ref = (c.approval_mode # None)
  /\ t.recovery_ref = ({r \in recoveries : r.id = c.name} # {})
  /\ t.input_schema = InputSchema(c.operation) /\ t.effects = Effects(c)
  /\ t.read_only = c.signals.read_only /\ t.destructive = c.signals.destructive
  /\ t.idempotency = c.idempotency /\ t.risk_class = c.risk_class
  /\ t.revision = Revision(c, scoped /\ c.required_scopes # {},
                           {r \in recoveries : r.id = c.name} # {})
  /\ t.required_scopes # {}
  /\ t.model_input_schema = ShownSchema(c.operation)
  /\ t.approval.required = \/ c.approval_mode # None \/ c.risk_class \in {3, 4, 5}
                           \/ c.signals.destructive \/ Effects(c).financial
                           \/ Effects(c).credential_change

LEMMA ToolFields ==
  ASSUME NEW c, NEW scoped, NEW recoveries, NEW added
  PROVE  ToolOf(ToolFor(c, scoped, recoveries, added), c, scoped, recoveries, added)
<1> DEFINE contract == ToolContract(c, scoped, recoveries)
           n == [contract EXCEPT !.auth_ref = @ \/ added]
           next == [n EXCEPT !.required_scopes = InferRequiredScopes(n)]
           fields == {"name", "auth_ref", "approval_ref", "recovery_ref", "input_schema", "effects",
                      "required_scopes", "read_only", "destructive", "idempotency", "asynchronous",
                      "domain", "risk_class", "operation", "revision"}
           more == [model_input_schema |-> ModelInputSchema(next),
                    approval |-> ApprovalPresentation(next), quality |-> QualityScore(next)]
           tool == [field \in DOMAIN next \cup DOMAIN more |->
                      IF field \in DOMAIN next THEN next[field] ELSE more[field]]
<1>1. DOMAIN contract = fields
  BY DEF ToolContract
<1>2. DOMAIN next = fields
      /\ \A k \in fields \ {"auth_ref", "required_scopes"} : next[k] = contract[k]
      /\ next.auth_ref = (contract.auth_ref \/ added)
      /\ next.required_scopes = InferRequiredScopes(n)
  <2> HIDE DEF contract
  <2>1. DOMAIN n = fields /\ n.auth_ref = (contract.auth_ref \/ added)
        /\ \A k \in fields \ {"auth_ref"} : n[k] = contract[k]
    BY <1>1
  <2> HIDE DEF n
  <2> QED
    BY <2>1
<1>3. ToolFor(c, scoped, recoveries, added) = tool
  BY DEF ToolFor, EnrichTool
<1>4. /\ \A k \in fields : tool[k] = next[k]
      /\ tool.model_input_schema = ModelInputSchema(next)
      /\ tool.approval = ApprovalPresentation(next)
  <2> HIDE DEF next
  <2> QED
    BY <1>2
<1>5. /\ contract.name = c.name /\ contract.auth_ref = (scoped /\ c.required_scopes # {})
      /\ contract.approval_ref = (c.approval_mode # None)
      /\ contract.recovery_ref = ({r \in recoveries : r.id = c.name} # {})
      /\ contract.input_schema = InputSchema(c.operation)
      /\ contract.effects = Effects(c)
      /\ contract.read_only = c.signals.read_only /\ contract.destructive = c.signals.destructive
      /\ contract.idempotency = c.idempotency /\ contract.risk_class = c.risk_class
      /\ contract.operation = c.operation
      /\ contract.revision = Revision(c, scoped /\ c.required_scopes # {},
                                      {r \in recoveries : r.id = c.name} # {})
  BY DEF ToolContract
<1> HIDE DEF contract, more, tool
<1>6. tool.auth_ref = ((scoped /\ c.required_scopes # {}) \/ added)
  <2>1. tool.auth_ref = (contract.auth_ref \/ added)
    BY <1>2, <1>4
  <2> QED
    BY <2>1, <1>5
<1>7. \A k \in fields \ {"auth_ref", "required_scopes"} : tool[k] = contract[k]
  BY <1>2, <1>4
<1>8. tool.required_scopes = InferRequiredScopes(n)
  BY <1>2, <1>4
<1>9. tool.required_scopes # {}
  BY <1>8 DEF InferRequiredScopes
<1> HIDE DEF n
<1>10. tool.model_input_schema = ShownSchema(c.operation)
  <2>1. next.operation = c.operation /\ next.input_schema = InputSchema(c.operation)
    BY <1>2, <1>5
  <2> HIDE DEF next
  <2> QED
    BY <2>1, <1>4 DEF ModelInputSchema, ShownSchema
<1>11. tool.approval.required = \/ c.approval_mode # None \/ c.risk_class \in {3, 4, 5}
                                \/ c.signals.destructive \/ Effects(c).financial
                                \/ Effects(c).credential_change
  <2>1. /\ next.approval_ref = (c.approval_mode # None) /\ next.risk_class = c.risk_class
        /\ next.destructive = c.signals.destructive /\ next.effects = Effects(c)
    BY <1>2, <1>5
  <2> HIDE DEF next
  <2>2. ApprovalPresentation(next).required =
          (\/ next.approval_ref \/ next.risk_class \in {3, 4, 5}
           \/ next.destructive \/ next.effects.financial \/ next.effects.credential_change)
    BY DEF ApprovalPresentation
  <2> QED
    BY <2>1, <2>2, <1>4
<1>12. tool.revision = contract.revision /\ tool.name = contract.name
       /\ tool.operation = contract.operation /\ tool.approval_ref = contract.approval_ref
       /\ tool.recovery_ref = contract.recovery_ref /\ tool.input_schema = contract.input_schema
       /\ tool.effects = contract.effects /\ tool.read_only = contract.read_only
       /\ tool.destructive = contract.destructive /\ tool.idempotency = contract.idempotency
       /\ tool.risk_class = contract.risk_class
  BY <1>7
<1> HIDE DEF next, fields
<1> QED
  BY <1>3, <1>5, <1>6, <1>9, <1>10, <1>11, <1>12 DEF ToolOf

(* What an AuthContract of a built bundle is good for. *)
Serves(a, m, tools) ==
  /\ a.mode = m /\ Scopes(tools) \subseteq a.required_scopes
  /\ {"subject", "workspace"} \subseteq a.credential_binding_dimensions
  /\ a.token_passthrough = FALSE

LEMMA BundleShape ==
  ASSUME NEW doc, NEW m, NEW o
  PROVE  LET b == BundleOf(doc, m, o)
             caps == Reviewed(doc, o)
         IN /\ b.tools = {ToolFor(c, Scoped(doc, o), RecoveriesOf(doc, o), Added(doc, m, o)) : c \in caps}
            /\ b.policies = {PolicyContract(c) : c \in caps}
            /\ b.approvals = {ApprovalContract(c) : c \in {d \in caps : d.approval_mode # None}}
            /\ b.recoveries = RecoveriesOf(doc, o)
            /\ \A a \in b.auth : Serves(a, m, b.tools)
            /\ b.auth = {} <=> ~Scoped(doc, o) /\ ~Added(doc, m, o)
<1> DEFINE caps == Reviewed(doc, o)
           scoped == Scoped(doc, o)
           recoveries == RecoveriesOf(doc, o)
           added == Added(doc, m, o)
           compiled == CompileCapabilityMap(caps, HintsOf(doc, o))
           ensured == EnsureProviderAuth(compiled, m)
           bundle == EnrichToolBundle(ensured)
           Plain(c) == ToolContract(c, scoped, recoveries)
           Linked(t) == [t EXCEPT !.auth_ref = @ \/ added]
           first == IF scoped THEN {AuthContract("host_managed", Scopes(caps))} ELSE {}
           second == IF added THEN {AuthContract(m, Scopes(compiled.tools))} ELSE first
           third == {[a EXCEPT !.mode = m] : a \in second}
<1>1. compiled = [tools |-> {Plain(c) : c \in caps}, auth |-> first,
                  policies |-> {PolicyContract(c) : c \in caps},
                  approvals |-> {ApprovalContract(c) : c \in {d \in caps : d.approval_mode # None}},
                  recoveries |-> recoveries]
  BY DEF CompileCapabilityMap, Scoped, RecoveriesOf
<1>2. ensured = [compiled EXCEPT !.auth = third, !.tools = {Linked(t) : t \in compiled.tools}]
  <2>1. compiled.auth = first
    BY <1>1
  <2>2. (m # None /\ compiled.auth = {}) = added
    BY <2>1 DEF Added
  <2> HIDE DEF compiled, first, added
  <2> QED
    BY <2>1, <2>2 DEF EnsureProviderAuth
<1> HIDE DEF compiled
<1>3. /\ ensured.tools = {Linked(t) : t \in compiled.tools} /\ ensured.auth = third
      /\ ensured.policies = compiled.policies /\ ensured.approvals = compiled.approvals
      /\ ensured.recoveries = compiled.recoveries
      /\ DOMAIN ensured = {"tools", "auth", "policies", "approvals", "recoveries"}
  <2> HIDE DEF third
  <2> QED
    BY <1>1, <1>2
<1> HIDE DEF ensured
<1>4. /\ bundle.tools = {EnrichTool(t) : t \in ensured.tools}
      /\ bundle.auth = WidenAuth(ensured.auth, bundle.tools)
      /\ bundle.policies = ensured.policies /\ bundle.approvals = ensured.approvals
      /\ bundle.recoveries = ensured.recoveries
  BY <1>3 DEF EnrichToolBundle
<1> HIDE DEF bundle
<1>5. bundle.tools = {ToolFor(c, scoped, recoveries, added) : c \in caps}
  <2>1. ensured.tools = {Linked(Plain(c)) : c \in caps}
    BY <1>1, <1>3
  <2> HIDE DEF Plain, Linked
  <2>2. bundle.tools = {EnrichTool(Linked(Plain(c))) : c \in caps}
    BY <2>1, <1>4
  <2> QED
    BY <2>2 DEF ToolFor, Plain, Linked
<1>6. \A a \in bundle.auth : Serves(a, m, bundle.tools)
  <2> SUFFICES ASSUME NEW a \in bundle.auth PROVE Serves(a, m, bundle.tools)
    OBVIOUS
  <2>1. PICK old \in third : a = [old EXCEPT !.required_scopes = @ \cup Scopes(bundle.tools)]
    BY <1>3, <1>4 DEF WidenAuth
  <2>2. PICK older \in second : old = [older EXCEPT !.mode = m]
    BY <2>1
  <2>3. PICK given, scopes : older = AuthContract(given, scopes)
    BY <2>2
  <2> QED
    BY <2>1, <2>2, <2>3 DEF AuthContract, Serves
<1>7. bundle.auth = {} <=> ~scoped /\ ~added
  <2>0. third = {} <=> second = {}
    <3> HIDE DEF second
    <3> QED
      OBVIOUS
  <2>1. bundle.auth = {} <=> second = {}
    <3>1. bundle.auth = {[a EXCEPT !.required_scopes = @ \cup Scopes(bundle.tools)] : a \in third}
      BY <1>3, <1>4 DEF WidenAuth
    <3> HIDE DEF third, second
    <3> QED
      BY <2>0, <3>1
  <2> QED
    BY <2>1
<1>8. BundleOf(doc, m, o) = bundle
  BY DEF BundleOf, bundle, ensured, compiled
<1> QED
  BY <1>1, <1>3, <1>4, <1>5, <1>6, <1>7, <1>8

(* Every built tool stems from one capability of one operation.            *)
LEMMA ToolOrigin ==
  ASSUME NEW doc \in Documents, NEW m, NEW o \in Files, ReviewOf(doc, o).errors = {},
         NEW t \in BundleOf(doc, m, o).tools
  PROVE  \E c \in Reviewed(doc, o), op \in ToSet(doc.operations) :
           /\ Described(c, doc, op, o)
           /\ t = ToolFor(c, Scoped(doc, o), RecoveriesOf(doc, o), Added(doc, m, o))
           /\ t.name = c.name /\ t.operation = op
<1>1. PICK c \in Reviewed(doc, o) :
        t = ToolFor(c, Scoped(doc, o), RecoveriesOf(doc, o), Added(doc, m, o))
  BY BundleShape
<1>2. PICK op \in ToSet(doc.operations) : Described(c, doc, op, o)
  BY <1>1, CapabilityDescribed
<1>3. t.name = c.name /\ t.operation = c.operation
  <2>1. ToolOf(t, c, Scoped(doc, o), RecoveriesOf(doc, o), Added(doc, m, o))
    BY <1>1, ToolFields
  <2> QED
    BY <2>1 DEF ToolOf
<1>4. c.operation = op
  BY <1>2 DEF Described
<1> QED
  BY <1>1, <1>2, <1>3, <1>4

-----------------------------------------------------------------------------
(* The inductive invariant.                                                *)

WellBuilt(b) ==
  \E doc \in Documents, m \in ModesInUse, o \in Files :
    ReviewOf(doc, o).errors = {} /\ b = ArtifactsOf(doc, m, o)

AdapterIn(b, t) == CHOOSE a \in b.adapters : a.tool_name = t.name

(* What a call through the artifacts b comes to, and its answer.           *)
CalledWith(b, t, args) ==
  LET adapter == AdapterIn(b, t)
      plan == PlanProviderRequest(adapter, args, None)
      errors == IF ~CallAdmitted(t, args) THEN {"INVALID_TOOL_ARGUMENTS"}
                ELSE IF plan.errors # {} THEN plan.errors
                ELSE InjectionErrors(adapter, b.auth_bindings)
  IN [kind |-> "called", tool |-> t, args |-> args,
      errors |-> errors, sent |-> IF errors = {} THEN plan.sent ELSE {}]
AnsweredWith(b, t, status) ==
  [kind |-> "answered", tool |-> t,
   response |-> NormalizeProviderResponse(AdapterIn(b, t), status)]

OutcomeInv ==
  /\ outcome.kind = "called" =>
       \E t \in built.bundle.tools : \E args : outcome = CalledWith(built, t, args)
  /\ outcome.kind = "answered" =>
       \E t \in built.bundle.tools, status \in Statuses : outcome = AnsweredWith(built, t, status)

PipelineInv ==
  /\ source \in Documents /\ mode \in ModesInUse /\ overrides \in Files
  /\ built = NotBuilt \/ WellBuilt(built)
  /\ previous = NotBuilt \/ WellBuilt(previous)
  /\ OutcomeInv

LEMMA PipelineInvariant == Spec => []PipelineInv
<1>1. Init => PipelineInv
  BY DEF Init, PipelineInv, OutcomeInv, Idle, Files, ModesInUse
<1>2. PipelineInv /\ [Next]_vars => PipelineInv'
  <2> SUFFICES ASSUME PipelineInv, [Next]_vars PROVE PipelineInv'
    OBVIOUS
  <2> USE DEF PipelineInv
  <2>1. CASE ImportSource
    BY <2>1 DEF ImportSource, Edit, OutcomeInv, Idle
  <2>2. CASE ConfigureProvider
    BY <2>2 DEF ConfigureProvider, Edit, OutcomeInv, Idle, ModesInUse
  <2>3. CASE SaveOverrides
    BY <2>3 DEF SaveOverrides, Edit, OutcomeInv, Idle, Files
  <2>4. CASE Build
    <3>1. Review.errors = {} /\ built' = Artifacts /\ previous' = built /\ outcome' = Idle
          /\ UNCHANGED <<source, mode, overrides>>
      BY <2>4 DEF Build
    <3>2. ReviewOf(source, overrides).errors = {}
      BY <3>1 DEF Review, ReviewOf
    <3>3. Artifacts = ArtifactsOf(source, mode, overrides)
      BY DEF Artifacts, ArtifactsOf, BundleOf, HintsOf, Reviewed, ReviewOf, Review
    <3>4. WellBuilt(built')
      BY <3>1, <3>2, <3>3 DEF WellBuilt
    <3> QED
      BY <3>1, <3>4 DEF OutcomeInv, Idle
  <2>5. CASE BuildRefused
    BY <2>5 DEF BuildRefused, OutcomeInv
  <2>6. ASSUME NEW t \in built.bundle.tools, NEW args, CallTool(t, args) PROVE PipelineInv'
    <3>1. outcome' = CalledWith(built, t, args)
          /\ UNCHANGED <<source, mode, overrides, built, previous>>
      BY <2>6 DEF CallTool, CalledWith, AdapterOf, AdapterIn
    <3>2. outcome'.kind = "called"
      BY <3>1 DEF CalledWith
    <3> QED
      BY <3>1, <3>2 DEF OutcomeInv
  <2>7. ASSUME NEW status \in Statuses, ProviderAnswers(status) PROVE PipelineInv'
    <3>1. PICK t \in built.bundle.tools : \E args : outcome = CalledWith(built, t, args)
      BY <2>7 DEF ProviderAnswers, OutcomeInv
    <3>2. outcome.tool = t
      BY <3>1 DEF CalledWith
    <3>3. outcome' = AnsweredWith(built, t, status)
          /\ UNCHANGED <<source, mode, overrides, built, previous>>
      BY <2>7, <3>2 DEF ProviderAnswers, AnsweredWith, AdapterOf, AdapterIn
    <3>4. outcome'.kind = "answered"
      BY <3>3 DEF AnsweredWith
    <3> QED
      BY <3>3, <3>4 DEF OutcomeInv
  <2>8. CASE UNCHANGED vars
    BY <2>8 DEF vars, OutcomeInv
  <2> QED
    BY <2>1, <2>2, <2>3, <2>4, <2>5, <2>6, <2>7, <2>8 DEF Next
<1> QED
  BY <1>1, <1>2, PTL DEF Spec

-----------------------------------------------------------------------------
(* A tool of the artifacts.                                                *)

IsBuild(b, doc, m, o) ==
  /\ doc \in Documents /\ m \in ModesInUse /\ o \in Files /\ ReviewOf(doc, o).errors = {}
  /\ b.built = TRUE /\ b.source = doc /\ b.mode = m /\ b.overrides = o
  /\ b.bundle = BundleOf(doc, m, o)
  /\ b.adapters = {ToolAdapter(t) : t \in b.bundle.tools}
  /\ b.auth_bindings = CompileProviderAuthBindings(b.bundle, b.adapters)

LEMMA BuildFields ==
  ASSUME NEW b, WellBuilt(b)
  PROVE  \E doc, m, o : IsBuild(b, doc, m, o)
<1>1. PICK doc \in Documents, m \in ModesInUse, o \in Files :
        ReviewOf(doc, o).errors = {} /\ b = ArtifactsOf(doc, m, o)
  BY DEF WellBuilt
<1>2. IsBuild(b, doc, m, o)
  BY <1>1 DEF IsBuild, ArtifactsOf, CompileProviderAdapters
<1> QED
  BY <1>2

(* A tool has the adapter compiled from it: names are unique.              *)
LEMMA AdapterIsOwn ==
  ASSUME NEW b, WellBuilt(b), NEW t \in b.bundle.tools
  PROVE  AdapterIn(b, t) = ToolAdapter(t)
<1>1. PICK doc, m, o : IsBuild(b, doc, m, o)
  BY BuildFields
<1>2. /\ doc \in Documents /\ m \in ModesInUse /\ o \in Files /\ ReviewOf(doc, o).errors = {}
      /\ b.bundle = BundleOf(doc, m, o) /\ b.adapters = {ToolAdapter(u) : u \in b.bundle.tools}
  BY <1>1 DEF IsBuild
<1>3. ASSUME NEW u \in b.bundle.tools, u.name = t.name PROVE u = t
  <2>1. PICK c \in Reviewed(doc, o) : t = ToolFor(c, Scoped(doc, o), RecoveriesOf(doc, o), Added(doc, m, o))
                                      /\ t.name = c.name
    BY <1>2, ToolOrigin
  <2>2. PICK d \in Reviewed(doc, o) : u = ToolFor(d, Scoped(doc, o), RecoveriesOf(doc, o), Added(doc, m, o))
                                      /\ u.name = d.name
    BY <1>2, ToolOrigin
  <2>3. c = d
    BY <1>2, <1>3, <2>1, <2>2, NamesUnique
  <2> QED
    BY <2>1, <2>2, <2>3
<1>4. \A u : ToolAdapter(u).tool_name = u.name
  BY DEF ToolAdapter
<1> QED
  BY <1>2, <1>3, <1>4 DEF AdapterIn

(* A built tool, its capability and its operation.                         *)
LEMMA BuiltTool ==
  ASSUME NEW b, NEW doc, NEW m, NEW o, IsBuild(b, doc, m, o), NEW t \in b.bundle.tools
  PROVE  \E c \in Reviewed(doc, o), op \in ToSet(doc.operations) :
           /\ Described(c, doc, op, o) /\ t.operation = op
           /\ ToolOf(t, c, Scoped(doc, o), RecoveriesOf(doc, o), Added(doc, m, o))
<1>1. PICK c \in Reviewed(doc, o), op \in ToSet(doc.operations) :
        /\ Described(c, doc, op, o) /\ t.operation = op
        /\ t = ToolFor(c, Scoped(doc, o), RecoveriesOf(doc, o), Added(doc, m, o))
  BY ToolOrigin DEF IsBuild
<1>2. ToolOf(t, c, Scoped(doc, o), RecoveriesOf(doc, o), Added(doc, m, o))
  BY <1>1, ToolFields
<1> QED
  BY <1>1, <1>2

-----------------------------------------------------------------------------
(* The provider's answer.                                                  *)

Patterns == ({"exact", "range"} \X Nat) \cup {<<"default", 0>>}

(* Which patterns match a status, by where they were declared.             *)
LEMMA Matching ==
  ASSUME NEW op, DOMAIN op.responses \subseteq Patterns, NEW status \in Nat
  PROVE  /\ FindMatcher(SuccessResponses(op), status) # {} =>
              status \div 100 = 2
         /\ <<"exact", status>> \in DOMAIN op.responses /\ status \div 100 = 2 =>
              FindMatcher(SuccessResponses(op), status) # {}
         /\ status \div 100 = 2 /\ FindMatcher(ErrorResponses(op), status) # {} =>
              <<"default", 0>> \in DOMAIN op.responses
         /\ status \div 100 = 2 /\ FindMatcher(OtherResponses(op), status) # {} =>
              \/ <<"range", 2>> \in DOMAIN op.responses
              \/ FindMatcher(SuccessResponses(op), status) # {}
<1> DEFINE declared == DOMAIN op.responses
           found == FindMatcher(SuccessResponses(op), status)
<1>0. \A p \in declared : \/ p[1] = "exact" /\ p[2] \in Nat /\ p = <<"exact", p[2]>>
                          \/ p[1] = "range" /\ p[2] \in Nat /\ p = <<"range", p[2]>>
                          \/ p = <<"default", 0>> /\ p[1] = "default"
  BY DEF Patterns
<1>1. \A p : /\ p[1] = "default" => StatusMatches(p, status)
             /\ p[1] = "exact" => (StatusMatches(p, status) <=> p[2] = status)
             /\ p[1] = "range" => (StatusMatches(p, status) <=> p[2] = status \div 100)
  BY DEF StatusMatches
<1>2. ASSUME NEW p \in FindMatcher(SuccessResponses(op), status)
      PROVE  status \div 100 = 2
  BY <1>1, <1>2 DEF FindMatcher, SuccessResponses
<1>3. ASSUME <<"exact", status>> \in declared, status \div 100 = 2
      PROVE  found # {}
  <2>1. <<"exact", status>> \in SuccessResponses(op)
    BY <1>3 DEF SuccessResponses
  <2>2. StatusMatches(<<"exact", status>>, status)
    BY <1>1
  <2> QED
    BY <2>1, <2>2 DEF FindMatcher
<1>4. ASSUME NEW p \in FindMatcher(ErrorResponses(op), status), status \div 100 = 2
      PROVE  <<"default", 0>> \in declared
  <2>1. p \in declared /\ StatusMatches(p, status)
        /\ (p[1] = "default" \/ (p[1] = "exact" /\ p[2] \div 100 \in {4, 5}))
    BY <1>4 DEF FindMatcher, ErrorResponses
  <2>2. ~(p[1] = "exact" /\ p[2] \div 100 \in {4, 5})
    BY <1>1, <1>4, <2>1
  <2> QED
    BY <1>0, <2>1, <2>2
<1>5. ASSUME NEW p \in FindMatcher(OtherResponses(op), status), status \div 100 = 2
      PROVE  <<"range", 2>> \in declared \/ found # {}
  <2>1. p \in declared /\ StatusMatches(p, status) /\ p \notin ErrorResponses(op)
    BY <1>5 DEF FindMatcher, OtherResponses
  <2>2. p[1] # "default"
    BY <2>1 DEF ErrorResponses
  <2>3. CASE p[1] = "exact"
    BY <1>0, <1>1, <1>3, <1>5, <2>1, <2>3
  <2>4. CASE p[1] = "range"
    BY <1>0, <1>1, <1>5, <2>1, <2>4
  <2> QED
    BY <1>0, <2>1, <2>2, <2>3, <2>4
<1> QED
  BY <1>2, <1>3, <1>4, <1>5

LEMMA Normalized ==
  ASSUME NEW adapter, NEW status
  PROVE  LET r == NormalizeProviderResponse(adapter, status)
             success == FindMatcher(adapter.success, status)
             failure == FindMatcher(adapter.errors, status) \cup FindMatcher(adapter.other, status)
         IN /\ r.status = status
            /\ r.ok <=> success # {} \/ (status \in 200..299 /\ failure = {})
            /\ r.retryable <=> ~r.ok /\ IsRetryable(status)
<1> DEFINE success == FindMatcher(adapter.success, status)
           failure == FindMatcher(adapter.errors, status) \cup FindMatcher(adapter.other, status)
           ok == success # {} \/ (status \in 200..299 /\ failure = {})
           retryable == ~ok /\ IsRetryable(status)
           category == IF ok THEN None ELSE CategoryForStatus(status)
           r == NormalizeProviderResponse(adapter, status)
<1>1. r = [ok |-> ok, status |-> status, category |-> category, retryable |-> retryable]
  BY DEF NormalizeProviderResponse
<1>2. ok \in BOOLEAN /\ retryable \in BOOLEAN /\ (retryable <=> ~ok /\ IsRetryable(status))
  OBVIOUS
<1> HIDE DEF ok, retryable, category, r
<1>3. r.status = status /\ r.ok = ok /\ r.retryable = retryable
  BY <1>1
<1> QED
  BY <1>2, <1>3 DEF ok, r

(* What the runtime makes of the provider's answer agrees with the status  *)
(* and with what the document declares (normalizeProviderResponse): no     *)
(* failure is taken for a success, no success is retried, and a success is *)
(* reported as a failure only where "default" or a range declares it.      *)
THEOREM PipelineAnswers == Spec => []AnswersReadRight
<1>1. PipelineInv => AnswersReadRight
  <2> SUFFICES ASSUME PipelineInv, outcome.kind = "answered"
               PROVE  LET r == outcome.response
                          declared == DOMAIN outcome.tool.operation.responses
                      IN /\ r.ok => r.status \in 200..299 /\ ~r.retryable
                         /\ r.status \in 200..299 /\ ~r.ok =>
                              /\ <<"exact", r.status>> \notin declared
                              /\ {<<"default", 0>>, <<"range", 2>>} \cap declared # {}
    BY DEF AnswersReadRight
  <2>1. PICK t \in built.bundle.tools, status \in Statuses : outcome = AnsweredWith(built, t, status)
    BY DEF PipelineInv, OutcomeInv
  <2>2. WellBuilt(built)
    BY <2>1 DEF PipelineInv, NotBuilt
  <2>3. outcome.tool = t /\ outcome.response = NormalizeProviderResponse(ToolAdapter(t), status)
    BY <2>1, <2>2, AdapterIsOwn DEF AnsweredWith
  <2> DEFINE op == t.operation
             success == FindMatcher(SuccessResponses(op), status)
             failure == FindMatcher(ErrorResponses(op), status) \cup FindMatcher(OtherResponses(op), status)
             r == outcome.response
  <2>4. /\ ToolAdapter(t).success = SuccessResponses(op) /\ ToolAdapter(t).errors = ErrorResponses(op)
        /\ ToolAdapter(t).other = OtherResponses(op)
    BY DEF ToolAdapter
  <2>5. /\ r.status = status /\ (r.ok <=> success # {} \/ (status \in 200..299 /\ failure = {}))
        /\ r.retryable <=> ~r.ok /\ IsRetryable(status)
    BY <2>3, <2>4, Normalized
  <2>6. PICK doc, m, o : IsBuild(built, doc, m, o)
    BY <2>2, BuildFields
  <2>7. doc \in Documents /\ op \in ToSet(doc.operations)
    <3>1. doc \in Documents
      BY <2>6 DEF IsBuild
    <3>2. op \in ToSet(doc.operations)
      BY <2>6, BuiltTool
    <3> QED
      BY <3>1, <3>2
  <2>8. DOMAIN op.responses \subseteq Patterns
    BY <2>7, DocumentAssumption DEF Patterns
  <2>9. status \in Nat /\ (status \in 200..299 <=> status \div 100 = 2)
    BY StatusAssumption
  <2>10. r.ok => r.status \in 200..299 /\ ~r.retryable
    BY <2>5, <2>8, <2>9, Matching
  <2>11. ASSUME r.status \in 200..299, ~r.ok
         PROVE  /\ <<"exact", r.status>> \notin DOMAIN op.responses
                /\ {<<"default", 0>>, <<"range", 2>>} \cap DOMAIN op.responses # {}
    <3>1. success = {} /\ failure # {}
      BY <2>5, <2>11
    <3> QED
      BY <3>1, <2>5, <2>8, <2>9, <2>11, Matching
  <2> QED
    BY <2>3, <2>10, <2>11
<1> QED
  BY <1>1, PipelineInvariant, PTL

-----------------------------------------------------------------------------
(* Governance.                                                             *)

(* The policy and approval of a built tool are its capability's.           *)
Governs(b, t, c) ==
  /\ PoliciesOf(b.bundle, t) = {PolicyContract(c)}
  /\ c.approval_mode # None => ApprovalsOf(b.bundle, t) = {ApprovalContract(c)}
  /\ c.approval_mode = None => ApprovalsOf(b.bundle, t) = {}

LEMMA ContractsOfTool ==
  ASSUME NEW b, NEW doc, NEW m, NEW o, IsBuild(b, doc, m, o),
         NEW t, NEW c \in Reviewed(doc, o), t.name = c.name
  PROVE  Governs(b, t, c)
<1>1. /\ ReviewOf(doc, o).errors = {} /\ b.bundle = BundleOf(doc, m, o)
  BY DEF IsBuild
<1>2. /\ b.bundle.policies = {PolicyContract(d) : d \in Reviewed(doc, o)}
      /\ b.bundle.approvals = {ApprovalContract(d) : d \in {e \in Reviewed(doc, o) : e.approval_mode # None}}
  BY <1>1, BundleShape
<1>3. \A d : PolicyContract(d).tool = d.name /\ ApprovalContract(d).tool = d.name
  BY DEF PolicyContract, ApprovalContract
<1>4. \A d \in Reviewed(doc, o) : d.name = t.name <=> d = c
  BY <1>1, NamesUnique
<1>5. PoliciesOf(b.bundle, t) = {PolicyContract(c)}
  BY <1>2, <1>3, <1>4 DEF PoliciesOf
<1>6. /\ \A a \in ApprovalsOf(b.bundle, t) : a = ApprovalContract(c) /\ c.approval_mode # None
      /\ c.approval_mode # None => ApprovalContract(c) \in ApprovalsOf(b.bundle, t)
  BY <1>2, <1>3, <1>4 DEF ApprovalsOf
<1> QED
  BY <1>5, <1>6 DEF Governs

(* What the invariants say of a tool, in terms of its capability.          *)
LEMMA ToolReviewed ==
  ASSUME NEW doc, NEW m, NEW o, IsBuild(built, doc, m, o), NEW t \in Tools
  PROVE  \E c \in Reviewed(doc, o), op \in ToSet(doc.operations) :
           /\ Described(c, doc, op, o) /\ t.operation = op
           /\ ToolOf(t, c, Scoped(doc, o), RecoveriesOf(doc, o), Added(doc, m, o))
           /\ Inspected(t) = c.signals /\ ClassifiedRisk(t) = Risk(doc, op)
           /\ Auth(built.source, t.operation) = Auth(doc, op)
           /\ c.source_operation_id \in DOMAIN o => OverrideOf(t) = o[c.source_operation_id]
           /\ c.source_operation_id \notin DOMAIN o =>
                OverrideOf(t).risk_class = Keep /\ OverrideOf(t).required_scopes = {}
<1>1. built.source = doc /\ built.overrides = o
  BY DEF IsBuild
<1>2. PICK c \in Reviewed(doc, o), op \in ToSet(doc.operations) :
        /\ Described(c, doc, op, o) /\ t.operation = op
        /\ ToolOf(t, c, Scoped(doc, o), RecoveriesOf(doc, o), Added(doc, m, o))
  BY BuiltTool DEF Tools
<1>3. c.signals = Signals(doc, op) /\ c.source_operation_id = OperationId(op)
  BY <1>2 DEF Described
<1>4. /\ Inspected(t) = c.signals /\ ClassifiedRisk(t) = Risk(doc, op)
      /\ Auth(built.source, t.operation) = Auth(doc, op)
  BY <1>1, <1>2, <1>3 DEF Inspected, ClassifiedRisk, Risk
<1>5. /\ c.source_operation_id \in DOMAIN o => OverrideOf(t) = o[c.source_operation_id]
      /\ c.source_operation_id \notin DOMAIN o =>
           OverrideOf(t).risk_class = Keep /\ OverrideOf(t).required_scopes = {}
  BY <1>1, <1>2, <1>3 DEF OverrideOf
<1> QED
  BY <1>2, <1>4, <1>5

(* A dangerous risk without an approval was raised so by the reviewer.     *)
LEMMA RaisedOrAsked ==
  ASSUME NEW doc, NEW o \in Files, NEW c, NEW op, Described(c, doc, op, o), NEW t,
         ClassifiedRisk(t) = Risk(doc, op),
         c.source_operation_id \in DOMAIN o => OverrideOf(t) = o[c.source_operation_id],
         c.source_operation_id \notin DOMAIN o => OverrideOf(t).risk_class = Keep,
         c.approval_mode = None, NEW level \in {3, 4}, c.risk_class >= level
  PROVE  RaisedUngoverned(t, level)
<1>1. Raised(c, o, Risk(doc, op)) /\ c.risk_class \in 0..5
  BY ReviewKeepsGovernance
<1> QED
  BY <1>1 DEF Raised, RaisedUngoverned

(* Whatever the document says and the reviewer overrides, what reads as    *)
(* destructive, financial, outbound or credential-changing is behind an    *)
(* approval that is single use and bound, and behind a policy that asks    *)
(* for it, and the confirmation shown agrees (classifyRisk, applyOverride, *)
(* createApprovalContract, buildApprovalPresentation).                     *)
THEOREM PipelineGates == Spec => []HighImpactIsGated
<1>1. PipelineInv => HighImpactIsGated
  <2> SUFFICES ASSUME PipelineInv, built.built, NEW t \in Tools
               PROVE  /\ WordsHighImpact(t) => t.approval_ref /\ Gated(t)
                      /\ t.approval.required <=> t.approval_ref \/ RaisedUngoverned(t, 3)
    BY DEF HighImpactIsGated
  <2>1. PICK doc, m, o : IsBuild(built, doc, m, o)
    BY BuildFields DEF PipelineInv, NotBuilt
  <2>2. PICK c \in Reviewed(doc, o), op \in ToSet(doc.operations) :
           /\ Described(c, doc, op, o) /\ t.operation = op
           /\ ToolOf(t, c, Scoped(doc, o), RecoveriesOf(doc, o), Added(doc, m, o))
           /\ Inspected(t) = c.signals /\ ClassifiedRisk(t) = Risk(doc, op)
           /\ c.source_operation_id \in DOMAIN o => OverrideOf(t) = o[c.source_operation_id]
           /\ c.source_operation_id \notin DOMAIN o => OverrideOf(t).risk_class = Keep
    BY <2>1, ToolReviewed
  <2>3. o \in Files
    BY <2>1 DEF IsBuild
  <2>4. /\ c.risk_class \in 0..5 /\ c.risk_class >= Risk(doc, op) /\ Risk(doc, op) \in 0..5
        /\ Sounds(c.signals) => c.approval_mode # None
        /\ c.approval_mode # None => c.decision \in Deciding
        /\ c.signals.financial => c.risk_class \in {4, 5}
        /\ c.source_operation_id \in DOMAIN o /\ o[c.source_operation_id].risk_class # Keep =>
             c.risk_class = o[c.source_operation_id].risk_class
    BY <2>2, <2>3, ReviewKeepsGovernance
  <2>5. t.approval_ref <=> c.approval_mode # None
    BY <2>2 DEF ToolOf
  <2>6. WordsHighImpact(t) <=> Sounds(c.signals)
    BY <2>2 DEF WordsHighImpact, Sounds
  <2>7. ASSUME c.approval_mode # None PROVE Gated(t)
    <3>1. t.name = c.name
      BY <2>2 DEF ToolOf
    <3>2. PoliciesOf(built.bundle, t) = {PolicyContract(c)}
          /\ ApprovalsOf(built.bundle, t) = {ApprovalContract(c)}
      <4>1. Governs(built, t, c)
        BY <2>1, <2>2, <3>1, ContractsOfTool
      <4> QED
        BY <2>7, <4>1 DEF Governs
    <3>3. PolicyContract(c).default_decision \in Deciding
      BY <2>4, <2>7 DEF PolicyContract
    <3>4. LET a == ApprovalContract(c)
          IN /\ a.single_use
             /\ {"subject", "tool_revision", "arguments_hash"} \subseteq a.binding
             /\ c.risk_class \in {4, 5} => "cost_summary" \in a.binding
      BY DEF ApprovalContract
    <3> QED
      BY <2>2, <2>4, <3>2, <3>3, <3>4 DEF Gated, Deciding
  <2>8. t.approval.required <=> \/ c.approval_mode # None \/ c.risk_class \in {3, 4, 5}
                                \/ c.signals.destructive \/ Effects(c).financial
                                \/ Effects(c).credential_change
    BY <2>2 DEF ToolOf
  <2>9. t.approval.required <=> c.approval_mode # None \/ c.risk_class \in {3, 4, 5}
    <3>1. /\ Effects(c).financial <=> c.signals.financial \/ c.risk_class = 4
          /\ Effects(c).credential_change <=> c.signals.credential_change \/ c.risk_class = 5
      BY DEF Effects
    <3> QED
      BY <2>4, <2>8, <3>1 DEF Sounds
  <2>10. c.approval_mode = None /\ c.risk_class \in {3, 4, 5} => RaisedUngoverned(t, 3)
    BY <2>2, <2>3, RaisedOrAsked
  <2>11. RaisedUngoverned(t, 3) => c.risk_class \in {3, 4, 5}
    BY <2>2, <2>4 DEF RaisedUngoverned
  <2> QED
    BY <2>4, <2>5, <2>6, <2>7, <2>9, <2>10, <2>11
<1> QED
  BY <1>1, PipelineInvariant, PTL

-----------------------------------------------------------------------------
(* Parameters and their places in the request.                             *)

(* The merged parameters of an operation are again one of a place and name, *)
(* and its path parameters are required.                                    *)
Merged(parameters) ==
  /\ ParameterSet(parameters)
  /\ \A p \in parameters : p.location = "path" => p.required

LEMMA MergedIsSet ==
  ASSUME NEW op, ParameterSet(op.parameters), ParameterSet(op.path_parameters)
  PROVE  Merged(MergedParameters(op))
<1> DEFINE Normal(p) == [p EXCEPT !.required = @ \/ p.location = "path"]
           Plain(p) == /\ p = [name |-> p.name, location |-> p.location, required |-> p.required]
                       /\ p.location \in Locations /\ p.required \in BOOLEAN
<1>1. ASSUME NEW p, Plain(p)
      PROVE  /\ Plain(Normal(p)) /\ Normal(p).name = p.name /\ Normal(p).location = p.location
             /\ Normal(p).location = "path" => Normal(p).required
  <2> DEFINE required == p.required \/ p.location = "path"
  <2>1. Normal(p) = [name |-> p.name, location |-> p.location, required |-> required]
    BY <1>1
  <2>2. required \in BOOLEAN
    BY <1>1
  <2>3. p.location = "path" => required = TRUE
    OBVIOUS
  <2> HIDE DEF Normal, required
  <2> QED
    BY <1>1, <2>1, <2>2, <2>3
<1>2. ASSUME NEW S, ParameterSet(S)
      PROVE  /\ IsFiniteSet({Normal(p) : p \in S}) /\ OneOfAName({Normal(p) : p \in S})
             /\ \A p \in {Normal(q) : q \in S} : Plain(p) /\ (p.location = "path" => p.required)
  <2>1. \A p \in S : Plain(p)
    BY <1>2 DEF ParameterSet
  <2> HIDE DEF Normal, Plain
  <2> DEFINE T == {Normal(p) : p \in S}
  <2>2. IsFiniteSet(T)
    <3>1. [p \in S |-> Normal(p)] \in Surjection(S, T)
      BY DEF Surjection
    <3>2. IsFiniteSet(S)
      BY <1>2 DEF ParameterSet
    <3> QED
      BY <3>1, <3>2, FS_Surjection
  <2>3. OneOfAName(T)
    BY <1>1, <1>2, <2>1 DEF OneOfAName, ParameterSet
  <2> QED
    BY <1>1, <2>1, <2>2, <2>3
<1> DEFINE own == {Normal(p) : p \in op.parameters}
           shared == {Normal(p) : p \in op.path_parameters}
           rest == {p \in shared : \A q \in own : <<q.location, q.name>> # <<p.location, p.name>>}
<1>3. MergedParameters(op) = own \cup rest
  BY DEF MergedParameters
<1>4. /\ IsFiniteSet(own) /\ OneOfAName(own)
      /\ \A p \in own : Plain(p) /\ (p.location = "path" => p.required)
  BY <1>2
<1>5. /\ IsFiniteSet(shared) /\ OneOfAName(shared)
      /\ \A p \in shared : Plain(p) /\ (p.location = "path" => p.required)
  BY <1>2
<1> HIDE DEF own, shared
<1>6. IsFiniteSet(own \cup rest)
  BY <1>4, <1>5, FS_Subset, FS_Union
<1>7. OneOfAName(own \cup rest)
  BY <1>4, <1>5 DEF OneOfAName
<1> QED
  BY <1>3, <1>4, <1>5, <1>6, <1>7 DEF Merged, ParameterSet

(* The adapter, which counts the parameters of a name, and the compiler,   *)
(* which looks for another location, agree on each argument's name.        *)
LEMMA BindingsAgree ==
  ASSUME NEW parameters, Merged(parameters)
  PROVE  ParameterBindings(parameters) =
           {[argument_name |-> ArgumentName(parameters, p), source_name |-> p.name,
             location |-> p.location, required |-> p.required] : p \in parameters}
<1>1. IsFiniteSet(parameters) /\ OneOfAName(parameters)
      /\ \A p \in parameters : p.location \in Locations
  BY DEF Merged, ParameterSet
<1>2. ASSUME NEW p \in parameters
      PROVE  Cardinality({q \in parameters : q.name = p.name}) > 1
               <=> \E q \in parameters : q.name = p.name /\ q.location # p.location
  <2> DEFINE same == {q \in parameters : q.name = p.name}
  <2>1. IsFiniteSet(same) /\ p \in same
    BY <1>1, FS_Subset
  <2>2. Cardinality(same) \in Nat /\ Cardinality(same) # 0
    BY <2>1, FS_CardinalityType, FS_EmptySet
  <2>3. Cardinality(same) = 1 <=> same = {p}
    <3>1. Cardinality({p}) = 1 /\ (Cardinality(same) = 1 <=> \E x : same = {x})
      BY <2>1, FS_Singleton
    <3> HIDE DEF same
    <3> QED
      BY <2>1, <3>1
  <2>4. same = {p} <=> ~\E q \in parameters : q.name = p.name /\ q.location # p.location
    BY <1>1, <2>1 DEF OneOfAName
  <2> HIDE DEF same
  <2>5. Cardinality(same) > 1 <=> Cardinality(same) # 1
    BY <2>2
  <2> QED
    BY <2>3, <2>4, <2>5 DEF same
<1>3. \A p \in parameters :
        (IF Cardinality({q \in parameters : q.name = p.name}) > 1
         THEN <<p.location>> \o p.name ELSE p.name) = ArgumentName(parameters, p)
  BY <1>2 DEF ArgumentName
<1>4. {q \in parameters : q.location \in Locations} = parameters
  BY <1>1
<1> QED
  BY <1>3, <1>4 DEF ParameterBindings

-----------------------------------------------------------------------------
(* A call through the artifacts.                                           *)

Parameters(t) == MergedParameters(t.operation)
Argument(t, p) == ArgumentName(Parameters(t), p)
GivenParameters(t, args) == {p \in Parameters(t) : Argument(t, p) \in args}

LEMMA ToolParameters ==
  ASSUME NEW b, NEW doc, NEW m, NEW o, IsBuild(b, doc, m, o), NEW t \in b.bundle.tools
  PROVE  Merged(Parameters(t))
<1>1. doc \in Documents
  BY DEF IsBuild
<1>2. t.operation \in ToSet(doc.operations)
  BY BuiltTool
<1>3. ParameterSet(t.operation.parameters) /\ ParameterSet(t.operation.path_parameters)
  BY <1>1, <1>2, DocumentAssumption
<1> QED
  BY <1>3, MergedIsSet DEF Parameters

(* What a call sends, and when its plan has no error. *)
SentParameters(t, args) ==
  {<<p.location, p.name, Argument(t, p)>> : p \in GivenParameters(t, args)}
SentBody(t, args) ==
  IF BodyBinding(t) # {} /\ Body \in args THEN {<<"body", Body, Body>>} ELSE {}
Plannable(t, args) ==
  /\ \A p \in Parameters(t) : p.required => Argument(t, p) \in args
  /\ Body \in args \/ \A b \in BodyBinding(t) : ~b.required
  /\ {p.name : p \in {q \in GivenParameters(t, args) : q.location = "path"}}
       = TemplateParameters(ToolAdapter(t))

Planned(plan, t, args) ==
  /\ plan.errors = {} <=> Plannable(t, args)
  /\ plan.sent = SentParameters(t, args) \cup SentBody(t, args)

LEMMA PlanOfTool ==
  ASSUME NEW t, NEW args, Merged(Parameters(t))
  PROVE  Planned(PlanProviderRequest(ToolAdapter(t), args, None), t, args)
<1> DEFINE adapter == ToolAdapter(t)
           Binding(p) == [argument_name |-> Argument(t, p), source_name |-> p.name,
                          location |-> p.location, required |-> p.required]
           used == {b \in adapter.parameters : b.argument_name \in args}
           missing == \/ \E b \in adapter.parameters \ used : b.required
                      \/ Body \notin args /\ \E b \in adapter.body : b.required
           inPath == {b.source_name : b \in {c \in used : c.location = "path"}}
           plan == PlanProviderRequest(adapter, args, None)
<1>1. adapter.parameters = {Binding(p) : p \in Parameters(t)} /\ adapter.body = BodyBinding(t)
  BY BindingsAgree DEF ToolAdapter, Parameters, Argument
<1>2. /\ plan.errors = PlanErrors(adapter, args)
      /\ plan.sent = {<<b.location, b.source_name, b.argument_name>> : b \in used} \cup
           (IF adapter.body # {} /\ Body \in args THEN {<<"body", Body, Body>>} ELSE {})
  BY DEF PlanProviderRequest
<1> HIDE DEF adapter, plan
<1> DEFINE Binds(b, p) == /\ b.location = p.location /\ b.source_name = p.name
                          /\ b.argument_name = Argument(t, p) /\ b.required = p.required
<1>3. \A p : Binds(Binding(p), p)
  OBVIOUS
<1> HIDE DEF Binding
<1>4. /\ \A p \in Parameters(t) : \E b \in adapter.parameters : Binds(b, p)
      /\ \A b \in adapter.parameters : \E p \in Parameters(t) : Binds(b, p)
  <2> HIDE DEF Binds
  <2> QED
    BY <1>1, <1>3
<1>5. /\ \A p \in GivenParameters(t, args) : \E b \in used : Binds(b, p)
      /\ \A b \in used : \E p \in GivenParameters(t, args) : Binds(b, p)
  BY <1>4 DEF GivenParameters
<1>6. missing <=> \/ \E p \in Parameters(t) : p.required /\ Argument(t, p) \notin args
                  \/ Body \notin args /\ \E b \in BodyBinding(t) : b.required
  <2>1. (\E b \in adapter.parameters \ used : b.required)
          <=> \E p \in Parameters(t) : p.required /\ Argument(t, p) \notin args
    BY <1>4
  <2> QED
    BY <1>1, <2>1
<1> HIDE DEF used
<1>7. plan.sent = SentParameters(t, args) \cup SentBody(t, args)
  <2>1. {<<b.location, b.source_name, b.argument_name>> : b \in used} = SentParameters(t, args)
    BY <1>5 DEF SentParameters
  <2> QED
    BY <1>1, <1>2, <2>1 DEF SentBody
<1>8. inPath = {p.name : p \in {q \in GivenParameters(t, args) : q.location = "path"}}
  <2>1. ASSUME NEW name, name \in inPath
        PROVE  \E p \in GivenParameters(t, args) : p.location = "path" /\ p.name = name
    BY <1>5, <2>1
  <2>2. ASSUME NEW p \in GivenParameters(t, args), p.location = "path"
        PROVE  p.name \in inPath
    BY <1>5, <2>2
  <2> HIDE DEF inPath
  <2> QED
    BY <2>1, <2>2
<1>9. PlanErrors(adapter, args) = {} <=> ~missing /\ inPath = TemplateParameters(adapter)
  <2> HIDE DEF missing, inPath
  <2>1. PlanErrors(adapter, args) =
          (IF missing THEN {"MISSING_REQUIRED_ARGUMENT"} ELSE {})
          \cup (IF inPath \subseteq TemplateParameters(adapter) THEN {}
                ELSE {"PATH_PARAMETER_NOT_IN_TEMPLATE"})
          \cup (IF TemplateParameters(adapter) \subseteq inPath THEN {}
                ELSE {"UNRESOLVED_PATH_PARAMETER"})
    BY DEF PlanErrors, missing, inPath, used
  <2> QED
    BY <2>1
<1> HIDE DEF missing, inPath
<1>10. plan.errors = {} <=> Plannable(t, args)
  BY <1>2, <1>6, <1>8, <1>9 DEF Plannable, adapter
<1> QED
  BY <1>7, <1>10 DEF Planned, plan, adapter

(* The outcome of a call, stage by stage. *)
CallOf(call, b, t, args) ==
  /\ call.tool = t /\ call.args = args
  /\ call.errors = {} <=> /\ CallAdmitted(t, args) /\ Plannable(t, args)
                          /\ InjectionErrors(ToolAdapter(t), b.auth_bindings) = {}
  /\ call.errors = {} => call.sent = SentParameters(t, args) \cup SentBody(t, args)
  /\ call.errors # {} => call.sent = {}

LEMMA CallStages ==
  ASSUME NEW b, WellBuilt(b), NEW t \in b.bundle.tools, NEW args, Merged(Parameters(t))
  PROVE  CallOf(CalledWith(b, t, args), b, t, args)
<1> DEFINE adapter == ToolAdapter(t)
           plan == PlanProviderRequest(adapter, args, None)
           injection == InjectionErrors(adapter, b.auth_bindings)
           errors == IF ~CallAdmitted(t, args) THEN {"INVALID_TOOL_ARGUMENTS"}
                     ELSE IF plan.errors # {} THEN plan.errors ELSE injection
           sent == IF errors = {} THEN plan.sent ELSE {}
           call == CalledWith(b, t, args)
<1>1. Planned(plan, t, args)
  BY PlanOfTool
<1>2. AdapterIn(b, t) = adapter
  BY AdapterIsOwn
<1>3. call = [kind |-> "called", tool |-> t, args |-> args, errors |-> errors, sent |-> sent]
  BY <1>2 DEF CalledWith
<1> HIDE DEF adapter, plan, injection, call
<1>4. errors = {} <=> CallAdmitted(t, args) /\ plan.errors = {} /\ injection = {}
  OBVIOUS
<1> HIDE DEF errors
<1>5. /\ call.tool = t /\ call.args = args /\ call.errors = errors
      /\ call.errors = {} => call.sent = plan.sent
      /\ call.errors # {} => call.sent = {}
  BY <1>3
<1> QED
  BY <1>1, <1>4, <1>5 DEF CallOf, Planned, call, injection, adapter

(* The call that an outcome tells of. *)
LEMMA OutcomeCall ==
  ASSUME PipelineInv, outcome.kind = "called"
  PROVE  \E t, args, doc, m, o :
           /\ t \in built.bundle.tools /\ IsBuild(built, doc, m, o) /\ CallOf(outcome, built, t, args)
           /\ Merged(Parameters(t))
<1>1. PICK t \in built.bundle.tools : \E args : outcome = CalledWith(built, t, args)
  BY DEF PipelineInv, OutcomeInv
<1>2. PICK args : outcome = CalledWith(built, t, args)
  BY <1>1
<1>3. WellBuilt(built)
  BY <1>1 DEF PipelineInv, NotBuilt
<1>4. PICK doc, m, o : IsBuild(built, doc, m, o)
  BY <1>3, BuildFields
<1>5. Merged(Parameters(t))
  BY <1>4, ToolParameters
<1>6. CallOf(outcome, built, t, args)
  BY <1>2, <1>3, <1>5, CallStages
<1> QED
  BY <1>4, <1>5, <1>6

(* What the model was shown of a tool. *)
LEMMA ShownOfTool ==
  ASSUME NEW b, NEW doc, NEW m, NEW o, IsBuild(b, doc, m, o), NEW t \in b.bundle.tools
  PROVE  /\ t.input_schema = InputSchema(t.operation)
         /\ t.model_input_schema = ShownSchema(t.operation)
<1>1. PICK c \in Reviewed(doc, o), op \in ToSet(doc.operations) :
        /\ Described(c, doc, op, o) /\ t.operation = op
        /\ ToolOf(t, c, Scoped(doc, o), RecoveriesOf(doc, o), Added(doc, m, o))
  BY BuiltTool
<1>2. c.operation = t.operation
  BY <1>1 DEF Described
<1> QED
  BY <1>1, <1>2 DEF ToolOf

(* A cookie is sent only under a name that another parameter of the        *)
(* operation has too (isCookieParameter, buildModelInputSchema): else the  *)
(* advertised schema hides it, and what it hides cannot be sent.           *)
THEOREM PipelineHidesCookies == Spec => []CredentialsStayHidden
<1>1. PipelineInv => CredentialsStayHidden
  <2> SUFFICES ASSUME PipelineInv, outcome.kind = "called",
                      NEW x \in outcome.sent, x[1] = "cookie"
               PROVE  \E p \in MergedParameters(outcome.tool.operation) :
                        p.name = x[2] /\ p.location # "cookie"
    BY DEF CredentialsStayHidden
  <2>1. PICK t, args, doc, m, o :
           /\ t \in built.bundle.tools /\ IsBuild(built, doc, m, o) /\ CallOf(outcome, built, t, args)
    BY OutcomeCall
  <2>2. /\ outcome.tool = t /\ x \in SentParameters(t, args) \cup SentBody(t, args)
        /\ CallAdmitted(t, args)
    BY <2>1 DEF CallOf
  <2>3. x \in SentParameters(t, args)
    BY <2>2 DEF SentBody
  <2>4. PICK p \in GivenParameters(t, args) : x = <<p.location, p.name, Argument(t, p)>>
    BY <2>3 DEF SentParameters
  <2>5. p \in Parameters(t) /\ p.location = "cookie" /\ p.name = x[2] /\ Argument(t, p) \in args
    BY <2>4 DEF GivenParameters
  <2>6. ClassifyName(Parameters(t), Argument(t, p)) = "model_argument"
    <3>1. Argument(t, p) \in t.model_input_schema.properties
      BY <2>2, <2>5 DEF CallAdmitted, SchemaAdmits
    <3>2. t.model_input_schema = ShownSchema(t.operation)
      BY <2>1, ShownOfTool
    <3> QED
      BY <3>1, <3>2 DEF ShownSchema, Parameters
  <2>7. Argument(t, p) # p.name
    <3> SUFFICES ASSUME Argument(t, p) = p.name PROVE FALSE
      OBVIOUS
    <3>1. "cookie" \in {q.location : q \in {r \in Parameters(t) : r.name = Argument(t, p)}}
      BY <2>5
    <3>2. ClassifyName(Parameters(t), Argument(t, p)) = "credential_managed"
      BY <3>1 DEF ClassifyName
    <3> QED
      BY <3>2, <2>6
  <2>8. PICK q \in Parameters(t) : q.name = p.name /\ q.location # p.location
    BY <2>7 DEF Argument, ArgumentName
  <2> QED
    BY <2>2, <2>5, <2>8 DEF Parameters
<1> QED
  BY <1>1, PipelineInvariant, PTL

(* A credential that the runtime must place comes from a mode that the     *)
(* credential boundary does not know.                                      *)
LEMMA InjectionOfTool ==
  ASSUME NEW b, NEW doc, NEW m, NEW o, IsBuild(b, doc, m, o), NEW t \in b.bundle.tools,
         ~(m \in {"basic", "host_managed"} /\ t.auth_ref)
  PROVE  InjectionErrors(ToolAdapter(t), b.auth_bindings) = {}
<1>1. ToolAdapter(t).auth_ref = t.auth_ref
  BY DEF ToolAdapter
<1>2. CASE ~t.auth_ref
  BY <1>1, <1>2 DEF InjectionErrors
<1>3. CASE m \notin {"basic", "host_managed"}
  <2>1. ASSUME NEW binding \in b.auth_bindings PROVE binding.injection = InjectionFor(m)
    <3>1. PICK auth \in b.bundle.auth : binding.injection = InjectionFor(auth.mode)
      BY DEF IsBuild, CompileProviderAuthBindings
    <3>2. b.bundle = BundleOf(doc, m, o)
      BY DEF IsBuild
    <3>3. Serves(auth, m, b.bundle.tools)
      BY <3>2, BundleShape
    <3> QED
      BY <3>1, <3>3 DEF Serves
  <2>2. ~(InjectionFor(m).strategy # None /\ InjectionFor(m).location = "runtime")
    BY <1>3 DEF InjectionFor, None
  <2> QED
    BY <2>1, <2>2 DEF InjectionErrors
<1> QED
  BY <1>2, <1>3

(* Every argument that the advertised schema admits has its place.         *)
LEMMA ArgumentsHavePlaces ==
  ASSUME NEW t, NEW args, t.input_schema = InputSchema(t.operation),
         t.model_input_schema = ShownSchema(t.operation),
         SchemaAdmits(t.model_input_schema, args)
  PROVE  /\ \A x \in SentParameters(t, args) \cup SentBody(t, args) : x[3] \in args
         /\ \A a \in args : \E x \in SentParameters(t, args) \cup SentBody(t, args) : x[3] = a
<1>1. ASSUME NEW x \in SentParameters(t, args) PROVE x[3] \in args
  BY <1>1 DEF SentParameters, GivenParameters
<1>2. ASSUME NEW x \in SentBody(t, args) PROVE x[3] \in args
  BY <1>2 DEF SentBody
<1>3. ASSUME NEW a \in args
      PROVE  \E x \in SentParameters(t, args) \cup SentBody(t, args) : x[3] = a
  <2>1. a \in InputSchema(t.operation).properties
    BY DEF SchemaAdmits, ShownSchema
  <2>2. \/ \E p \in Parameters(t) : a = Argument(t, p)
        \/ a = Body /\ t.operation.body.types # {}
    BY <2>1 DEF InputSchema, Parameters, Argument
  <2>3. CASE \E p \in Parameters(t) : a = Argument(t, p)
    <3>1. PICK p \in Parameters(t) : a = Argument(t, p)
      BY <2>3
    <3>2. <<p.location, p.name, Argument(t, p)>> \in SentParameters(t, args)
      BY <3>1 DEF SentParameters, GivenParameters
    <3> QED
      BY <3>1, <3>2
  <2>4. CASE a = Body /\ t.operation.body.types # {}
    <3>1. BodyBinding(t) # {}
      BY <2>4 DEF BodyBinding
    <3>2. <<"body", Body, Body>> \in SentBody(t, args)
      BY <2>4, <3>1 DEF SentBody
    <3> QED
      BY <2>4, <3>2
  <2> QED
    BY <2>2, <2>3, <2>4
<1> QED
  BY <1>1, <1>2, <1>3

(* A call that the advertised schema admits has a plan without errors,     *)
(* unless the tool requires what the schema hides or the template and the  *)
(* path parameters disagree.                                               *)
LEMMA AdmittedIsPlannable ==
  ASSUME NEW t, NEW args, Merged(Parameters(t)), t.input_schema = InputSchema(t.operation),
         t.model_input_schema = ShownSchema(t.operation),
         SchemaAdmits(t.model_input_schema, args), ~HidesRequired(t), PathAgrees(t)
  PROVE  CallAdmitted(t, args) /\ Plannable(t, args)
<1> DEFINE input == InputSchema(t.operation)
           shown == ShownSchema(t.operation)
<1>1. shown.properties \subseteq input.properties /\ shown.required = input.required \cap shown.properties
  BY DEF ShownSchema
<1>2. input.required \subseteq shown.properties
  BY DEF HidesRequired
<1>3. input.required \subseteq args /\ args \subseteq input.properties
  <2> HIDE DEF input, shown
  <2> QED
    BY <1>1, <1>2 DEF SchemaAdmits, input, shown
<1>4. CallAdmitted(t, args)
  <2> HIDE DEF input
  <2> QED
    BY <1>3 DEF CallAdmitted, SchemaAdmits, input
<1>5. \A p \in Parameters(t) : p.required => Argument(t, p) \in args
  <2>1. \A p \in Parameters(t) : p.required => Argument(t, p) \in input.required
    BY DEF InputSchema, Parameters, Argument
  <2> HIDE DEF input
  <2> QED
    BY <1>3, <2>1
<1>6. Body \in args \/ \A b \in BodyBinding(t) : ~b.required
  <2>1. ASSUME NEW b \in BodyBinding(t) PROVE b.required = (Body \in t.input_schema.required)
    BY <2>1 DEF BodyBinding
  <2> HIDE DEF input
  <2> QED
    BY <1>3, <2>1 DEF input
<1>7. {p.name : p \in {q \in GivenParameters(t, args) : q.location = "path"}}
        = TemplateParameters(ToolAdapter(t))
  <2>1. {q \in GivenParameters(t, args) : q.location = "path"}
          = {q \in MergedParameters(t.operation) : q.location = "path"}
    BY <1>5 DEF GivenParameters, Merged, Parameters
  <2>2. ToolAdapter(t).path_template = t.operation.path
    BY DEF ToolAdapter
  <2>3. TemplateParameters(ToolAdapter(t)) =
          {<<w>> : w \in {t.operation.path[i].word :
                            i \in {j \in DOMAIN t.operation.path : t.operation.path[j].param}}}
    BY <2>2 DEF TemplateParameters
  <2> QED
    BY <2>1, <2>3 DEF PathAgrees
<1> QED
  BY <1>4, <1>5, <1>6, <1>7 DEF Plannable

(* A call that the advertised schema admits reaches the provider, each     *)
(* argument once and in the place the document names (executeProviderTool, *)
(* planProviderRequest), but for the three disagreements the property      *)
(* lists.                                                                  *)
THEOREM PipelineReaches == Spec => []AdmittedCallsReachProvider
<1>1. PipelineInv => AdmittedCallsReachProvider
  <2> SUFFICES ASSUME PipelineInv, outcome.kind = "called"
               PROVE  AdmittedCallsReachProvider
    BY DEF AdmittedCallsReachProvider
  <2>1. PICK t, args, doc, m, o :
           /\ t \in built.bundle.tools /\ IsBuild(built, doc, m, o) /\ CallOf(outcome, built, t, args)
           /\ Merged(Parameters(t))
    BY OutcomeCall
  <2>2. outcome.tool = t /\ outcome.args = args /\ built.mode = m
    BY <2>1 DEF CallOf, IsBuild
  <2>3. t.input_schema = InputSchema(t.operation) /\ t.model_input_schema = ShownSchema(t.operation)
    BY <2>1, ShownOfTool
  <2>4. ASSUME SchemaAdmits(t.model_input_schema, args), ~HidesRequired(t), PathAgrees(t),
               ~(m \in {"basic", "host_managed"} /\ t.auth_ref)
        PROVE  outcome.errors = {}
    <3>1. CallAdmitted(t, args) /\ Plannable(t, args)
      BY <2>1, <2>3, <2>4, AdmittedIsPlannable
    <3>2. InjectionErrors(ToolAdapter(t), built.auth_bindings) = {}
      BY <2>1, <2>4, InjectionOfTool
    <3> QED
      BY <2>1, <3>1, <3>2 DEF CallOf
  <2>5. ASSUME outcome.errors = {}
        PROVE  /\ {x[3] : x \in outcome.sent} = args
               /\ \A x \in outcome.sent :
                    \/ x[1] = "body"
                    \/ \E p \in MergedParameters(t.operation) :
                         x = <<p.location, p.name, ArgumentName(MergedParameters(t.operation), p)>>
    <3>1. outcome.sent = SentParameters(t, args) \cup SentBody(t, args) /\ CallAdmitted(t, args)
      BY <2>1, <2>5 DEF CallOf
    <3>2. /\ \A x \in outcome.sent : x[3] \in args
          /\ \A a \in args : \E x \in outcome.sent : x[3] = a
      BY <3>1, <2>3, ArgumentsHavePlaces DEF CallAdmitted
    <3>3. \A x \in SentParameters(t, args) : \E p \in MergedParameters(t.operation) :
            x = <<p.location, p.name, ArgumentName(MergedParameters(t.operation), p)>>
      BY DEF SentParameters, GivenParameters, Parameters, Argument
    <3>4. \A x \in SentBody(t, args) : x[1] = "body"
      BY DEF SentBody
    <3> QED
      BY <3>1, <3>2, <3>3, <3>4
  <2> QED
    BY <2>2, <2>4, <2>5 DEF AdmittedCallsReachProvider
<1> QED
  BY <1>1, PipelineInvariant, PTL

-----------------------------------------------------------------------------
(* Revisions.                                                              *)

(* Two tools, and two adapters, that differ in nothing but auth_ref. *)
Alike(t, u) ==
  /\ [t EXCEPT !.auth_ref = u.auth_ref] = u
  /\ [ToolAdapter(t) EXCEPT !.auth_ref = ToolAdapter(u).auth_ref] = ToolAdapter(u)

ContractFields ==
  {"name", "auth_ref", "approval_ref", "recovery_ref", "input_schema", "effects",
   "required_scopes", "read_only", "destructive", "idempotency", "asynchronous",
   "domain", "risk_class", "operation", "revision"}
AddedFields == {"model_input_schema", "approval", "quality"}

(* The enrichment does not read the reference to an AuthContract. *)
Enriched(k, z) == EnrichTool([k EXCEPT !.auth_ref = z])

LEMMA EnrichmentIgnoresAuth ==
  ASSUME NEW k, DOMAIN k = ContractFields, NEW z, NEW w
  PROVE  Alike(Enriched(k, z), Enriched(k, w))
<1> DEFINE Linked(x) == [k EXCEPT !.auth_ref = x]
           Next1(x) == [Linked(x) EXCEPT !.required_scopes = InferRequiredScopes(Linked(x))]
           More(x) == [model_input_schema |-> ModelInputSchema(Next1(x)),
                       approval |-> ApprovalPresentation(Next1(x)), quality |-> QualityScore(Next1(x))]
           all == ContractFields \cup AddedFields
           others == ContractFields \ {"auth_ref", "required_scopes"}
<1>1. ASSUME NEW x
      PROVE  /\ DOMAIN Linked(x) = ContractFields /\ Linked(x).auth_ref = x
             /\ \A f \in ContractFields \ {"auth_ref"} : Linked(x)[f] = k[f]
  OBVIOUS
<1>2. InferRequiredScopes(Linked(z)) = InferRequiredScopes(Linked(w))
  <2>1. /\ Linked(z).name = Linked(w).name /\ Linked(z).destructive = Linked(w).destructive
        /\ Linked(z).effects = Linked(w).effects /\ Linked(z).domain = Linked(w).domain
        /\ Linked(z).required_scopes = Linked(w).required_scopes
    BY <1>1 DEF ContractFields
  <2> HIDE DEF Linked
  <2> QED
    BY <2>1 DEF InferRequiredScopes
<1> HIDE DEF Linked
<1>3. ASSUME NEW x
      PROVE  /\ DOMAIN Next1(x) = ContractFields /\ Next1(x).auth_ref = x
             /\ \A f \in others : Next1(x)[f] = k[f]
             /\ Next1(x).required_scopes = InferRequiredScopes(Linked(x))
  BY <1>1 DEF ContractFields
<1>4. EnrichTool(Linked(z)) = [f \in DOMAIN Next1(z) \cup DOMAIN More(z) |->
                                 IF f \in DOMAIN Next1(z) THEN Next1(z)[f] ELSE More(z)[f]]
      /\ EnrichTool(Linked(w)) = [f \in DOMAIN Next1(w) \cup DOMAIN More(w) |->
                                 IF f \in DOMAIN Next1(w) THEN Next1(w)[f] ELSE More(w)[f]]
  BY DEF EnrichTool
<1> HIDE DEF Next1
<1>5. \A f \in ContractFields \ {"auth_ref"} : Next1(z)[f] = Next1(w)[f]
  BY <1>2, <1>3
<1>6. More(z) = More(w)
  <2>1. /\ Next1(z).operation = Next1(w).operation /\ Next1(z).input_schema = Next1(w).input_schema
        /\ Next1(z).approval_ref = Next1(w).approval_ref /\ Next1(z).risk_class = Next1(w).risk_class
        /\ Next1(z).destructive = Next1(w).destructive /\ Next1(z).effects = Next1(w).effects
        /\ Next1(z).name = Next1(w).name /\ Next1(z).asynchronous = Next1(w).asynchronous
    BY <1>5 DEF ContractFields
  <2>2. ModelInputSchema(Next1(z)) = ModelInputSchema(Next1(w))
    BY <2>1 DEF ModelInputSchema
  <2>3. ApprovalPresentation(Next1(z)) = ApprovalPresentation(Next1(w))
    BY <2>1 DEF ApprovalPresentation
  <2>4. QualityScore(Next1(z)) = QualityScore(Next1(w))
    BY <2>1 DEF QualityScore
  <2> QED
    BY <2>2, <2>3, <2>4
<1>7. DOMAIN More(z) = AddedFields /\ DOMAIN More(w) = AddedFields
  BY DEF AddedFields
<1> HIDE DEF More
<1> DEFINE t == Enriched(k, z)
           u == Enriched(k, w)
<1>8. /\ t = [f \in all |-> IF f \in ContractFields THEN Next1(z)[f] ELSE More(z)[f]]
      /\ u = [f \in all |-> IF f \in ContractFields THEN Next1(w)[f] ELSE More(w)[f]]
  BY <1>3, <1>4, <1>7 DEF Enriched, Linked
<1> HIDE DEF t, u
<1>9. /\ u = [f \in all |-> u[f]] /\ t = [f \in all |-> t[f]]
      /\ \A f \in all \ {"auth_ref"} : t[f] = u[f]
  BY <1>5, <1>6, <1>8
<1>10. [t EXCEPT !.auth_ref = u.auth_ref] = u
  <2> HIDE DEF all
  <2>1. DOMAIN t = all
    BY <1>9
  <2> DEFINE v == [t EXCEPT !.auth_ref = u.auth_ref]
  <2>2. v = [f \in all |-> IF f = "auth_ref" THEN u.auth_ref ELSE t[f]]
    BY <1>9, <2>1
  <2>3. \A f \in all : (IF f = "auth_ref" THEN u.auth_ref ELSE t[f]) = u[f]
    BY <1>9
  <2> HIDE DEF v
  <2>4. v = [f \in all |-> u[f]]
    BY <2>2, <2>3
  <2> QED
    BY <1>9, <2>4 DEF v
<1>11. [ToolAdapter(t) EXCEPT !.auth_ref = ToolAdapter(u).auth_ref] = ToolAdapter(u)
  <2>1. /\ t.name = u.name /\ t.revision = u.revision /\ t.required_scopes = u.required_scopes
        /\ t.operation = u.operation /\ t.input_schema = u.input_schema
        /\ t.idempotency = u.idempotency
    BY <1>9 DEF ContractFields
  <2>2. BodyBinding(t) = BodyBinding(u) /\ IdempotencyMode(t) = IdempotencyMode(u)
    BY <2>1 DEF BodyBinding, IdempotencyMode
  <2> QED
    BY <2>1, <2>2 DEF ToolAdapter
<1> QED
  BY <1>10, <1>11 DEF Alike, t, u

(* The revision of a tool tells its capability, and whether it has scopes  *)
(* to be authorized and a recovery: all that its contract is made of.      *)
LEMMA RevisionTells ==
  ASSUME NEW c, NEW scoped, NEW recoveries, NEW added,
         NEW d, NEW scoped2, NEW recoveries2, NEW added2,
         ToolFor(c, scoped, recoveries, added).revision
           = ToolFor(d, scoped2, recoveries2, added2).revision
  PROVE  /\ c = d
         /\ Alike(ToolFor(c, scoped, recoveries, added), ToolFor(d, scoped2, recoveries2, added2))
<1> DEFINE auth == scoped /\ c.required_scopes # {}
           auth2 == scoped2 /\ d.required_scopes # {}
           recovery == {r \in recoveries : r.id = c.name} # {}
           recovery2 == {r \in recoveries2 : r.id = d.name} # {}
           k == ToolContract(c, scoped, recoveries)
           k2 == ToolContract(d, scoped2, recoveries2)
<1>1. Revision(c, auth, recovery) = Revision(d, auth2, recovery2)
  <2>1. ToolOf(ToolFor(c, scoped, recoveries, added), c, scoped, recoveries, added)
    BY ToolFields
  <2>2. ToolOf(ToolFor(d, scoped2, recoveries2, added2), d, scoped2, recoveries2, added2)
    BY ToolFields
  <2> QED
    BY <2>1, <2>2 DEF ToolOf
<1>2. auth \in BOOLEAN /\ auth2 \in BOOLEAN /\ recovery \in BOOLEAN /\ recovery2 \in BOOLEAN
  OBVIOUS
<1>3. c = d /\ auth = auth2 /\ recovery = recovery2
  <2> HIDE DEF auth, auth2, recovery, recovery2
  <2> QED
    BY <1>1, <1>2 DEF Revision
<1>4. k = k2 /\ DOMAIN k = ContractFields
  <2> DEFINE Made(e, a, r) ==
        [name |-> e.name, auth_ref |-> a, approval_ref |-> e.approval_mode # None,
         recovery_ref |-> r, input_schema |-> InputSchema(e.operation),
         effects |-> Effects(e), required_scopes |-> e.required_scopes,
         read_only |-> e.signals.read_only, destructive |-> e.signals.destructive,
         idempotency |-> e.idempotency, asynchronous |-> e.signals.asynchronous,
         domain |-> e.domain, risk_class |-> e.risk_class, operation |-> e.operation,
         revision |-> Revision(e, a, r)]
  <2>1. k = Made(c, auth, recovery) /\ k2 = Made(d, auth2, recovery2)
    BY DEF ToolContract
  <2>2. DOMAIN Made(c, auth, recovery) = ContractFields
    BY DEF ContractFields
  <2> HIDE DEF Made, k, k2, auth, auth2, recovery, recovery2
  <2> QED
    BY <1>3, <2>1, <2>2
<1>5. /\ ToolFor(c, scoped, recoveries, added) = Enriched(k, k.auth_ref \/ added)
      /\ ToolFor(d, scoped2, recoveries2, added2) = Enriched(k2, k2.auth_ref \/ added2)
  BY DEF ToolFor, Enriched
<1> HIDE DEF k, k2, auth, auth2, recovery, recovery2
<1> QED
  BY <1>3, <1>4, <1>5, EnrichmentIgnoresAuth

(* Across two builds, whatever was edited in between: a tool whose         *)
(* revision is unchanged has the same contract, policy, approval and       *)
(* adapter, but for the AuthContract attached after the revision was       *)
(* computed (compileTool, ensureProviderAuth).                             *)
THEOREM PipelineRevisions == Spec => []SameRevisionSameContract
<1>1. PipelineInv => SameRevisionSameContract
  <2> SUFFICES ASSUME PipelineInv, built.built, previous.built,
                      NEW t \in Tools, NEW u \in previous.bundle.tools, t.revision = u.revision
               PROVE  /\ [t EXCEPT !.auth_ref = u.auth_ref] = u
                      /\ PoliciesOf(built.bundle, t) = PoliciesOf(previous.bundle, u)
                      /\ ApprovalsOf(built.bundle, t) = ApprovalsOf(previous.bundle, u)
                      /\ \A a \in built.adapters, b \in previous.adapters :
                           a.tool_revision = t.revision /\ b.tool_revision = t.revision =>
                             [a EXCEPT !.auth_ref = b.auth_ref] = b
    BY DEF SameRevisionSameContract
  <2>1. PICK doc, m, o : IsBuild(built, doc, m, o)
    BY BuildFields DEF PipelineInv, NotBuilt
  <2>2. PICK doc2, m2, o2 : IsBuild(previous, doc2, m2, o2)
    BY BuildFields DEF PipelineInv, NotBuilt
  <2>3. ASSUME NEW x \in Tools
        PROVE  \E c \in Reviewed(doc, o) :
                 x.name = c.name /\ x = ToolFor(c, Scoped(doc, o), RecoveriesOf(doc, o), Added(doc, m, o))
    BY <2>1, ToolOrigin DEF IsBuild, Tools
  <2>4. ASSUME NEW y \in previous.bundle.tools
        PROVE  \E d \in Reviewed(doc2, o2) :
                 y.name = d.name /\ y = ToolFor(d, Scoped(doc2, o2), RecoveriesOf(doc2, o2), Added(doc2, m2, o2))
    BY <2>2, ToolOrigin DEF IsBuild
  <2>5. ASSUME NEW x \in Tools, NEW y \in previous.bundle.tools, x.revision = y.revision
        PROVE  /\ Alike(x, y)
               /\ \E c \in Reviewed(doc, o) : c \in Reviewed(doc2, o2) /\ x.name = c.name /\ y.name = c.name
    <3>1. PICK c \in Reviewed(doc, o) :
            x.name = c.name /\ x = ToolFor(c, Scoped(doc, o), RecoveriesOf(doc, o), Added(doc, m, o))
      BY <2>3
    <3>2. PICK d \in Reviewed(doc2, o2) :
            y.name = d.name /\ y = ToolFor(d, Scoped(doc2, o2), RecoveriesOf(doc2, o2), Added(doc2, m2, o2))
      BY <2>4
    <3>3. c = d /\ Alike(x, y)
      BY <2>5, <3>1, <3>2, RevisionTells
    <3> QED
      BY <3>1, <3>2, <3>3
  <2>6. [t EXCEPT !.auth_ref = u.auth_ref] = u
    BY <2>5 DEF Alike
  <2>7. PoliciesOf(built.bundle, t) = PoliciesOf(previous.bundle, u)
        /\ ApprovalsOf(built.bundle, t) = ApprovalsOf(previous.bundle, u)
    <3>1. PICK c \in Reviewed(doc, o) : c \in Reviewed(doc2, o2) /\ t.name = c.name /\ u.name = c.name
      BY <2>5
    <3>2. Governs(built, t, c)
      BY <2>1, <3>1, ContractsOfTool
    <3>3. Governs(previous, u, c)
      BY <2>2, <3>1, ContractsOfTool
    <3> QED
      BY <3>2, <3>3 DEF Governs
  <2>8. ASSUME NEW a \in built.adapters, NEW b \in previous.adapters,
               a.tool_revision = t.revision, b.tool_revision = t.revision
        PROVE  [a EXCEPT !.auth_ref = b.auth_ref] = b
    <3>1. PICK x \in Tools : a = ToolAdapter(x)
      BY <2>1 DEF IsBuild, Tools
    <3>2. PICK y \in previous.bundle.tools : b = ToolAdapter(y)
      BY <2>2 DEF IsBuild
    <3>3. x.revision = y.revision
      <4>1. a.tool_revision = x.revision
        BY <3>1 DEF ToolAdapter
      <4>2. b.tool_revision = y.revision
        BY <3>2 DEF ToolAdapter
      <4> QED
        BY <4>1, <4>2, <2>8
    <3>4. Alike(x, y)
      BY <2>5, <3>3
    <3> QED
      BY <3>1, <3>2, <3>4 DEF Alike
  <2> QED
    BY <2>6, <2>7, <2>8
<1> QED
  BY <1>1, PipelineInvariant, PTL

-----------------------------------------------------------------------------
(* What the validator holds against a built bundle.                        *)

(* A tool's issues, in terms of its contract alone. *)
Issues(bundle, t) == {code \in DOMAIN ToolIssueHolds(bundle, t) : ToolIssueHolds(bundle, t)[code]}

LEMMA IssueMeans ==
  ASSUME NEW bundle, NEW t, NEW code \in Issues(bundle, t)
  PROVE  \/ /\ code = "TOOL_READ_ONLY_EFFECT_CONFLICT"
            /\ t.read_only /\ (t.effects.writes \/ HighImpact(t))
         \/ /\ code = "TOOL_WRITE_IDEMPOTENCY_REQUIRED"
            /\ t.effects.writes /\ t.idempotency \notin {"supported", "required"}
         \/ /\ code = "TOOL_APPROVAL_REQUIRED"
            /\ HighImpact(t) /\ ~t.approval_ref
         \/ /\ code = "REFERENCE_NOT_FOUND"
            /\ \/ PoliciesOf(bundle, t) = {}
               \/ t.auth_ref /\ bundle.auth = {}
               \/ t.approval_ref /\ ApprovalsOf(bundle, t) = {}
               \/ t.recovery_ref /\ ~\E r \in bundle.recoveries : r.id = t.name
         \/ /\ code = "TOOL_FINANCIAL_RISK_TOO_LOW"
            /\ t.effects.financial /\ \E p \in PoliciesOf(bundle, t) : p.risk_class \notin {4, 5}
         \/ /\ code = "TOOL_AUTH_REFERENCE_REQUIRED"
            /\ t.required_scopes # {} /\ ~t.auth_ref
         \/ /\ code = "TOOL_SCOPE_NOT_AUTHORIZED"
            /\ t.auth_ref /\ \E a \in bundle.auth : ~(t.required_scopes \subseteq a.required_scopes)
<1> DEFINE conflict == t.read_only /\ (t.effects.writes \/ HighImpact(t))
           idempotency == t.effects.writes /\ t.idempotency \notin {"supported", "required"}
           approval == HighImpact(t) /\ ~t.approval_ref
           reference == \/ PoliciesOf(bundle, t) = {}
                        \/ t.auth_ref /\ bundle.auth = {}
                        \/ t.approval_ref /\ ApprovalsOf(bundle, t) = {}
                        \/ t.recovery_ref /\ ~\E r \in bundle.recoveries : r.id = t.name
           financial == t.effects.financial /\ \E p \in PoliciesOf(bundle, t) : p.risk_class \notin {4, 5}
           unreferenced == t.required_scopes # {} /\ ~t.auth_ref
           unauthorized == t.auth_ref /\ \E a \in bundle.auth : ~(t.required_scopes \subseteq a.required_scopes)
           holds == ToolIssueHolds(bundle, t)
<1>1. holds = [TOOL_READ_ONLY_EFFECT_CONFLICT |-> conflict,
               TOOL_WRITE_IDEMPOTENCY_REQUIRED |-> idempotency,
               TOOL_APPROVAL_REQUIRED |-> approval, REFERENCE_NOT_FOUND |-> reference,
               TOOL_FINANCIAL_RISK_TOO_LOW |-> financial,
               TOOL_AUTH_REFERENCE_REQUIRED |-> unreferenced,
               TOOL_SCOPE_NOT_AUTHORIZED |-> unauthorized]
  BY DEF ToolIssueHolds
<1>2. code \in DOMAIN holds /\ holds[code]
  BY DEF Issues
<1> HIDE DEF conflict, idempotency, approval, reference, financial, unreferenced, unauthorized, holds
<1>3. \/ code = "TOOL_READ_ONLY_EFFECT_CONFLICT" /\ conflict
      \/ code = "TOOL_WRITE_IDEMPOTENCY_REQUIRED" /\ idempotency
      \/ code = "TOOL_APPROVAL_REQUIRED" /\ approval
      \/ code = "REFERENCE_NOT_FOUND" /\ reference
      \/ code = "TOOL_FINANCIAL_RISK_TOO_LOW" /\ financial
      \/ code = "TOOL_AUTH_REFERENCE_REQUIRED" /\ unreferenced
      \/ code = "TOOL_SCOPE_NOT_AUTHORIZED" /\ unauthorized
  BY <1>1, <1>2
<1> QED
  BY <1>3 DEF conflict, idempotency, approval, reference, financial, unreferenced, unauthorized

LEMMA ToolIssuesExplained ==
  ASSUME PipelineInv, NEW doc, NEW m, NEW o, IsBuild(built, doc, m, o),
         NEW t \in Tools, NEW code \in Issues(built.bundle, t)
  PROVE  IssueExplained([code |-> code, tool |-> t.name], t)
<1> DEFINE issue == [code |-> code, tool |-> t.name]
<1>1. PICK c \in Reviewed(doc, o), op \in ToSet(doc.operations) :
           /\ Described(c, doc, op, o) /\ t.operation = op
           /\ ToolOf(t, c, Scoped(doc, o), RecoveriesOf(doc, o), Added(doc, m, o))
           /\ Inspected(t) = c.signals /\ ClassifiedRisk(t) = Risk(doc, op)
           /\ Auth(built.source, t.operation) = Auth(doc, op)
           /\ c.source_operation_id \in DOMAIN o => OverrideOf(t) = o[c.source_operation_id]
           /\ c.source_operation_id \notin DOMAIN o =>
                OverrideOf(t).risk_class = Keep /\ OverrideOf(t).required_scopes = {}
  BY ToolReviewed
<1>2. o \in Files /\ built.mode = m /\ built.bundle = BundleOf(doc, m, o)
  BY DEF IsBuild
<1>3. /\ c.risk_class \in 0..5 /\ c.risk_class >= Risk(doc, op) /\ Risk(doc, op) \in 0..5
      /\ Sounds(c.signals) => c.approval_mode # None
      /\ c.signals.financial => c.risk_class \in {4, 5}
      /\ Auth(doc, op).scopes \subseteq c.required_scopes
      /\ c.source_operation_id \in DOMAIN o =>
           o[c.source_operation_id].required_scopes \subseteq c.required_scopes
  BY <1>1, <1>2, ReviewKeepsGovernance
<1>4. /\ t.effects = Effects(c) /\ t.destructive = c.signals.destructive
      /\ t.read_only = c.signals.read_only /\ t.idempotency = c.idempotency
      /\ t.approval_ref <=> c.approval_mode # None
      /\ t.auth_ref <=> (Scoped(doc, o) /\ c.required_scopes # {}) \/ Added(doc, m, o)
      /\ t.recovery_ref <=> {r \in RecoveriesOf(doc, o) : r.id = c.name} # {}
      /\ t.name = c.name
  BY <1>1 DEF ToolOf
<1>5. /\ Effects(c).writes <=> ~c.signals.read_only
      /\ Effects(c).external_communication <=> c.signals.external_communication
      /\ Effects(c).financial <=> c.signals.financial \/ c.risk_class = 4
      /\ Effects(c).credential_change <=> c.signals.credential_change \/ c.risk_class = 5
  BY DEF Effects
<1>6. HighImpact(t) <=> Sounds(c.signals) \/ c.risk_class \in {4, 5}
  BY <1>4, <1>5 DEF HighImpact, Sounds
<1>7. WordsHighImpact(t) <=> Sounds(c.signals)
  BY <1>1 DEF WordsHighImpact, Sounds
<1>8. Governs(built, t, c)
  BY <1>4, ContractsOfTool
<1>9. CASE code = "TOOL_READ_ONLY_EFFECT_CONFLICT"
  <2>1. c.signals.read_only /\ (Sounds(c.signals) \/ c.risk_class \in {4, 5})
    BY <1>4, <1>5, <1>6, <1>9, IssueMeans
  <2>2. ASSUME ~Sounds(c.signals) PROVE OverrideOf(t).risk_class \in {4, 5}
    <3>1. Risk(doc, op) \notin {4, 5}
      <4>1. c.signals = Signals(doc, op)
        BY <1>1 DEF Described
      <4>2. /\ Risk(doc, op) = 4 => Signals(doc, op).financial
            /\ Risk(doc, op) = 5 => Signals(doc, op).credential_change
        BY Classified
      <4> QED
        BY <4>1, <4>2, <2>2 DEF Sounds
    <3>2. c.source_operation_id \in DOMAIN o /\ o[c.source_operation_id].risk_class = c.risk_class
      BY <1>1, <2>1, <2>2, <3>1 DEF Described, Given
    <3> QED
      BY <1>1, <2>1, <2>2, <3>2
  <2> QED
    BY <1>1, <1>7, <1>9, <2>1, <2>2 DEF IssueExplained
<1>10. CASE code = "TOOL_WRITE_IDEMPOTENCY_REQUIRED"
  <2>1. ~c.signals.read_only /\ c.idempotency \notin {"supported", "required"}
    BY <1>4, <1>5, <1>10, IssueMeans
  <2>2. c.signals = Signals(doc, op) /\ c.idempotency = Capability(doc, op, c.name).idempotency
    BY <1>1 DEF Described
  <2>3. ~c.signals.writes
    <3>1. Capability(doc, op, c.name).idempotency
            \in (IF Signals(doc, op).writes THEN {"supported", "required"} ELSE {"not_applicable"})
      <4> DEFINE writes == Signals(doc, op).writes
                 idempotent == Signals(doc, op).read_only \/ op.method \in {"put", "delete"}
                 idempotency == CASE ~writes -> "not_applicable"
                                  [] writes /\ idempotent -> "supported"
                                  [] OTHER -> "required"
      <4>1. Capability(doc, op, c.name).idempotency = idempotency
        BY DEF Capability
      <4> HIDE DEF writes, idempotent
      <4>2. idempotency \in (IF writes THEN {"supported", "required"} ELSE {"not_applicable"})
        OBVIOUS
      <4> QED
        BY <4>1, <4>2 DEF writes
    <3> QED
      BY <2>1, <2>2, <3>1
  <2>4. op.method = "trace"
    <3>1. /\ Signals(doc, op).read_only <=> op.method \in {"get", "head", "options"}
          /\ Signals(doc, op).writes <=> /\ op.method \notin {"get", "head", "options"}
                                        /\ op.method # "trace"
      BY DEF Signals
    <3> QED
      BY <2>1, <2>2, <2>3, <3>1
  <2> QED
    BY <1>1, <1>10, <2>4 DEF IssueExplained
<1>11. CASE code = "TOOL_APPROVAL_REQUIRED"
  <2>1. c.approval_mode = None /\ c.risk_class \in {4, 5}
    BY <1>3, <1>4, <1>6, <1>11, IssueMeans
  <2>2. RaisedUngoverned(t, 4)
    <3>1. c.risk_class >= 4
      BY <2>1
    <3> QED
      BY <1>1, <1>2, <2>1, <3>1, RaisedOrAsked
  <2> QED
    BY <1>11, <2>2 DEF IssueExplained
<1>12. CASE code = "REFERENCE_NOT_FOUND"
  <2>1. /\ built.bundle.recoveries = RecoveriesOf(doc, o)
        /\ built.bundle.auth = {} <=> ~Scoped(doc, o) /\ ~Added(doc, m, o)
    BY <1>2, BundleShape
  <2>2. PoliciesOf(built.bundle, t) # {}
    BY <1>8 DEF Governs
  <2>3. ~(t.auth_ref /\ built.bundle.auth = {})
    BY <1>4, <2>1
  <2>4. ~(t.approval_ref /\ ApprovalsOf(built.bundle, t) = {})
    BY <1>4, <1>8 DEF Governs
  <2>5. ~(t.recovery_ref /\ ~\E r \in built.bundle.recoveries : r.id = t.name)
    BY <1>4, <2>1
  <2> QED
    BY <1>12, <2>2, <2>3, <2>4, <2>5, IssueMeans
<1>13. CASE code = "TOOL_FINANCIAL_RISK_TOO_LOW"
  <2>1. Effects(c).financial /\ \E p \in PoliciesOf(built.bundle, t) : p.risk_class \notin {4, 5}
    BY <1>4, <1>13, IssueMeans
  <2>2. PoliciesOf(built.bundle, t) = {PolicyContract(c)}
    BY <1>8 DEF Governs
  <2>3. PolicyContract(c).risk_class = c.risk_class
    BY DEF PolicyContract
  <2> QED
    BY <1>3, <1>5, <2>1, <2>2, <2>3
<1>14. CASE code = "TOOL_AUTH_REFERENCE_REQUIRED"
  <2>1. ~(Scoped(doc, o) /\ c.required_scopes # {}) /\ ~Added(doc, m, o)
    BY <1>4, <1>14, IssueMeans
  <2>2. c.required_scopes = {}
    BY <2>1 DEF Scoped, Scopes
  <2>3. Auth(built.source, t.operation).scopes \cup OverrideOf(t).required_scopes = {}
    BY <1>1, <1>3, <2>2
  <2>4. ASSUME Scoped(doc, o) PROVE \E u \in Tools : u.auth_ref
    <3>1. PICK d \in Reviewed(doc, o) : d.required_scopes # {}
      BY <2>4 DEF Scoped, Scopes
    <3> DEFINE u == ToolFor(d, Scoped(doc, o), RecoveriesOf(doc, o), Added(doc, m, o))
    <3>2. u \in Tools
      BY <1>2, BundleShape DEF Tools
    <3>3. ToolOf(u, d, Scoped(doc, o), RecoveriesOf(doc, o), Added(doc, m, o))
      BY ToolFields
    <3>4. u.auth_ref
      BY <2>4, <3>1, <3>3 DEF ToolOf
    <3> QED
      BY <3>2, <3>4
  <2>5. built.mode = None \/ \E u \in Tools : u.auth_ref
    BY <1>2, <2>1, <2>4 DEF Added
  <2> QED
    BY <1>14, <2>3, <2>5 DEF IssueExplained
<1>15. CASE code = "TOOL_SCOPE_NOT_AUTHORIZED"
  <2>1. PICK a \in built.bundle.auth : ~(t.required_scopes \subseteq a.required_scopes)
    BY <1>15, IssueMeans
  <2>2. Serves(a, m, built.bundle.tools)
    BY <1>2, BundleShape
  <2>3. t.required_scopes \subseteq Scopes(built.bundle.tools)
    BY DEF Scopes, Tools
  <2> QED
    BY <2>1, <2>2, <2>3 DEF Serves
<1> QED
  BY <1>9, <1>10, <1>11, <1>12, <1>13, <1>14, <1>15, IssueMeans

(* Where an issue comes from. *)
LEMMA IssueSource ==
  ASSUME NEW bundle, NEW issue \in ValidateSemantics(bundle)
  PROVE  \/ \E t \in bundle.tools : \E code \in Issues(bundle, t) :
                issue = [code |-> code, tool |-> t.name]
         \/ issue \in PolicyIssues(bundle)
         \/ issue \in ContractIssues(bundle)
<1> DEFINE IssuesOf(t) == {[code |-> code, tool |-> t.name] : code \in Issues(bundle, t)}
<1>1. ValidateSemantics(bundle) = (UNION {IssuesOf(t) : t \in bundle.tools})
                                  \cup PolicyIssues(bundle) \cup ContractIssues(bundle)
  BY DEF ValidateSemantics, Issues
<1>2. ASSUME NEW t, issue \in IssuesOf(t)
      PROVE  \E code \in Issues(bundle, t) : issue = [code |-> code, tool |-> t.name]
  BY <1>2
<1>3. \/ issue \in UNION {IssuesOf(t) : t \in bundle.tools}
      \/ issue \in PolicyIssues(bundle)
      \/ issue \in ContractIssues(bundle)
  <2> HIDE DEF IssuesOf
  <2> QED
    BY <1>1
<1>4. ASSUME issue \in UNION {IssuesOf(t) : t \in bundle.tools}
      PROVE  \E t \in bundle.tools : issue \in IssuesOf(t)
  <2> HIDE DEF IssuesOf
  <2> QED
    BY <1>4
<1> QED
  BY <1>2, <1>3, <1>4

(* No AuthContract or ApprovalContract of a built bundle is at fault. *)
LEMMA NoContractIssue ==
  ASSUME NEW b, NEW doc, NEW m, NEW o, IsBuild(b, doc, m, o)
  PROVE  ContractIssues(b.bundle) = {}
<1>1. b.bundle = BundleOf(doc, m, o)
  BY DEF IsBuild
<1>2. ASSUME NEW a \in b.bundle.auth
      PROVE  ~a.token_passthrough /\ {"subject", "workspace"} \subseteq a.credential_binding_dimensions
  <2>1. Serves(a, m, b.bundle.tools)
    BY <1>1, BundleShape
  <2> QED
    BY <2>1 DEF Serves
<1>3. ASSUME NEW a \in b.bundle.approvals
      PROVE  {"subject", "tool_revision", "arguments_hash"} \subseteq a.binding
  <2>1. PICK c : a = ApprovalContract(c)
    BY <1>1, BundleShape
  <2>2. {"subject", "tool_revision", "arguments_hash"} \subseteq ApprovalContract(c).binding
    BY DEF ApprovalContract
  <2> QED
    BY <2>1, <2>2
<1> QED
  BY <1>2, <1>3 DEF ContractIssues

(* A policy that allows a dangerous risk: raised ungoverned, unscoped. *)
LEMMA AllowedPolicy ==
  ASSUME PipelineInv, NEW doc, NEW m, NEW o, IsBuild(built, doc, m, o),
         NEW p \in built.bundle.policies, p.risk_class \in {3, 4, 5},
         "allow" \in {p.default_decision, p.rule.decision}
  PROVE  \E t \in Tools : /\ t.name = p.tool
                          /\ RaisedUngoverned(t, 3) /\ Auth(built.source, t.operation).scopes = {}
<1>1. o \in Files /\ ReviewOf(doc, o).errors = {} /\ built.bundle = BundleOf(doc, m, o)
  BY DEF IsBuild
<1>2. PICK c \in Reviewed(doc, o) : p = PolicyContract(c)
  BY <1>1, BundleShape
<1>3. p.tool = c.name /\ c.risk_class \in {3, 4, 5} /\ c.decision = "allow"
  BY <1>2 DEF PolicyContract
<1> DEFINE t == ToolFor(c, Scoped(doc, o), RecoveriesOf(doc, o), Added(doc, m, o))
<1>4. t \in Tools
  BY <1>1, BundleShape DEF Tools
<1>5. t.name = c.name
  <2>1. ToolOf(t, c, Scoped(doc, o), RecoveriesOf(doc, o), Added(doc, m, o))
    BY ToolFields
  <2> QED
    BY <2>1 DEF ToolOf
<1> HIDE DEF t
<1>6. PICK d \in Reviewed(doc, o), op \in ToSet(doc.operations) :
        /\ Described(d, doc, op, o) /\ ToolOf(t, d, Scoped(doc, o), RecoveriesOf(doc, o), Added(doc, m, o))
        /\ ClassifiedRisk(t) = Risk(doc, op) /\ Auth(built.source, t.operation) = Auth(doc, op)
        /\ d.source_operation_id \in DOMAIN o => OverrideOf(t) = o[d.source_operation_id]
        /\ d.source_operation_id \notin DOMAIN o => OverrideOf(t).risk_class = Keep
  BY <1>4, ToolReviewed
<1>7. d = c
  <2>1. t.name = d.name
    BY <1>6 DEF ToolOf
  <2> QED
    BY <1>1, <1>5, <2>1, NamesUnique
<1>8. c.approval_mode = None /\ c.required_scopes = {} /\ Auth(doc, op).scopes \subseteq c.required_scopes
  <2>1. /\ c.decision = "allow" /\ c.risk_class >= 3 => c.approval_mode = None /\ c.required_scopes = {}
        /\ Auth(doc, op).scopes \subseteq c.required_scopes
    BY <1>1, <1>6, <1>7, ReviewKeepsGovernance
  <2> QED
    BY <1>3, <2>1
<1>9. RaisedUngoverned(t, 3)
  <2>1. c.risk_class >= 3
    BY <1>3
  <2> QED
    BY <1>1, <1>6, <1>7, <1>8, <2>1, RaisedOrAsked
<1>10. Auth(built.source, t.operation).scopes = {}
  BY <1>6, <1>8
<1> QED
  BY <1>3, <1>4, <1>5, <1>9, <1>10

(* Studio never runs the validator of the bundle it builds                 *)
(* (buildStudioProject); all that this validator could hold against one is *)
(* of the five kinds the property names, and for the reason it names.      *)
THEOREM PipelineExplains == Spec => []BuiltIssuesExplained
<1>1. PipelineInv => BuiltIssuesExplained
  <2> SUFFICES ASSUME PipelineInv, built.built, NEW issue \in ValidateSemantics(built.bundle)
               PROVE  \E t \in Tools : t.name = issue.tool /\ IssueExplained(issue, t)
    BY DEF BuiltIssuesExplained
  <2>1. PICK doc, m, o : IsBuild(built, doc, m, o)
    BY BuildFields DEF PipelineInv, NotBuilt
  <2>3. ASSUME NEW t \in Tools, NEW code \in Issues(built.bundle, t),
               issue = [code |-> code, tool |-> t.name]
        PROVE  t.name = issue.tool /\ IssueExplained(issue, t)
    BY <2>1, <2>3, ToolIssuesExplained
  <2>4. ASSUME NEW p \in built.bundle.policies, p.risk_class \in {3, 4, 5},
               "allow" \in {p.default_decision, p.rule.decision},
               issue = [code |-> "POLICY_HIGH_RISK_ALLOW", tool |-> p.tool]
        PROVE  \E t \in Tools : t.name = issue.tool /\ IssueExplained(issue, t)
    <3>1. PICK t \in Tools : /\ t.name = p.tool
                             /\ RaisedUngoverned(t, 3) /\ Auth(built.source, t.operation).scopes = {}
      BY <2>1, <2>4, AllowedPolicy
    <3>2. issue.code = "POLICY_HIGH_RISK_ALLOW" /\ issue.tool = p.tool
      BY <2>4
    <3>3. IssueExplained(issue, t)
      BY <3>1, <3>2 DEF IssueExplained
    <3> QED
      BY <3>1, <3>2, <3>3
  <2>5. \/ \E t \in Tools : \E code \in Issues(built.bundle, t) : issue = [code |-> code, tool |-> t.name]
        \/ issue \in PolicyIssues(built.bundle)
    BY <2>1, IssueSource, NoContractIssue DEF Tools
  <2>6. CASE issue \in PolicyIssues(built.bundle)
    <3>1. PICK p \in built.bundle.policies :
            /\ p.risk_class \in {3, 4, 5} /\ "allow" \in {p.default_decision, p.rule.decision}
            /\ issue = [code |-> "POLICY_HIGH_RISK_ALLOW", tool |-> p.tool]
      BY <2>6 DEF PolicyIssues
    <3> QED
      BY <2>4, <3>1
  <2> QED
    BY <2>3, <2>5, <2>6
<1> QED
  BY <1>1, PipelineInvariant, PTL
=============================================================================
