---------------------------- MODULE CapabilityRules ----------------------------
(***************************************************************************)
(* From an OpenAPI operation to a reviewed capability: what the inspection *)
(* reads off a document (source-inspector.ts, openapi-schema-extractor.ts),*)
(* what the mapper makes of it (capability-mapper.ts) and what a Studio    *)
(* override may change (tool-overrides.ts).  Pure operators, no state.     *)
(*                                                                         *)
(* A document is [operations, security, webhooks]; its operations come in  *)
(* inspection order (paths sorted, then HTTP_METHODS).  Identifiers are    *)
(* sequences of words; the lexical classes an operation's text matches     *)
(* ("destructive", "financial", ...) are the set op.words; a declared      *)
(* response status is <<"exact", 200>>, <<"range", 2>> or <<"default", 0>>.*)
(***************************************************************************)
EXTENDS Naturals, FiniteSets, SequencesExt

CONSTANTS Singular,   \* a function: the plural words in use, and their singulars
          Unsafe,     \* the words that no MCP tool name starts with
          Keep        \* the value of an override's field that is not given

-----------------------------------------------------------------------------
(* Inspection *)

SingularOf(word) == IF word \in DOMAIN Singular THEN Singular[word] ELSE word
Tokens(id) == [i \in DOMAIN id |-> SingularOf(id[i])]
PathWords(op) == [i \in DOMAIN op.path |-> op.path[i].word]

OperationId(op) ==
  IF op.operation_id # <<>> THEN op.operation_id ELSE <<op.method>> \o PathWords(op)

Domain(op) ==
  IF op.tags # <<>> THEN op.tags[1]
  ELSE LET fixed == SelectSeq(op.path, LAMBDA part : ~part.param)
       IN IF fixed = <<>> THEN "general" ELSE SingularOf(fixed[1].word)

(* A parameter of the operation replaces the path item's with its location *)
(* and name; a path parameter is required whatever the document says.      *)
MergedParameters(op) ==
  LET Normal(p) == [p EXCEPT !.required = @ \/ p.location = "path"]
      own == {Normal(p) : p \in op.parameters}
      shared == {Normal(p) : p \in op.path_parameters}
  IN own \cup {p \in shared :
                 \A q \in own : <<q.location, q.name>> # <<p.location, p.name>>}

SuccessResponses(op) == {s \in DOMAIN op.responses : s[1] = "exact" /\ s[2] \div 100 = 2}
ErrorResponses(op) ==
  {s \in DOMAIN op.responses : s[1] = "default" \/ (s[1] = "exact" /\ s[2] \div 100 \in {4, 5})}
OtherResponses(op) == DOMAIN op.responses \ (SuccessResponses(op) \cup ErrorResponses(op))

(* The operation's own `security` hides the document's.  The alternatives  *)
(* of a requirement list are pooled: authentication is required as soon as *)
(* one of them names a scheme, with the scopes of all of them.             *)
Auth(doc, op) ==
  LET requirements == IF op.security = Keep THEN doc.security ELSE op.security
  IN [required |-> \E r \in requirements : DOMAIN r # {},
      scopes |-> UNION {UNION {r[scheme] : scheme \in DOMAIN r} : r \in requirements}]

Signals(doc, op) ==
  LET read == op.method \in {"get", "head", "options"}
  IN [read_only |-> read,
      writes |-> ~read /\ op.method # "trace",
      destructive |-> op.method = "delete" \/ "destructive" \in op.words,
      financial |-> "financial" \in op.words,
      external_communication |-> "external" \in op.words,
      credential_change |-> "credential" \in op.words,
      personal_data |-> "personal" \in op.words,
      asynchronous |-> \/ <<"exact", 202>> \in DOMAIN op.responses
                       \/ op.callbacks \/ doc.webhooks \/ "async" \in op.words,
      upload |-> \/ op.body.types \cap {"multipart", "binary"} # {}
                 \/ "upload" \in op.words]

-----------------------------------------------------------------------------
(* Mapping *)

ClassifyRisk(signals, auth) ==
  IF signals.credential_change /\ signals.destructive THEN 5
  ELSE IF signals.financial THEN 4
  ELSE IF \/ signals.destructive
          \/ signals.credential_change
          \/ signals.external_communication THEN 3
  ELSE IF signals.writes THEN 2
  ELSE IF signals.personal_data \/ auth.required THEN 1 ELSE 0

ScopedDecision(scopes) == IF scopes # {} THEN "require_scope" ELSE "allow"

GovernanceFor(risk, auth) ==
  CASE risk = 5 -> [decision |-> "require_approver", approval_mode |-> "dual_control"]
    [] risk = 4 -> [decision |-> "require_widget", approval_mode |-> "secure_widget"]
    [] risk = 3 -> [decision |-> "require_confirmation", approval_mode |-> "chat_explicit"]
    [] risk \in {1, 2} -> [decision |-> ScopedDecision(auth.scopes), approval_mode |-> "none"]
    [] OTHER -> [decision |-> "allow", approval_mode |-> "none"]

ActionWords == {"list", "get", "search", "find", "create", "add", "update", "patch", "set",
                "delete", "remove", "refund", "send", "upload", "download", "generate",
                "render", "approve", "cancel", "revoke", "confirm", "publish", "export",
                "import", "process", "start", "stop", "retry"}

(* A leading or trailing action word ends the name, the resource before it. *)
ProposedName(op) ==
  LET id == OperationId(op)
  IN IF Len(id) > 1 /\ Head(id) \in ActionWords THEN Append(Tokens(Tail(id)), Head(id))
     ELSE IF Len(id) > 1 /\ Last(id) \in ActionWords THEN Append(Tokens(Front(id)), Last(id))
     ELSE Tokens(id)

(* The name given to an operation, and the names used with it. *)
UniqueName(base, method, used) ==
  LET current == IF base \in DOMAIN used THEN used[base] ELSE 0
      counted == (base :> current + 1) @@ used
      qualified == Append(base, method)
  IN CASE current = 0 -> [name |-> base, used |-> counted]
       [] current # 0 /\ qualified \notin DOMAIN counted ->
            [name |-> qualified, used |-> (qualified :> 1) @@ counted]
       [] OTHER -> [name |-> Append(qualified, ToString(current + 1)), used |-> counted]

Capability(doc, op, name) ==
  LET auth == Auth(doc, op)
      signals == Signals(doc, op)
      risk == ClassifyRisk(signals, auth)
      governance == GovernanceFor(risk, auth)
      idempotent == signals.read_only \/ op.method \in {"put", "delete"}
  IN [name |-> name, source_operation_id |-> OperationId(op), domain |-> Domain(op),
      operation |-> op, risk_class |-> risk, decision |-> governance.decision,
      approval_mode |-> governance.approval_mode, required_scopes |-> auth.scopes,
      signals |-> signals, idempotent |-> idempotent,
      idempotency |-> CASE ~signals.writes -> "not_applicable"
                        [] signals.writes /\ idempotent -> "supported"
                        [] OTHER -> "required"]

(* The names of the operations, each in view of those before it. *)
GivenNames(doc) ==
  FoldLeft(LAMBDA done, op :
             LET given == UniqueName(ProposedName(op), op.method, done.used)
             IN [used |-> given.used, names |-> Append(done.names, given.name)],
           [used |-> << >>, names |-> << >>], doc.operations).names

MapCapabilities(doc) ==
  LET names == GivenNames(doc)
  IN [i \in DOMAIN doc.operations |-> Capability(doc, doc.operations[i], names[i])]

(* The first operation of the domain that the hint's second step can be. *)
FirstOf(fitting) == IF fitting = <<>> THEN {} ELSE {Head(fitting)}

(* Tokens are words; those of one or two letters, which the code passes    *)
(* over, are left out of the documents.                                    *)
SharesToken(op, candidate) ==
  (ToSet(Tokens(OperationId(op))) \ {"create", "start", "generate", "process", "job"})
    \cap (ToSet(Tokens(OperationId(candidate))) \ {"get", "status", "job"}) # {}

WorkflowHints(doc) ==
  LET Group(op) == SelectSeq(doc.operations, LAMBDA other : Domain(other) = Domain(op))
      Says(op, word) == word \in ToSet(Tokens(OperationId(op)))
      StatusOf(op) == FirstOf(SelectSeq(Group(op), LAMBDA candidate :
                                /\ candidate.method = "get"
                                /\ Says(candidate, "status")
                                /\ SharesToken(op, candidate)))
      ConfirmOf(op) == FirstOf(SelectSeq(Group(op), LAMBDA candidate :
                                 /\ OperationId(candidate) # OperationId(op)
                                 /\ Says(candidate, "confirm")))
      Hint(kind, op, next) ==
        [kind |-> kind, steps |-> <<OperationId(op), OperationId(next)>>]
  IN UNION {LET signals == Signals(doc, op)
            IN {Hint("async_create_status", op, next) :
                  next \in IF signals.asynchronous /\ signals.writes THEN StatusOf(op) ELSE {}}
               \cup {Hint("upload_confirm", op, next) :
                       next \in IF signals.upload THEN ConfirmOf(op) ELSE {}}
            : op \in ToSet(doc.operations)}

-----------------------------------------------------------------------------
(* Review: an override may raise risk, approval and scopes, rename, disable *)

ApprovalOrder == [none |-> 0, chat_explicit |-> 1, secure_widget |-> 2,
                  approver |-> 3, dual_control |-> 4]

Given(value, default) == IF value = Keep THEN default ELSE value

ValidName(name) == Head(name) \notin Unsafe

DecisionForApproval(approval, scopes) ==
  CASE approval = "chat_explicit" -> "require_confirmation"
    [] approval = "secure_widget" -> "require_widget"
    [] approval \in {"approver", "dual_control"} -> "require_approver"
    [] OTHER -> ScopedDecision(scopes)

(* Mutant: an override may ask for less approval than was classified. *)
OverrideError_Approval(original, override) ==
  IF Given(override.risk_class, original.risk_class) < original.risk_class
  THEN "STUDIO_RISK_DOWNGRADE_FORBIDDEN"
  ELSE IF ~ValidName(Given(override.name, original.name)) THEN "STUDIO_TOOL_NAME_INVALID"
  ELSE "none"

OverrideError(original, override) ==
  IF Given(override.risk_class, original.risk_class) < original.risk_class
  THEN "STUDIO_RISK_DOWNGRADE_FORBIDDEN"
  ELSE IF ApprovalOrder[Given(override.approval_mode, original.approval_mode)]
            < ApprovalOrder[original.approval_mode]
  THEN "STUDIO_APPROVAL_DOWNGRADE_FORBIDDEN"
  ELSE IF ~ValidName(Given(override.name, original.name)) THEN "STUDIO_TOOL_NAME_INVALID"
  ELSE "none"

ApplyOverride(original, override) ==
  LET approval == Given(override.approval_mode, original.approval_mode)
      scopes == original.required_scopes \cup override.required_scopes
  IN [original EXCEPT !.name = Given(override.name, @),
                      !.risk_class = Given(override.risk_class, @),
                      !.approval_mode = approval,
                      !.required_scopes = scopes,
                      !.decision = DecisionForApproval(approval, scopes)]

(* `overrides` is a function from operation ids: of two entries for one    *)
(* operation the code's Map keeps the last.  The result is the reviewed    *)
(* capabilities, or the error that stops the build.                        *)
ApplyStudioOverrides(capabilities, overrides) ==
  LET Overridden(c) == c.source_operation_id \in DOMAIN overrides
      OverrideOf(c) == overrides[c.source_operation_id]
      kept == {i \in DOMAIN capabilities :
                 Overridden(capabilities[i]) => OverrideOf(capabilities[i]).enabled}
      reviewed == [i \in kept |->
                     LET c == capabilities[i]
                     IN IF Overridden(c) THEN ApplyOverride(c, OverrideOf(c)) ELSE c]
      errors == {OverrideError(capabilities[i], OverrideOf(capabilities[i])) :
                   i \in {j \in kept : Overridden(capabilities[j])}} \ {"none"}
      duplicates == \E i, j \in kept : i # j /\ reviewed[i].name = reviewed[j].name
  IN [errors |-> errors \cup IF duplicates THEN {"STUDIO_OVERRIDE_DUPLICATE_NAME"} ELSE {},
      capabilities |-> {reviewed[i] : i \in kept}]

(* A hint survives the review only if both of its operations do. *)
ReviewedHints(hints, capabilities) ==
  {h \in hints : \A id \in ToSet(h.steps) :
                   \E c \in capabilities : c.source_operation_id = id}
=============================================================================
