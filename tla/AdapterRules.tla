------------------------------ MODULE AdapterRules ------------------------------
(***************************************************************************)
(* From the contract bundle to the provider's HTTP API: the adapter and    *)
(* authentication binding of each tool (provider-adapter-compiler.ts,      *)
(* provider-auth-binding-compiler.ts), the request planned from a call's   *)
(* arguments (request-planner.ts) and the reading of the provider's answer *)
(* (response-normalizer.ts).  Pure operators, no state.                    *)
(*                                                                         *)
(* Argument values are left out: they are taken to have the shape that     *)
(* their place in the request needs.                                       *)
(***************************************************************************)
EXTENDS ContractRules

Locations == {"path", "query", "header", "cookie"}

(* Mutant: duplicated parameters keep their name. *)
ParameterBindings_Plain(parameters) ==
  {[argument_name |-> p.name, source_name |-> p.name, location |-> p.location,
    required |-> p.required] : p \in {q \in parameters : q.location \in Locations}}

(* The adapter renames duplicated parameters by itself, over the parameter *)
(* contract that the tool carries.                                         *)
ParameterBindings(parameters) ==
  {[argument_name |-> IF Cardinality({q \in parameters : q.name = p.name}) > 1
                      THEN <<p.location>> \o p.name ELSE p.name,
    source_name |-> p.name, location |-> p.location, required |-> p.required]
   : p \in {q \in parameters : q.location \in Locations}}

(* The first media type that the compiler knows, without the one it has    *)
(* for a JSON body with a binary field.                                    *)
BodyBinding(t) ==
  LET types == t.operation.body.types
      encoding == IF "json" \in types THEN "json"
                  ELSE IF "form" \in types THEN "form_urlencoded"
                  ELSE IF "multipart" \in types THEN "multipart_descriptor"
                  ELSE "artifact_reference"
  IN IF types = {} /\ Body \notin t.input_schema.properties THEN {}
     ELSE {[required |-> Body \in t.input_schema.required, encoding |-> encoding]}

IdempotencyMode(t) ==
  [required |-> "required", supported |-> "optional", not_applicable |-> "none"][t.idempotency]

ToolAdapter(t) ==
  [tool_name |-> t.name, tool_revision |-> t.revision, auth_ref |-> t.auth_ref,
   required_scopes |-> t.required_scopes, method |-> t.operation.method,
   path_template |-> t.operation.path,
   parameters |-> ParameterBindings(MergedParameters(t.operation)),
   body |-> BodyBinding(t), idempotency |-> IdempotencyMode(t),
   success |-> SuccessResponses(t.operation), errors |-> ErrorResponses(t.operation),
   other |-> OtherResponses(t.operation)]

CompileProviderAdapters(bundle) == {ToolAdapter(t) : t \in bundle.tools}

InjectionFor(mode) ==
  CASE mode = "bearer" -> [strategy |-> "bearer_token", location |-> "header"]
    [] mode = "api_key" -> [strategy |-> "api_key", location |-> "header"]
    [] mode = "basic" -> [strategy |-> "basic_auth", location |-> "runtime"]
    [] mode = "host_managed" -> [strategy |-> "host_managed", location |-> "runtime"]
    [] OTHER -> [strategy |-> "none", location |-> "runtime"]

CompileProviderAuthBindings(bundle, adapters) ==
  LET referencing == {a \in adapters : a.auth_ref}
  IN {[auth_mode |-> auth.mode, tool_ids |-> {a.tool_name : a \in referencing},
       required_scopes |-> auth.required_scopes \cup Scopes(referencing),
       binding_dimensions |-> auth.credential_binding_dimensions,
       injection |-> InjectionFor(auth.mode)] : auth \in bundle.auth}

-----------------------------------------------------------------------------
(* A call: the model's arguments are checked against the schema it was     *)
(* shown and, unchanged, against the tool's full schema.                   *)
SchemaAdmits(schema, args) == args \subseteq schema.properties /\ schema.required \subseteq args

CallAdmitted(t, args) ==
  SchemaAdmits(t.model_input_schema, args) /\ SchemaAdmits(t.input_schema, args)

TemplateParameters(adapter) ==
  {<<adapter.path_template[i].word>> :
     i \in {j \in DOMAIN adapter.path_template : adapter.path_template[j].param}}

PlanErrors(adapter, args) ==
  LET used == {b \in adapter.parameters : b.argument_name \in args}
      inPath == {b.source_name : b \in {c \in used : c.location = "path"}}
      missing == \/ \E b \in adapter.parameters \ used : b.required
                 \/ Body \notin args /\ \E b \in adapter.body : b.required
  IN (IF missing THEN {"MISSING_REQUIRED_ARGUMENT"} ELSE {})
     \cup (IF inPath \subseteq TemplateParameters(adapter) THEN {}
           ELSE {"PATH_PARAMETER_NOT_IN_TEMPLATE"})
     \cup (IF TemplateParameters(adapter) \subseteq inPath THEN {}
           ELSE {"UNRESOLVED_PATH_PARAMETER"})

(* Where each argument goes, as <<location, name, argument>>, and the      *)
(* idempotency key: the caller's, or one derived from the tool's revision  *)
(* and the arguments.                                                      *)
PlanProviderRequest(adapter, args, key) ==
  LET used == {b \in adapter.parameters : b.argument_name \in args}
      body == IF adapter.body # {} /\ Body \in args THEN {<<"body", Body, Body>>} ELSE {}
  IN [errors |-> PlanErrors(adapter, args),
      sent |-> {<<b.location, b.source_name, b.argument_name>> : b \in used} \cup body,
      unused |-> args \ ({b.argument_name : b \in used} \cup {x[3] : x \in body}),
      key |-> CASE adapter.idempotency = "none" -> None
                [] adapter.idempotency # "none" /\ key # None -> key
                [] adapter.idempotency = "required" /\ key = None -> "dry_run_generated"
                [] OTHER -> None]

(* The credential boundary puts the secret in a header, and knows no other *)
(* place than those of the binding: a runtime-located credential is refused *)
(* after the dispatch was reserved.  The environment is taken to hold the  *)
(* credential's material; Gateway's Refuse has the call that it fails.     *)
InjectionErrors(adapter, bindings) ==
  IF adapter.auth_ref /\ \E b \in bindings : /\ b.injection.strategy # None
                                             /\ b.injection.location = "runtime"
  THEN {"HOST_MANAGED_CREDENTIAL_UNRESOLVED"} ELSE {}

-----------------------------------------------------------------------------
(* The provider's answer *)

StatusMatches(pattern, status) ==
  CASE pattern[1] = "default" -> TRUE
    [] pattern[1] = "exact" -> pattern[2] = status
    [] pattern[1] = "range" -> pattern[2] = status \div 100

FindMatcher(patterns, status) == {p \in patterns : StatusMatches(p, status)}

CategoryForStatus(status) ==
  CASE status \in {400, 405, 406, 415, 422} -> "invalid_request"
    [] status = 401 -> "authentication"
    [] status = 403 -> "authorization"
    [] status \in {404, 410} -> "not_found"
    [] status \in {409, 412} -> "conflict"
    [] status \in {408, 504} -> "timeout"
    [] status \in {425, 429} -> "rate_limited"
    [] status \in {502, 503} -> "provider_unavailable"
    [] OTHER -> "provider_error"

IsRetryable(status) == status \in {408, 425, 429, 500, 502, 503, 504}

(* Mutant: a declared failure is looked for first. *)
NormalizeProviderResponse_FailureFirst(adapter, status) ==
  LET failure == FindMatcher(adapter.errors, status) \cup FindMatcher(adapter.other, status)
      ok == failure = {} /\ (FindMatcher(adapter.success, status) # {} \/ status \in 200..299)
  IN [ok |-> ok, status |-> status,
      category |-> IF ok THEN None ELSE CategoryForStatus(status),
      retryable |-> ~ok /\ IsRetryable(status)]

NormalizeProviderResponse(adapter, status) ==
  LET success == FindMatcher(adapter.success, status)
      failure == FindMatcher(adapter.errors, status) \cup FindMatcher(adapter.other, status)
      ok == success # {} \/ (status \in 200..299 /\ failure = {})
  IN [ok |-> ok, status |-> status,
      category |-> IF ok THEN None ELSE CategoryForStatus(status),
      retryable |-> ~ok /\ IsRetryable(status)]
=============================================================================
