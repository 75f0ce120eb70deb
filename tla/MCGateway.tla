------------------------------- MODULE MCGateway -------------------------------
(* Instances of Gateway for TLC. *)
EXTENDS Gateway, TLC

(* Bindings to the billing provider: by an API key, or by a bearer token,  *)
(* whose audience is validated.                                            *)
Provider(scopes) ==
  [auth_ref |-> "provider", auth_mode |-> "api_key", audience |-> Nothing,
   dimensions |-> {"client"}, scopes |-> scopes]
Bearer(scopes) == [Provider(scopes) EXCEPT !.auth_mode = "bearer", !.audience = "api"]
Tool(scopes, governed, decision, financial, binding) ==
  [scopes |-> scopes, governed |-> governed, decision |-> decision, financial |-> financial,
   secretive |-> FALSE, binding |-> binding, revision |-> 1]

(* The demo that the configuration is made from. *)
Demo == "get" :> Tool({"customer:read"}, FALSE, "allow", FALSE, Provider({"customer:read"}))

(* A read and a governed action, in several packages: revised; with a      *)
(* field named like a secret; called with a bearer token; and a payment.   *)
Billing ==
     "get" :> Tool({"billing:read"}, FALSE, "allow", FALSE, Provider({"billing:read"}))
  @@ "void" :> Tool({"billing:write"}, TRUE, "require_approver", FALSE, Provider({"billing:write"}))
Revised == [Billing EXCEPT !["void"].revision = 2, !["get"].decision = "deny"]
Accounts == [Billing EXCEPT !["void"].secretive = TRUE, !["get"].binding = Bearer({"billing:read"})]
Payments ==
     "get" :> Tool({"billing:read"}, FALSE, "allow", TRUE, Nothing)
  @@ "pay" :> Tool({"billing:write"}, TRUE, "require_approver", TRUE, Provider({"billing:write"}))

DemoScopes == BuiltIn \cup {"customer:read"}
AllScopes == DemoScopes \cup {"billing:read", "billing:write"}

Account(id, client, scopes, expires_at) ==
  [id |-> id, auth_ref |-> "provider", mode |-> "api_key", provider_ref |-> "billing",
   provider_account_ref |-> "main", client |-> client, scopes |-> scopes, audiences |-> {},
   expires_at |-> expires_at, active |-> TRUE]
ForBearer(account, audiences) == [account EXCEPT !.mode = "bearer", !.audiences = audiences]
(* Studio's; one where an account of fewer scopes comes first, and after   *)
(* one for another provider; and one of bearer tokens, of which the first  *)
(* is for another audience.                                                *)
StudioCatalog == {Account(1, "chatgpt-client", AllScopes, Nothing)}
OwnCatalog ==
  {[Account(0, "registered", AllScopes, Nothing) EXCEPT !.provider_ref = "crm"],
   Account(1, "registered", {"billing:read"}, 2), Account(2, "registered", AllScopes, Nothing)}
BearerCatalog ==
  {ForBearer(Account(1, "registered", AllScopes, 2), {"other"}),
   ForBearer(Account(2, "registered", AllScopes, Nothing), {"api", "other"}),
   Account(3, "registered", AllScopes, Nothing)}

AllTrusted == [policy |-> Nothing, approval |-> Nothing, budget |-> Nothing]
NoEvidence == [name \in {"get", "void", "pay"} |-> [approval |-> Nothing, budget |-> Nothing]]
Earlier(name) ==
  [binding |-> Binding(name, Payments[name],
                       [client |-> "registered", provider_ref |-> "billing",
                        provider_account_ref |-> Nothing, at |-> 0]),
   issued_at |-> 0, expires_at |-> 9]
EarlierApproval(name) == Earlier(name) @@ [valid |-> TRUE, cost |-> "estimated"]
EarlierBudget(name) == Earlier(name) @@ [sufficient |-> TRUE]
WithEvidence ==
  [NoEvidence EXCEPT !["get"].budget = EarlierBudget("get"), !["pay"].approval = EarlierApproval("pay")]
Budgeted == [NoEvidence EXCEPT !["void"].budget = EarlierBudget("get")]

Site(supported, catalog, trust, evidence, packages) ==
  [supported |-> supported, client |-> "registered", provider_ref |-> "billing",
   provider_account_ref |-> Nothing, catalog |-> catalog, trust |-> trust,
   evidence |-> evidence, packages |-> packages]
(* Initialized for the demo and deployed over; made for what is deployed,  *)
(* with its own accounts, then with a budget for what costs nothing, then  *)
(* with bearer tokens; or made with evidence beforehand and Studio's       *)
(* catalog.                                                                *)
MCSites ==
  {Site(DemoScopes, StudioCatalog, AllTrusted, NoEvidence, <<Demo, Billing>>),
   Site(AllScopes, OwnCatalog, AllTrusted, NoEvidence, <<Billing, Revised>>),
   Site(AllScopes, BearerCatalog, AllTrusted, Budgeted, <<Billing>>),
   Site(AllScopes, BearerCatalog, [AllTrusted EXCEPT !.approval = 2], NoEvidence, <<Accounts>>),
   Site(AllScopes, StudioCatalog, AllTrusted, WithEvidence, <<Payments>>)}
StudioSites == {Site(DemoScopes, StudioCatalog, AllTrusted, NoEvidence, <<Billing>>)}

MCRequests ==
  [goal : {"scan", "get", "void", "pay"}, form : {"good"}]
    \cup [goal : {"scan"}, form : {"malformed", "mirror", "notification"}]
    \cup [goal : {"void"}, form : {"unfit"}]
=============================================================================
