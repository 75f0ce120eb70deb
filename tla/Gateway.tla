-------------------------------- MODULE Gateway --------------------------------
(***************************************************************************)
(* A deployed app as its client meets it: one HTTP endpoint behind OAuth   *)
(* (app-http-server.ts, mcp/http-server.ts, oauth/http-gateway.ts), the    *)
(* JSON-RPC router and the scopes it asks for (mcp/jsonrpc-router.ts,      *)
(* app-assembly.ts), and the evidence a tool call needs (EvidenceRules).   *)
(* The conversations of one client run at once and share its access token; *)
(* tokens, approvals and credentials expire, and the app is deployed again *)
(* over the volume it was first initialized on (init-app.ts, the bootstrap *)
(* of deployment-builder.ts).                                              *)
(*                                                                         *)
(* One action is one request with its answer: nothing the server keeps in  *)
(* memory changes between its awaits; GovernedRuntime and OAuthService     *)
(* split them.                                                             *)
(***************************************************************************)
EXTENDS EvidenceRules, Functions, Sequences

CONSTANTS Conversations,  \* of one client, at once
          Requests,       \* what a conversation may want: a goal and its form
          Sites,          \* configurations: supported scopes, the client's id and the
                          \* provider called for it, credential catalog, expiry of each purpose's trusted key, evidence
                          \* by tool name, and the packages (tools by name) that are
                          \* deployed over it in turn
          AccessTtl, ApprovalTtl,
          MaxTime         \* bound

BuiltIn == {"mcp:tools", "mcp:resources", "mcp:approve", "offline_access"}

(* Of any accounts there is a first by id; a configuration supports the    *)
(* scopes of the endpoint itself; some package is deployed over it.        *)
ASSUME SiteAssumption ==
  \A s \in Sites :
    /\ Ordered(s.catalog) /\ Nothing \notin s.catalog
    /\ BuiltIn \subseteq s.supported
    /\ s.packages \in Seq(Range(s.packages)) \ {<< >>}

ASSUME TimeAssumption == {AccessTtl, ApprovalTtl} \subseteq Nat \ {0} /\ MaxTime \in Nat

(* The challenges that calls of the tools at these sites can prepare, and  *)
(* the proofs that confirmed ones can give.                                *)
Packages == UNION {Range(s.packages) : s \in Sites}
Names == UNION {DOMAIN p : p \in Packages}
Revisions == UNION {{p[name].revision : name \in DOMAIN p} : p \in Packages}
Challenges ==
  [name : Names, revision : Revisions, status : {"pending", "confirmed", "denied", "consumed"},
   expires_at : Nat,
   previous : {"none", "pending", "confirmed", "denied", "consumed", "expired"}]
Contexts ==
  [client : {s.client : s \in Sites}, provider_ref : {s.provider_ref : s \in Sites},
   provider_account_ref : {s.provider_account_ref : s \in Sites}, at : Nat]
Proofs ==
  [binding : [name : Names, revision : Revisions, context : Contexts], valid : BOOLEAN,
   cost : {"budgeted", "estimated", Nothing}, issued_at : Nat, expires_at : Nat]

ASSUME NothingAssumption == Nothing \notin Challenges \cup Proofs

VARIABLES now,
          site,         \* fixed: the configuration
          deployments,
          token,        \* the client's access token: scopes and expiry
          approvals,    \* per conversation: the last challenge prepared for it
          task,         \* per conversation: what the client is doing
          sent          \* history: the conversation's provider request
vars == <<now, site, deployments, token, approvals, task, sent>>

package == site.packages[deployments]   \* the tools being served

Baseline == {"mcp:tools"}

Resting == [phase |-> "idle", goal |-> "scan", form |-> "good", step |-> "list", scopes |-> {},
            signed_out |-> FALSE, verdict |-> "none", result |-> "none", tool |-> Nothing, at |-> 0]

(* app init, the deployed artifacts copied over the demo's, app serve.     *)
(* Evidence in the configuration is of before the server started.          *)
Init ==
  /\ now = 1 /\ deployments = 1
  /\ site \in Sites
  /\ token = Nothing
  /\ approvals = [c \in Conversations |-> Nothing]
  /\ task = [c \in Conversations |-> Resting]
  /\ sent = [c \in Conversations |-> Nothing]

Busy(c) == task[c].phase # "idle"
At(c, step) == task[c].phase = "send" /\ task[c].step = step
Then(c, step) == task' = [task EXCEPT ![c].step = step]
Settle(c, result) ==
  task' = [task EXCEPT ![c] = [Resting EXCEPT !.goal = task[c].goal, !.result = result]]
SettleTool(c, result) ==
  task' = [task EXCEPT ![c] = [Resting EXCEPT !.goal = task[c].goal, !.result = result, !.at = now,
                                              !.tool = package[task[c].goal]]]

Start(c, wanted) ==
  /\ task[c] = Resting
  /\ task' = [task EXCEPT ![c] = [Resting EXCEPT !.phase = "send", !.goal = wanted.goal,
                                    !.form = wanted.form,
                                    !.step = IF wanted.goal = "scan" THEN "list" ELSE "call"]]
  /\ UNCHANGED <<now, site, deployments, token, approvals, sent>>

-----------------------------------------------------------------------------
(* The endpoint                                                            *)

(* Mutant: a tool's own scopes are not asked for. *)
RequiredScopes_General(c) ==
  CASE task[c].step = "resource" -> {"mcp:resources"}
    [] task[c].step = "confirm" -> {"mcp:approve"}
    [] OTHER -> {"mcp:tools"}

(* createScopeResolver. *)
RequiredScopes(c) ==
  CASE task[c].step = "list" -> {"mcp:tools"}
    [] task[c].step = "resource" -> {"mcp:resources"}
    [] task[c].step = "confirm" -> {"mcp:approve"}
    [] OTHER -> {"mcp:tools"} \cup IF task[c].goal \in DOMAIN package
                                  THEN package[task[c].goal].scopes ELSE {}

TokenLive == token # Nothing /\ now < token.expires_at
Missing(c) == RequiredScopes(c) \ token.scopes
Challenge(c, scopes, signed_out) ==
  task' = [task EXCEPT ![c].phase = "challenged", ![c].scopes = scopes, ![c].signed_out = signed_out]

(* Path, method, origin, media types, protocol version and body are        *)
(* checked before the token, 404 to 400.  So is here all that is wrong     *)
(* with the message itself: the router finds a wrong jsonrpc member only   *)
(* after the token.                                                        *)
Malformed(c) ==
  /\ task[c].phase = "send" /\ task[c].form = "malformed"
  /\ Settle(c, "rejected")
  /\ UNCHANGED <<now, site, deployments, token, approvals, sent>>

(* 401, with the baseline scopes. *)
Unauthorized(c) ==
  /\ task[c].phase = "send" /\ task[c].form # "malformed" /\ ~TokenLive
  /\ Challenge(c, Baseline, TRUE)
  /\ UNCHANGED <<now, site, deployments, token, approvals, sent>>

(* Mutant: the challenge names the missing scopes only. *)
InsufficientScope_Missing(c) ==
  /\ task[c].phase = "send" /\ task[c].form # "malformed" /\ TokenLive
  /\ Missing(c) # {}
  /\ Challenge(c, Missing(c), FALSE)
  /\ UNCHANGED <<now, site, deployments, token, approvals, sent>>

(* 403, with the token's scopes and the missing ones. *)
InsufficientScope(c) ==
  /\ task[c].phase = "send" /\ task[c].form # "malformed" /\ TokenLive
  /\ Missing(c) # {}
  /\ Challenge(c, token.scopes \cup Missing(c), FALSE)
  /\ UNCHANGED <<now, site, deployments, token, approvals, sent>>

(* A good message may ask for a call whose arguments are unfit for the tool. *)
WellFormed(c) == task[c].form \in {"good", "unfit"}

Admitted(c) ==
  /\ task[c].phase = "send" /\ task[c].form # "malformed"
  /\ TokenLive /\ Missing(c) = {}

(* A mirrored header that differs, a tool that is not served, or a message *)
(* without an id, to which nothing happens.                                *)
NotExecuted(c) ==
  /\ Admitted(c)
  /\ CASE task[c].form = "mirror" -> Settle(c, "rejected")
       [] task[c].form = "notification" -> Settle(c, "accepted")
       [] OTHER -> /\ task[c].step = "call" /\ task[c].goal \notin DOMAIN package
                   /\ Settle(c, "rejected")
  /\ UNCHANGED <<now, site, deployments, token, approvals, sent>>

List(c) ==
  /\ Admitted(c) /\ WellFormed(c) /\ At(c, "list")
  /\ Then(c, "resource")
  /\ UNCHANGED <<now, site, deployments, token, approvals, sent>>

ReadResource(c) ==
  /\ Admitted(c) /\ WellFormed(c) /\ At(c, "resource")
  /\ IF task[c].goal = "scan" THEN Settle(c, "scanned")
     ELSE task' = [task EXCEPT ![c].phase = "widget"]
  /\ UNCHANGED <<now, site, deployments, token, approvals, sent>>

(* foundry_approval_confirm, from the widget. *)
Confirm(c) ==
  LET decidable == approvals[c].status = "pending" /\ now < approvals[c].expires_at
      denied == task[c].verdict = "deny"
  IN /\ Admitted(c) /\ WellFormed(c) /\ At(c, "confirm")
     /\ IF ~decidable THEN Settle(c, "not_confirmed") /\ UNCHANGED approvals
        ELSE /\ approvals' = [approvals EXCEPT ![c].status = IF denied THEN "denied" ELSE "confirmed"]
             /\ IF denied THEN Settle(c, "denied") ELSE Then(c, "call")
     /\ UNCHANGED <<now, site, deployments, token, sent>>

-----------------------------------------------------------------------------
(* tools/call                                                              *)

ContextOf(s, at) ==
  [client |-> s.client, provider_ref |-> s.provider_ref,
   provider_account_ref |-> s.provider_account_ref, at |-> at]
Context == ContextOf(site, now)
Confirmed(name) ==
  {d \in Conversations :
     /\ approvals[d] # Nothing /\ approvals[d].status = "confirmed"
     /\ approvals[d].name = name /\ approvals[d].revision = package[name].revision
     /\ now < approvals[d].expires_at}
FreshProof(name) ==
  [binding |-> Binding(name, package[name], Context), valid |-> TRUE,
   cost |-> CostSummary(package[name], site.evidence[name].budget),
   issued_at |-> now, expires_at |-> now + ApprovalTtl]

(* The configured proof, or else one from a confirmed challenge, which is  *)
(* spent by it whatever the preflight says.                                *)
Resolutions(name) ==
  IF site.evidence[name].approval = Nothing /\ package[name].governed /\ Confirmed(name) # {}
  THEN {[proof |-> FreshProof(name), store |-> [approvals EXCEPT ![d].status = "consumed"]] :
          d \in Confirmed(name)}
  ELSE {[proof |-> site.evidence[name].approval, store |-> approvals]}

Errors(name, proof) ==
  PreflightErrors(name, package[name], proof, site.evidence[name].budget, site.catalog, Context,
                  site.trust)

Called(c) ==
  /\ Admitted(c) /\ WellFormed(c) /\ At(c, "call")
  /\ task[c].goal \in DOMAIN package
Planned(c) == Called(c) /\ task[c].form = "good"

Execute(c) ==
  LET name == task[c].goal
      binding == package[name].binding
  IN /\ Planned(c)
     /\ \E r \in Resolutions(name) :
          Errors(name, r.proof) = {} /\ approvals' = r.store
     /\ sent' = [sent EXCEPT ![c] =
          [tool |-> package[name], scopes |-> token.scopes,
           account |-> IF binding = Nothing THEN Nothing
                       ELSE SelectedAccount(binding, site.catalog, Context)]]
     /\ Settle(c, "executed")
     /\ UNCHANGED <<now, site, deployments, token>>

Standing(c) ==
  IF approvals[c] = Nothing THEN "none"
  ELSE IF now < approvals[c].expires_at THEN approvals[c].status ELSE "expired"

(* A missing approval prepares a challenge, in the same request and with   *)
(* no further scope.  To its own call, the widget takes this answer for an *)
(* execution.                                                              *)
Prepare(c) ==
  LET name == task[c].goal IN
  /\ Planned(c) /\ package[name].governed
  /\ \E r \in Resolutions(name) :
       /\ FailureCategory(Errors(name, r.proof)) = "approval_required"
       /\ approvals' = [r.store EXCEPT ![c] =
            [name |-> name, revision |-> package[name].revision, status |-> "pending",
             expires_at |-> now + ApprovalTtl, previous |-> Standing(c)]]
  /\ IF task[c].verdict = "approve" THEN SettleTool(c, "asked_again") ELSE Then(c, "resource")
  /\ UNCHANGED <<now, site, deployments, token, sent>>

(* The preflight refuses, and asking for an approval would not help. *)
Block(c) ==
  LET name == task[c].goal IN
  /\ Planned(c)
  /\ \E r \in Resolutions(name) :
       /\ Errors(name, r.proof) # {}
       /\ FailureCategory(Errors(name, r.proof)) = "approval_required" => ~package[name].governed
       /\ approvals' = r.store
  /\ SettleTool(c, "blocked")
  /\ UNCHANGED <<now, site, deployments, token, sent>>

(* callTool fails for a cause that it names in its answer: before any      *)
(* evidence is looked for, as the arguments, the request planned from them *)
(* or the idempotency key are unfit; or with an approval spent, as the     *)
(* ledger refuses the reservation (GovernedRuntime says when), or the      *)
(* credential is not in the environment and the reservation is released.   *)
Refuse(c) ==
  /\ Called(c)
  /\ \/ task[c].form = "unfit" /\ UNCHANGED approvals
     \/ /\ Planned(c)
        /\ \E r \in Resolutions(task[c].goal) :
             Errors(task[c].goal, r.proof) = {} /\ approvals' = r.store
  /\ Settle(c, "refused")
  /\ UNCHANGED <<now, site, deployments, token, sent>>

-----------------------------------------------------------------------------
(* The client and its user                                                 *)

(* Authorization with the challenged scopes, the code exchanged; granted   *)
(* when the configuration supports all of them, else or when the user      *)
(* declines, access_denied.                                                *)
SignIn(c) ==
  /\ task[c].phase = "challenged"
  /\ IF task[c].scopes \subseteq site.supported
     THEN \/ /\ token' = [scopes |-> task[c].scopes, expires_at |-> now + AccessTtl]
             /\ task' = [task EXCEPT ![c].phase = "send"]
          \/ Settle(c, "declined") /\ UNCHANGED token
     ELSE Settle(c, "sign_in_refused") /\ UNCHANGED token
  /\ UNCHANGED <<now, site, deployments, approvals, sent>>

(* After a 401 the client may have a refresh token. *)
Refresh(c) ==
  /\ task[c].phase = "challenged" /\ task[c].signed_out /\ token # Nothing
  /\ token' = [token EXCEPT !.expires_at = now + AccessTtl]
  /\ task' = [task EXCEPT ![c].phase = "send"]
  /\ UNCHANGED <<now, site, deployments, approvals, sent>>

Decide(c) ==
  /\ task[c].phase = "widget"
  /\ \E verdict \in {"approve", "deny"} :
       task' = [task EXCEPT ![c].phase = "send", ![c].step = "confirm", ![c].verdict = verdict]
  /\ UNCHANGED <<now, site, deployments, token, approvals, sent>>

(* The container is replaced; tokens, approvals and the app's              *)
(* configuration are on the volume, and its scopes stay as they were made. *)
Redeploy ==
  /\ deployments < Len(site.packages)
  /\ deployments' = deployments + 1
  /\ UNCHANGED <<now, site, token, approvals, task, sent>>

Tick ==
  /\ now < MaxTime
  /\ now' = now + 1
  /\ UNCHANGED <<site, deployments, token, approvals, task, sent>>

Answer(c) ==
  \/ Malformed(c) \/ Unauthorized(c) \/ InsufficientScope(c) \/ NotExecuted(c)
  \/ List(c) \/ ReadResource(c) \/ Confirm(c) \/ Execute(c)
  \/ Prepare(c) \/ Block(c) \/ Refuse(c)
Respond(c) == SignIn(c) \/ Refresh(c) \/ Decide(c)

Next ==
  \/ \E c \in Conversations :
       \/ \E wanted \in Requests : Start(c, wanted)
       \/ Answer(c) \/ Respond(c)
  \/ Redeploy \/ Tick

Spec == Init /\ [][Next]_vars
FairSpec == Spec /\ \A c \in Conversations : WF_vars(Answer(c) \/ Respond(c))

-----------------------------------------------------------------------------
(* What reaches the provider is covered twice: the client's token holds    *)
(* the tool's scopes, and the account it is sent with holds the adapter's, *)
(* is meant for the audience where that is validated, and is bound to this *)
(* client where the binding says so.                                       *)
DispatchCovered ==
  \A c \in Conversations : sent[c] # Nothing =>
    LET binding == sent[c].tool.binding IN
    /\ sent[c].tool.scopes \subseteq sent[c].scopes
    /\ binding # Nothing =>
         /\ binding.scopes \subseteq sent[c].account.scopes
         /\ AudienceMatches(sent[c].account, binding)
         /\ "client" \in binding.dimensions => sent[c].account.client = site.client

Usable(tool, at) ==
  LET found == Candidates(tool.binding, site.catalog, ContextOf(site, at))
  IN /\ found # {}
     /\ \A a \in found : tool.binding.scopes \subseteq a.scopes /\ AudienceMatches(a, tool.binding)

(* A sign-in is refused only over scopes of the tool itself that the       *)
(* configuration was not made for.  The preflight blocks a call only for   *)
(* its policy, for a budget, an untrusted key, a field named like a secret *)
(* or for want of a credential of this client (or as one of fewer scopes   *)
(* or another audience may come first).  A confirmed call is asked for     *)
(* again only when another conversation spent the approval, it expired,    *)
(* the tool changed, a configured proof stands in its way, or a budget is  *)
(* configured for a tool that is not financial: no proof fits then.  A     *)
(* call that fails outside the preflight (Refuse) names its cause itself.  *)
ServedOrExplained ==
  \A c \in Conversations :
    LET k == task[c] IN
    /\ k.result = "sign_in_refused" =>
         \E p \in Range(site.packages) :
           k.goal \in DOMAIN p /\ ~(p[k.goal].scopes \subseteq site.supported)
    /\ k.result = "blocked" =>
         \/ k.tool.decision = "deny" \/ k.tool.financial \/ k.tool.secretive
         \/ k.tool.decision \in AskingDecisions /\ ~k.tool.governed
         \/ ~Unexpired(site.trust.policy, k.at)
         \/ k.tool.governed /\ ~Unexpired(site.trust.approval, k.at)
         \/ k.tool.binding # Nothing /\ ~Usable(k.tool, k.at)
    /\ k.result = "asked_again" =>
         \/ approvals[c].previous \in {"consumed", "expired"}
         \/ deployments > 1 \/ site.evidence[k.goal].approval # Nothing
         \/ site.evidence[k.goal].budget # Nothing /\ ~k.tool.financial

(* A 403 asks for scopes that a sign-in grants. *)
ChallengesGrantable == \A c \in Conversations : task[c].result # "sign_in_refused"

(* Every request of a client that follows the challenges is settled: the   *)
(* conversations do not take each other's scopes away for ever, and an     *)
(* approval is asked for at most once more.                                *)
RequestsSettle == \A c \in Conversations : Busy(c) ~> ~Busy(c)
=============================================================================
