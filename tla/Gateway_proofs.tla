---------------------------- MODULE Gateway_proofs ----------------------------
(***************************************************************************)
(* Whatever the conversations, their requests and the sites (under the     *)
(* assumptions of Gateway): a request that reached the provider was        *)
(* covered by the client's token and by a credential account of this       *)
(* client, and one that did not failed for a reason that can be told.      *)
(***************************************************************************)
EXTENDS Gateway, TLAPS

(* The resolver selects a candidate as soon as there is one.               *)
LEMMA SelectedIsCandidate ==
  ASSUME NEW binding, NEW catalog, NEW context,
         Ordered(catalog),
         SelectedAccount(binding, catalog, context) # Nothing
  PROVE  SelectedAccount(binding, catalog, context) \in Candidates(binding, catalog, context)
<1> DEFINE found == Candidates(binding, catalog, context)
<1>1. found \subseteq catalog BY DEF Candidates
<1>2. found # {} BY DEF SelectedAccount
<1>3. PICK a \in found : \A b \in found : a.id <= b.id BY <1>1, <1>2 DEF Ordered
<1>4. SelectedAccount(binding, catalog, context)
        = CHOOSE x \in found : \A b \in found : x.id <= b.id
  BY <1>2 DEF SelectedAccount
<1> QED BY <1>3, <1>4

(* Without a credential error the selected account holds the binding's     *)
(* scopes and audience and agrees with the context in every bound          *)
(* dimension.                                                              *)
LEMMA SelectedCovers ==
  ASSUME NEW binding, NEW catalog, NEW context,
         Ordered(catalog),
         binding # Nothing,
         CredentialErrors(binding, catalog, context) = {}
  PROVE  LET account == SelectedAccount(binding, catalog, context)
         IN /\ binding.scopes \subseteq account.scopes /\ AudienceMatches(account, binding)
            /\ \A d \in binding.dimensions : account[d] = context[d]
<1> DEFINE account == SelectedAccount(binding, catalog, context)
<1>1. /\ account # Nothing /\ binding.scopes \subseteq account.scopes
      /\ AudienceMatches(account, binding)
  BY DEF CredentialErrors
<1>2. account \in Candidates(binding, catalog, context)
  BY <1>1, SelectedIsCandidate
<1> QED BY <1>1, <1>2 DEF Candidates

(* Preflight permits no dispatch without a credential. *)
LEMMA PermittedHasCredential ==
  ASSUME NEW name, NEW tool, NEW proof, NEW budget, NEW catalog, NEW context, NEW trust,
         PreflightErrors(name, tool, proof, budget, catalog, context, trust) = {}
  PROVE  CredentialErrors(tool.binding, catalog, context) = {}
<1>1. SUFFICES ASSUME CredentialErrors(tool.binding, catalog, context) # {} PROVE FALSE
  OBVIOUS
<1>2. "CREDENTIAL_PLAN_NOT_READY"
        \in PreflightErrors(name, tool, proof, budget, catalog, context, trust)
  BY <1>1 DEF PreflightErrors
<1> QED BY <1>2

Covered(request, client) ==
  LET binding == request.tool.binding IN
  /\ request.tool.scopes \subseteq request.scopes
  /\ binding # Nothing =>
       /\ binding.scopes \subseteq request.account.scopes
       /\ AudienceMatches(request.account, binding)
       /\ "client" \in binding.dimensions => request.account.client = client

(* The site stays, and every recorded request is covered. *)
CoverInv ==
  /\ site \in Sites
  /\ DOMAIN sent = Conversations
  /\ \A c \in Conversations : sent[c] # Nothing => Covered(sent[c], site.client)

(* The request that Execute records. *)
Dispatched(c) ==
  LET binding == package[task[c].goal].binding IN
  [tool |-> package[task[c].goal], scopes |-> token.scopes,
   account |-> IF binding = Nothing THEN Nothing
               ELSE SelectedAccount(binding, site.catalog, Context)]

(* Execute records a covered request: the scope check was made against the *)
(* package that is served, and the preflight found a credential.           *)
LEMMA ExecuteCovers ==
  ASSUME NEW c \in Conversations, site \in Sites, Execute(c)
  PROVE  Covered(Dispatched(c), site.client)
<1> DEFINE name == task[c].goal
           tool == package[name]
           binding == tool.binding
<1>1. tool.scopes \subseteq token.scopes
  <2>1. name \in DOMAIN package /\ task[c].step = "call" /\ Missing(c) = {}
    BY DEF Execute, Planned, Called, Admitted, At
  <2>2. tool.scopes \subseteq RequiredScopes(c) BY <2>1 DEF RequiredScopes
  <2> QED BY <2>1, <2>2 DEF Missing
<1>2. CredentialErrors(binding, site.catalog, Context) = {}
  <2>1. PICK r \in Resolutions(name) : Errors(name, r.proof) = {} BY DEF Execute
  <2> QED BY <2>1, PermittedHasCredential DEF Errors
<1>3. Ordered(site.catalog) BY SiteAssumption
<1>4. ASSUME binding # Nothing
      PROVE  LET account == SelectedAccount(binding, site.catalog, Context)
             IN /\ binding.scopes \subseteq account.scopes /\ AudienceMatches(account, binding)
                /\ "client" \in binding.dimensions => account.client = site.client
  <2>1. Context.client = site.client BY DEF Context, ContextOf
  <2> QED BY <1>2, <1>3, <1>4, <2>1, SelectedCovers
<1>5. /\ Dispatched(c).tool = tool /\ Dispatched(c).scopes = token.scopes
      /\ binding # Nothing =>
           Dispatched(c).account = SelectedAccount(binding, site.catalog, Context)
  BY DEF Dispatched
<1> QED BY <1>1, <1>4, <1>5 DEF Covered

(* Only Execute adds a request. *)
LEMMA OnlyExecuteSends ==
  ASSUME [Next]_vars
  PROVE  /\ UNCHANGED site
         /\ \/ UNCHANGED sent
            \/ \E c \in Conversations :
                 Execute(c) /\ sent' = [sent EXCEPT ![c] = Dispatched(c)]
<1>1. CASE UNCHANGED vars BY <1>1 DEF vars
<1>2. CASE Redeploy \/ Tick BY <1>2 DEF Redeploy, Tick
<1>3. ASSUME NEW c \in Conversations, NEW wanted \in Requests, Start(c, wanted)
      PROVE  UNCHANGED <<site, sent>>
  BY <1>3 DEF Start
<1>4. ASSUME NEW c \in Conversations, Respond(c)
      PROVE  UNCHANGED <<site, sent>>
  BY <1>4 DEF Respond, SignIn, Refresh, Decide
<1>5. ASSUME NEW c \in Conversations, Answer(c), ~Execute(c)
      PROVE  UNCHANGED <<site, sent>>
  BY <1>5 DEF Answer, Malformed, Unauthorized, InsufficientScope, NotExecuted, List,
              ReadResource, Confirm, Prepare, Block, Refuse
<1>6. ASSUME NEW c \in Conversations, Execute(c)
      PROVE  UNCHANGED site /\ sent' = [sent EXCEPT ![c] = Dispatched(c)]
  BY <1>6 DEF Execute, Dispatched
<1> QED BY <1>1, <1>2, <1>3, <1>4, <1>5, <1>6 DEF Next

(* What reaches the provider is covered twice (createScopeResolver and the *)
(* 403 of mcp/http-server.ts; the credential plan of authorizeExecution).  *)
THEOREM GatewayDispatchCovered == Spec => []DispatchCovered
<1>1. Init => CoverInv BY DEF Init, CoverInv
<1>2. CoverInv /\ [Next]_vars => CoverInv'
  <2> SUFFICES ASSUME CoverInv, [Next]_vars PROVE CoverInv' OBVIOUS
  <2>1. site' = site BY OnlyExecuteSends
  <2>2. CASE UNCHANGED sent BY <2>1, <2>2 DEF CoverInv, Covered
  <2>3. CASE \E c \in Conversations : Execute(c) /\ sent' = [sent EXCEPT ![c] = Dispatched(c)]
    <3>1. PICK c \in Conversations : Execute(c) /\ sent' = [sent EXCEPT ![c] = Dispatched(c)]
      BY <2>3
    <3>2. Covered(Dispatched(c), site.client) BY <3>1, ExecuteCovers DEF CoverInv
    <3>3. sent'[c] = Dispatched(c) /\ DOMAIN sent' = Conversations
            /\ \A d \in Conversations \ {c} : sent'[d] = sent[d]
      BY <3>1 DEF CoverInv
    <3> QED BY <2>1, <3>2, <3>3 DEF CoverInv
  <2> QED BY <2>2, <2>3, OnlyExecuteSends
<1>3. CoverInv => DispatchCovered BY DEF CoverInv, Covered, DispatchCovered
<1> QED BY <1>1, <1>2, <1>3, PTL DEF Spec

-----------------------------------------------------------------------------
(* Why a call is not served.                                               *)

Phases == {"idle", "send", "challenged", "widget"}
Steps == {"list", "resource", "confirm", "call"}

LocalTyped(k) ==
  k \in [phase : Phases, goal : {k.goal}, form : {k.form}, step : Steps, scopes : {k.scopes},
         signed_out : {k.signed_out}, verdict : {"none", "approve", "deny"}, result : {k.result},
         tool : {k.tool}, at : {k.at}]
GatewayTyped ==
  /\ now \in Nat /\ site \in Sites
  /\ deployments \in DOMAIN site.packages
  /\ DOMAIN task = Conversations /\ \A c \in Conversations : LocalTyped(task[c])
  /\ approvals \in [Conversations -> Challenges \cup {Nothing}]

(* No token holds, and no challenge asks for, what neither the             *)
(* configuration supports nor the tool itself needs.                       *)
Own(name) == UNION {p[name].scopes : p \in {q \in Range(site.packages) : name \in DOMAIN q}}
ScopesInv ==
  /\ token # Nothing => token.scopes \subseteq site.supported
  /\ \A c \in Conversations : task[c].phase = "challenged" =>
       task[c].scopes \subseteq site.supported \cup Own(task[c].goal)

(* A conversation that decides or was confirmed has a challenge for its    *)
(* tool, as served unless there was another deployment since: k and a are  *)
(* the conversation's records, n the deployments and s the site.           *)
Asked(k, a, n, s, statuses) ==
  /\ a # Nothing /\ a.name = k.goal /\ a.status \in statuses
  /\ n = 1 => a.revision = s.packages[1][k.goal].revision
AskedLocal(k, a, n, s) ==
  k.phase # "idle" =>
    /\ k.result = "none"
    /\ k.phase = "widget" => k.step = "resource" /\ k.goal # "scan"
    /\ k.step = "list" => k.goal = "scan"
    /\ k.step = "confirm" => k.goal # "scan" /\ k.verdict # "none"
    /\ k.step \in {"list", "resource"} => k.verdict = "none"
    /\ k.step = "call" => k.verdict # "deny"
    /\ k.step \in {"resource", "confirm"} /\ k.goal # "scan" => Asked(k, a, n, s, {"pending"})
    /\ k.step = "call" /\ k.verdict = "approve" => Asked(k, a, n, s, {"confirmed", "consumed"})
AskedInv == \A c \in Conversations : AskedLocal(task[c], approvals[c], deployments, site)

(* ServedOrExplained for one conversation. *)
UsableAt(tool, s, at) ==
  LET found == Candidates(tool.binding, s.catalog, ContextOf(s, at))
  IN /\ found # {}
     /\ \A a \in found : tool.binding.scopes \subseteq a.scopes /\ AudienceMatches(a, tool.binding)
RefusalExplained(k, s) ==
  k.result = "sign_in_refused" =>
    \E p \in Range(s.packages) : k.goal \in DOMAIN p /\ ~(p[k.goal].scopes \subseteq s.supported)
Blockable(tool, s, at) ==
  \/ tool.decision = "deny" \/ tool.financial \/ tool.secretive
  \/ tool.decision \in AskingDecisions /\ ~tool.governed
  \/ ~Unexpired(s.trust.policy, at)
  \/ tool.governed /\ ~Unexpired(s.trust.approval, at)
  \/ tool.binding # Nothing /\ ~UsableAt(tool, s, at)
BlockExplained(k, s) == k.result = "blocked" => Blockable(k.tool, s, k.at)
AgainExplained(k, a, n, s) ==
  k.result = "asked_again" =>
    \/ a.previous \in {"consumed", "expired"}
    \/ n > 1 \/ s.evidence[k.goal].approval # Nothing
    \/ s.evidence[k.goal].budget # Nothing /\ ~k.tool.financial
Explained(k, a, n, s) == RefusalExplained(k, s) /\ BlockExplained(k, s) /\ AgainExplained(k, a, n, s)
ExplainedInv == \A c \in Conversations : Explained(task[c], approvals[c], deployments, site)

ServedInv == GatewayTyped /\ ScopesInv /\ AskedInv /\ ExplainedInv

(* The package served is one of the site's. *)
LEMMA PackageServed ==
  ASSUME GatewayTyped
  PROVE  package \in Range(site.packages) /\ package \in Packages /\ deployments \in Nat
<1>1. site \in Sites /\ site.packages \in Seq(Range(site.packages))
      /\ deployments \in DOMAIN site.packages
  BY SiteAssumption DEF GatewayTyped
<1> QED
  BY <1>1 DEF package, Packages, Range

-----------------------------------------------------------------------------
(* Approvals.                                                              *)

(* An approval is left alone or a confirmed one is spent. *)
Spends(a, b) ==
  b = a \/ (a # Nothing /\ a.status = "confirmed" /\ b = [a EXCEPT !.status = "consumed"])

(* resolveApproval spends one confirmed challenge at most, and then its    *)
(* proof is fresh; with a confirmed challenge and no configured proof it   *)
(* always finds one.                                                       *)
LEMMA ResolutionSpends ==
  ASSUME GatewayTyped, NEW name, NEW r \in Resolutions(name)
  PROVE  /\ r.store \in [Conversations -> Challenges \cup {Nothing}]
         /\ \A d \in Conversations : Spends(approvals[d], r.store[d])
         /\ (site.evidence[name].approval = Nothing /\ package[name].governed /\ Confirmed(name) # {})
              => r.proof = FreshProof(name)
<1>1. CASE site.evidence[name].approval = Nothing /\ package[name].governed /\ Confirmed(name) # {}
  <2>1. PICK d \in Confirmed(name) :
           r = [proof |-> FreshProof(name), store |-> [approvals EXCEPT ![d].status = "consumed"]]
    BY <1>1 DEF Resolutions
  <2>2. d \in Conversations /\ approvals[d] # Nothing /\ approvals[d].status = "confirmed"
    BY DEF Confirmed
  <2>3. approvals[d] \in Challenges
    BY <2>2 DEF GatewayTyped
  <2>4. [approvals[d] EXCEPT !.status = "consumed"] \in Challenges
    BY <2>3 DEF Challenges
  <2>5. r.store = [approvals EXCEPT ![d] = [approvals[d] EXCEPT !.status = "consumed"]]
    BY <2>1
  <2>6. r.store \in [Conversations -> Challenges \cup {Nothing}]
    BY <2>2, <2>4, <2>5 DEF GatewayTyped
  <2>7. \A e \in Conversations : Spends(approvals[e], r.store[e])
    BY <2>2, <2>5 DEF GatewayTyped, Spends
  <2> QED
    BY <2>1, <2>6, <2>7
<1>2. CASE ~(site.evidence[name].approval = Nothing /\ package[name].governed /\ Confirmed(name) # {})
  BY <1>2 DEF Resolutions, GatewayTyped, Spends
<1> QED
  BY <1>1, <1>2

(* The challenge that Prepare makes. *)
Prepared(c) ==
  [name |-> task[c].goal, revision |-> package[task[c].goal].revision, status |-> "pending",
   expires_at |-> now + ApprovalTtl, previous |-> Standing(c)]

LEMMA PreparedTyped ==
  ASSUME GatewayTyped, NEW c \in Conversations, task[c].goal \in DOMAIN package
  PROVE  Prepared(c) \in Challenges
<1>1. Standing(c) \in {"none", "pending", "confirmed", "denied", "consumed", "expired"}
  BY DEF Standing, GatewayTyped, Challenges
<1>2. now + ApprovalTtl \in Nat
  BY TimeAssumption DEF GatewayTyped
<1>3. package \in Packages
  BY PackageServed
<1>4. /\ task[c].goal \in UNION {DOMAIN p : p \in Packages}
      /\ package[task[c].goal].revision \in
           UNION {{p[name].revision : name \in DOMAIN p} : p \in Packages}
  BY <1>3
<1> QED
  BY <1>1, <1>2, <1>4 DEF Prepared, Challenges, Names, Revisions

(* What an action of one conversation does to the others, and to what all  *)
(* share.                                                                  *)
Acts(c) == (\E wanted \in Requests : Start(c, wanted)) \/ Answer(c) \/ Respond(c)
Quiet(c) ==
  \/ \E wanted \in Requests : Start(c, wanted)
  \/ Malformed(c) \/ Unauthorized(c) \/ InsufficientScope(c) \/ NotExecuted(c)
  \/ List(c) \/ ReadResource(c) \/ Respond(c)

LEMMA ActsOnOthers ==
  ASSUME GatewayTyped, AskedInv, NEW c \in Conversations, Acts(c)
  PROVE  /\ UNCHANGED <<now, site, deployments>>
         /\ DOMAIN task' = Conversations
         /\ approvals' \in [Conversations -> Challenges \cup {Nothing}]
         /\ \A d \in Conversations \ {c} : task'[d] = task[d] /\ Spends(approvals[d], approvals'[d])
         /\ Quiet(c) => approvals' = approvals
<1> USE DEF GatewayTyped
<1>1. CASE Quiet(c)
  <2>1. UNCHANGED <<now, site, deployments, approvals>>
    BY <1>1 DEF Quiet, Start, Malformed, Unauthorized, InsufficientScope, NotExecuted, List, ReadResource,
                Respond, SignIn, Refresh, Decide
  <2>2. \A d \in Conversations \ {c} : task'[d] = task[d]
    BY <1>1 DEF Quiet, Start, Malformed, Unauthorized, InsufficientScope, NotExecuted, List, ReadResource,
                Respond, SignIn, Refresh, Decide, Settle, Then, Challenge
  <2>3. DOMAIN task' = Conversations
    BY <1>1 DEF Quiet, Start, Malformed, Unauthorized, InsufficientScope, NotExecuted, List, ReadResource,
                Respond, SignIn, Refresh, Decide, Settle, Then, Challenge
  <2> QED
    BY <2>1, <2>2, <2>3 DEF Spends
<1>2. CASE ~Quiet(c) /\ Confirm(c)
  <2>1. /\ UNCHANGED <<now, site, deployments>> /\ DOMAIN task' = Conversations
        /\ \A d \in Conversations \ {c} : task'[d] = task[d]
    BY <1>2 DEF Confirm, Settle, Then
  <2>2. approvals[c] # Nothing /\ approvals[c] \in Challenges
    BY <1>2 DEF Confirm, Admitted, At, AskedInv, AskedLocal, Asked
  <2>3. \/ approvals' = approvals
        \/ \E s \in {"denied", "confirmed"} : approvals' = [approvals EXCEPT ![c].status = s]
    BY <1>2 DEF Confirm
  <2>4. ASSUME NEW s \in {"denied", "confirmed"}
        PROVE  [approvals EXCEPT ![c].status = s] \in [Conversations -> Challenges \cup {Nothing}]
    <3>1. [approvals[c] EXCEPT !.status = s] \in Challenges
      BY <2>2 DEF Challenges
    <3> QED
      BY <3>1
  <2>5. \A d \in Conversations \ {c} : approvals'[d] = approvals[d]
    BY <2>3
  <2> QED
    BY <1>2, <2>1, <2>3, <2>4, <2>5 DEF Spends
<1>3. CASE ~Quiet(c) /\ (Execute(c) \/ Block(c) \/ Refuse(c))
  <2>1. /\ UNCHANGED <<now, site, deployments>> /\ DOMAIN task' = Conversations
        /\ \A d \in Conversations \ {c} : task'[d] = task[d]
    BY <1>3 DEF Execute, Block, Refuse, Settle, SettleTool
  <2>2. CASE UNCHANGED approvals
    BY <1>3, <2>1, <2>2 DEF Spends
  <2>3. CASE \E r \in Resolutions(task[c].goal) : approvals' = r.store
    BY <1>3, <2>1, <2>3, ResolutionSpends
  <2> QED
    BY <1>3, <2>2, <2>3 DEF Execute, Block, Refuse
<1>4. CASE ~Quiet(c) /\ Prepare(c)
  <2>1. /\ UNCHANGED <<now, site, deployments>> /\ DOMAIN task' = Conversations
        /\ \A d \in Conversations \ {c} : task'[d] = task[d]
    BY <1>4 DEF Prepare, SettleTool, Then
  <2>2. PICK r \in Resolutions(task[c].goal) : approvals' = [r.store EXCEPT ![c] = Prepared(c)]
    BY <1>4 DEF Prepare, Prepared
  <2>3. Prepared(c) \in Challenges
    BY <1>4, PreparedTyped DEF Prepare, Planned, Called
  <2> QED
    BY <1>4, <2>1, <2>2, <2>3, ResolutionSpends
<1> QED
  BY <1>1, <1>2, <1>3, <1>4 DEF Acts, Answer, Quiet

-----------------------------------------------------------------------------
(* The invariant, part by part.                                            *)

(* What is not executed settles the request. *)
LEMMA NotExecutedSettles ==
  ASSUME NEW c, NotExecuted(c)
  PROVE  Settle(c, "rejected") \/ Settle(c, "accepted")
<1>1. CASE task[c].form = "mirror"
  BY <1>1 DEF NotExecuted
<1>2. CASE task[c].form = "notification"
  BY <1>2 DEF NotExecuted
<1>3. CASE task[c].form # "mirror" /\ task[c].form # "notification"
  BY <1>3 DEF NotExecuted
<1> QED
  BY <1>1, <1>2, <1>3

(* A conversation's own record after each of its actions. *)
LEMMA ActsOnOwn ==
  ASSUME GatewayTyped, NEW c \in Conversations, Acts(c)
  PROVE  LocalTyped(task'[c])
<1> DEFINE k == task[c]
           next == task'[c]
<1>1. DOMAIN task = Conversations /\ LocalTyped(k)
  BY DEF GatewayTyped
<1> USE DEF LocalTyped, Phases, Steps
<1>2. ASSUME NEW wanted \in Requests, Start(c, wanted)
      PROVE  LocalTyped(next)
  <2>1. next = [Resting EXCEPT !.phase = "send", !.goal = wanted.goal, !.form = wanted.form,
                               !.step = IF wanted.goal = "scan" THEN "list" ELSE "call"]
    BY <1>1, <1>2 DEF Start
  <2> QED
    BY <2>1 DEF Resting
<1>3. CASE \E result \in {"rejected", "accepted", "scanned", "not_confirmed", "denied", "executed",
                          "refused", "declined", "sign_in_refused"} : Settle(c, result)
  <2>1. \E result : next = [Resting EXCEPT !.goal = k.goal, !.result = result]
    BY <1>1, <1>3 DEF Settle
  <2> QED
    BY <2>1 DEF Resting
<1>4. CASE SettleTool(c, "blocked") \/ SettleTool(c, "asked_again")
  <2>1. \E result : next = [Resting EXCEPT !.goal = k.goal, !.result = result, !.at = now,
                                          !.tool = package[k.goal]]
    BY <1>1, <1>4 DEF SettleTool
  <2> QED
    BY <2>1 DEF Resting
<1>5. CASE \E step \in Steps : Then(c, step)
  BY <1>1, <1>5 DEF Then
<1>6. CASE Unauthorized(c) \/ InsufficientScope(c)
  BY <1>1, <1>6 DEF Unauthorized, InsufficientScope, Challenge
<1>7. CASE task' = [task EXCEPT ![c].phase = "widget"] \/ task' = [task EXCEPT ![c].phase = "send"]
  BY <1>1, <1>7
<1>8. CASE Decide(c)
  <2>1. PICK verdict \in {"approve", "deny"} :
          task' = [task EXCEPT ![c].phase = "send", ![c].step = "confirm", ![c].verdict = verdict]
    BY <1>8 DEF Decide
  <2>2. next = [k EXCEPT !.phase = "send", !.step = "confirm", !.verdict = verdict]
    BY <1>1, <2>1
  <2> QED
    BY <1>1, <2>2
<1>9. CASE Malformed(c) \/ NotExecuted(c)
  BY <1>3, <1>9, NotExecutedSettles DEF Malformed
<1>10. CASE List(c) \/ ReadResource(c)
  BY <1>3, <1>5, <1>7, <1>10 DEF List, ReadResource
<1>11. CASE Confirm(c)
  BY <1>3, <1>5, <1>11 DEF Confirm
<1>12. CASE Execute(c) \/ Prepare(c) \/ Block(c) \/ Refuse(c)
  BY <1>3, <1>4, <1>5, <1>12 DEF Execute, Prepare, Block, Refuse
<1>13. CASE SignIn(c) \/ Refresh(c)
  BY <1>3, <1>7, <1>13 DEF SignIn, Refresh
<1> QED
  BY <1>2, <1>6, <1>8, <1>9, <1>10, <1>11, <1>12, <1>13 DEF Acts, Answer, Respond

(* Everything keeps its shape. *)
LEMMA TypedStep ==
  ASSUME GatewayTyped, AskedInv, [Next]_vars
  PROVE  GatewayTyped'
<1>1. CASE UNCHANGED vars
  BY <1>1 DEF vars, GatewayTyped
<1>2. CASE Tick
  BY <1>2 DEF Tick, GatewayTyped
<1>3. CASE Redeploy
  <2>1. site \in Sites /\ site.packages \in Seq(Range(site.packages))
    BY SiteAssumption DEF GatewayTyped
  <2>2. deployments \in 1..Len(site.packages) /\ deployments' \in 1..Len(site.packages)
    BY <1>3, <2>1 DEF Redeploy, GatewayTyped
  <2>3. deployments' \in DOMAIN site.packages
    BY <2>1, <2>2
  <2> QED
    BY <1>3, <2>3 DEF Redeploy, GatewayTyped
<1>4. ASSUME NEW c \in Conversations, Acts(c)
      PROVE  GatewayTyped'
  <2>1. /\ UNCHANGED <<now, site, deployments>>
        /\ DOMAIN task' = Conversations
        /\ approvals' \in [Conversations -> Challenges \cup {Nothing}]
        /\ \A d \in Conversations \ {c} : task'[d] = task[d]
    BY <1>4, ActsOnOthers
  <2>2. \A d \in Conversations : LocalTyped(task'[d])
    BY <1>4, <2>1, ActsOnOwn DEF GatewayTyped
  <2> QED
    BY <2>1, <2>2 DEF GatewayTyped
<1> QED
  BY <1>1, <1>2, <1>3, <1>4 DEF Next, Acts

(* A challenge asks for what the token holds and what the request needs.   *)
LEMMA ScopesStep ==
  ASSUME GatewayTyped, ScopesInv, [Next]_vars
  PROVE  ScopesInv'
<1>1. CASE UNCHANGED <<site, token, task>>
  BY <1>1 DEF ScopesInv, Own
<1>2. DOMAIN task = Conversations /\ BuiltIn \subseteq site.supported
  BY SiteAssumption DEF GatewayTyped
<1>3. ASSUME NEW c \in Conversations, UNCHANGED <<site, token>>,
             \A d \in Conversations \ {c} : task'[d] = task[d], task'[c].phase # "challenged"
      PROVE  ScopesInv'
  BY <1>3 DEF ScopesInv, Own
<1>4. ASSUME NEW c \in Conversations, NEW wanted \in Requests, Start(c, wanted)
      PROVE  ScopesInv'
  BY <1>2, <1>3, <1>4 DEF Start, Resting
<1>5. ASSUME NEW c \in Conversations, UNCHANGED <<site, token>>,
             \/ \E result : Settle(c, result)
             \/ \E result : SettleTool(c, result)
             \/ \E step : task[c].phase = "send" /\ Then(c, step)
             \/ task' = [task EXCEPT ![c].phase = "widget"]
             \/ Decide(c)
      PROVE  ScopesInv'
  <2>1. task'[c].phase # "challenged" /\ \A d \in Conversations \ {c} : task'[d] = task[d]
    <3>1. LocalTyped(task[c])
      BY DEF GatewayTyped
    <3>2. CASE \E result : Settle(c, result)
      BY <1>2, <3>2 DEF Settle, Resting
    <3>3. CASE \E result : SettleTool(c, result)
      BY <1>2, <3>3 DEF SettleTool, Resting
    <3>4. CASE \E step : task[c].phase = "send" /\ Then(c, step)
      BY <1>2, <3>1, <3>4 DEF Then, LocalTyped
    <3>5. CASE task' = [task EXCEPT ![c].phase = "widget"]
      BY <1>2, <3>1, <3>5 DEF LocalTyped
    <3>6. CASE Decide(c)
      BY <1>2, <3>1, <3>6 DEF Decide, LocalTyped
    <3> QED
      BY <1>5, <3>2, <3>3, <3>4, <3>5, <3>6
  <2> QED
    BY <1>3, <1>5, <2>1
<1>6. ASSUME NEW c \in Conversations, Unauthorized(c)
      PROVE  ScopesInv'
  <2>1. /\ UNCHANGED <<site, token>>
        /\ \A d \in Conversations \ {c} : task'[d] = task[d]
        /\ task'[c].scopes = Baseline
    BY <1>2, <1>6 DEF Unauthorized, Challenge, GatewayTyped, LocalTyped
  <2> QED
    BY <1>2, <2>1 DEF ScopesInv, Own, Baseline, BuiltIn
<1>7. ASSUME NEW c \in Conversations, InsufficientScope(c)
      PROVE  ScopesInv'
  <2>1. /\ UNCHANGED <<site, token>> /\ token # Nothing
        /\ \A d \in Conversations \ {c} : task'[d] = task[d]
        /\ task'[c].scopes = token.scopes \cup Missing(c)
        /\ task'[c].goal = task[c].goal
    BY <1>2, <1>7 DEF InsufficientScope, Challenge, TokenLive, GatewayTyped, LocalTyped
  <2>2. RequiredScopes(c) \subseteq BuiltIn \cup Own(task[c].goal)
    BY PackageServed DEF RequiredScopes, BuiltIn, Own, GatewayTyped, LocalTyped, Steps
  <2> QED
    BY <1>2, <2>1, <2>2 DEF ScopesInv, Own, Missing
<1>8. ASSUME NEW c \in Conversations, SignIn(c)
      PROVE  ScopesInv'
  <2>1. CASE token' = [scopes |-> task[c].scopes, expires_at |-> now + AccessTtl]
             /\ task' = [task EXCEPT ![c].phase = "send"] /\ task[c].scopes \subseteq site.supported
    <3>1. token'.scopes \subseteq site'.supported
      BY <1>8, <2>1 DEF SignIn
    <3>2. task'[c].phase # "challenged" /\ \A d \in Conversations \ {c} : task'[d] = task[d]
      BY <1>2, <2>1 DEF GatewayTyped, LocalTyped
    <3> QED
      BY <1>8, <3>1, <3>2 DEF SignIn, ScopesInv, Own
  <2>2. CASE (Settle(c, "declined") \/ Settle(c, "sign_in_refused")) /\ UNCHANGED token
    BY <1>5, <1>8, <2>2 DEF SignIn
  <2> QED
    BY <1>8, <2>1, <2>2 DEF SignIn
<1>9. ASSUME NEW c \in Conversations, Refresh(c)
      PROVE  ScopesInv'
  <2>1. /\ site' = site /\ token' = [token EXCEPT !.expires_at = now + AccessTtl] /\ token # Nothing
        /\ task'[c].phase # "challenged" /\ \A d \in Conversations \ {c} : task'[d] = task[d]
    BY <1>2, <1>9 DEF Refresh, GatewayTyped, LocalTyped
  <2>2. token'.scopes = token.scopes
    BY <2>1
  <2> QED
    BY <2>1, <2>2 DEF ScopesInv, Own
<1>10. ASSUME NEW c \in Conversations,
              Malformed(c) \/ NotExecuted(c) \/ List(c) \/ ReadResource(c) \/ Confirm(c) \/ Execute(c)
                \/ Prepare(c) \/ Block(c) \/ Refuse(c) \/ Decide(c)
       PROVE  ScopesInv'
  <2>1. UNCHANGED <<site, token>>
    BY <1>10 DEF Malformed, NotExecuted, List, ReadResource, Confirm, Execute, Prepare, Block, Refuse,
                 Decide
  <2> QED
    BY <1>5, <1>10, <2>1, NotExecutedSettles
    DEF Malformed, List, ReadResource, Confirm, Execute, Prepare, Block, Refuse, Planned, Called,
        Admitted
<1> QED
  BY <1>1, <1>4, <1>6, <1>7, <1>8, <1>9, <1>10
  DEF Next, Answer, Respond, Redeploy, Tick, vars

(* An approval spent from under a conversation that asked leaves it asked. *)
LEMMA AskedSpent ==
  ASSUME NEW k, NEW a \in Challenges \cup {Nothing}, NEW b, NEW n, NEW s,
         AskedLocal(k, a, n, s), Spends(a, b)
  PROVE  AskedLocal(k, b, n, s)
<1>1. CASE b = a
  BY <1>1
<1>2. CASE a # Nothing /\ a.status = "confirmed" /\ b = [a EXCEPT !.status = "consumed"]
  <2>1. /\ b.name = a.name /\ b.revision = a.revision /\ b.status = "consumed"
        /\ b \in Challenges /\ b # Nothing
    BY <1>2, NothingAssumption DEF Challenges
  <2> QED
    BY <1>2, <2>1 DEF AskedLocal, Asked
<1> QED
  BY <1>1, <1>2 DEF Spends

(* A conversation's own requests. *)
LEMMA AskedOwn ==
  ASSUME GatewayTyped, AskedInv, NEW c \in Conversations, Acts(c)
  PROVE  AskedLocal(task'[c], approvals'[c], deployments, site)
<1> DEFINE k == task[c]
           a == approvals[c]
           next == task'[c]
<1>1. /\ DOMAIN task = Conversations /\ LocalTyped(k) /\ AskedLocal(k, a, deployments, site)
      /\ a \in Challenges \cup {Nothing}
  BY DEF GatewayTyped, AskedInv
<1>a. next.phase = "idle" => AskedLocal(next, approvals'[c], deployments, site)
  BY DEF AskedLocal
<1>b. ASSUME NEW result, Settle(c, result)
      PROVE  next.phase = "idle"
  BY <1>1, <1>b DEF Settle, Resting
<1>c. ASSUME Quiet(c)
      PROVE  approvals'[c] = a
  BY <1>c, ActsOnOthers
<1>2. ASSUME NEW wanted \in Requests, Start(c, wanted)
      PROVE  AskedLocal(next, a, deployments, site)
  BY <1>1, <1>2 DEF Start, Resting, AskedLocal
<1>3. CASE \E result : SettleTool(c, result)
  BY <1>1, <1>3, <1>a DEF SettleTool, Resting
<1>4. CASE Unauthorized(c) \/ InsufficientScope(c)
  <2>1. k.phase = "send" /\ \E scopes, signed_out : Challenge(c, scopes, signed_out)
    BY <1>4 DEF Unauthorized, InsufficientScope
  <2>2. /\ next.phase = "challenged" /\ next.step = k.step /\ next.goal = k.goal
        /\ next.verdict = k.verdict /\ next.result = k.result
    BY <1>1, <2>1 DEF Challenge, LocalTyped
  <2>3. AskedLocal(next, a, deployments, site)
    BY <1>1, <2>1, <2>2 DEF AskedLocal, Asked
  <2> QED
    BY <1>4, <1>c, <2>3 DEF Quiet
<1>5. CASE SignIn(c) \/ Refresh(c)
  <2>1. CASE \E result : Settle(c, result)
    BY <1>a, <1>b, <2>1
  <2>2. CASE task' = [task EXCEPT ![c].phase = "send"]
    <3>1. k.phase = "challenged"
      BY <1>5 DEF SignIn, Refresh
    <3>2. /\ next.phase = "send" /\ next.step = k.step /\ next.goal = k.goal
          /\ next.verdict = k.verdict /\ next.result = k.result
      BY <1>1, <2>2 DEF LocalTyped
    <3>3. AskedLocal(next, a, deployments, site)
      BY <1>1, <3>1, <3>2 DEF AskedLocal, Asked
    <3> QED
      BY <1>5, <1>c, <3>3 DEF Quiet, Respond
  <2> QED
    BY <1>5, <2>1, <2>2 DEF SignIn, Refresh
<1>6. CASE List(c)
  <2>1. k.phase = "send" /\ k.step = "list" /\ Then(c, "resource")
    BY <1>6 DEF List, At
  <2>2. /\ next.phase = "send" /\ next.step = "resource" /\ next.goal = k.goal
        /\ next.verdict = k.verdict /\ next.result = k.result
    BY <1>1, <2>1 DEF Then, LocalTyped
  <2>3. AskedLocal(next, a, deployments, site)
    BY <1>1, <2>1, <2>2 DEF AskedLocal
  <2> QED
    BY <1>6, <1>c, <2>3 DEF Quiet
<1>7. CASE ReadResource(c)
  <2>1. CASE Settle(c, "scanned")
    BY <1>a, <1>b, <2>1
  <2>2. CASE k.goal # "scan" /\ task' = [task EXCEPT ![c].phase = "widget"]
    <3>1. k.phase = "send" /\ k.step = "resource"
      BY <1>7 DEF ReadResource, At
    <3>2. /\ next.phase = "widget" /\ next.step = k.step /\ next.goal = k.goal
          /\ next.verdict = k.verdict /\ next.result = k.result
      BY <1>1, <2>2 DEF LocalTyped
    <3>3. AskedLocal(next, a, deployments, site)
      BY <1>1, <2>2, <3>1, <3>2 DEF AskedLocal, Asked
    <3> QED
      BY <1>7, <1>c, <3>3 DEF Quiet
  <2> QED
    BY <1>7, <2>1, <2>2 DEF ReadResource
<1>8. CASE Decide(c)
  <2>1. PICK verdict \in {"approve", "deny"} :
          task' = [task EXCEPT ![c].phase = "send", ![c].step = "confirm", ![c].verdict = verdict]
    BY <1>8 DEF Decide
  <2>2. k.phase = "widget"
    BY <1>8 DEF Decide
  <2>3. next = [k EXCEPT !.phase = "send", !.step = "confirm", !.verdict = verdict]
    BY <1>1, <2>1
  <2>4. /\ next.phase = "send" /\ next.step = "confirm" /\ next.goal = k.goal
        /\ next.verdict = verdict /\ next.result = k.result
    BY <1>1, <2>3 DEF LocalTyped
  <2>5. AskedLocal(next, a, deployments, site)
    BY <1>1, <2>2, <2>4 DEF AskedLocal, Asked
  <2> QED
    BY <1>8, <1>c, <2>5 DEF Quiet, Respond
<1>9. CASE Confirm(c)
  <2>1. CASE \E result : Settle(c, result)
    BY <1>a, <1>b, <2>1
  <2>2. CASE /\ approvals' = [approvals EXCEPT ![c].status = "confirmed"]
             /\ k.verdict # "deny" /\ Then(c, "call")
    <3>1. k.phase = "send" /\ k.step = "confirm"
      BY <1>9 DEF Confirm, At
    <3>2. /\ next.phase = "send" /\ next.step = "call" /\ next.goal = k.goal
          /\ next.verdict = k.verdict /\ next.result = k.result
      BY <1>1, <2>2, <3>1 DEF Then, LocalTyped
    <3>3. Asked(k, a, deployments, site, {"pending"})
      BY <1>1, <3>1 DEF AskedLocal
    <3>4. approvals'[c] = [a EXCEPT !.status = "confirmed"] /\ a \in Challenges
      BY <1>1, <2>2, <3>3 DEF GatewayTyped, Asked
    <3>5. /\ approvals'[c].name = a.name /\ approvals'[c].revision = a.revision
          /\ approvals'[c].status = "confirmed"
          /\ approvals'[c] \in Challenges /\ approvals'[c] # Nothing
      BY <3>4, NothingAssumption DEF Challenges
    <3> QED
      BY <1>1, <2>2, <3>1, <3>2, <3>3, <3>5 DEF AskedLocal, Asked
  <2> QED
    BY <1>9, <2>1, <2>2 DEF Confirm
<1>10. CASE Prepare(c)
  <2>1. CASE SettleTool(c, "asked_again")
    BY <1>3, <2>1
  <2>2. CASE k.verdict # "approve" /\ Then(c, "resource")
    <3>1. k.phase = "send" /\ k.step = "call" /\ k.goal \in DOMAIN package
      BY <1>10 DEF Prepare, Planned, Called, At
    <3>2. /\ next.phase = "send" /\ next.step = "resource" /\ next.goal = k.goal
          /\ next.verdict = "none" /\ next.result = k.result
      BY <1>1, <2>2, <3>1 DEF Then, LocalTyped, AskedLocal
    <3>3. PICK r \in Resolutions(k.goal) : approvals' = [r.store EXCEPT ![c] = Prepared(c)]
      BY <1>10 DEF Prepare, Prepared
    <3>4. approvals'[c] = Prepared(c) /\ Prepared(c) # Nothing
      BY <3>1, <3>3, ResolutionSpends, PreparedTyped, NothingAssumption
    <3>5. Asked(next, Prepared(c), deployments, site, {"pending"})
      BY <3>2, <3>4 DEF Asked, Prepared, package
    <3> QED
      BY <1>1, <3>1, <3>2, <3>4, <3>5 DEF AskedLocal
  <2> QED
    BY <1>10, <2>1, <2>2 DEF Prepare
<1>11. CASE Malformed(c) \/ NotExecuted(c) \/ Execute(c) \/ Block(c) \/ Refuse(c)
  BY <1>3, <1>11, <1>a, <1>b, NotExecutedSettles DEF Malformed, Execute, Block, Refuse
<1>12. ASSUME NEW wanted \in Requests, Start(c, wanted)
       PROVE  AskedLocal(next, approvals'[c], deployments, site)
  BY <1>2, <1>12, <1>c DEF Quiet
<1> QED
  BY <1>4, <1>5, <1>6, <1>7, <1>8, <1>9, <1>10, <1>11, <1>12 DEF Acts, Answer, Respond

(* What a conversation was asked stays asked. *)
LEMMA AskedStep ==
  ASSUME GatewayTyped, AskedInv, [Next]_vars
  PROVE  AskedInv'
<1>1. CASE UNCHANGED <<task, approvals, deployments, site>>
  BY <1>1 DEF AskedInv
<1>2. CASE Redeploy
  <2>1. /\ task' = task /\ approvals' = approvals /\ site' = site
        /\ deployments' = deployments + 1 /\ deployments \in Nat /\ deployments >= 1
    BY <1>2, PackageServed, SiteAssumption DEF Redeploy, GatewayTyped
  <2>2. ASSUME NEW k, NEW a, AskedLocal(k, a, deployments, site)
        PROVE  AskedLocal(k, a, deployments', site)
    BY <2>1, <2>2 DEF AskedLocal, Asked
  <2> QED
    BY <2>1, <2>2 DEF AskedInv
<1>3. ASSUME NEW c \in Conversations, Acts(c)
      PROVE  AskedInv'
  <2>1. UNCHANGED <<site, deployments>>
    BY <1>3, ActsOnOthers
  <2>2. AskedLocal(task'[c], approvals'[c], deployments, site)
    BY <1>3, AskedOwn
  <2>3. ASSUME NEW d \in Conversations \ {c}
        PROVE  AskedLocal(task'[d], approvals'[d], deployments, site)
    <3>1. /\ task'[d] = task[d] /\ Spends(approvals[d], approvals'[d])
          /\ approvals[d] \in Challenges \cup {Nothing}
          /\ AskedLocal(task[d], approvals[d], deployments, site)
      BY <1>3, <2>3, ActsOnOthers DEF GatewayTyped, AskedInv
    <3> QED
      BY <3>1, AskedSpent
  <2> QED
    BY <2>1, <2>2, <2>3 DEF AskedInv
<1> QED
  BY <1>1, <1>2, <1>3 DEF Next, Acts, Tick, vars

-----------------------------------------------------------------------------
(* The reasons.                                                            *)

(* A binding that a usable candidate exists for fails no call. *)
LEMMA UsableHasCredential ==
  ASSUME NEW s \in Sites, NEW at, NEW tool,
         tool.binding # Nothing => UsableAt(tool, s, at)
  PROVE  CredentialErrors(tool.binding, s.catalog, ContextOf(s, at)) = {}
<1> DEFINE context == ContextOf(s, at)
           account == SelectedAccount(tool.binding, s.catalog, context)
           found == Candidates(tool.binding, s.catalog, context)
<1>1. CASE tool.binding = Nothing
  BY <1>1 DEF CredentialErrors
<1>2. CASE tool.binding # Nothing
  <2>1. /\ found # {}
        /\ \A a \in found : tool.binding.scopes \subseteq a.scopes /\ AudienceMatches(a, tool.binding)
    BY <1>2 DEF UsableAt
  <2>2. found \subseteq s.catalog /\ Ordered(s.catalog) /\ Nothing \notin s.catalog
    BY SiteAssumption DEF Candidates
  <2>3. PICK first \in found : \A b \in found : first.id <= b.id
    BY <2>1, <2>2 DEF Ordered
  <2>4. account = CHOOSE x \in found : \A b \in found : x.id <= b.id
    BY <2>1 DEF SelectedAccount
  <2>5. account \in found
    BY <2>3, <2>4
  <2>6. /\ account # Nothing /\ tool.binding.scopes \subseteq account.scopes
        /\ AudienceMatches(account, tool.binding)
    BY <2>1, <2>2, <2>5
  <2> QED
    BY <1>2, <2>6 DEF CredentialErrors
<1> QED
  BY <1>1, <1>2

(* Only the approval proof gives approval codes. *)
LEMMA ApprovalCodesFromProof ==
  ASSUME NEW name, NEW tool, NEW proof, NEW budget, NEW catalog, NEW context, NEW trust,
         NEW e \in PreflightErrors(name, tool, proof, budget, catalog, context, trust) \cap ApprovalCodes
  PROVE  e \in ApprovalErrors(PolicyDecision(tool, budget, context.at), proof,
                              Binding(name, tool, context), trust, context.at)
<1>1. e \notin KeyErrors(trust, "policy", context.at)
  BY DEF KeyErrors, ApprovalCodes
<1>2. \A i, x : e \notin WindowErrors(i, x, context.at, "POLICY_EXPIRED")
  BY DEF WindowErrors, ApprovalCodes
<1>3. \A r, b : e \notin BudgetErrors(r, budget, b, trust, context.at)
  <2>1. e \notin KeyErrors(trust, "budget", context.at)
    BY DEF KeyErrors, ApprovalCodes
  <2>2. \A i, x : e \notin WindowErrors(i, x, context.at, "BUDGET_EXPIRED")
    BY DEF WindowErrors, ApprovalCodes
  <2> QED
    BY <2>1, <2>2 DEF BudgetErrors, ApprovalCodes
<1> QED
  BY <1>1, <1>2, <1>3 DEF PreflightErrors, ApprovalCodes

LEMMA AskingCategory ==
  ASSUME NEW errors
  PROVE  FailureCategory(errors) = "approval_required" <=> errors \cap ApprovalCodes # {}
BY DEF FailureCategory, ApprovalCodes

(* A call that an approval would not help fails for one of the reasons.    *)
LEMMA FailureExplained ==
  ASSUME GatewayTyped, NEW name, NEW proof, Errors(name, proof) # {},
         FailureCategory(Errors(name, proof)) = "approval_required" => ~package[name].governed
  PROVE  Blockable(package[name], site, now)
<1> DEFINE tool == package[name]
           policy == PolicyDecision(tool, site.evidence[name].budget, now)
           binding == Binding(name, tool, Context)
           approval == ApprovalErrors(policy, proof, binding, site.trust, now)
<1>1. Context.at = now /\ Context = ContextOf(site, now) /\ now \in Nat /\ site \in Sites
  BY DEF Context, ContextOf, GatewayTyped
<1>2. /\ policy.allow = (tool.decision # "deny")
      /\ policy.approval_required = (tool.governed \/ tool.decision \in AskingDecisions)
      /\ policy.budget_required = tool.financial
      /\ policy.evaluated_at = now /\ policy.expires_at = now + PolicyTtl
  BY DEF PolicyDecision
<1>3. SUFFICES ASSUME ~Blockable(tool, site, now) PROVE FALSE
  OBVIOUS
<1>4. CredentialErrors(tool.binding, site.catalog, Context) = {}
  BY <1>1, <1>3, UsableHasCredential DEF Blockable
<1>5. KeyErrors(site.trust, "policy", now) = {}
  BY <1>3 DEF KeyErrors, Blockable
<1>6. policy.allow
  BY <1>2, <1>3 DEF Blockable
<1>7. WindowErrors(policy.evaluated_at, policy.expires_at, now, "POLICY_EXPIRED") = {}
  BY <1>1, <1>2, EvidenceAssumption DEF WindowErrors
<1>8. \A b : BudgetErrors(policy.budget_required, site.evidence[name].budget, b, site.trust, now) = {}
  BY <1>2, <1>3 DEF BudgetErrors, Blockable
<1>9. Errors(name, proof) = approval
  <2>1. ~tool.secretive
    BY <1>3 DEF Blockable
  <2> QED
    BY <2>1, <1>1, <1>4, <1>5, <1>6, <1>7, <1>8 DEF Errors, PreflightErrors
<1>10. approval # {}
  BY <1>9
<1>11. tool.governed
  <2>1. policy.approval_required
    BY <1>10 DEF ApprovalErrors
  <2> QED
    BY <1>2, <1>3, <2>1 DEF Blockable
<1>12. KeyErrors(site.trust, "approval", now) = {}
  BY <1>3, <1>11 DEF KeyErrors, Blockable
<1>13. approval \subseteq ApprovalCodes
  BY <1>12 DEF ApprovalErrors, WindowErrors, ApprovalCodes
<1> QED
  BY <1>9, <1>10, <1>11, <1>13, AskingCategory

(* A call with the proof of a confirmed challenge is not asked again,      *)
(* unless a budget is configured for a tool that costs nothing.            *)
LEMMA FreshProofAccepted ==
  ASSUME GatewayTyped, NEW name \in DOMAIN package,
         site.evidence[name].budget = Nothing \/ package[name].financial
  PROVE  FailureCategory(Errors(name, FreshProof(name))) # "approval_required"
<1> DEFINE tool == package[name]
           proof == FreshProof(name)
           binding == Binding(name, tool, Context)
           budget == site.evidence[name].budget
           policy == PolicyDecision(tool, budget, now)
<1>1. now \in Nat /\ site \in Sites /\ package \in Packages /\ Context.at = now
  BY PackageServed DEF GatewayTyped, Context, ContextOf
<1>2. ApprovalTtl \in Nat /\ ApprovalTtl > 0 /\ now + ApprovalTtl \in Nat
  BY <1>1, TimeAssumption
<1>3. name \in Names /\ tool.revision \in Revisions
  BY <1>1 DEF Names, Revisions
<1>4. binding \in [name : Names, revision : Revisions, context : Contexts]
  BY <1>1, <1>3 DEF Binding, Context, ContextOf, Contexts
<1>5. proof = [binding |-> binding, valid |-> TRUE, cost |-> CostSummary(tool, budget),
               issued_at |-> now, expires_at |-> now + ApprovalTtl]
  BY DEF FreshProof
<1>6. proof \in Proofs
  <2>1. CostSummary(tool, budget) \in {"budgeted", "estimated", Nothing}
    BY DEF CostSummary
  <2> QED
    BY <1>1, <1>2, <1>4, <1>5, <2>1 DEF Proofs
<1>7. proof # Nothing
  BY <1>6, NothingAssumption
<1>8. /\ proof.binding = binding /\ proof.issued_at = now /\ proof.expires_at = now + ApprovalTtl
      /\ proof.valid /\ proof.cost = CostSummary(tool, budget)
  BY <1>5
<1>8a. proof.cost = policy.cost
  BY <1>8 DEF PolicyDecision, CostSummary
<1>9. WindowErrors(proof.issued_at, proof.expires_at, now, "APPROVAL_EXPIRED") = {}
  BY <1>1, <1>2, <1>8 DEF WindowErrors
<1>10. ApprovalErrors(policy, proof, binding, site.trust, now) \subseteq {"TRUST_KEY_EXPIRED"}
  BY <1>7, <1>8, <1>9, <1>8a DEF ApprovalErrors, KeyErrors
<1>11. Errors(name, proof) \cap ApprovalCodes = {}
  <2> SUFFICES ASSUME NEW e \in Errors(name, proof) \cap ApprovalCodes PROVE FALSE
    OBVIOUS
  <2>1. e \in ApprovalErrors(policy, proof, binding, site.trust, now)
    BY <1>1, ApprovalCodesFromProof DEF Errors
  <2> QED
    BY <1>10, <2>1 DEF ApprovalCodes
<1> QED
  BY <1>11, AskingCategory

(* The explanations of others survive what a conversation does. *)
LEMMA ExplainedSpent ==
  ASSUME NEW k, NEW a \in Challenges \cup {Nothing}, NEW b, NEW n, NEW s,
         Explained(k, a, n, s), Spends(a, b)
  PROVE  Explained(k, b, n, s)
<1>1. b.previous = a.previous
  BY DEF Spends, Challenges
<1> QED
  BY <1>1 DEF Explained, AgainExplained

(* The answers that need a reason. *)
Reasoned == {"sign_in_refused", "blocked", "asked_again"}

(* Sign-in is refused over scopes of the tool itself. *)
LEMMA RefusalOwn ==
  ASSUME GatewayTyped, ScopesInv, NEW c \in Conversations,
         task[c].phase = "challenged", ~(task[c].scopes \subseteq site.supported)
  PROVE  \E p \in Range(site.packages) :
           task[c].goal \in DOMAIN p /\ ~(p[task[c].goal].scopes \subseteq site.supported)
<1>1. task[c].scopes \subseteq site.supported \cup Own(task[c].goal)
  BY DEF ScopesInv
<1>2. PICK x \in task[c].scopes : x \notin site.supported
  OBVIOUS
<1>3. x \in Own(task[c].goal)
  BY <1>1, <1>2
<1>4. PICK p \in Range(site.packages) : task[c].goal \in DOMAIN p /\ x \in p[task[c].goal].scopes
  BY <1>3 DEF Own
<1> QED
  BY <1>2, <1>4

(* A confirmed call is prepared for again only with its approval gone, the *)
(* tool changed, a configured proof in its way or a budget for nothing.    *)
LEMMA AgainOwn ==
  ASSUME GatewayTyped, AskedInv, NEW c \in Conversations, Prepare(c), task[c].verdict = "approve"
  PROVE  \/ Standing(c) \in {"consumed", "expired"}
         \/ deployments > 1 \/ site.evidence[task[c].goal].approval # Nothing
         \/ site.evidence[task[c].goal].budget # Nothing /\ ~package[task[c].goal].financial
<1> DEFINE name == task[c].goal
<1> SUFFICES ASSUME Standing(c) \notin {"consumed", "expired"}, ~(deployments > 1),
                    site.evidence[name].approval = Nothing,
                    site.evidence[name].budget = Nothing \/ package[name].financial
             PROVE  FALSE
  OBVIOUS
<1>1. /\ task[c].phase = "send" /\ task[c].step = "call" /\ name \in DOMAIN package
      /\ package[name].governed
  BY DEF Prepare, Planned, Called, At
<1>2. Asked(task[c], approvals[c], deployments, site, {"confirmed", "consumed"})
  BY <1>1 DEF AskedInv, AskedLocal
<1>3. deployments = 1
  BY PackageServed, SiteAssumption DEF GatewayTyped
<1>4. /\ approvals[c] # Nothing /\ approvals[c].name = name
      /\ approvals[c].status \in {"confirmed", "consumed"}
      /\ approvals[c].revision = package[name].revision
  BY <1>2, <1>3 DEF Asked, package
<1>5. approvals[c].status = "confirmed" /\ now < approvals[c].expires_at
  BY <1>4 DEF Standing
<1>6. c \in Confirmed(name)
  BY <1>4, <1>5 DEF Confirmed
<1>7. PICK r \in Resolutions(name) : FailureCategory(Errors(name, r.proof)) = "approval_required"
  BY DEF Prepare
<1>8. r.proof = FreshProof(name)
  BY <1>1, <1>6, <1>7, ResolutionSpends
<1> QED
  BY <1>1, <1>7, <1>8, FreshProofAccepted

(* A conversation's own answers. *)
LEMMA ExplainedOwn ==
  ASSUME GatewayTyped, ScopesInv, AskedInv, ExplainedInv, NEW c \in Conversations, Acts(c)
  PROVE  Explained(task'[c], approvals'[c], deployments, site)
<1> DEFINE k == task[c]
           next == task'[c]
<1>1. /\ DOMAIN task = Conversations /\ LocalTyped(k)
      /\ AskedLocal(k, approvals[c], deployments, site)
  BY DEF GatewayTyped, AskedInv
<1>a. ASSUME next.result \notin Reasoned
      PROVE  Explained(next, approvals'[c], deployments, site)
  BY <1>a DEF Reasoned, Explained, RefusalExplained, BlockExplained, AgainExplained
<1>b. ASSUME NEW result, Settle(c, result)
      PROVE  next.result = result /\ next.goal = k.goal
  BY <1>1, <1>b DEF Settle, Resting
<1>c. ASSUME k.phase # "idle", next.result = k.result
      PROVE  next.result \notin Reasoned
  BY <1>1, <1>c DEF AskedLocal, Reasoned
<1>d. ASSUME NEW step, Then(c, step)
      PROVE  next.result = k.result
  BY <1>1, <1>d DEF Then, LocalTyped
<1>2. ASSUME NEW wanted \in Requests, Start(c, wanted)
      PROVE  next.result \notin Reasoned
  BY <1>1, <1>2 DEF Start, Resting, Reasoned
<1>3. CASE Malformed(c) \/ NotExecuted(c)
  <2>1. next.result \in {"rejected", "accepted"}
    BY <1>b, <1>3, NotExecutedSettles DEF Malformed
  <2> QED
    BY <1>a, <2>1 DEF Reasoned
<1>4. CASE Unauthorized(c) \/ InsufficientScope(c)
  <2>1. k.phase = "send" /\ next.result = k.result
    BY <1>1, <1>4 DEF Unauthorized, InsufficientScope, Challenge, LocalTyped
  <2> QED
    BY <1>a, <1>c, <2>1
<1>5. CASE List(c)
  <2>1. k.phase = "send" /\ next.result = k.result
    BY <1>d, <1>5 DEF List, At
  <2> QED
    BY <1>a, <1>c, <2>1
<1>6. CASE ReadResource(c)
  <2>1. k.phase = "send"
    BY <1>6 DEF ReadResource, At
  <2>2. CASE Settle(c, "scanned")
    BY <1>a, <1>b, <2>2 DEF Reasoned
  <2>3. CASE task' = [task EXCEPT ![c].phase = "widget"]
    <3>1. next.result = k.result
      BY <1>1, <2>3 DEF LocalTyped
    <3> QED
      BY <1>a, <1>c, <2>1, <3>1
  <2> QED
    BY <1>6, <2>2, <2>3 DEF ReadResource
<1>7. CASE Confirm(c)
  <2>1. k.phase = "send"
    BY <1>7 DEF Confirm, At
  <2>2. CASE Settle(c, "not_confirmed") \/ Settle(c, "denied")
    <3>1. next.result \in {"not_confirmed", "denied"}
      BY <1>b, <2>2
    <3> QED
      BY <1>a, <3>1 DEF Reasoned
  <2>3. CASE Then(c, "call")
    BY <1>a, <1>c, <1>d, <2>1, <2>3
  <2> QED
    BY <1>7, <2>2, <2>3 DEF Confirm
<1>8. CASE Execute(c)
  <2>1. next.result = "executed"
    BY <1>b, <1>8 DEF Execute
  <2> QED
    BY <1>a, <2>1 DEF Reasoned
<1>9. CASE Prepare(c)
  <2>1. CASE k.verdict = "approve"
    <3>1. next.result = "asked_again" /\ next.goal = k.goal /\ next.tool = package[k.goal]
      <4>1. SettleTool(c, "asked_again")
        BY <1>9, <2>1 DEF Prepare
      <4> QED
        BY <1>1, <4>1 DEF SettleTool, Resting
    <3>2. PICK r \in Resolutions(k.goal) : approvals' = [r.store EXCEPT ![c] = Prepared(c)]
      BY <1>9 DEF Prepare, Prepared
    <3>3. approvals'[c].previous = Standing(c)
      BY <3>2, ResolutionSpends DEF Prepared
    <3>4. \/ Standing(c) \in {"consumed", "expired"}
          \/ deployments > 1 \/ site.evidence[k.goal].approval # Nothing
          \/ site.evidence[k.goal].budget # Nothing /\ ~package[k.goal].financial
      BY <1>9, <2>1, AgainOwn
    <3> QED
      BY <3>1, <3>3, <3>4 DEF Explained, RefusalExplained, BlockExplained, AgainExplained
  <2>2. CASE k.verdict # "approve"
    <3>1. k.phase = "send" /\ Then(c, "resource")
      BY <1>9, <2>2 DEF Prepare, Planned, Called, At
    <3> QED
      BY <1>a, <1>c, <1>d, <3>1
  <2> QED
    BY <2>1, <2>2
<1>10. CASE Block(c)
  <2>1. SettleTool(c, "blocked")
    BY <1>10 DEF Block
  <2>2. next.result = "blocked" /\ next.tool = package[k.goal] /\ next.at = now
    BY <1>1, <2>1 DEF SettleTool, Resting
  <2>3. PICK r \in Resolutions(k.goal) :
          /\ Errors(k.goal, r.proof) # {}
          /\ FailureCategory(Errors(k.goal, r.proof)) = "approval_required" => ~package[k.goal].governed
    BY <1>10 DEF Block
  <2>4. Blockable(package[k.goal], site, now)
    BY <2>3, FailureExplained
  <2> QED
    BY <2>2, <2>4 DEF Explained, RefusalExplained, BlockExplained, AgainExplained
<1>11. CASE SignIn(c)
  <2>1. k.phase = "challenged"
    BY <1>11 DEF SignIn
  <2>2. CASE task' = [task EXCEPT ![c].phase = "send"]
    <3>1. next.result = k.result
      BY <1>1, <2>2 DEF LocalTyped
    <3> QED
      BY <1>a, <1>c, <2>1, <3>1
  <2>3. CASE Settle(c, "declined")
    BY <1>a, <1>b, <2>3 DEF Reasoned
  <2>4. CASE ~(k.scopes \subseteq site.supported) /\ Settle(c, "sign_in_refused")
    <3>1. next.result = "sign_in_refused" /\ next.goal = k.goal
      BY <1>b, <2>4
    <3>2. \E p \in Range(site.packages) :
            k.goal \in DOMAIN p /\ ~(p[k.goal].scopes \subseteq site.supported)
      BY <2>1, <2>4, RefusalOwn
    <3> QED
      BY <3>1, <3>2 DEF Explained, RefusalExplained, BlockExplained, AgainExplained
  <2> QED
    BY <1>11, <2>2, <2>3, <2>4 DEF SignIn
<1>12. CASE Refresh(c)
  <2>1. k.phase = "challenged" /\ next.result = k.result
    BY <1>1, <1>12 DEF Refresh, LocalTyped
  <2> QED
    BY <1>a, <1>c, <2>1
<1>13. CASE Decide(c)
  <2>1. k.phase = "widget"
    BY <1>13 DEF Decide
  <2>2. PICK verdict \in {"approve", "deny"} :
          task' = [task EXCEPT ![c].phase = "send", ![c].step = "confirm", ![c].verdict = verdict]
    BY <1>13 DEF Decide
  <2>3. next.result = k.result
    BY <1>1, <2>2 DEF LocalTyped
  <2> QED
    BY <1>a, <1>c, <2>1, <2>3
<1>14. CASE Refuse(c)
  <2>1. next.result = "refused"
    BY <1>b, <1>14 DEF Refuse
  <2> QED
    BY <1>a, <2>1 DEF Reasoned
<1> QED
  BY <1>2, <1>a, <1>3, <1>4, <1>5, <1>6, <1>7, <1>8, <1>9, <1>10, <1>11, <1>12, <1>13, <1>14
  DEF Acts, Answer, Respond

(* Every answer keeps its reason. *)
LEMMA ExplainedStep ==
  ASSUME GatewayTyped, ScopesInv, AskedInv, ExplainedInv, [Next]_vars
  PROVE  ExplainedInv'
<1>1. CASE UNCHANGED <<task, approvals, deployments, site>>
  BY <1>1 DEF ExplainedInv
<1>2. CASE Redeploy
  <2>1. /\ task' = task /\ approvals' = approvals /\ site' = site
        /\ deployments' = deployments + 1 /\ deployments \in Nat
    BY <1>2, PackageServed DEF Redeploy
  <2>2. ASSUME NEW k, NEW a, Explained(k, a, deployments, site)
        PROVE  Explained(k, a, deployments', site)
    BY <2>1, <2>2 DEF Explained, AgainExplained
  <2> QED
    BY <2>1, <2>2 DEF ExplainedInv
<1>3. ASSUME NEW c \in Conversations, Acts(c)
      PROVE  ExplainedInv'
  <2>1. UNCHANGED <<site, deployments>>
    BY <1>3, ActsOnOthers
  <2>2. Explained(task'[c], approvals'[c], deployments, site)
    BY <1>3, ExplainedOwn
  <2>3. ASSUME NEW d \in Conversations \ {c}
        PROVE  Explained(task'[d], approvals'[d], deployments, site)
    <3>1. /\ task'[d] = task[d] /\ Spends(approvals[d], approvals'[d])
          /\ approvals[d] \in Challenges \cup {Nothing}
          /\ Explained(task[d], approvals[d], deployments, site)
      BY <1>3, <2>3, ActsOnOthers DEF GatewayTyped, ExplainedInv
    <3> QED
      BY <3>1, ExplainedSpent
  <2> QED
    BY <2>1, <2>2, <2>3 DEF ExplainedInv
<1> QED
  BY <1>1, <1>2, <1>3 DEF Next, Acts, Tick, vars

LEMMA ServedInitial == Init => ServedInv
<1> SUFFICES ASSUME Init PROVE ServedInv
  OBVIOUS
<1>1. \A c \in Conversations : task[c] = Resting /\ approvals[c] = Nothing
  BY DEF Init
<1>2. GatewayTyped
  <2>1. site \in Sites /\ deployments = 1 /\ now = 1
    BY DEF Init
  <2>2. 1 \in DOMAIN site.packages
    BY <2>1, SiteAssumption
  <2>3. LocalTyped(Resting)
    BY DEF LocalTyped, Resting, Phases, Steps
  <2>4. DOMAIN task = Conversations /\ approvals \in [Conversations -> Challenges \cup {Nothing}]
    BY DEF Init
  <2> QED
    BY <1>1, <2>1, <2>2, <2>3, <2>4 DEF GatewayTyped
<1>3. ScopesInv
  BY <1>1 DEF Init, ScopesInv, Resting
<1>4. AskedInv
  BY <1>1 DEF AskedInv, AskedLocal, Resting
<1>5. ExplainedInv
  BY <1>1 DEF ExplainedInv, Explained, RefusalExplained, BlockExplained, AgainExplained, Resting
<1> QED
  BY <1>2, <1>3, <1>4, <1>5 DEF ServedInv

(* A sign-in is refused over the tool's own scopes (authorize of the OAuth *)
(* gateway, after the 403 of mcp/http-server.ts); the preflight of         *)
(* callTool blocks a call for its policy, a budget, a key, a field named   *)
(* like a secret or for want of a credential; and a confirmed call is      *)
(* asked for again only with its approval spent or expired, the tool       *)
(* redeployed, a proof configured, or a budget configured for a tool that  *)
(* is not financial.  Calls that fail outside the preflight (Refuse) name  *)
(* their cause in the answer, and nothing is claimed of them.              *)
THEOREM GatewayServedOrExplained == Spec => []ServedOrExplained
<1>1. Init => ServedInv
  BY ServedInitial
<1>2. ServedInv /\ [Next]_vars => ServedInv'
  BY TypedStep, ScopesStep, AskedStep, ExplainedStep DEF ServedInv
<1>3. ServedInv => ServedOrExplained
  <2> SUFFICES ASSUME ServedInv, NEW c \in Conversations
               PROVE  LET k == task[c] IN
                      /\ k.result = "sign_in_refused" =>
                           \E p \in Range(site.packages) :
                             k.goal \in DOMAIN p /\ ~(p[k.goal].scopes \subseteq site.supported)
                      /\ k.result = "blocked" =>
                           \/ k.tool.decision = "deny" \/ k.tool.financial \/ k.tool.secretive
                           \/ k.tool.decision \in AskingDecisions /\ ~k.tool.governed
                           \/ ~Unexpired(site.trust.policy, k.at)
                           \/ k.tool.governed /\ ~Unexpired(site.trust.approval, k.at)
                           \/ k.tool.binding # Nothing /\ ~Usable(k.tool, k.at)
                      /\ k.result = "asked_again" =>
                           \/ approvals[c].previous \in {"consumed", "expired"}
                           \/ deployments > 1 \/ site.evidence[k.goal].approval # Nothing
                           \/ site.evidence[k.goal].budget # Nothing /\ ~k.tool.financial
    BY DEF ServedOrExplained
  <2>1. Explained(task[c], approvals[c], deployments, site)
    BY DEF ServedInv, ExplainedInv
  <2>2. UsableAt(task[c].tool, site, task[c].at) <=> Usable(task[c].tool, task[c].at)
    BY DEF UsableAt, Usable
  <2> QED
    BY <2>1, <2>2 DEF Explained, RefusalExplained, BlockExplained, Blockable, AgainExplained
<1> QED
  BY <1>1, <1>2, <1>3, PTL DEF Spec
=============================================================================
