# Foundry in TLA+

This directory models, model-checks and proves properties of Foundry: the Studio
that compiles an OpenAPI document into governed MCP tools, the deployed app that
serves them behind OAuth, the runtime that executes the provider calls, and the
files they keep on disk. Sources are named relative to the repository's `src/`
directory.

## 1. Inventory

| Component | Source | State | Operations | Status |
|---|---|---|---|---|
| Dispatch ledger | `dispatch/ledger-store.ts` | a directory: `ledger.meta.json`, the hash-chained journal `events.jsonl`, the lock directory `.dispatch-lock` | initialize, reserve, commit, release; snapshot and verify read only | modelled |
| Approval challenge store | `apps/approval-store.ts` | one JSON file, `.approval-lock` | create, decide, consume; get reads only | modelled |
| OAuth service and store | `oauth/service.ts`, `oauth/store.ts` | one JSON file of clients, codes, refresh tokens and revoked access ids, `.oauth-lock` | authorize, exchange, refresh, register, revoke; validate reads only | modelled |
| Studio project and pipeline | `studio/project-store.ts`, `pipeline-service.ts`, `api-router.ts`, `tool-overrides.ts` | a project directory, written file by file without a lock | configure, import, overrides, build, deploy | modelled |
| Credential resolver | `auth/` | none | select an account, compile a binding | modelled |
| MCP server runtime | `mcp/server-runtime.ts`, `provider-executor.ts`, `policy-evaluator.ts`, `credential-boundary.ts`, `execution-receipt.ts` | the local variables of a call between its awaits | `callTool` | partly |
| Approval tools | `apps/approval-tools.ts` | none of its own | prepare, confirm, reject, `resolveApproval` | partly |
| Secure preflight | `runtime/secure-preflight.ts` | none | `authorizeExecution` | partly |
| App assembly | `apps/app-assembly.ts`, `init-app.ts` | the configuration an app was initialized with | `createAppToolCaller`, `createScopeResolver` | partly |
| MCP transport, OAuth HTTP gateway | `mcp/http-server.ts`, `jsonrpc-router.ts`, `tool-registry.ts`, `oauth/http-gateway.ts` | none between requests | the checks of a request, the two challenges, the sign-in | partly |
| Deployment package | `studio/deployment-builder.ts` | the package directory; the volume it is deployed over | build a package, bootstrap | partly |
| Inspection, mapping, compiler, enrichment, validator | `inspection/`, `mapping/`, `compiler/`, `tools/`, `validation/` | none: functions of one document | | partly |
| Adapter compiler, request planner, response normalizer | `adapters/` | none: functions of one tool or call | | partly |
| Command line | `cli/` | none | | the operator's dispatch commands and the studio commands |
| OAuth cryptography | `oauth/jwt.ts`, `pkce.ts`, `password.ts` | none | | not modelled |

How they interact. A Studio build inspects the OpenAPI source, maps its
operations to capabilities, applies the reviewer's overrides, compiles tools,
policies and approvals, attaches the provider's authentication, enriches the
tools, and derives adapters, authentication bindings and a credential catalog;
each artifact is one file. A deployment copies the files into a package; its
bootstrap initializes an app on the container's volume once and copies the
artifacts over. A client's request passes the HTTP checks, the bearer check and
the scope check; a 401 or 403 sends it to sign in. Its `tools/call` reaches
`createAppToolCaller`, which calls `callTool`. `callTool` validates the
arguments, plans the request, consumes a confirmed approval from the approval
store, signs a policy decision, authorizes an envelope, reserves it in the
ledger, injects the credential, awaits the provider, and commits or releases
the reservation. A missing approval makes the app prepare a challenge that a
user later confirms or denies in the widget. The three stores are shared by
concurrent requests of one process and by other processes on the machine (the
command line among them); each guards its file with a lock directory made by
`mkdir`. Studio's directory has no lock at all. Requests share no memory beyond
these files.

What is hard. Every operation has several awaits, so calls interleave between
reading and writing; times are captured before the lock wait; processes die
holding a lock or half way through an append; writes and fsync fail after the
data may have reached the disk; the provider executes after the runtime gave
up; one step of a call fails after others have had their effect; single-use
values (approvals, nonces, keys, codes, refresh tokens) are presented
repeatedly and concurrently; conversations of one client share a token and ask
it for different scopes; a package is deployed over a configuration that was
made for another. In the pipeline several stages derive the same thing again
(argument names, risk, scopes, approval) and a later stage rewrites what an
earlier one digested. `PROJECT.json` lists each hazard at its line with the
properties that would catch it.

What makes each component correct:

- *ledger*: every readable journal verifies; an envelope goes absent ->
  reserved -> dispatched or released, once; its single-use values never come
  back; accounts are not overspent; a receipt is backed by the journal; damage
  and orphaned locks stop it instead of corrupting it.
- *approvals*: a decision stands; a confirmed challenge yields one proof, for
  its tenant and its exact action.
- *OAuth*: a code or refresh token is traded once; scopes only narrow;
  revocations stand; acknowledged changes are not lost.
- *runtime*: nothing leaves without the approval it needs; evidence in ledger
  and replies agrees with what the provider did; every call is answered.
- *gateway*: what is sent is covered by the client's token and by a credential
  of this client; what is not served is refused for a reason that can be named;
  a client that follows the challenges gets an answer.
- *Studio project*: an edit, once made, is only lost to a request that ran
  together with it; artifacts of one build stay together; a package is what its
  manifest says.
- *Studio pipeline*: the bundle validates, or the document or the override that
  keeps it from validating can be named; dangerous tools are behind an
  approval; an equal revision means an equal contract; an admitted call reaches
  the provider as the document says, and its answer is read so.

## 2. Modules

| Module | Models | How state and actions correspond to the code |
|---|---|---|
| `LedgerRules` | the decisions of `ledger-store.ts` as operators on a journal | an event is the line's record; `StatusOf` and `Verifies` are the two halves of `loadLedgerState` |
| `AbstractLedger` | what the ledger promises: atomic Reserve, Dispatch, Release | one variable `status`, per envelope |
| `DispatchLedger` | the ledger as processes run it | the directory's files are `metadata`, `events_file`, `journal`, `tail`; `lockdir` is the lock; each process has `pc`, `call`, `pending`, `reply`. One action per stretch between awaits: take the lock, read and decide, append, drop the lock; append may be interrupted or fail at any byte, which `tail` classifies |
| `ApprovalChallenges` | the approval store with atomic operations | `challenges` is the array in the file |
| `ApprovalStore` | the store as requests run it: lock, read, change a copy, rename, unlock, crash | `copy` is the array in memory, `granted` the proofs returned |
| `OAuthService` | the OAuth service over its file, with the same steps | `file` is `oauth-state.json`; `op` holds the captured time and the drawn secret; `granted`, `revoked`, `registered` record what clients were told, `origin` and `family` which secret a secret was traded for and which sign-in it goes back to |
| `GovernedRuntime` | `callTool`, concurrently, with users, an operator and a slow provider | one action per stretch between awaits; the operator's `foundry dispatch reserve`, `commit` and `release` are `Operator`, with the `Commands` it may use and the envelope `Files` it holds, at any `--at`, and the history `operated` keeps how it ended a reservation; it composes `AbstractLedger` and `ApprovalChallenges`, the levels the two detailed modules are shown to implement |
| `EvidenceRules` | the credential resolver, the policy evaluator and `authorizeExecution` as operators | error codes are the code's; `FailureCategory` is the one cause a reply names |
| `Gateway` | a deployed app under OAuth and its client, on top of `EvidenceRules` | one action per request and answer: the HTTP checks, 401, 403, list, resource, confirm, execute, prepare, block, refuse; the client signs in, refreshes, decides; the package is redeployed, time passes |
| `CapabilityRules` | inspection, mapping and review: from a document to reviewed capabilities | operators named for the functions |
| `ContractRules` | compiler, provider authentication, enrichment, semantic validator | the bundle is a record of sets of contracts |
| `AdapterRules` | adapters, bindings, planning, injection, reading the answer | a request is a set of <<location, name, argument>> |
| `StudioPipeline` | a project that is edited, built and called, each request alone | `source`, `mode`, `overrides` are the project; `built` the artifacts; the three rules modules are its functions |
| `StudioProject` | the project directory under concurrent requests | the files are `project`, `contents`, `overrides`, `generated`, `package`; one action per await on a file; an artifact is the inputs it was computed from |
| `MC*` | instances for TLC | envelopes, requests, sites, documents, symmetry |
| `LedgerRules_proofs`, `DispatchLedger_proofs`, `ApprovalStore_proofs`, `OAuthService_proofs`, `GovernedRuntime_proofs`, `Gateway_proofs`, `StudioProject_proofs`, `StudioPipeline_proofs` | theorems | section 5 |

Abstractions. A digest or signature identifies what it was computed from. An
exact action (tool, revisions, adapter, arguments) is one model value, a tenant
(subject, client, workspace) another; a redirect URI, resource and PKCE
verifier are one `Binding`; a budget reference and currency are one account;
amounts are naturals (safe integers in the code); time is a small natural, and
only comparisons of times matter. An envelope's identity is what
`authorizeExecution` hashes: action, tenant, key, approval and `startedAt`, so
two calls that agree on all of them have the same envelope. What throws before
any state is touched is a stuttering step and not an action, except where
the caller sees the reply.

In `Gateway` a request is answered in one step (`GovernedRuntime` and
`OAuthService` have what happens between its awaits); one client has one
access token, which its conversations share and replace; a conversation makes
one request, keeps its last challenge and forgets earlier ones. A tool is called with one
set of arguments, which are fit or unfit for it; `secretive` says that one of
them is named like a secret. Of what an approval says about the cost only
which summary it was made for counts (none, estimated, or that of a configured
budget); a trusted key that is missing or inactive is one that expired. Of the
bound dimensions only the client differs between accounts. In the pipeline an
identifier is a sequence of words, the text heuristics of the inspection are
the lexical classes a text matches, a JSON schema is its properties and the
required ones, and argument values are left out.

Definitions named `X_Something` directly above `X` are mutants: the same step
with a plausible bug. With the mutant in place of `X` the property it is
listed with in `PROJECT.json` is violated, so the property says something about
that line of the code.

## 3. Runs

| Run | Question | Instance |
|---|---|---|
| `ledger_concurrent` | do two processes interleave safely, is the account never overspent, is it an `AbstractLedger`? | 2 processes, 4 envelopes that share a key, an approval or an account in pairs, one of them unauthorized; 3 events, clock 0..1 with expiries at 1, no faults |
| `ledger_faults` | what survives crashes and torn writes; does every call return? | 2 processes, 2 envelopes, new calls until 2 events, 2 faults, expiry at 1; fair, no symmetry |
| `approval_store` | are approvals single use, decisions final, requests answered; is it `ApprovalChallenges`? | 2 requests, 2 challenges of one action and tenant, 1 crash; fair |
| `oauth_service` | are secrets traded once, are revocations and grants kept? | 2 requests, 3 secrets, 2 scopes, a client that has to register first, 1 revocation, 1 crash, clock 0..3 with lifetimes and a grace period of 1, so records expire and are later pruned; a request names its own client, so the client-mismatch guards do not refuse here |
| `runtime_keys` | is what is sent approved; does the evidence agree with the provider; why may a claim of section 6 fail; is each call answered? | 2 calls, among keyed payments of one tenant (ungoverned), actions of another that need an approval and get a generated key, and barred ones; 3 challenges, one of them possibly there from before and of either tenant; reservations that expire; an operator who reserves one payment by hand, and commits, cancels or expires any reservation with any `--at`; 1 fault; fair |
| `runtime_double_send`, `runtime_late_commit`, `runtime_false_blocked` | findings, section 6 | 1 or 2 calls |
| `studio_pipeline` | is a built bundle valid, gated and stable; do calls and answers get through it? | 6 documents of 14 operations, each with a feature that some stage treats in its own way; 6 override files, 3 authentication modes, 2 edits between builds, every subset of a tool's arguments, 5 statuses |
| `studio_project` | what do concurrent edits, builds and deployments lose? | 3 requests of any kind, 2 artifacts and the source, 2 source files, 2 modes, 1 failure |
| `gateway` | is what is sent covered; why is a call refused; does a client that follows the challenges end? | 2 conversations of one client, clock 1..2 with lifetimes of 1; five sites: initialized for the demo and deployed over; made for its package, with its own accounts, redeployed with a revised one; with a budget configured for an action that costs nothing and accounts of bearer tokens, the first of them for another audience; with an approval key that expires, an argument named like a secret and a read by bearer token; and with evidence made beforehand; fair |
| `gateway_deployed` | finding, section 6 | 1 conversation, a Studio package on a fresh volume |

Why the bounds are enough. Every conflict in these stores is between two calls
(two processes, two requests), or between one call and a later one; with two
processes and three operations in sequence every ordered pair of operations
meets every other, before, inside and after each critical section. Three
requests are used on Studio's directory, where a third party matters: a
deployment goes wrong through a configuration that itself went wrong with an
import. The ledger rules compare envelopes pairwise on four values and one sum;
the envelopes chosen realise each kind of conflict and one sum that fits in one
order only. A fault hits the recovery from another in the ledger runs. One
time unit on either side of a deadline gives before and at. `MaxEvents` stops
new calls, not calls under way. The pipeline's operators treat operations one
by one but for names, hints and scopes, so documents of two to four operations
show what one operation does to another; two edits let a rebuild differ from
the build before in source, mode or overrides. The conversations of the gateway
interact through one token and through approvals of the same tool, for which
two suffice. Every safety property of every run is moreover proved without these
bounds (section 5). The
proofs corrected one bound that was too small: with three requests a package
that its manifest does not describe goes back to a request that overlapped the
deployment or to two that overlapped each other; with four, the one that
overlapped the deployment may itself be wrong by one the deployment never met.
That is the disjunct of `PackageDescribed` about `configure`.

`CHECK_DEADLOCK FALSE` is stated in every configuration: the bounds on calls,
secrets, edits and time mean a bounded instance legitimately runs out of steps.

Symmetry (permutations of processes or requests) is used only in runs without
liveness properties; these values are never ordered or chosen from.

## 4. Fairness

In the stores and the runtime `FairSpec` asks weak fairness of the steps of
each call that has begun -- one weak fairness condition per process, request or
call -- and of nothing else: not of callers, users, the provider, the operator,
the clock or of faults. The code justifies it: every await is on a file
operation, a bounded retry (lock loops give up after a fixed number of
attempts, the `LockTimeout` actions), or a provider request with an abort timer
(`NoResponse`). A lock that is taken keeps `LockTimeout` enabled, so the
liveness properties do not rely on the lock ever becoming free: they hold
behind an orphaned lock.

In `Gateway` the condition is one per conversation, over the server's answers
and the client's reactions to them. `RequestsSettle` is a statement about a
client that follows the challenges and a user who decides something: approve or
deny, sign in or decline. Which of them, and how conversations interleave, is
left open; fairness rules out only that a conversation is abandoned. The
starting of requests, redeployment and the clock are not fair.

## 5. Proofs

`DispatchLedger_proofs` proves for any sets of processes and envelopes and any
bounds, from the named assumptions on the constants (`EnvelopeAssumption`,
`NullAssumption`, `ProcsAssumption`):

| Theorem | Property |
|---|---|
| `LockExcludes` | `MutualExclusion` (no run: `DecisionsFresh` is what it is for) |
| `LedgerTyped` | `TypeOK` |
| `LedgerDecisionsFresh` | `DecisionsFresh` |
| `LedgerJournalVerifies` | `JournalVerifies` |
| `LedgerSingleUse` | `SingleUse` |
| `LedgerRecordedInTime` | `RecordedInTime` (no run) |
| `LedgerFailsClosed` | `FailsClosed` |
| `LedgerOrphanFreezes` | `OrphanedLockFreezes` |
| `LedgerReceiptsBacked` | `ReceiptsBacked` |
| `LedgerBudgetHeld` | `BudgetHeld` |
| `LedgerInitializedUsable` | `InitializedIsUsable`, while nothing failed |
| `LedgerImplementsAbstract` | `ImplementsAbstractLedger`, a refinement |

The argument. None of the journal properties is inductive: that an append
keeps the journal legal depends on the decision having been made on the very
journal it lands on. The inductive invariant `BaseInv` therefore carries the
lock discipline (`LockInv`: whoever is inside owns the lock directory), that a
pending event exists exactly while its process is about to append
(`PendingInv`), that the pending event is still what the journal calls for
(`DecisionsFresh`), and that a reservation in flight was validated before it
queued (`ValidatedInv`). `FreshInductive` is the heart: between reading and
appending only the lock holder changes the journal. `JournalSteps` then says
that every step leaves the journal alone or appends one legal, fresh event, and
each journal property follows from that lemma together with facts about
appending (`LedgerRules_proofs`: what an append does to the status function, to
verification and to the units an account spends). `FailsClosed`,
`OrphanedLockFreezes` and the refinement are action arguments on top of it:
each step maps to a step of `AbstractLedger` or to a stutter under
`status <- StatusOf(journal)`. `BudgetHeld` needs a cardinality argument over
`FiniteSetTheorems`: a new reservation fits the remainder it was authorized
against (`BudgetAppend`), and releases only shrink the sum.

`LedgerInitializedUsable` proves `InitializedIsUsable` under the condition
`faults = 0`, which is also how `ledger_concurrent` checks it: after an
initialization that fails between writing the metadata and creating the
journal the property is false (section 6). `UsableInv` says that, while nothing
failed, the journal is missing beside its metadata only while an
initialization that holds the lock is between the two.

The other components:

| Module | Theorem | Property |
|---|---|---|
| `ApprovalStore_proofs` | `StoreTypeCorrect` | `StoreTypeOK` (no run) |
| | `ApprovalsSingleUse` | `ProofsSingleUse` |
| | `ProofsAreConsumed` | `GrantedIsConsumed` |
| | `DecisionsAreKept` | `DecisionsStand`, an action property |
| | `StoreImplementsChallenges` | `ImplementsChallenges`, a refinement |
| `OAuthService_proofs` | `OAuthTradedOnce` | `TradedOnce` |
| | `OAuthOneLivePerFamily` | `OneLivePerFamily` |
| | `OAuthScopesNarrow` | `ScopesNarrow` |
| | `OAuthAcknowledgedIsStored` | `AcknowledgedIsStored` |
| | `OAuthRevocationStands` | `RevocationStands`, an action property |
| `GovernedRuntime_proofs` | `RuntimeTyped` | `TypeOK` |
| | `RuntimeSentIsApproved` | `SentIsApproved` |
| | `RuntimeOneExecutionPerKey` | `OneExecutionPerKey` |
| | `RuntimeDispatchedIsReal` | `DispatchedIsReal` |
| | `RuntimeFalseClaims` | `FalseClaimsExplained` |
| | `RuntimeAnsweredLoss` | `AnsweredLossExplained` |
| | `RuntimeUsesLedger`, `RuntimeUsesApprovals` | each step is one of `AbstractLedger` and one of `ApprovalChallenges`, or leaves them alone (no run) |
| `Gateway_proofs` | `GatewayDispatchCovered` | `DispatchCovered` |
| | `GatewayServedOrExplained` | `ServedOrExplained` |
| `StudioProject_proofs` | `ProjectEditsSurvive` | `EditsSurvive` |
| | `ProjectGenerationsAgree` | `GenerationsAgree` |
| | `ProjectPackageDescribed` | `PackageDescribed` |
| `StudioPipeline_proofs` | `PipelineExplains` | `BuiltIssuesExplained` |
| | `PipelineGates` | `HighImpactIsGated` |
| | `PipelineRevisions` | `SameRevisionSameContract` |
| | `PipelineReaches` | `AdmittedCallsReachProvider` |
| | `PipelineHidesCookies` | `CredentialsStayHidden` |
| | `PipelineAnswers` | `AnswersReadRight` |

*Approval store* (from `ChallengeAssumption`, `RequestAssumption`). The file is
replaced as a whole, so a stale copy would bring a consumed challenge back.
`StoreInv` says that inside the lock it cannot be stale: `LockInv`, and
`PlanInv`, the copy about to be renamed over the file is one mutation away from
the file as it is now. `PickInv` says of a consuming request that what it picked
is consumed in its copy and was never given to anyone, and, after the rename,
that it is consumed in the file. A rename is then the atomic operation of
`ApprovalChallenges` and everything else stutters.

*OAuth service* (from `OAuthAssumption`). As above, `CopyInv` relates the copy
of the lock holder to the file. The secrets need more. `AskedInv` and `OwnInv`:
what a request draws is its own. `SecretInv`: who was traded for whom is a
forest whose inner nodes were given to clients. `RecordInv`: one record per
secret, which says what the client was told. `SpentInv`: what a secret was
traded for is unusable, and two secrets were never traded for the same one;
`FamilyInv`, one usable secret per sign-in. `DoneInv` and `RevokedInv`: what is
answered is already in the file. Instead of a case per operation and conjunct,
the proofs go through `Evolves`, a description of what any mutation may do to
the file (records only go, get spent, or are the new ones of the request), which
each operation is shown to satisfy once.

*Runtime* (from `RuntimeAssumption`, `ChallengeAssumption`,
`EnvelopeAssumption`). `RuntimeInv` follows a call through its awaits:
`PhaseInv` and `ProvedInv` say what a call has done by where it is, `ProofInv`
that the proof it carries is its own and rests on a consumed challenge of its
tenant and action, `HeldInv` that past the reservation its envelope is in the
ledger, `DispatchInv` and `ReleaseInv` who put it there or gave it up,
`LossInv` why an answered call would, and `OperatedInv` that the ledger is as
an operator left it. `RuntimeUsesLedger` and `RuntimeUsesApprovals` connect the
modules: what the ledger and the store are
proved to implement is all that the runtime uses of them.
`OneExecutionPerKey` rests on `Ledger!SingleUse` and on an envelope's identity
being what `authorizeExecution` hashes.

*Gateway* (from `SiteAssumption`, `TimeAssumption`, `NothingAssumption` and
`EvidenceAssumption`). For `DispatchCovered`: `ExecuteCovers` derives from
`authorizeExecution` passing that the resolver selected an account
(`PermittedHasCredential`), that it was a candidate for this client
(`SelectedIsCandidate`) and that it has the scopes and is meant for the audience, where that is
validated (`SelectedCovers`).
`ServedInv` supports the reasons of `ServedOrExplained`: `ScopesInv` (a token
holds, and a 403 asks for, nothing but what the site supports or the tool itself
needs), and `AskedInv` (a conversation that decides or was confirmed has a
challenge in that state, for its tool as it is served unless there was another
deployment). That a blocked call has one of the named reasons is a case analysis
over the order in which `authorizeExecution` looks for causes
(`FailureExplained`); a fresh proof for the served tool cannot be among
them, unless a budget is configured for a tool that costs nothing
(`FreshProofAccepted`).

*Studio project* (from `ProjectAssumption`, for any number of requests). There
is no lock, so the invariants are about requests that have not met. `MetInv`:
any two under way at one time have. `FileInv`, `ModeInv`: until an edit was
overwritten by a request that met its author, the descriptor and every copy of
it that may still be saved hold it. `WriteInv`, `EditHoldsInv`: the same for
what a build has written and for the generation an edit writes back.
`DeployInv`: a deployment nobody disturbed works on the project as it is, file
by file. `ConfigureInv` is the subtle one: a configuration about to save may
carry an old source file only if a third request has met it, and this is what
showed that `PackageDescribed` needs its last disjunct.

*Studio pipeline* (for any library of documents, override files, modes and
statuses, from `DocumentAssumption`, `OverrideAssumption` and
`StatusAssumption`). `PipelineInv` says little, that the artifacts are those of
some document, mode and override file that the review accepted and that an
outcome is that of a call through them; the work is in lemmas about the pure
stages. `CapabilityDescribed`: every reviewed capability is that of one
operation, with what its override may change. `Classified` and
`ReviewKeepsGovernance`: what sounds dangerous asks for an approval, and no
override undoes that. `NamesUnique`: the review refuses equal names, so a tool
has one policy, one approval and one adapter (`ContractsOfTool`,
`AdapterIsOwn`). `ToolFields` and `BundleShape` carry a capability through the
compiler, Studio's authentication step and the enrichment. `BindingsAgree`: the
two places that rename duplicated parameters, one counting and one comparing
locations, agree, which takes a cardinality argument. `RevisionTells` recovers
a capability from a revision, and `EnrichmentIgnoresAuth` shows the rest of the
tool to depend on nothing else.
The proof attempt corrected definitions written as a `CASE` whose guards
overlap: TLA+ lets such a `CASE` take any of its true arms, where the code tests
in order (`classifyRisk`, `applyOverride` and others are now chains of `IF`).
The assumptions are what OpenAPI 3 and Studio's types say: parameters have one
of four locations and are one per location and name (`mergeParameters` keeps
one), responses are declared by a status, a range or `default`, and an override
has Studio's risks and approval modes. The code does not check them itself: a
parameter in an unknown place would be an argument that no adapter binds.

What the proofs do not cover and TLC alone checks:

- the liveness properties (`CallsReturn`, `RequestsReturn`, `RequestsSettle`):
  no fairness or `ENABLED` reasoning is available to the provers;
- the names that `mapCapabilities` gives (`GivenNames`, a fold over the
  operations): what a fold computes goes back to induction over data. No
  theorem needs them, since the review checks that names differ.

## 6. Findings

- `runtime_double_send`: two calls with one idempotency key, equal arguments
  and the same `startedAt` have the same envelope; `reserveDispatch` answers
  the second with `replayed: true`, which `callTool` does not look at, and both
  requests leave (`mcp/server-runtime.ts:51`).
- `runtime_late_commit`: when the envelope expires while the provider answers,
  `commitDispatch` throws and the catch releases the reservation as cancelled
  although a response came back (`mcp/server-runtime.ts:56`).
- `runtime_false_blocked`: when the release in that catch throws too, the outer
  catch answers `networkExecuted: false` after the request left
  (`mcp/server-runtime.ts:68`).
- `gateway_deployed`: the bootstrap initializes the app from the demo's bundle
  and then copies the package's artifacts over it; the scopes of the packaged
  tools are not among the supported ones, so the 403 that asks for them leads
  to a sign-in that is refused (`studio/deployment-builder.ts:40`).

`runtime_keys` says when the second and third of these can happen and that
nothing else in the model causes them. An answered call
without its dispatch (`AnsweredLossExplained`): a failure, an answer after the
expiry, an operator who released the reservation meanwhile (cancelled or
expired), or a call that shares the reservation. A false `networkExecuted:
false` (`FalseClaimsExplained`): a failure, an operator who committed the
reservation or released it as expired (one that was cancelled is replayed to
the call's own release, so the reply stays true), or an answered call that
shares it. `DispatchedIsReal` takes the operator's word too: a dispatched record
is backed by an answer or by a commit made by hand, which the ledger does not
tell apart. `gateway` does the same for the fourth finding in
`ServedOrExplained`.

Observed while modelling, and part of the models:

- *Ledger and runtime.* An initialization that fails between writing the
  ledger's metadata and creating its journal leaves a ledger that `initialize`
  takes for complete and every other operation rejects (a crash there leaves the
  lock behind as well); an append that loses only its newline is
  readable until the next append shares its line; lock directories are never
  cleaned up; a timed-out request releases its reservation although the
  provider may still execute; after an operator's commit the release of a call
  whose request fails throws, and it is answered `networkExecuted: false`; a crashed call leaves its reservation and spent
  approval as they are; revoking a refresh token that was already rotated does
  not revoke its successor.
- *Evidence.* The context that approvals and budgets are bound to contains
  `requested_at` (`auth/credential-resolver.ts:90`), so a budget or an approval
  from the configuration never matches a call: a tool that needs a budget is
  always blocked, and a configured approval also keeps the user's from being
  looked for. The resolver takes the first account by id and then looks at its
  scopes. A missing approval is reported before every other cause, so a user
  may approve what a budget, a policy or a credential then refuses. An expiry
  of the credential or of a trusted key does not shorten the envelope. A proof
  for a tool that is not financial is made out for the budget configured for it
  (`mcp/server-runtime.ts:44`), where the policy decision has no cost
  (`policy-evaluator.ts:64`): such a tool asks for approval again after every
  approval. An argument named like a secret is found only by the preflight, so
  the user is asked, the approval is spent, and the call is blocked. The
  audience of an account is looked at only after the account was selected.
- *Gateway.* A 401 asks for the baseline scopes only, so the tool's own follow
  in a second sign-in. `createAppToolCaller` prepares a challenge without
  `mcp:approve`. When the confirmed call is answered with a new challenge, the
  widget reports it as done. Studio's catalog binds its account to the client
  `chatgpt-client` (`studio/pipeline-service.ts:102`), while clients that
  register themselves get another id.
- *Studio.* A build never runs the validator of the bundle (the command line
  does); what the validator could object to is `BuiltIssuesExplained`: a read
  whose text sounds like an effect, TRACE, a risk raised without an approval, a
  scope inferred where there is no AuthContract. A required argument that the
  classifier hides makes a tool uncallable. Authentication by `basic` or
  `host_managed` is refused only after the dispatch was reserved. A cookie that
  shares its name with another parameter becomes an argument of the model. A
  success declared as `2XX` or `default` is reported as a failure. The revision
  leaves out the AuthContract that Studio attaches later.

## 7. Not modelled, and why

Signatures, hashes, password and PKCE checks are taken to identify what they
were computed from. Reads without effect (`snapshot`, `get`, `metadata`,
`getClient`, generated artifacts) have no action. Reading documents and
resolving references, schema validation of values, encodings of arguments,
descriptive text, static files, smoke tests, demos and the WhatsApp pack (text
and fixed values for one provider) are input and output. Generated copies
(`my-studio/`, `bundle/`, `deploy/`) and fixtures are left aside.

Smaller things that the modelled code does and the models leave out:

- *Stores.* A file operation that throws in a process that lives on
  (`writeFile` or `rename` in the approval and OAuth stores, the removal of a
  lock) has no action of its own. In the approval and OAuth stores it leaves
  the file as it was, as a crash before the rename does. `refresh` also
  refuses another resource than the token's; without that guard the model
  allows more.
- *Gateway.* The `jsonrpc` version is looked at after the token, not before. A
  call that fails in validation, planning, the idempotency key or the ledger,
  or for want of an environment credential, has the one outcome `refused`
  (`Refuse`); what it was refused for is left open. The mode and risk of an
  approval always match those of the tool.
- *Pipeline.* The validator's rules about what no Studio build makes (listed at
  `ValidateSemantics`). An asynchronous tool's quality points for its output,
  hints by tokens of one or two letters, duplicate operation ids in one
  document. A credential whose environment variable is not configured is
  refused in `Gateway` and not in the injection. A JSON body with a binary
  field is encoded as an artifact reference.

## 8. Plan

Done, in this order:

1. `LedgerRules`, `AbstractLedger`, `DispatchLedger` and their proofs.
2. `ApprovalChallenges`, `ApprovalStore`.
3. `GovernedRuntime`, which composes 1 and 2.
4. The refinements: `DispatchLedger` implements `AbstractLedger`,
   `ApprovalStore` implements `ApprovalChallenges`, and `GovernedRuntime` takes
   only steps of the two (checked and proved).
5. `OAuthService`.
6. `CapabilityRules`, `ContractRules`, `AdapterRules` and `StudioPipeline`, the
   compiler from document to provider request.
7. `StudioProject`: the unlocked directory.
8. `EvidenceRules`, `Gateway`, and the proof of `DispatchCovered`.
9. The safety properties of `ApprovalStore`, `OAuthService`, `GovernedRuntime`,
   `Gateway`, `StudioProject` and `StudioPipeline`, proved.

Left: in the parts marked *partly*, what section 7 does not exclude -- the
command line's own validation of a bundle and the loading of artifacts by the
runtime.
