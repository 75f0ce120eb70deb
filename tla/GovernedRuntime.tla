--------------------------- MODULE GovernedRuntime ---------------------------
(***************************************************************************)
(* tools/call on a governed tool, from the client's request to the         *)
(* evidence it gets back: callTool of src/mcp/server-runtime.ts, wrapped   *)
(* by createAppToolCaller (src/apps/app-assembly.ts), run concurrently     *)
(* with other calls, with the users who decide approvals, with an operator *)
(* who reserves, commits and releases in the same ledger by hand           *)
(* (runDispatch of src/cli/foundry.ts), and with a provider that may be    *)
(* slow.  Each step ends at an await.                                      *)
(*                                                                         *)
(* It composes two components at the level they are shown to implement:    *)
(* the ledger as AbstractLedger, the approval store as ApprovalChallenges. *)
(***************************************************************************)
EXTENDS Naturals, Sequences, FiniteSets

CONSTANTS
  Calls,          \* tools/call requests
  Actions,        \* exact actions: tool, adapter, revisions and arguments
  Governed,       \* those whose tool needs an approval
  Barred,         \* those whose policy denies or whose credential is not ready
  KeyRequired,    \* those whose adapter requires an idempotency key
  Keys,           \* idempotency keys clients supply in _meta
  Tenants,
  Requests,       \* what clients may ask: an action for a tenant, with a key or none
  Commands,       \* what an operator does in the ledger by hand
  Files,          \* envelopes an operator has a file of (foundry preflight)
  PolicyTtl,      \* life of a policy decision
  ProofTtl,       \* life of an approval proof and of a challenge
  MaxTime, MaxChallenges,
  MaxFaults,      \* bound on store failures, lost secrets and crashes
  Null

ASSUME RuntimeAssumption ==
  /\ Governed \subseteq Actions /\ Barred \subseteq Actions /\ KeyRequired \subseteq Actions
  /\ Requests \subseteq [ action : Actions, tenant : Tenants, key : Keys \cup {Null} ]
  /\ Commands \subseteq {"reserve", "commit", "release"}
  /\ PolicyTtl \in Nat \ {0} /\ ProofTtl \in Nat \ {0}
  /\ MaxTime \in Nat /\ MaxChallenges \in Nat /\ MaxFaults \in Nat
  /\ Governed # {} => MaxChallenges > 0
  /\ Keys \cap Calls = {}
  /\ Null \notin Nat \cup Keys \cup Calls

VARIABLES
  now,
  challenges,    \* the approval store
  status,        \* the dispatch ledger
  operated,      \* how an operator ended each reservation: a history of what
                 \* the journal holds, and the reason of a release by hand
  pc,            \* per call: the await it is at
  request,       \* per call: what the client asked for
  started,       \* per call: startedAt
  completed,     \* per call: completedAt
  proof,         \* per call: the challenge its approval proof came from, 0 for none
  sent,          \* calls whose provider request left
  executed,      \* calls whose request the provider carried out
  answered,      \* calls whose provider response came back
  reply,         \* per call: what the client was told
  faults

ledgerVars   == <<status, operated>>
providerVars == <<sent, executed, answered>>
callVars     == <<pc, request, started, completed, proof, reply>>
vars == <<now, challenges, ledgerVars, callVars, providerVars, faults>>

Approvals == INSTANCE ApprovalChallenges WITH ChallengeTtl <- ProofTtl

-----------------------------------------------------------------------------
(* Envelopes.  authorizeExecution derives the authorization id and the     *)
(* execution nonce from digests of the plans (tool, arguments, key), the   *)
(* tenant, the approval and the time startedAt: calls that agree on all of *)
(* these get the same envelope.                                            *)

Earlier(a, b) == IF a <= b THEN a ELSE b

EnvelopeOf(action, tenant, key, at, approval) ==
  LET identity == <<action, tenant, key, at, approval>>
  IN  [ permitted |-> TRUE,
        authorization_id |-> identity,
        execution_nonce |-> identity,
        approval_nonce |-> approval,
        key |-> key,
        account |-> Null, amount |-> 0, remaining_before |-> 0,
        expires_at |-> at + IF approval = Null THEN PolicyTtl
                                               ELSE Earlier(PolicyTtl, ProofTtl) ]

(* resolveIdempotencyKey: the client's key, else a random one when the     *)
(* adapter requires one -- random keys are told apart by their call.       *)
ResolvedKey(rq, c) ==
  IF rq.key # Null THEN rq.key ELSE IF rq.action \in KeyRequired THEN c ELSE Null

RuntimeEnvelopes ==
  UNION { { EnvelopeOf(rq.action, rq.tenant, ResolvedKey(rq, c), at, approval) :
              at \in 0..MaxTime,
              approval \in IF rq.action \in Governed THEN 1..MaxChallenges ELSE {Null} } :
            rq \in Requests, c \in Calls }

(* The command line derives an envelope from its plans like the server.    *)
ASSUME FilesAssumption == Files \subseteq RuntimeEnvelopes

Ledger == INSTANCE AbstractLedger WITH Envelopes <- RuntimeEnvelopes

KeyOf(c) == ResolvedKey(request[c], c)

EnvelopeFor(c) ==
  EnvelopeOf(request[c].action, request[c].tenant, KeyOf(c), started[c],
             IF proof[c] = 0 THEN Null ELSE proof[c])

PCs == {"idle", "resolving", "deciding", "preparing", "reserving", "injecting",
        "awaiting", "committing", "releasing", "returned", "lost"}

(* "answered": the provider's result with an execution receipt.            *)
(* "transport_error": not reached, reservation released, may be retried.   *)
(* "blocked" and "challenge": refused before execution; both carry         *)
(* networkExecuted: false.                                                 *)
ReplyKinds == {"none", "answered", "transport_error", "blocked", "challenge"}

Endings == {"none", "dispatched", "cancelled", "expired"}

TypeOK ==
  /\ Approvals!TypeOK
  /\ Ledger!TypeOK
  /\ operated \in [RuntimeEnvelopes -> Endings]
  /\ pc \in [Calls -> PCs]
  /\ request \in [Calls -> Requests \cup {Null}]
  /\ started \in [Calls -> 0..MaxTime]
  /\ completed \in [Calls -> 0..MaxTime]
  /\ proof \in [Calls -> 0..MaxChallenges]
  /\ sent \subseteq Calls /\ executed \subseteq sent /\ answered \subseteq executed
  /\ reply \in [Calls -> ReplyKinds]
  /\ faults \in 0..MaxFaults

(* The server may start on a store in which a challenge is waiting. *)
Init ==
  /\ now = 0
  /\ challenges \in {<<>>} \cup
       {Approvals!Prepared(<<>>, action, tenant, 0) : action \in Governed, tenant \in Tenants}
  /\ Ledger!Init
  /\ operated = [e \in RuntimeEnvelopes |-> "none"]
  /\ pc = [c \in Calls |-> "idle"]
  /\ request = [c \in Calls |-> Null]
  /\ started = [c \in Calls |-> 0]
  /\ completed = [c \in Calls |-> 0]
  /\ proof = [c \in Calls |-> 0]
  /\ sent = {} /\ executed = {} /\ answered = {}
  /\ reply = [c \in Calls |-> "none"]
  /\ faults = 0

-----------------------------------------------------------------------------
Goto(c, label) == pc' = [pc EXCEPT ![c] = label] /\ UNCHANGED reply

Return(c, kind) ==
  pc' = [pc EXCEPT ![c] = "returned"] /\ reply' = [reply EXCEPT ![c] = kind]

Fault == faults < MaxFaults /\ faults' = faults + 1

(* Arguments that the schema refuses, or that cannot be planned. *)
RefuseArguments(c) ==
  /\ pc[c] = "idle"
  /\ Return(c, "blocked")
  /\ UNCHANGED <<now, challenges, ledgerVars, request, started, completed, proof, providerVars,
                 faults>>

(* startedAt, argument validation, planning. *)
Call(c, rq) ==
  /\ pc[c] = "idle"
  /\ request' = [request EXCEPT ![c] = rq]
  /\ started' = [started EXCEPT ![c] = now]
  /\ Goto(c, IF rq.action \in Governed THEN "resolving" ELSE "deciding")
  /\ UNCHANGED <<now, challenges, ledgerVars, completed, proof, providerVars, faults>>

(* approvalResolver: consume the first confirmed challenge for this exact  *)
(* action and tenant, as of startedAt.  The challenge is spent here,       *)
(* before policy, budget and ledger have their say.                        *)
ResolveApproval(c) ==
  LET rq == request[c] IN
  /\ pc[c] = "resolving"
  /\ \/ \E i \in DOMAIN challenges :
          /\ Approvals!Consume(i, rq.action, rq.tenant, started[c])
          /\ proof' = [proof EXCEPT ![c] = i]
     \/ /\ Approvals!MatchSet(challenges, rq.action, rq.tenant, started[c]) = {}
        /\ UNCHANGED <<challenges, proof>>
  /\ Goto(c, "deciding")
  /\ UNCHANGED <<now, ledgerVars, request, started, completed, providerVars, faults>>

(* evaluateAndSignPolicy and authorizeExecution run without an await.  A   *)
(* missing approval is reported before any other error and makes the app   *)
(* prepare a challenge.                                                    *)
Authorize(c) ==
  /\ pc[c] = "deciding"
  /\ IF request[c].action \in Governed /\ proof[c] = 0 THEN Goto(c, "preparing")
     ELSE IF request[c].action \in Barred THEN Return(c, "blocked")
     ELSE Goto(c, "reserving")
  /\ UNCHANGED <<now, challenges, ledgerVars, request, started, completed, proof,
                 providerVars, faults>>

PrepareChallenge(c) ==
  /\ pc[c] = "preparing"
  /\ Approvals!Prepare(request[c].action, request[c].tenant, now)
  /\ Return(c, "challenge")
  /\ UNCHANGED <<now, ledgerVars, request, started, completed, proof, providerVars, faults>>

(* The store's lock timed out: the exception becomes an error reply.       *)
ApprovalStoreFails(c) ==
  /\ pc[c] \in {"resolving", "preparing"}
  /\ Fault
  /\ Return(c, "blocked")
  /\ UNCHANGED <<now, challenges, ledgerVars, request, started, completed, proof, providerVars>>

-----------------------------------------------------------------------------
(* reserveDispatch at startedAt.  The caller does not look at `replayed`.  *)
Reserve(c) ==
  LET e == EnvelopeFor(c) IN
  /\ pc[c] = "reserving"
  /\ IF Ledger!ReserveReplays(status, e)
     THEN UNCHANGED status /\ Goto(c, "injecting")
     ELSE IF Ledger!ReserveAllowed(status, e)
     THEN Ledger!Reserve(e) /\ Goto(c, "injecting")
     ELSE UNCHANGED status /\ Return(c, "blocked")
  /\ UNCHANGED <<now, challenges, operated, request, started, completed, proof,
                 providerVars, faults>>

(* The ledger throws: lock timeout, unreadable journal, or a failed write, *)
(* fsync or signature after which the event may be recorded all the same.  *)
ReserveFails(c) ==
  /\ pc[c] = "reserving"
  /\ Fault
  /\ UNCHANGED status \/ Ledger!Reserve(EnvelopeFor(c))
  /\ Return(c, "blocked")
  /\ UNCHANGED <<now, challenges, operated, request, started, completed, proof, providerVars>>

(* injectCredential throws when the secret is not in the environment.      *)
SecretMissing(c) ==
  /\ pc[c] = "injecting"
  /\ Fault
  /\ Goto(c, "releasing")
  /\ UNCHANGED <<now, challenges, ledgerVars, request, started, completed, proof, providerVars>>

Send(c) ==
  /\ pc[c] = "injecting"
  /\ sent' = sent \cup {c}
  /\ Goto(c, "awaiting")
  /\ UNCHANGED <<now, challenges, ledgerVars, request, started, completed, proof,
                 executed, answered, faults>>

(* The provider is on its own clock: it may act after the runtime gave up. *)
ProviderExecutes(c) ==
  /\ c \in sent \ executed
  /\ executed' = executed \cup {c}
  /\ UNCHANGED <<now, challenges, ledgerVars, callVars, sent, answered, faults>>

(* Mutant: an HTTP error response is handled like a network failure. *)
ResponseArrives_AsFailure(c) ==
  /\ pc[c] = "awaiting" /\ c \in executed
  /\ answered' = answered \cup {c}
  /\ completed' = [completed EXCEPT ![c] = now]
  /\ Goto(c, "committing") \/ Goto(c, "releasing")
  /\ UNCHANGED <<now, challenges, ledgerVars, request, started, proof, sent, executed, faults>>

ResponseArrives(c) ==
  /\ pc[c] = "awaiting" /\ c \in executed
  /\ answered' = answered \cup {c}
  /\ completed' = [completed EXCEPT ![c] = now]
  /\ Goto(c, "committing")
  /\ UNCHANGED <<now, challenges, ledgerVars, request, started, proof, sent, executed, faults>>

(* Mutant: a timeout commits the dispatch. *)
NoResponse_Commits(c) ==
  /\ pc[c] = "awaiting"
  /\ completed' = [completed EXCEPT ![c] = now]
  /\ Goto(c, "committing")
  /\ UNCHANGED <<now, challenges, ledgerVars, request, started, proof, providerVars, faults>>

(* Mutant: the request has no timeout. *)
NoResponse_Never(c) == pc[c] = "awaiting" /\ UNCHANGED vars

(* Connection failure, or the abort timer of executeProviderRequest.       *)
NoResponse(c) ==
  /\ pc[c] = "awaiting"
  /\ Goto(c, "releasing")
  /\ UNCHANGED <<now, challenges, ledgerVars, request, started, completed, proof,
                 providerVars, faults>>

-----------------------------------------------------------------------------
(* commitDispatch at completedAt, and the execution receipt.  Whatever is  *)
(* thrown lands in the catch that releases the reservation.                *)
Commit(c) ==
  LET e == EnvelopeFor(c) IN
  /\ pc[c] = "committing"
  /\ IF Ledger!CommitReplays(status, e)
     THEN UNCHANGED status /\ Return(c, "answered")
     ELSE IF Ledger!CommitAllowed(status, e, completed[c])
     THEN Ledger!Dispatch(e) /\ Return(c, "answered")
     ELSE UNCHANGED status /\ Goto(c, "releasing")
  /\ UNCHANGED <<now, challenges, operated, request, started, completed, proof,
                 providerVars, faults>>

CommitFails(c) ==
  LET e == EnvelopeFor(c) IN
  /\ pc[c] = "committing"
  /\ Fault
  /\ \/ UNCHANGED status
     \/ Ledger!CommitAllowed(status, e, completed[c]) /\ Ledger!Dispatch(e)
  /\ Goto(c, "releasing")
  /\ UNCHANGED <<now, challenges, operated, request, started, completed, proof, providerVars>>

(* Mutant: a release that is recorded already is refused. *)
Cancel_NoReplay(c) ==
  LET e == EnvelopeFor(c) IN
  /\ pc[c] = "releasing"
  /\ IF status[e] = "reserved"
     THEN Ledger!Release(e) /\ Return(c, "transport_error")
     ELSE UNCHANGED status /\ Return(c, "blocked")
  /\ UNCHANGED <<now, challenges, operated, request, started, completed, proof,
                 providerVars, faults>>

(* releaseDispatch with reason cancelled; when it throws too, the outer    *)
(* catch answers.                                                          *)
Cancel(c) ==
  LET e == EnvelopeFor(c) IN
  /\ pc[c] = "releasing"
  /\ IF status[e] = "released" /\ operated[e] # "expired"
     THEN UNCHANGED status /\ Return(c, "transport_error")
     ELSE IF status[e] = "reserved"
     THEN Ledger!Release(e) /\ Return(c, "transport_error")
     ELSE UNCHANGED status /\ Return(c, "blocked")
  /\ UNCHANGED <<now, challenges, operated, request, started, completed, proof,
                 providerVars, faults>>

CancelFails(c) ==
  /\ pc[c] = "releasing"
  /\ Fault
  /\ UNCHANGED status \/ Ledger!Release(EnvelopeFor(c))
  /\ Return(c, "blocked")
  /\ UNCHANGED <<now, challenges, operated, request, started, completed, proof, providerVars>>

-----------------------------------------------------------------------------
(* The user decides a challenge in the widget (foundry_approval_confirm).  *)
UserDecides(i, tenant, verdict) ==
  /\ Approvals!Decide(i, tenant, verdict, now)
  /\ UNCHANGED <<now, ledgerVars, callVars, providerVars, faults>>

(* foundry dispatch reserve, commit and release (runDispatch).  The        *)
(* operator gives the time, which is checked against the expiry only, so   *)
(* it may be any time; a command the ledger refuses, and one it answers    *)
(* with an earlier receipt, change nothing.                                *)
OperatorTimes == 0..(MaxTime + PolicyTtl)

OperatorReserves(e, at) ==
  /\ "reserve" \in Commands /\ e \in Files
  /\ ~Ledger!Expired(e, at)
  /\ Ledger!Reserve(e)
  /\ UNCHANGED operated

OperatorCommits(e, at) ==
  /\ "commit" \in Commands
  /\ Ledger!CommitAllowed(status, e, at)
  /\ Ledger!Dispatch(e)
  /\ operated' = [operated EXCEPT ![e] = "dispatched"]

OperatorReleases(e, reason, at) ==
  /\ "release" \in Commands
  /\ Ledger!ReleaseAllowed(status, e, reason, at)
  /\ Ledger!Release(e)
  /\ operated' = [operated EXCEPT ![e] = reason]

Operator ==
  /\ \E e \in RuntimeEnvelopes, at \in OperatorTimes :
       \/ OperatorReserves(e, at) \/ OperatorCommits(e, at)
       \/ \E reason \in Ledger!Reasons : OperatorReleases(e, reason, at)
  /\ UNCHANGED <<now, challenges, callVars, providerVars, faults>>

(* The server process dies; its clients get no reply.  Reservations and    *)
(* spent approvals stay as they are.                                       *)
Crash ==
  /\ Fault
  /\ \E c \in Calls : pc[c] \notin {"idle", "returned", "lost"}
  /\ pc' = [c \in Calls |-> IF pc[c] \in {"idle", "returned"} THEN pc[c] ELSE "lost"]
  /\ UNCHANGED <<now, challenges, ledgerVars, request, started, completed, proof, reply,
                 providerVars>>

Tick == Approvals!Tick /\ UNCHANGED <<ledgerVars, callVars, providerVars, faults>>

Step(c) ==
  \/ ResolveApproval(c) \/ Authorize(c) \/ PrepareChallenge(c)
  \/ Reserve(c) \/ Send(c) \/ ResponseArrives(c) \/ NoResponse(c)
  \/ Commit(c) \/ Cancel(c)

Failure(c) ==
  \/ ApprovalStoreFails(c) \/ ReserveFails(c) \/ SecretMissing(c)
  \/ CommitFails(c) \/ CancelFails(c)

Next ==
  \/ \E c \in Calls :
       \/ RefuseArguments(c)
       \/ \E rq \in Requests : Call(c, rq)
       \/ Step(c) \/ Failure(c) \/ ProviderExecutes(c)
  \/ \E i \in 1..MaxChallenges, tenant \in Tenants, verdict \in Approvals!Verdicts :
       UserDecides(i, tenant, verdict)
  \/ Operator \/ Crash \/ Tick

Spec == Init /\ [][Next]_vars

(* Every await of a call completes or times out. *)
FairSpec == Spec /\ \A c \in Calls : WF_vars(Step(c))

-----------------------------------------------------------------------------
(* What a governed call sends was approved: its proof comes from a         *)
(* challenge its own tenant confirmed for exactly this action, and no      *)
(* other request that left rests on the same challenge.                    *)
SentIsApproved ==
  \A c \in sent : request[c].action \in Governed =>
     /\ proof[c] \in DOMAIN challenges
     /\ challenges[proof[c]].status = "consumed"
     /\ challenges[proof[c]].action = request[c].action
     /\ challenges[proof[c]].tenant = request[c].tenant
     /\ \A d \in sent : d # c => proof[d] # proof[c]

(* A dispatched record is backed by an answer of the provider, or by the   *)
(* operator who committed it by hand; and a caller told "answered" keeps   *)
(* its evidence: the record stays dispatched, whatever an operator does.   *)
DispatchedIsReal ==
  /\ \A e \in RuntimeEnvelopes : status[e] = "dispatched" =>
       operated[e] = "dispatched" \/ \E c \in answered : EnvelopeFor(c) = e
  /\ \A c \in Calls : reply[c] = "answered" => status[EnvelopeFor(c)] = "dispatched"

(* Requests that left under one idempotency key are the same authorized    *)
(* execution.                                                              *)
OneExecutionPerKey ==
  \A c, d \in sent : (KeyOf(c) # Null /\ KeyOf(c) = KeyOf(d)) => EnvelopeFor(c) = EnvelopeFor(d)

(* The exact operation is dispatched once: a reservation backs at most one *)
(* provider request.                                                       *)
OneRequestPerReservation ==
  \A c, d \in sent : c # d => EnvelopeFor(c) # EnvelopeFor(d)

(* A call refused with networkExecuted: false did not reach the network.   *)
NetworkClaimHonest ==
  \A c \in Calls : reply[c] \in {"blocked", "challenge"} => c \notin sent

(* A call whose provider answered leaves its dispatch committed.           *)
AnsweredIsDispatched ==
  \A c \in answered : pc[c] = "returned" => status[EnvelopeFor(c)] = "dispatched"

Sharers(c) == {d \in sent \ {c} : EnvelopeFor(d) = EnvelopeFor(c)}

(* NetworkClaimHonest fails for one of three reasons only: a failure, an   *)
(* operator who committed the reservation or released it as expired under  *)
(* the call, or an answer to a call that shares the reservation.  One an   *)
(* operator cancelled is no reason: the call's release replays it.         *)
FalseClaimsExplained ==
  \A c \in sent : reply[c] \in {"blocked", "challenge"} =>
     \/ faults > 0
     \/ operated[EnvelopeFor(c)] \in {"dispatched", "expired"}
     \/ Sharers(c) \cap answered # {}

(* AnsweredIsDispatched too: a failure, an answer after the envelope       *)
(* expired, an operator who released the reservation, or a call that       *)
(* shares it.                                                              *)
AnsweredLossExplained ==
  \A c \in answered : (pc[c] = "returned" /\ status[EnvelopeFor(c)] # "dispatched") =>
     \/ faults > 0 \/ completed[c] >= EnvelopeFor(c).expires_at
     \/ operated[EnvelopeFor(c)] \in {"cancelled", "expired"}
     \/ Sharers(c) # {}

(* Every call is answered unless the server dies under it. *)
CallsReturn == \A c \in Calls : (pc[c] # "idle") ~> (pc[c] \in {"returned", "lost"})
=============================================================================
