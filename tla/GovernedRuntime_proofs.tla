------------------------ MODULE GovernedRuntime_proofs ------------------------
(***************************************************************************)
(* Proofs about governed calls, for every set of calls, actions, tenants   *)
(* and keys and every bound: what leaves for the provider was approved and *)
(* is held in the ledger, what the ledger records as dispatched was        *)
(* answered or committed by hand, and every false or lost record has one   *)
(* of the named causes.                                                    *)
(***************************************************************************)
EXTENDS GovernedRuntime, TLAPS

-----------------------------------------------------------------------------
(* The inductive invariant.                                                *)

(* The awaits before the provider request, and those after the decision to *)
(* reserve and after the reservation.                                      *)
Early    == {"idle", "resolving", "deciding", "preparing", "reserving", "injecting"}
Holding  == {"injecting", "awaiting", "committing", "releasing"}
Decided  == Holding \cup {"reserving"}

(* Where a call is says what it has done. *)
PhaseInv ==
  \A c \in Calls :
    /\ pc[c] \notin {"idle", "returned", "lost"} => request[c] \in Requests
    /\ pc[c] \in {"idle", "resolving"} => proof[c] = 0
    /\ pc[c] = "resolving" => request[c].action \in Governed
    /\ pc[c] \in Early => c \notin sent
    /\ pc[c] = "awaiting" => c \in sent \ answered
    /\ pc[c] = "committing" => c \in answered
    /\ pc[c] = "releasing" => c \in sent \/ faults > 0
    /\ pc[c] # "returned" => reply[c] = "none"
    /\ reply[c] = "answered" => c \in answered

Settled(c) == pc[c] \in Decided \/ c \in sent

(* A call that goes on to the ledger has the proof its action needs. *)
ProvedInv ==
  \A c \in Calls : Settled(c) =>
    /\ request[c] \in Requests
    /\ request[c].action \in Governed => proof[c] # 0

(* A proof rests on a challenge of the call's own, spent for its action. *)
ProofInv ==
  \A c \in Calls : proof[c] # 0 =>
    /\ request[c] \in Requests /\ request[c].action \in Governed
    /\ proof[c] \in DOMAIN challenges
    /\ challenges[proof[c]].status = "consumed"
    /\ challenges[proof[c]].action = request[c].action
    /\ challenges[proof[c]].tenant = request[c].tenant
    /\ \A d \in Calls : d # c => proof[d] # proof[c]

SizeInv == Len(challenges) <= MaxChallenges

(* A call past its reservation has its envelope in the ledger. *)
HeldInv ==
  \A c \in Calls : pc[c] \in Holding \/ c \in sent => status[EnvelopeFor(c)] # "absent"

(* The call that committed a dispatch was told so, unless something failed *)
(* or an operator committed it.                                            *)
DispatchInv ==
  \A e \in RuntimeEnvelopes : status[e] = "dispatched" =>
    \/ operated[e] = "dispatched"
    \/ \E d \in answered : EnvelopeFor(d) = e /\ (reply[d] = "answered" \/ faults > 0)

(* A reservation is given up by a call it backed or by an operator, unless *)
(* something failed.                                                       *)
ReleaseInv ==
  \A e \in RuntimeEnvelopes : status[e] = "released" =>
    \/ faults > 0 \/ operated[e] \in {"cancelled", "expired"}
    \/ \E d \in sent : EnvelopeFor(d) = e /\ reply[d] = "transport_error"

(* An answered call that gives its reservation up has a reason. *)
LossInv ==
  \A c \in answered :
    (pc[c] \in {"releasing", "returned"} /\ status[EnvelopeFor(c)] # "dispatched") =>
       \/ faults > 0 \/ completed[c] >= EnvelopeFor(c).expires_at
       \/ operated[EnvelopeFor(c)] \in {"cancelled", "expired"}
       \/ Sharers(c) # {}

(* What an operator ended is as the operator left it. *)
OperatedInv ==
  \A e \in RuntimeEnvelopes :
    /\ operated[e] = "dispatched" => status[e] = "dispatched"
    /\ operated[e] \in {"cancelled", "expired"} => status[e] = "released"

CallInv == TypeOK /\ SizeInv /\ PhaseInv /\ ProvedInv /\ ProofInv /\ OperatedInv

RuntimeInv ==
  /\ CallInv
  /\ Ledger!SingleUse /\ HeldInv
  /\ DispatchedIsReal /\ DispatchInv /\ ReleaseInv
  /\ FalseClaimsExplained /\ LossInv

-----------------------------------------------------------------------------
(* Envelopes.                                                              *)

(* authorizeExecution yields one of the envelopes the ledger knows, under  *)
(* the call's key and permitted.                                           *)
LEMMA EnvelopeListed ==
  ASSUME TypeOK, NEW c \in Calls, request[c] \in Requests,
         request[c].action \in Governed <=> proof[c] # 0
  PROVE  /\ EnvelopeFor(c) \in RuntimeEnvelopes
         /\ EnvelopeFor(c).permitted /\ EnvelopeFor(c).key = KeyOf(c)
<1> DEFINE approval == IF proof[c] = 0 THEN Null ELSE proof[c]
<1>1. started[c] \in 0..MaxTime /\ proof[c] \in 0..MaxChallenges
  BY DEF TypeOK
<1>2. approval \in IF request[c].action \in Governed THEN 1..MaxChallenges ELSE {Null}
  BY <1>1, RuntimeAssumption
<1>3. EnvelopeFor(c) = EnvelopeOf(request[c].action, request[c].tenant, KeyOf(c), started[c], approval)
  BY DEF EnvelopeFor
<1> HIDE DEF approval
<1>4. EnvelopeFor(c) \in RuntimeEnvelopes
  <2> DEFINE Of(rq, d) ==
        { EnvelopeOf(rq.action, rq.tenant, ResolvedKey(rq, d), at, ap) :
            at \in 0..MaxTime,
            ap \in IF rq.action \in Governed THEN 1..MaxChallenges ELSE {Null} }
  <2>1. EnvelopeFor(c) \in Of(request[c], c)
    BY <1>1, <1>2, <1>3 DEF KeyOf
  <2>2. RuntimeEnvelopes = UNION { Of(rq, d) : rq \in Requests, d \in Calls }
    BY DEF RuntimeEnvelopes
  <2> HIDE DEF Of
  <2> QED
    BY <2>1, <2>2
<1>5. EnvelopeFor(c).permitted /\ EnvelopeFor(c).key = KeyOf(c)
  BY <1>3 DEF EnvelopeOf
<1> QED
  BY <1>4, <1>5

(* A call that reached the ledger presents an envelope the ledger knows. *)
LEMMA SettledListed ==
  ASSUME CallInv, NEW c \in Calls, Settled(c)
  PROVE  /\ EnvelopeFor(c) \in RuntimeEnvelopes
         /\ EnvelopeFor(c).permitted /\ EnvelopeFor(c).key = KeyOf(c)
  BY EnvelopeListed DEF CallInv, ProvedInv, ProofInv

(* What a call asked, when, and on which proof is fixed once it is decided. *)
LEMMA SettledKeeps ==
  ASSUME CallInv, [Next]_vars, NEW c \in Calls, pc[c] \notin {"idle", "resolving"}
  PROVE  /\ request'[c] = request[c] /\ started'[c] = started[c] /\ proof'[c] = proof[c]
         /\ EnvelopeFor(c)' = EnvelopeFor(c) /\ KeyOf(c)' = KeyOf(c)
<1>1. request'[c] = request[c] /\ started'[c] = started[c] /\ proof'[c] = proof[c]
  <2> USE DEF CallInv, TypeOK
  <2>1. ASSUME NEW d \in Calls, NEW rq \in Requests, Call(d, rq)
        PROVE request'[c] = request[c] /\ started'[c] = started[c] /\ proof'[c] = proof[c]
    BY <2>1 DEF Call
  <2>2. ASSUME NEW d \in Calls, ResolveApproval(d)
        PROVE request'[c] = request[c] /\ started'[c] = started[c] /\ proof'[c] = proof[c]
    BY <2>2 DEF ResolveApproval
  <2>3. CASE UNCHANGED <<request, started, proof>>
    BY <2>3
  <2> QED
    BY <2>1, <2>2, <2>3
    DEF Next, vars, callVars, RefuseArguments, Step, Failure, Authorize, PrepareChallenge, Reserve,
        Send, ResponseArrives, NoResponse, Commit, Cancel, ApprovalStoreFails, ReserveFails,
        SecretMissing, CommitFails, CancelFails, ProviderExecutes, UserDecides, Operator,
        Crash, Tick
<1> QED
  BY <1>1 DEF EnvelopeFor, KeyOf

-----------------------------------------------------------------------------
(* The approval store and the ledger, as the runtime uses them.            *)

(* create, decide and consume keep every challenge but the one they name,  *)
(* and of that one all but its status.                                     *)
LEMMA ChallengesKept ==
  ASSUME Approvals!TypeOK, NEW i \in DOMAIN challenges, NEW s \in Approvals!Statuses,
         challenges' = Approvals!WithStatus(challenges, i, s)
  PROVE  /\ challenges' \in Seq(Approvals!Challenge)
         /\ Len(challenges') = Len(challenges) /\ DOMAIN challenges' = DOMAIN challenges
         /\ challenges'[i].status = s
         /\ challenges'[i].action = challenges[i].action
         /\ challenges'[i].tenant = challenges[i].tenant
         /\ \A j \in DOMAIN challenges : j # i => challenges'[j] = challenges[j]
<1> DEFINE new == [challenges[i] EXCEPT !.status = s]
<1>1. challenges \in Seq(Approvals!Challenge) /\ challenges[i] \in Approvals!Challenge
  BY DEF Approvals!TypeOK
<1>2. /\ new \in Approvals!Challenge /\ new.status = s
      /\ new.action = challenges[i].action /\ new.tenant = challenges[i].tenant
  BY <1>1 DEF Approvals!Challenge
<1>3. challenges' = [challenges EXCEPT ![i] = new]
  BY DEF Approvals!WithStatus
<1> HIDE DEF new
<1> QED
  BY <1>1, <1>2, <1>3

(* create appends one challenge and keeps the others. *)
LEMMA ChallengeAdded ==
  ASSUME Approvals!TypeOK, NEW action \in Actions, NEW tenant \in Tenants, NEW at \in Nat,
         challenges' = Approvals!Prepared(challenges, action, tenant, at)
  PROVE  /\ challenges' \in Seq(Approvals!Challenge)
         /\ Len(challenges') = Len(challenges) + 1
         /\ \A j \in DOMAIN challenges : j \in DOMAIN challenges' /\ challenges'[j] = challenges[j]
<1> DEFINE new == [ action |-> action, tenant |-> tenant,
                    expires_at |-> at + ProofTtl, status |-> "pending" ]
<1>1. challenges \in Seq(Approvals!Challenge) /\ new \in Approvals!Challenge
  BY RuntimeAssumption DEF Approvals!TypeOK, Approvals!Challenge, Approvals!Statuses
<1>2. challenges' = Append(challenges, new)
  BY DEF Approvals!Prepared
<1> HIDE DEF new
<1> QED
  BY <1>1, <1>2

(* Whatever the runtime does to the ledger is a reservation, a commit or a *)
(* release of an envelope it authorized, by the ledger's own rules.        *)
LEMMA LedgerStep ==
  ASSUME CallInv, [Next]_vars
  PROVE  [Ledger!Next]_status
<1>1. ASSUME NEW c \in Calls, Reserve(c) \/ ReserveFails(c) PROVE [Ledger!Next]_status
  <2>1. EnvelopeFor(c) \in RuntimeEnvelopes
    BY <1>1, SettledListed DEF Reserve, ReserveFails, Settled, Decided
  <2>2. UNCHANGED status \/ Ledger!Reserve(EnvelopeFor(c))
    BY <1>1 DEF Reserve, ReserveFails
  <2> QED
    BY <2>1, <2>2 DEF Ledger!Next
<1>2. ASSUME NEW c \in Calls, Commit(c) \/ CommitFails(c) PROVE [Ledger!Next]_status
  <2>1. EnvelopeFor(c) \in RuntimeEnvelopes
    BY <1>2, SettledListed DEF Commit, CommitFails, Settled, Decided, Holding
  <2>2. UNCHANGED status \/ Ledger!Dispatch(EnvelopeFor(c))
    BY <1>2 DEF Commit, CommitFails
  <2> QED
    BY <2>1, <2>2 DEF Ledger!Next
<1>3. ASSUME NEW c \in Calls, Cancel(c) \/ CancelFails(c) PROVE [Ledger!Next]_status
  <2>1. EnvelopeFor(c) \in RuntimeEnvelopes
    BY <1>3, SettledListed DEF Cancel, CancelFails, Settled, Decided, Holding
  <2>2. UNCHANGED status \/ Ledger!Release(EnvelopeFor(c))
    BY <1>3 DEF Cancel, CancelFails
  <2> QED
    BY <2>1, <2>2 DEF Ledger!Next
<1>4. CASE Operator
  BY <1>4 DEF Operator, OperatorReserves, OperatorCommits, OperatorReleases, Ledger!Next
<1>5. CASE UNCHANGED status
  BY <1>5
<1> QED
  BY <1>1, <1>2, <1>3, <1>4, <1>5
  DEF Next, vars, ledgerVars, RefuseArguments, Call, Step, Failure, ResolveApproval, Authorize,
      PrepareChallenge, Send, ResponseArrives, NoResponse, ApprovalStoreFails, SecretMissing,
      ProviderExecutes, UserDecides, Crash, Tick

(* A recorded envelope stays recorded, and an ended one as it ended. *)
LEMMA LedgerMoves ==
  ASSUME Ledger!TypeOK, [Ledger!Next]_status
  PROVE  /\ Ledger!TypeOK'
         /\ \A e \in RuntimeEnvelopes :
              /\ status[e] # "absent" => status'[e] # "absent"
              /\ status[e] \in {"dispatched", "released"} => status'[e] = status[e]
<1>1. ASSUME NEW e \in RuntimeEnvelopes, NEW s \in {"reserved", "dispatched", "released"},
             status[e] \notin {"dispatched", "released"}, status' = [status EXCEPT ![e] = s]
      PROVE  /\ Ledger!TypeOK'
             /\ \A f \in RuntimeEnvelopes :
                  /\ status[f] # "absent" => status'[f] # "absent"
                  /\ status[f] \in {"dispatched", "released"} => status'[f] = status[f]
  BY <1>1 DEF Ledger!TypeOK
<1>2. ASSUME NEW e \in RuntimeEnvelopes, Ledger!Reserve(e)
      PROVE  status[e] \notin {"dispatched", "released"}
  <2>1. Ledger!SharesSingleUse(e, e)
    BY DEF Ledger!SharesSingleUse
  <2>2. ~Ledger!Consumed(status, e)
    BY <1>2 DEF Ledger!Reserve, Ledger!ReserveAllowed
  <2> QED
    BY <2>1, <2>2 DEF Ledger!Consumed
<1>3. CASE UNCHANGED status
  BY <1>3 DEF Ledger!TypeOK
<1>4. CASE Ledger!Next
  BY <1>1, <1>2, <1>4 DEF Ledger!Next, Ledger!Reserve, Ledger!Dispatch, Ledger!Release
<1> QED
  BY <1>3, <1>4

(* A reservation is taken only by an envelope that shares none of its      *)
(* single-use values with a recorded one.                                  *)
LEMMA LedgerSingleUse ==
  ASSUME Ledger!TypeOK, Ledger!SingleUse, [Ledger!Next]_status
  PROVE  Ledger!SingleUse'
<1>1. ASSUME NEW e \in RuntimeEnvelopes, Ledger!Reserve(e) PROVE Ledger!SingleUse'
  <2>1. \A f \in RuntimeEnvelopes : status[f] # "absent" => ~Ledger!SharesSingleUse(f, e)
    BY <1>1 DEF Ledger!Reserve, Ledger!ReserveAllowed, Ledger!Consumed
  <2>2. \A f \in RuntimeEnvelopes : f # e => status'[f] = status[f]
    BY <1>1 DEF Ledger!Reserve, Ledger!TypeOK
  <2> QED
    BY <2>1, <2>2 DEF Ledger!SingleUse, Ledger!SharesSingleUse
<1>2. ASSUME NEW e \in RuntimeEnvelopes, Ledger!Dispatch(e) \/ Ledger!Release(e)
      PROVE Ledger!SingleUse'
  <2>1. \A f \in RuntimeEnvelopes : status'[f] # "absent" => status[f] # "absent"
    BY <1>2 DEF Ledger!Dispatch, Ledger!Release, Ledger!TypeOK
  <2> QED
    BY <2>1 DEF Ledger!SingleUse
<1>3. CASE UNCHANGED status
  BY <1>3 DEF Ledger!SingleUse
<1> QED
  BY <1>1, <1>2, <1>3 DEF Ledger!Next

-----------------------------------------------------------------------------
(* The calls.                                                              *)

(* The server starts with no call, and with an approval store that holds   *)
(* one pending challenge at most.                                          *)
LEMMA CallInitial == Init => CallInv
<1> SUFFICES ASSUME Init PROVE CallInv
  OBVIOUS
<1> USE RuntimeAssumption DEF Init
<1>1. challenges \in Seq(Approvals!Challenge) /\ Len(challenges) <= MaxChallenges
  <2>1. CASE challenges = <<>>
    BY <2>1
  <2>2. ASSUME NEW action \in Governed, NEW tenant \in Tenants,
               challenges = Approvals!Prepared(<<>>, action, tenant, 0)
        PROVE  challenges \in Seq(Approvals!Challenge) /\ Len(challenges) <= MaxChallenges
    <3> DEFINE new == [ action |-> action, tenant |-> tenant,
                        expires_at |-> 0 + ProofTtl, status |-> "pending" ]
    <3>1. new \in Approvals!Challenge
      BY DEF Approvals!Challenge, Approvals!Statuses
    <3>2. challenges = Append(<<>>, new)
      BY <2>2 DEF Approvals!Prepared
    <3> HIDE DEF new
    <3> QED
      BY <3>1, <3>2
  <2> QED
    BY <2>1, <2>2
<1>2. Ledger!TypeOK
  BY DEF Ledger!Init, Ledger!TypeOK
<1>3. TypeOK
  <2>1. operated \in [RuntimeEnvelopes -> Endings]
    BY DEF Endings
  <2>2. Approvals!TypeOK
    BY <1>1 DEF Approvals!TypeOK
  <2> QED
    BY <1>2, <2>1, <2>2 DEF TypeOK, PCs, ReplyKinds
<1>4. PhaseInv /\ ProvedInv /\ ProofInv
  BY DEF PhaseInv, ProvedInv, ProofInv, Settled, Early, Decided, Holding
<1>5. OperatedInv
  BY DEF OperatedInv
<1> QED
  BY <1>1, <1>3, <1>4, <1>5 DEF CallInv, SizeInv

(* Every step keeps the challenges typed and within their bound. *)
LEMMA ChallengesStep ==
  ASSUME CallInv, [Next]_vars
  PROVE  Approvals!TypeOK' /\ SizeInv'
<1>1. Approvals!TypeOK /\ Len(challenges) <= MaxChallenges
  BY DEF CallInv, TypeOK, SizeInv
<1>2. CASE UNCHANGED <<challenges, now>>
  BY <1>1, <1>2 DEF Approvals!TypeOK, SizeInv
<1>3. CASE Approvals!Tick
  BY <1>1, <1>3, RuntimeAssumption DEF Approvals!Tick, Approvals!TypeOK, SizeInv
<1>4. ASSUME NEW i \in DOMAIN challenges, NEW s \in Approvals!Statuses, now' = now,
             challenges' = Approvals!WithStatus(challenges, i, s)
      PROVE  Approvals!TypeOK' /\ SizeInv'
  <2>1. challenges' \in Seq(Approvals!Challenge) /\ Len(challenges') = Len(challenges)
    BY <1>1, <1>4, ChallengesKept
  <2> QED
    BY <1>1, <1>4, <2>1 DEF Approvals!TypeOK, SizeInv
<1>5. ASSUME NEW c \in Calls, ResolveApproval(c) PROVE Approvals!TypeOK' /\ SizeInv'
  BY <1>2, <1>4, <1>5 DEF ResolveApproval, Approvals!Consume, Approvals!Statuses
<1>6. ASSUME NEW c \in Calls, PrepareChallenge(c) PROVE Approvals!TypeOK' /\ SizeInv'
  <2>1. /\ request[c] \in Requests /\ now' = now /\ now \in Nat
        /\ Len(challenges) < MaxChallenges
        /\ challenges' = Approvals!Prepared(challenges, request[c].action, request[c].tenant, now)
    BY <1>1, <1>6, RuntimeAssumption
    DEF PrepareChallenge, Approvals!Prepare, CallInv, PhaseInv, Approvals!TypeOK
  <2>2. request[c].action \in Actions /\ request[c].tenant \in Tenants
    BY <2>1, RuntimeAssumption
  <2>3. challenges' \in Seq(Approvals!Challenge) /\ Len(challenges') = Len(challenges) + 1
    BY <1>1, <2>1, <2>2, ChallengeAdded
  <2> QED
    BY <1>1, <2>1, <2>3, RuntimeAssumption DEF Approvals!TypeOK, SizeInv
<1>7. ASSUME NEW i \in 1..MaxChallenges, NEW tenant \in Tenants,
             NEW verdict \in Approvals!Verdicts, UserDecides(i, tenant, verdict)
      PROVE  Approvals!TypeOK' /\ SizeInv'
  BY <1>4, <1>7
  DEF UserDecides, Approvals!Decide, Approvals!Decidable, Approvals!Statuses, Approvals!Verdicts
<1> QED
  BY <1>2, <1>3, <1>5, <1>6, <1>7
  DEF Next, vars, RefuseArguments, Call, Step, Failure, Authorize, Reserve, Send, ResponseArrives,
      NoResponse, Commit, Cancel, ApprovalStoreFails, ReserveFails, SecretMissing, CommitFails,
      CancelFails, ProviderExecutes, Operator, Crash, Tick

(* The variables of the calls and of the provider keep their types. *)
CallTypeOK ==
  /\ pc \in [Calls -> PCs]
  /\ request \in [Calls -> Requests \cup {Null}]
  /\ started \in [Calls -> 0..MaxTime]
  /\ completed \in [Calls -> 0..MaxTime]
  /\ proof \in [Calls -> 0..MaxChallenges]
  /\ sent \subseteq Calls /\ executed \subseteq sent /\ answered \subseteq executed
  /\ reply \in [Calls -> ReplyKinds]
  /\ faults \in 0..MaxFaults

(* Each step gives the calls' variables values of their types. *)
LEMMA CallTypeStep ==
  ASSUME CallInv, [Next]_vars
  PROVE  CallTypeOK'
<1>1. CallTypeOK /\ now \in 0..MaxTime
  BY DEF CallInv, TypeOK, CallTypeOK, Approvals!TypeOK
<1> USE RuntimeAssumption DEF CallTypeOK, PCs, ReplyKinds, Goto, Return, Fault, providerVars
<1>2. ASSUME NEW c \in Calls, RefuseArguments(c) PROVE CallTypeOK'
  BY <1>1, <1>2 DEF RefuseArguments
<1>3. ASSUME NEW c \in Calls, NEW rq \in Requests, Call(c, rq) PROVE CallTypeOK'
  BY <1>1, <1>3 DEF Call
<1>4. ASSUME NEW c \in Calls, ResolveApproval(c) PROVE CallTypeOK'
  <2>1. \A i \in DOMAIN challenges : i \in 0..MaxChallenges
    BY DEF CallInv, TypeOK, SizeInv, Approvals!TypeOK
  <2>2. \/ proof' = proof
        \/ \E i \in DOMAIN challenges : proof' = [proof EXCEPT ![c] = i]
    BY <1>4 DEF ResolveApproval
  <2>3. proof' \in [Calls -> 0..MaxChallenges]
    BY <1>1, <2>1, <2>2
  <2> QED
    BY <1>1, <1>4, <2>3 DEF ResolveApproval
<1>5. ASSUME NEW c \in Calls, Authorize(c) \/ PrepareChallenge(c) PROVE CallTypeOK'
  BY <1>1, <1>5 DEF Authorize, PrepareChallenge
<1>6. ASSUME NEW c \in Calls, ApprovalStoreFails(c) \/ SecretMissing(c) PROVE CallTypeOK'
  BY <1>1, <1>6 DEF ApprovalStoreFails, SecretMissing
<1>7. ASSUME NEW c \in Calls, Reserve(c) \/ ReserveFails(c) PROVE CallTypeOK'
  BY <1>1, <1>7 DEF Reserve, ReserveFails
<1>8. ASSUME NEW c \in Calls, Send(c) \/ NoResponse(c) PROVE CallTypeOK'
  BY <1>1, <1>8 DEF Send, NoResponse
<1>9. ASSUME NEW c \in Calls, ProviderExecutes(c) PROVE CallTypeOK'
  BY <1>1, <1>9 DEF ProviderExecutes, callVars
<1>10. ASSUME NEW c \in Calls, ResponseArrives(c) PROVE CallTypeOK'
  BY <1>1, <1>10 DEF ResponseArrives
<1>11. ASSUME NEW c \in Calls, Commit(c) \/ CommitFails(c) PROVE CallTypeOK'
  <2>1. CASE Commit(c)
    BY <1>1, <2>1 DEF Commit
  <2>2. CASE CommitFails(c)
    BY <1>1, <2>2 DEF CommitFails
  <2> QED
    BY <1>11, <2>1, <2>2
<1>12. ASSUME NEW c \in Calls, Cancel(c) \/ CancelFails(c) PROVE CallTypeOK'
  <2>1. CASE Cancel(c)
    BY <1>1, <2>1 DEF Cancel
  <2>2. CASE CancelFails(c)
    BY <1>1, <2>2 DEF CancelFails
  <2> QED
    BY <1>12, <2>1, <2>2
<1>13. CASE Crash
  BY <1>1, <1>13 DEF Crash
<1>14. CASE UNCHANGED <<callVars, providerVars, faults>>
  BY <1>1, <1>14 DEF callVars
<1> QED
  BY <1>2, <1>3, <1>4, <1>5, <1>6, <1>7, <1>8, <1>9, <1>10, <1>11, <1>12, <1>13, <1>14
  DEF Next, vars, Step, Failure, UserDecides, Operator, Tick

(* Where a call is goes on saying what it has done. *)
LEMMA PhaseStep ==
  ASSUME CallInv, [Next]_vars
  PROVE  PhaseInv'
<1>1. CallTypeOK /\ PhaseInv
  BY DEF CallInv, TypeOK, CallTypeOK
<1> USE RuntimeAssumption DEF PhaseInv, CallTypeOK, PCs, Early, Goto, Return, Fault, providerVars
<1>2. ASSUME NEW c \in Calls, RefuseArguments(c) PROVE PhaseInv'
  BY <1>1, <1>2 DEF RefuseArguments
<1>3. ASSUME NEW c \in Calls, NEW rq \in Requests, Call(c, rq) PROVE PhaseInv'
  BY <1>1, <1>3 DEF Call
<1>4. ASSUME NEW c \in Calls, ResolveApproval(c) PROVE PhaseInv'
  <2>1. \A d \in Calls : d # c => proof'[d] = proof[d] /\ pc'[d] = pc[d]
    BY <1>1, <1>4 DEF ResolveApproval
  <2> QED
    BY <1>1, <1>4, <2>1 DEF ResolveApproval
<1>5. ASSUME NEW c \in Calls, Authorize(c) PROVE PhaseInv'
  BY <1>1, <1>5 DEF Authorize
<1>6. ASSUME NEW c \in Calls, PrepareChallenge(c) PROVE PhaseInv'
  BY <1>1, <1>6 DEF PrepareChallenge
<1>7. ASSUME NEW c \in Calls, ApprovalStoreFails(c) PROVE PhaseInv'
  BY <1>1, <1>7 DEF ApprovalStoreFails
<1>8. ASSUME NEW c \in Calls, SecretMissing(c) PROVE PhaseInv'
  BY <1>1, <1>8 DEF SecretMissing
<1>9. ASSUME NEW c \in Calls, Reserve(c) PROVE PhaseInv'
  BY <1>1, <1>9 DEF Reserve
<1>10. ASSUME NEW c \in Calls, ReserveFails(c) PROVE PhaseInv'
  BY <1>1, <1>10 DEF ReserveFails
<1>11. ASSUME NEW c \in Calls, Send(c) PROVE PhaseInv'
  BY <1>1, <1>11 DEF Send
<1>12. ASSUME NEW c \in Calls, NoResponse(c) PROVE PhaseInv'
  BY <1>1, <1>12 DEF NoResponse
<1>13. ASSUME NEW c \in Calls, ProviderExecutes(c) PROVE PhaseInv'
  BY <1>1, <1>13 DEF ProviderExecutes, callVars
<1>14. ASSUME NEW c \in Calls, ResponseArrives(c) PROVE PhaseInv'
  BY <1>1, <1>14 DEF ResponseArrives
<1>15. ASSUME NEW c \in Calls, Commit(c) PROVE PhaseInv'
  BY <1>1, <1>15 DEF Commit
<1>16. ASSUME NEW c \in Calls, CommitFails(c) PROVE PhaseInv'
  BY <1>1, <1>16 DEF CommitFails
<1>17. ASSUME NEW c \in Calls, Cancel(c) \/ CancelFails(c) PROVE PhaseInv'
  BY <1>1, <1>17 DEF Cancel, CancelFails
<1>18. CASE Crash
  BY <1>1, <1>18 DEF Crash
<1>19. CASE UNCHANGED <<callVars, providerVars, faults>>
  BY <1>1, <1>19 DEF callVars
<1> QED
  BY <1>2, <1>3, <1>4, <1>5, <1>6, <1>7, <1>8, <1>9, <1>10, <1>11, <1>12, <1>13, <1>14, <1>15,
     <1>16, <1>17, <1>18, <1>19
  DEF Next, vars, Step, Failure, UserDecides, Operator, Tick

(* A call decides to reserve only with the proof its action needs, and     *)
(* keeps it.                                                               *)
LEMMA ProvedStep ==
  ASSUME CallInv, [Next]_vars
  PROVE  ProvedInv'
<1> SUFFICES ASSUME NEW c \in Calls, Settled(c)'
             PROVE  /\ request'[c] \in Requests
                    /\ request'[c].action \in Governed => proof'[c] # 0
  BY DEF ProvedInv
<1>1. CallTypeOK /\ PhaseInv /\ ProvedInv
  BY DEF CallInv, TypeOK, CallTypeOK
<1> USE DEF CallTypeOK, Settled, Decided, Holding, Goto, Return
<1>2. CASE Settled(c)
  <2>1. pc[c] \notin {"idle", "resolving"}
    BY <1>1, <1>2 DEF PhaseInv, Early
  <2> QED
    BY <1>1, <1>2, <2>1, SettledKeeps DEF ProvedInv
<1>3. CASE ~Settled(c)
  <2>1. pc[c] = "deciding" /\ pc'[c] = "reserving" /\ Authorize(c)
    BY <1>1, <1>3
    DEF Next, vars, callVars, providerVars, Step, Failure, RefuseArguments, Call, ResolveApproval,
        Authorize, PrepareChallenge, Reserve, Send, ResponseArrives, NoResponse, Commit, Cancel,
        ApprovalStoreFails, ReserveFails, SecretMissing, CommitFails, CancelFails,
        ProviderExecutes, UserDecides, Operator, Crash, Tick
  <2>2. request'[c] = request[c] /\ proof'[c] = proof[c]
    BY <1>1, <2>1 DEF Authorize
  <2>3. request[c] \in Requests
    BY <1>1, <2>1 DEF PhaseInv
  <2>4. request[c].action \in Governed => proof[c] # 0
    BY <1>1, <2>1 DEF Authorize
  <2> QED
    BY <2>2, <2>3, <2>4
<1> QED
  BY <1>2, <1>3

(* A consumed challenge stays as it is: it can be neither decided nor      *)
(* found again.                                                            *)
LEMMA SpentStays ==
  ASSUME CallInv, [Next]_vars, NEW i \in DOMAIN challenges, challenges[i].status = "consumed"
  PROVE  i \in DOMAIN challenges' /\ challenges'[i] = challenges[i]
<1>1. Approvals!TypeOK
  BY DEF CallInv, TypeOK
<1>2. CASE UNCHANGED challenges
  BY <1>2
<1>3. ASSUME NEW j \in DOMAIN challenges, NEW s \in Approvals!Statuses,
             challenges[j].status # "consumed",
             challenges' = Approvals!WithStatus(challenges, j, s)
      PROVE  i \in DOMAIN challenges' /\ challenges'[i] = challenges[i]
  BY <1>1, <1>3, ChallengesKept
<1>4. ASSUME NEW c \in Calls, ResolveApproval(c)
      PROVE  i \in DOMAIN challenges' /\ challenges'[i] = challenges[i]
  BY <1>2, <1>3, <1>4
  DEF ResolveApproval, Approvals!Consume, Approvals!IsFirstMatch, Approvals!MatchSet,
      Approvals!Matches, Approvals!Statuses
<1>5. ASSUME NEW c \in Calls, PrepareChallenge(c)
      PROVE  i \in DOMAIN challenges' /\ challenges'[i] = challenges[i]
  <2>1. /\ request[c] \in Requests /\ now \in Nat
        /\ challenges' = Approvals!Prepared(challenges, request[c].action, request[c].tenant, now)
    BY <1>1, <1>5, RuntimeAssumption
    DEF PrepareChallenge, Approvals!Prepare, CallInv, PhaseInv, Approvals!TypeOK
  <2>2. request[c].action \in Actions /\ request[c].tenant \in Tenants
    BY <2>1, RuntimeAssumption
  <2> QED
    BY <1>1, <2>1, <2>2, ChallengeAdded
<1>6. ASSUME NEW k \in 1..MaxChallenges, NEW tenant \in Tenants,
             NEW verdict \in Approvals!Verdicts, UserDecides(k, tenant, verdict)
      PROVE  i \in DOMAIN challenges' /\ challenges'[i] = challenges[i]
  BY <1>3, <1>6
  DEF UserDecides, Approvals!Decide, Approvals!Decidable, Approvals!Statuses, Approvals!Verdicts
<1> QED
  BY <1>2, <1>4, <1>5, <1>6
  DEF Next, vars, RefuseArguments, Call, Step, Failure, Authorize, Reserve, Send, ResponseArrives,
      NoResponse, Commit, Cancel, ApprovalStoreFails, ReserveFails, SecretMissing, CommitFails,
      CancelFails, ProviderExecutes, Operator, Crash, Tick, Approvals!Tick

(* A proof appears when its challenge is spent, and a challenge is spent   *)
(* for one call.                                                           *)
LEMMA ProofStep ==
  ASSUME CallInv, [Next]_vars
  PROVE  ProofInv'
<1>1. /\ CallTypeOK /\ PhaseInv /\ ProofInv /\ Approvals!TypeOK
  BY DEF CallInv, TypeOK, CallTypeOK
<1>2. ASSUME NEW c \in Calls, proof[c] # 0
      PROVE  /\ request'[c] = request[c] /\ proof'[c] = proof[c]
             /\ proof[c] \in DOMAIN challenges' /\ challenges'[proof[c]] = challenges[proof[c]]
  <2>1. pc[c] \notin {"idle", "resolving"}
    BY <1>1, <1>2 DEF PhaseInv
  <2> QED
    BY <1>1, <1>2, <2>1, SettledKeeps, SpentStays DEF ProofInv
<1>3. CASE proof' = proof
  BY <1>1, <1>2, <1>3 DEF ProofInv
<1>4. ASSUME NEW c \in Calls, ResolveApproval(c), proof' # proof PROVE ProofInv'
  <2>1. PICK i \in DOMAIN challenges :
          /\ Approvals!Consume(i, request[c].action, request[c].tenant, started[c])
          /\ proof' = [proof EXCEPT ![c] = i]
    BY <1>4 DEF ResolveApproval
  <2>2. /\ challenges[i].status = "confirmed"
        /\ challenges[i].action = request[c].action /\ challenges[i].tenant = request[c].tenant
        /\ challenges' = Approvals!WithStatus(challenges, i, "consumed")
    BY <2>1 DEF Approvals!Consume, Approvals!IsFirstMatch, Approvals!MatchSet, Approvals!Matches
  <2>3. /\ request[c] \in Requests /\ request[c].action \in Governed
        /\ request' = request
    BY <1>1, <1>4 DEF ResolveApproval, PhaseInv
  <2>4. "consumed" \in Approvals!Statuses
    BY DEF Approvals!Statuses
  <2>5. /\ i \in DOMAIN challenges' /\ challenges'[i].status = "consumed"
        /\ challenges'[i].action = challenges[i].action
        /\ challenges'[i].tenant = challenges[i].tenant
    BY <1>1, <2>2, <2>4, ChallengesKept
  <2>6. \A d \in Calls : d # c => proof[d] # i /\ proof'[d] = proof[d]
    <3>1. i # 0
      BY <1>1 DEF Approvals!TypeOK
    <3> QED
      BY <1>1, <2>1, <2>2, <3>1 DEF ProofInv, CallTypeOK
  <2>7. proof'[c] = i
    BY <1>1, <2>1 DEF CallTypeOK
  <2> QED
    BY <1>1, <1>2, <2>2, <2>3, <2>5, <2>6, <2>7 DEF ProofInv
<1> QED
  BY <1>3, <1>4
  DEF Next, vars, callVars, RefuseArguments, Call, Step, Failure, Authorize, PrepareChallenge,
      Reserve, Send, ResponseArrives, NoResponse, Commit, Cancel, ApprovalStoreFails, ReserveFails,
      SecretMissing, CommitFails, CancelFails, ProviderExecutes, UserDecides, Operator,
      Crash, Tick

(* An operator ends a reservation that is still active, once and for all. *)
LEMMA OperatedStep ==
  ASSUME CallInv, [Next]_vars
  PROVE  /\ operated' \in [RuntimeEnvelopes -> Endings]
         /\ OperatedInv'
         /\ \A e \in RuntimeEnvelopes : operated[e] # "none" => operated'[e] = operated[e]
<1> HIDE DEF RuntimeEnvelopes
<1> USE DEF OperatedInv
<1>1. operated \in [RuntimeEnvelopes -> Endings] /\ OperatedInv /\ Ledger!TypeOK
  BY DEF CallInv, TypeOK
<1>2. ASSUME NEW e \in RuntimeEnvelopes, NEW ending \in Endings \ {"none"}, status[e] = "reserved",
             operated' = [operated EXCEPT ![e] = ending],
             status' = [status EXCEPT ![e] = IF ending = "dispatched" THEN "dispatched" ELSE "released"]
      PROVE  /\ operated' \in [RuntimeEnvelopes -> Endings]
             /\ OperatedInv'
             /\ \A f \in RuntimeEnvelopes : operated[f] # "none" => operated'[f] = operated[f]
  BY <1>1, <1>2 DEF Endings, Ledger!TypeOK
<1>3. CASE UNCHANGED operated
  BY <1>1, <1>3, LedgerStep, LedgerMoves DEF Endings
<1>4. ASSUME NEW e \in RuntimeEnvelopes, NEW at \in OperatorTimes, OperatorCommits(e, at)
      PROVE  /\ status[e] = "reserved" /\ status' = [status EXCEPT ![e] = "dispatched"]
             /\ operated' = [operated EXCEPT ![e] = "dispatched"]
  BY <1>4 DEF OperatorCommits, Ledger!Dispatch
<1>5. ASSUME NEW e \in RuntimeEnvelopes, NEW at \in OperatorTimes, NEW reason \in Ledger!Reasons,
             OperatorReleases(e, reason, at)
      PROVE  /\ status[e] = "reserved" /\ status' = [status EXCEPT ![e] = "released"]
             /\ operated' = [operated EXCEPT ![e] = reason]
  BY <1>5 DEF OperatorReleases, Ledger!Release
<1>6. CASE Operator
  BY <1>2, <1>3, <1>4, <1>5, <1>6 DEF Operator, OperatorReserves, Endings, Ledger!Reasons
<1> QED
  BY <1>3, <1>6
  DEF Next, vars, ledgerVars, RefuseArguments, Call, ResolveApproval, Step,
      Failure, Authorize, PrepareChallenge, Reserve, Send, ResponseArrives, NoResponse, Commit,
      Cancel, ApprovalStoreFails, ReserveFails, SecretMissing, CommitFails, CancelFails,
      ProviderExecutes, UserDecides, Crash, Tick

(* The calls' part of the invariant is inductive by itself. *)
LEMMA CallInductive == CallInv /\ [Next]_vars => CallInv'
<1> SUFFICES ASSUME CallInv, [Next]_vars PROVE CallInv'
  OBVIOUS
<1>1. Ledger!TypeOK'
  BY LedgerStep, LedgerMoves DEF CallInv, TypeOK
<1>2. TypeOK'
  BY <1>1, ChallengesStep, CallTypeStep, OperatedStep DEF TypeOK, CallTypeOK
<1> QED
  BY <1>2, ChallengesStep, PhaseStep, ProvedStep, ProofStep, OperatedStep DEF CallInv

(* The calls' part holds in every state the runtime reaches. *)
LEMMA CallInvariant == Spec => []CallInv
  BY CallInitial, CallInductive, PTL DEF Spec

-----------------------------------------------------------------------------
(* What the calls' part gives.                                             *)

(* The types of the variables. *)
THEOREM RuntimeTyped == Spec => []TypeOK
<1>1. CallInv => TypeOK
  BY DEF CallInv
<1> QED
  BY <1>1, CallInvariant, PTL

(* What a governed call sends was approved by its own tenant, for exactly  *)
(* this action, and the approval backs no other call.                      *)
THEOREM RuntimeSentIsApproved == Spec => []SentIsApproved
<1>1. CallInv => SentIsApproved
  BY DEF CallInv, TypeOK, ProvedInv, ProofInv, Settled, SentIsApproved
<1> QED
  BY <1>1, CallInvariant, PTL

(* A tools/call drives the ledger only along the paths of AbstractLedger,  *)
(* the level at which the file-based ledger is shown to implement it.      *)
THEOREM RuntimeUsesLedger == Spec => Ledger!Spec
<1>1. Init => Ledger!Init
  BY DEF Init
<1> QED
  BY <1>1, CallInvariant, LedgerStep, PTL DEF Spec, Ledger!Spec

(* No call is dated ahead of the clock. *)
StartedInv == \A c \in Calls : started[c] <= now

(* startedAt is read off the clock, and the clock does not go back. *)
LEMMA StartedInvariant == Spec => []StartedInv
<1>1. Init => StartedInv
  BY DEF Init, StartedInv
<1>2. CallInv /\ StartedInv /\ [Next]_vars => StartedInv'
  <2> SUFFICES ASSUME CallInv, StartedInv, [Next]_vars, NEW c \in Calls
               PROVE  started'[c] <= now'
    BY DEF StartedInv
  <2>1. now \in Nat /\ started[c] \in Nat /\ started[c] <= now /\ CallTypeOK
    BY RuntimeAssumption DEF CallInv, TypeOK, CallTypeOK, Approvals!TypeOK, StartedInv
  <2> QED
    BY <2>1
    DEF CallTypeOK, Next, vars, callVars, Step, Failure, RefuseArguments, Call, ResolveApproval,
        Authorize, PrepareChallenge, Reserve, Send, ResponseArrives, NoResponse, Commit, Cancel,
        ApprovalStoreFails, ReserveFails, SecretMissing, CommitFails, CancelFails,
        ProviderExecutes, UserDecides, Operator, Crash, Tick, Approvals!Tick
<1> QED
  BY <1>1, <1>2, CallInvariant, PTL DEF Spec

(* A tools/call and the users drive the approval store only along the      *)
(* steps of ApprovalChallenges, the level at which the file-based store is *)
(* shown to implement it; a call presents a time that has come.            *)
THEOREM RuntimeUsesApprovals == Spec => [][Approvals!Next]_(Approvals!vars)
<1>1. CallInv /\ StartedInv /\ [Next]_vars => [Approvals!Next]_(Approvals!vars)
  <2> SUFFICES ASSUME CallInv, StartedInv, [Next]_vars
               PROVE  Approvals!Next \/ UNCHANGED <<challenges, now>>
    BY DEF Approvals!vars
  <2>1. /\ CallTypeOK /\ PhaseInv /\ now \in Nat
        /\ \A c \in Calls : started[c] \in 0..now
    BY RuntimeAssumption DEF CallInv, TypeOK, CallTypeOK, Approvals!TypeOK, StartedInv
  <2>2. ASSUME NEW c \in Calls, request[c] \in Requests
        PROVE request[c].action \in Actions /\ request[c].tenant \in Tenants
    BY <2>2, RuntimeAssumption
  <2>3. ASSUME NEW c \in Calls, ResolveApproval(c)
        PROVE Approvals!Next \/ UNCHANGED <<challenges, now>>
    <3>1. request[c].action \in Actions /\ request[c].tenant \in Tenants
      BY <2>1, <2>2, <2>3 DEF ResolveApproval, PhaseInv
    <3> QED
      BY <2>1, <2>3, <3>1 DEF ResolveApproval, Approvals!Next
  <2>4. ASSUME NEW c \in Calls, PrepareChallenge(c)
        PROVE Approvals!Next \/ UNCHANGED <<challenges, now>>
    <3>1. request[c].action \in Actions /\ request[c].tenant \in Tenants
      BY <2>1, <2>2, <2>4 DEF PrepareChallenge, PhaseInv
    <3> QED
      BY <2>1, <2>4, <3>1 DEF PrepareChallenge, Approvals!Next
  <2>5. ASSUME NEW i \in 1..MaxChallenges, NEW tenant \in Tenants,
               NEW verdict \in Approvals!Verdicts, UserDecides(i, tenant, verdict)
        PROVE Approvals!Next \/ UNCHANGED <<challenges, now>>
    BY <2>1, <2>5 DEF UserDecides, Approvals!Next, Approvals!Decide, Approvals!Decidable
  <2>6. CASE Approvals!Tick
    BY <2>6 DEF Approvals!Next
  <2> QED
    BY <2>3, <2>4, <2>5, <2>6
    DEF Next, vars, RefuseArguments, Call, Step, Failure, Authorize, Reserve, Send,
        ResponseArrives, NoResponse, Commit, Cancel, ApprovalStoreFails, ReserveFails,
        SecretMissing, CommitFails, CancelFails, ProviderExecutes, Operator, Crash, Tick
<1> QED
  BY <1>1, CallInvariant, StartedInvariant, PTL DEF Spec

-----------------------------------------------------------------------------
(* The calls and the ledger.                                               *)

(* What the ledger's part of the invariant takes from the calls' part.     *)
LEMMA Known ==
  ASSUME CallInv
  PROVE  /\ CallTypeOK /\ PhaseInv /\ ProvedInv /\ Ledger!TypeOK
         /\ operated \in [RuntimeEnvelopes -> Endings] /\ OperatedInv
         /\ answered \subseteq sent /\ sent \subseteq Calls
         /\ faults \in Nat
  BY RuntimeAssumption DEF CallInv, TypeOK, CallTypeOK

(* Reserving is what takes a call to the credential, and no step takes its *)
(* envelope out of the ledger.                                             *)
LEMMA HeldStep ==
  ASSUME CallInv, HeldInv, [Next]_vars
  PROVE  HeldInv'
<1> SUFFICES ASSUME NEW c \in Calls, pc'[c] \in Holding \/ c \in sent'
             PROVE  (status[EnvelopeFor(c)] # "absent")'
  BY DEF HeldInv
<1>1. CASE pc[c] \in Holding \/ c \in sent
  <2>1. pc[c] \notin {"idle", "resolving"} /\ Settled(c)
    BY <1>1, Known DEF PhaseInv, Early, Holding, Settled, Decided
  <2>2. EnvelopeFor(c)' = EnvelopeFor(c) /\ EnvelopeFor(c) \in RuntimeEnvelopes
    BY <2>1, SettledKeeps, SettledListed
  <2>3. status[EnvelopeFor(c)] # "absent"
    BY <1>1 DEF HeldInv
  <2> QED
    BY <2>2, <2>3, Known, LedgerStep, LedgerMoves
<1>2. CASE ~(pc[c] \in Holding \/ c \in sent)
  <2>1. pc[c] = "reserving" /\ pc'[c] = "injecting" /\ Reserve(c)
    BY <1>2, Known
    DEF CallTypeOK, Holding, Goto, Return, Next, vars, callVars, providerVars, Step, Failure,
        RefuseArguments, Call, ResolveApproval, Authorize, PrepareChallenge, Reserve, Send,
        ResponseArrives, NoResponse, Commit, Cancel, ApprovalStoreFails, ReserveFails,
        SecretMissing, CommitFails, CancelFails, ProviderExecutes, UserDecides, Operator,
        Crash, Tick
  <2>2. EnvelopeFor(c)' = EnvelopeFor(c) /\ EnvelopeFor(c) \in RuntimeEnvelopes
    BY <2>1, SettledKeeps, SettledListed DEF Settled, Decided
  <2>3. status'[EnvelopeFor(c)] # "absent"
    <3>1. CASE Ledger!ReserveReplays(status, EnvelopeFor(c)) /\ status' = status
      BY <3>1 DEF Ledger!ReserveReplays
    <3>2. CASE Ledger!Reserve(EnvelopeFor(c))
      BY <2>2, <3>2, Known DEF Ledger!Reserve, Ledger!TypeOK
    <3> QED
      BY <2>1, <3>1, <3>2, Known DEF Reserve, Return, CallTypeOK
  <2> QED
    BY <2>2, <2>3
<1> QED
  BY <1>1, <1>2

(* A reply, once given, is final; faults are not forgotten; answers and    *)
(* requests are not taken back, and what they were for is fixed.           *)
LEMMA RecordsStay ==
  ASSUME CallInv, [Next]_vars
  PROVE  /\ sent \subseteq sent' /\ answered \subseteq answered'
         /\ faults' \in Nat /\ faults' >= faults
         /\ \A c \in Calls : reply[c] # "none" => reply'[c] = reply[c]
         /\ \A c \in sent : EnvelopeFor(c)' = EnvelopeFor(c)
<1>1. sent \subseteq sent' /\ answered \subseteq answered' /\ faults' \in Nat /\ faults' >= faults
  BY Known
  DEF Fault, Next, vars, callVars, providerVars, Step, Failure, RefuseArguments, Call,
      ResolveApproval, Authorize, PrepareChallenge, Reserve, Send, ResponseArrives, NoResponse,
      Commit, Cancel, ApprovalStoreFails, ReserveFails, SecretMissing, CommitFails, CancelFails,
      ProviderExecutes, UserDecides, Operator, Crash, Tick
<1>2. ASSUME NEW c \in Calls, reply[c] # "none" PROVE reply'[c] = reply[c]
  <2>1. pc[c] = "returned"
    BY <1>2, Known DEF PhaseInv
  <2> QED
    BY <2>1, Known
    DEF CallTypeOK, Goto, Return, Next, vars, callVars, providerVars, Step, Failure,
        RefuseArguments, Call, ResolveApproval, Authorize, PrepareChallenge, Reserve, Send,
        ResponseArrives, NoResponse, Commit, Cancel, ApprovalStoreFails, ReserveFails,
        SecretMissing, CommitFails, CancelFails, ProviderExecutes, UserDecides, Operator,
        Crash, Tick
<1>3. ASSUME NEW c \in sent PROVE EnvelopeFor(c)' = EnvelopeFor(c)
  <2>1. pc[c] \notin {"idle", "resolving"} /\ c \in Calls
    BY <1>3, Known DEF PhaseInv, Early
  <2> QED
    BY <2>1, SettledKeeps
<1> QED
  BY <1>1, <1>2, <1>3

(* Only a commit dispatches: a call's, of its own envelope, or an          *)
(* operator's.                                                             *)
LEMMA DispatchStep ==
  ASSUME CallInv, DispatchInv, [Next]_vars
  PROVE  DispatchInv'
<1> SUFFICES ASSUME NEW e \in RuntimeEnvelopes, status'[e] = "dispatched",
                    operated'[e] # "dispatched"
             PROVE  \E d \in answered' :
                       EnvelopeFor(d)' = e /\ (reply'[d] = "answered" \/ faults' > 0)
  BY DEF DispatchInv
<1>1. CASE status[e] = "dispatched"
  <2>1. PICK d \in answered : EnvelopeFor(d) = e /\ (reply[d] = "answered" \/ faults > 0)
    BY <1>1, OperatedStep DEF DispatchInv
  <2>2. d \in sent /\ d \in Calls
    BY Known
  <2> QED
    BY <2>1, <2>2, Known, RecordsStay
<1>2. CASE status[e] # "dispatched"
  <2>1. ~Operator
    <3>1. ASSUME NEW f \in RuntimeEnvelopes, NEW at \in OperatorTimes, OperatorCommits(f, at)
          PROVE  FALSE
      BY <1>2, <3>1, Known DEF OperatorCommits, Ledger!Dispatch, Ledger!TypeOK
    <3>2. ASSUME NEW f \in RuntimeEnvelopes, Ledger!Reserve(f) \/ Ledger!Release(f) PROVE FALSE
      BY <1>2, <3>2, Known DEF Ledger!Reserve, Ledger!Release, Ledger!TypeOK
    <3> QED
      BY <3>1, <3>2 DEF Operator, OperatorReserves, OperatorReleases
  <2>2. PICK c \in Calls : Commit(c) \/ CommitFails(c)
    BY <1>2, <2>1, Known
    DEF Ledger!TypeOK, Ledger!Reserve, Ledger!Release, Next, vars, ledgerVars, Step, Failure,
        RefuseArguments, Call, ResolveApproval, Authorize, PrepareChallenge, Reserve, Send,
        ResponseArrives, NoResponse, Cancel, ApprovalStoreFails, ReserveFails,
        SecretMissing, CancelFails, ProviderExecutes, UserDecides, Crash, Tick
  <2>3. status' = [status EXCEPT ![EnvelopeFor(c)] = "dispatched"] /\ EnvelopeFor(c) = e
    BY <1>2, <2>2, Known DEF Commit, CommitFails, Ledger!Dispatch, Ledger!TypeOK
  <2>4. c \in answered /\ c \in sent
    BY <2>2, Known DEF Commit, CommitFails, PhaseInv
  <2>5. reply'[c] = "answered" \/ faults' > 0
    <3>1. CASE Commit(c)
      BY <1>2, <2>3, <3>1, Known DEF Commit, Return, CallTypeOK
    <3>2. CASE CommitFails(c)
      BY <3>2, Known DEF CommitFails, Fault
    <3> QED
      BY <2>2, <3>1, <3>2
  <2> QED
    BY <2>3, <2>4, <2>5, RecordsStay
<1> QED
  BY <1>1, <1>2

(* Only a call's cancellation or an operator releases a reservation. *)
LEMMA ReleaseStep ==
  ASSUME CallInv, ReleaseInv, [Next]_vars
  PROVE  ReleaseInv'
<1> SUFFICES ASSUME NEW e \in RuntimeEnvelopes, status'[e] = "released"
             PROVE  \/ faults' > 0 \/ operated'[e] \in {"cancelled", "expired"}
                    \/ \E d \in sent' :
                          EnvelopeFor(d)' = e /\ reply'[d] = "transport_error"
  BY DEF ReleaseInv
<1>1. CASE status[e] = "released"
  <2>1. CASE faults > 0 \/ operated[e] \in {"cancelled", "expired"}
    BY <2>1, Known, RecordsStay, OperatedStep
  <2>2. ASSUME NEW d \in sent, EnvelopeFor(d) = e, reply[d] = "transport_error"
        PROVE  d \in sent' /\ EnvelopeFor(d)' = e /\ reply'[d] = "transport_error"
    BY <2>2, Known, RecordsStay
  <2> QED
    BY <1>1, <2>1, <2>2 DEF ReleaseInv
<1>2. CASE status[e] # "released"
  <2>1. ASSUME Operator PROVE operated'[e] \in {"cancelled", "expired"}
    <3>1. ASSUME NEW f \in RuntimeEnvelopes, NEW at \in OperatorTimes, NEW reason \in Ledger!Reasons,
                 OperatorReleases(f, reason, at)
          PROVE  operated'[e] \in {"cancelled", "expired"}
      BY <1>2, <3>1, Known DEF OperatorReleases, Ledger!Release, Ledger!TypeOK, Ledger!Reasons
    <3>2. ASSUME NEW f \in RuntimeEnvelopes, Ledger!Reserve(f) \/ Ledger!Dispatch(f) PROVE FALSE
      BY <1>2, <3>2, Known DEF Ledger!Reserve, Ledger!Dispatch, Ledger!TypeOK
    <3> QED
      BY <2>1, <3>1, <3>2 DEF Operator, OperatorReserves, OperatorCommits
  <2>2. ASSUME NEW c \in Calls, CancelFails(c) PROVE faults' > 0
    BY <2>2, Known DEF CancelFails, Fault
  <2>3. ASSUME NEW c \in Calls, Cancel(c)
        PROVE  \/ faults' > 0
               \/ c \in sent' /\ EnvelopeFor(c)' = e /\ reply'[c] = "transport_error"
    <3>1. EnvelopeFor(c) = e /\ reply' = [reply EXCEPT ![c] = "transport_error"]
      BY <1>2, <2>3, Known DEF Cancel, Return, Ledger!Release, Ledger!TypeOK
    <3>2. c \in sent \/ faults > 0
      BY <2>3, Known DEF Cancel, PhaseInv
    <3> QED
      BY <3>1, <3>2, Known, RecordsStay DEF CallTypeOK
  <2>4. \/ \E c \in Calls : Cancel(c) \/ CancelFails(c)
        \/ Operator
    BY <1>2, Known
    DEF Ledger!TypeOK, Ledger!Reserve, Ledger!Dispatch, Next, vars, ledgerVars, Step, Failure,
        RefuseArguments, Call, ResolveApproval, Authorize, PrepareChallenge, Reserve, Send,
        ResponseArrives, NoResponse, Commit, ApprovalStoreFails, ReserveFails, SecretMissing,
        CommitFails, ProviderExecutes, UserDecides, Crash, Tick
  <2> QED
    BY <2>1, <2>2, <2>3, <2>4
<1> QED
  BY <1>1, <1>2

(* "answered" is said of a dispatched record only. *)
LEMMA AnsweredStep ==
  ASSUME CallInv, DispatchedIsReal, [Next]_vars, NEW c \in Calls, reply'[c] = "answered"
  PROVE  (status[EnvelopeFor(c)] = "dispatched")'
<1>1. CASE reply[c] = "answered"
  <2>1. pc[c] = "returned" /\ c \in sent /\ status[EnvelopeFor(c)] = "dispatched"
    BY <1>1, Known DEF PhaseInv, DispatchedIsReal
  <2>2. EnvelopeFor(c)' = EnvelopeFor(c) /\ EnvelopeFor(c) \in RuntimeEnvelopes
    BY <2>1, SettledKeeps, SettledListed DEF Settled
  <2> QED
    BY <2>1, <2>2, Known, LedgerStep, LedgerMoves
<1>2. CASE reply[c] # "answered"
  <2>1. Commit(c)
    BY <1>2, Known
    DEF CallTypeOK, Goto, Return, Next, vars, callVars, Step, Failure,
        RefuseArguments, Call, ResolveApproval, Authorize, PrepareChallenge, Reserve, Send,
        ResponseArrives, NoResponse, Commit, Cancel, ApprovalStoreFails, ReserveFails,
        SecretMissing, CommitFails, CancelFails, ProviderExecutes, UserDecides, Operator,
        Crash, Tick
  <2>2. pc[c] = "committing" /\ EnvelopeFor(c) \in RuntimeEnvelopes
    BY <2>1, SettledListed DEF Commit, Settled, Decided, Holding
  <2>3. EnvelopeFor(c)' = EnvelopeFor(c)
    BY <2>2, SettledKeeps
  <2>4. status'[EnvelopeFor(c)] = "dispatched"
    <3>1. CASE Ledger!CommitReplays(status, EnvelopeFor(c))
      BY <2>1, <3>1 DEF Commit, Ledger!CommitReplays
    <3>2. CASE Ledger!Dispatch(EnvelopeFor(c))
      BY <2>2, <3>2, Known DEF Ledger!Dispatch, Ledger!TypeOK
    <3> QED
      BY <1>2, <2>1, <2>2, <3>1, <3>2, Known DEF Commit, Goto, CallTypeOK
  <2> QED
    BY <2>3, <2>4
<1> QED
  BY <1>1, <1>2

(* Both halves of DispatchedIsReal are kept. *)
LEMMA DispatchedStep ==
  ASSUME CallInv, DispatchInv, DispatchedIsReal, [Next]_vars
  PROVE  DispatchedIsReal'
  BY DispatchStep, AnsweredStep DEF DispatchInv, DispatchedIsReal

(* A refusal after the request left comes from a failure, or from a        *)
(* reservation committed or expired by an operator or answered to another  *)
(* call.                                                                   *)
LEMMA FalseClaimsStep ==
  ASSUME CallInv, HeldInv, DispatchInv, FalseClaimsExplained, [Next]_vars
  PROVE  FalseClaimsExplained'
<1> SUFFICES ASSUME NEW c \in sent', reply'[c] \in {"blocked", "challenge"}
             PROVE  \/ faults' > 0 \/ operated'[EnvelopeFor(c)'] \in {"dispatched", "expired"}
                    \/ \E d \in answered' : d # c /\ d \in sent' /\ EnvelopeFor(d)' = EnvelopeFor(c)'
  BY DEF FalseClaimsExplained, Sharers
<1>1. c \in sent
  BY Known
  DEF CallTypeOK, PhaseInv, Early, Goto, Return, Next, vars, callVars, providerVars, Step, Failure,
      RefuseArguments, Call, ResolveApproval, Authorize, PrepareChallenge, Reserve, Send,
      ResponseArrives, NoResponse, Commit, Cancel, ApprovalStoreFails, ReserveFails,
      SecretMissing, CommitFails, CancelFails, ProviderExecutes, UserDecides, Operator,
      Crash, Tick
<1>2. /\ c \in Calls /\ EnvelopeFor(c)' = EnvelopeFor(c)
      /\ EnvelopeFor(c) \in RuntimeEnvelopes
  BY <1>1, Known, RecordsStay, SettledListed DEF Settled
<1>3. CASE faults > 0 \/ operated[EnvelopeFor(c)] \in {"dispatched", "expired"}
  BY <1>2, <1>3, Known, RecordsStay, OperatedStep
<1>4. ASSUME NEW d \in answered, d # c, EnvelopeFor(d) = EnvelopeFor(c)
      PROVE  d \in answered' /\ d \in sent' /\ EnvelopeFor(d)' = EnvelopeFor(c)'
  BY <1>2, <1>4, Known, RecordsStay
<1>5. CASE reply[c] \in {"blocked", "challenge"}
  BY <1>1, <1>3, <1>4, <1>5 DEF FalseClaimsExplained, Sharers
<1>6. CASE reply[c] \notin {"blocked", "challenge"}
  <2>1. Cancel(c) \/ faults' > 0
    BY <1>1, <1>2, <1>6, Known
    DEF CallTypeOK, PhaseInv, Early, Fault, Goto, Return, Next, vars, callVars, Step, Failure,
        RefuseArguments, Call, ResolveApproval, Authorize, PrepareChallenge, Reserve, Send,
        ResponseArrives, NoResponse, Commit, Cancel, ApprovalStoreFails, ReserveFails,
        SecretMissing, CommitFails, CancelFails, ProviderExecutes, UserDecides, Operator,
        Crash, Tick
  <2>2. CASE Cancel(c)
    <3> DEFINE e == EnvelopeFor(c)
    <3>1. e \in RuntimeEnvelopes /\ status[e] # "absent"
      BY <1>1, <1>2, SettledListed DEF Settled, HeldInv
    <3>2. status[e] = "dispatched" \/ (status[e] = "released" /\ operated[e] = "expired")
      BY <1>2, <1>6, <2>2, <3>1, Known DEF Cancel, Return, CallTypeOK, Ledger!TypeOK
    <3>3. CASE status[e] = "dispatched"
      <4>1. reply[c] = "none"
        BY <1>2, <2>2, Known DEF Cancel, PhaseInv
      <4>2. ASSUME NEW d \in answered, EnvelopeFor(d) = e, reply[d] = "answered" \/ faults > 0
            PROVE  faults > 0 \/ (d # c /\ EnvelopeFor(d) = EnvelopeFor(c))
        BY <4>1, <4>2
      <4>3. CASE operated[e] = "dispatched"
        BY <1>3, <4>3
      <4> QED
        BY <1>3, <1>4, <3>1, <3>3, <4>2, <4>3 DEF DispatchInv
    <3> QED
      BY <1>3, <3>2, <3>3
  <2> QED
    BY <2>1, <2>2
<1> QED
  BY <1>5, <1>6

(* An answered call reaches its release only because the commit was        *)
(* refused: too late, or the reservation already given up by someone else. *)
LEMMA LossStep ==
  ASSUME CallInv, HeldInv, ReleaseInv, LossInv, [Next]_vars
  PROVE  LossInv'
<1> SUFFICES ASSUME NEW c \in answered', pc'[c] \in {"releasing", "returned"},
                    (status[EnvelopeFor(c)] # "dispatched")'
             PROVE  \/ faults' > 0 \/ (completed[c] >= EnvelopeFor(c).expires_at)'
                    \/ operated'[EnvelopeFor(c)'] \in {"cancelled", "expired"}
                    \/ \E d \in sent' : d # c /\ EnvelopeFor(d)' = EnvelopeFor(c)'
  BY DEF LossInv, Sharers
<1>1. c \in answered /\ pc[c] # "awaiting"
  BY Known
  DEF CallTypeOK, PhaseInv, Goto, Next, vars, callVars, providerVars, Step, Failure,
      RefuseArguments, Call, ResolveApproval, Authorize, PrepareChallenge, Reserve, Send,
      ResponseArrives, NoResponse, Commit, Cancel, ApprovalStoreFails, ReserveFails,
      SecretMissing, CommitFails, CancelFails, ProviderExecutes, UserDecides, Operator,
      Crash, Tick
<1>2. /\ c \in Calls /\ c \in sent /\ EnvelopeFor(c)' = EnvelopeFor(c)
      /\ EnvelopeFor(c) \in RuntimeEnvelopes
  BY <1>1, Known, RecordsStay, SettledListed DEF Settled
<1>3. status[EnvelopeFor(c)] # "dispatched"
  BY <1>2, Known, LedgerStep, LedgerMoves
<1>4. completed'[c] = completed[c]
  BY <1>1, <1>2, Known
  DEF CallTypeOK, PhaseInv, Next, vars, callVars, Step, Failure,
      RefuseArguments, Call, ResolveApproval, Authorize, PrepareChallenge, Reserve, Send,
      ResponseArrives, NoResponse, Commit, Cancel, ApprovalStoreFails, ReserveFails,
      SecretMissing, CommitFails, CancelFails, ProviderExecutes, UserDecides, Operator,
      Crash, Tick
<1>5. CASE faults > 0 \/ operated[EnvelopeFor(c)] \in {"cancelled", "expired"}
  BY <1>2, <1>5, Known, RecordsStay, OperatedStep
<1>6. ASSUME NEW d \in sent, d # c, EnvelopeFor(d) = EnvelopeFor(c)
      PROVE  d \in sent' /\ EnvelopeFor(d)' = EnvelopeFor(c)'
  BY <1>2, <1>6, Known, RecordsStay
<1>7. CASE completed[c] >= EnvelopeFor(c).expires_at
  BY <1>2, <1>4, <1>7
<1>8. CASE pc[c] \in {"releasing", "returned"}
  BY <1>1, <1>3, <1>5, <1>6, <1>7, <1>8 DEF LossInv, Sharers
<1>9. CASE pc[c] \notin {"releasing", "returned"}
  <2>1. Commit(c) \/ faults' > 0
    BY <1>1, <1>2, <1>9, Known
    DEF CallTypeOK, PhaseInv, Early, Fault, Goto, Return, Next, vars, callVars, Step, Failure,
        RefuseArguments, Call, ResolveApproval, Authorize, PrepareChallenge, Reserve, Send,
        ResponseArrives, NoResponse, Commit, Cancel, ApprovalStoreFails, ReserveFails,
        SecretMissing, CommitFails, CancelFails, ProviderExecutes, UserDecides, Operator,
        Crash, Tick
  <2>2. CASE Commit(c)
    <3> DEFINE e == EnvelopeFor(c)
    <3>1. ~Ledger!CommitAllowed(status, e, completed[c])
      BY <1>2, <1>3, <2>2, Known DEF Commit, Ledger!Dispatch, Ledger!TypeOK, Ledger!CommitReplays
    <3>2. status[e] \in {"reserved", "released"}
      BY <1>2, <1>3, Known DEF HeldInv, Ledger!TypeOK
    <3>3. CASE status[e] = "reserved"
      BY <1>7, <3>1, <3>3 DEF Ledger!CommitAllowed, Ledger!Expired
    <3>4. CASE status[e] = "released"
      <4>1. reply[c] = "none"
        BY <1>2, <2>2, Known DEF Commit, PhaseInv
      <4> QED
        BY <1>2, <1>5, <1>6, <3>4, <4>1 DEF ReleaseInv
    <3> QED
      BY <3>2, <3>3, <3>4
  <2> QED
    BY <2>1, <2>2
<1> QED
  BY <1>8, <1>9

(* Nothing is reserved, sent or answered at the start. *)
LEMMA RuntimeInitial == Init => RuntimeInv
<1> SUFFICES ASSUME Init PROVE RuntimeInv
  OBVIOUS
<1>1. CallInv
  BY CallInitial
<1>2. \A e \in RuntimeEnvelopes : status[e] = "absent"
  BY DEF Init, Ledger!Init
<1>3. sent = {} /\ answered = {} /\ \A c \in Calls : pc[c] = "idle" /\ reply[c] = "none"
  BY DEF Init
<1> QED
  BY <1>1, <1>2, <1>3
  DEF RuntimeInv, Ledger!SingleUse, HeldInv, Holding, DispatchedIsReal, DispatchInv, ReleaseInv,
      FalseClaimsExplained, LossInv

(* Every step keeps the invariant. *)
LEMMA RuntimeInductive == RuntimeInv /\ [Next]_vars => RuntimeInv'
  BY CallInductive, Known, LedgerStep, LedgerSingleUse, HeldStep, DispatchStep, DispatchedStep,
     ReleaseStep, FalseClaimsStep, LossStep DEF RuntimeInv

(* It holds in every state the runtime reaches. *)
LEMMA RuntimeInvariant == Spec => []RuntimeInv
  BY RuntimeInitial, RuntimeInductive, PTL DEF Spec

-----------------------------------------------------------------------------
(* What the runtime promises.                                              *)

(* Requests that left under one idempotency key are the same authorized    *)
(* execution: the ledger lets a second one through only as a replay.       *)
THEOREM RuntimeOneExecutionPerKey == Spec => []OneExecutionPerKey
<1>1. RuntimeInv => OneExecutionPerKey
  <2> SUFFICES ASSUME RuntimeInv, NEW c \in sent, NEW d \in sent,
                      KeyOf(c) # Null, KeyOf(c) = KeyOf(d)
               PROVE  EnvelopeFor(c) = EnvelopeFor(d)
    BY DEF OneExecutionPerKey
  <2>1. c \in Calls /\ d \in Calls /\ Settled(c) /\ Settled(d)
    BY Known DEF RuntimeInv, Settled
  <2>2. /\ EnvelopeFor(c) \in RuntimeEnvelopes /\ EnvelopeFor(c).key = KeyOf(c)
        /\ EnvelopeFor(d) \in RuntimeEnvelopes /\ EnvelopeFor(d).key = KeyOf(d)
    BY <2>1, SettledListed DEF RuntimeInv
  <2>3. status[EnvelopeFor(c)] # "absent" /\ status[EnvelopeFor(d)] # "absent"
    BY <2>1 DEF RuntimeInv, HeldInv
  <2> QED
    BY <2>2, <2>3 DEF RuntimeInv, Ledger!SingleUse
<1> QED
  BY <1>1, RuntimeInvariant, PTL

(* A dispatched record is backed by an answered call or by the operator    *)
(* who committed it, and "answered" by a dispatched record that no command *)
(* of an operator takes away.                                              *)
THEOREM RuntimeDispatchedIsReal == Spec => []DispatchedIsReal
<1>1. RuntimeInv => DispatchedIsReal
  BY DEF RuntimeInv
<1> QED
  BY <1>1, RuntimeInvariant, PTL

(* networkExecuted: false is said of a request that left only after a      *)
(* failure, an operator's commit or release as expired, or an answer to a  *)
(* call that shared the reservation.                                       *)
THEOREM RuntimeFalseClaims == Spec => []FalseClaimsExplained
<1>1. RuntimeInv => FalseClaimsExplained
  BY DEF RuntimeInv
<1> QED
  BY <1>1, RuntimeInvariant, PTL

(* An answered request is left without its dispatched record only after a  *)
(* failure, an answer past the expiry, an operator's release, or a release *)
(* by a call that shared the reservation.                                  *)
THEOREM RuntimeAnsweredLoss == Spec => []AnsweredLossExplained
<1>1. RuntimeInv => AnsweredLossExplained
  BY DEF RuntimeInv, LossInv, AnsweredLossExplained
<1> QED
  BY <1>1, RuntimeInvariant, PTL
=============================================================================
