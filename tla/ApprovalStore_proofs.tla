------------------------- MODULE ApprovalStore_proofs -------------------------
(***************************************************************************)
(* Proofs about the approval store, for every set of requests, actions and *)
(* tenants and every bound: whoever is between taking and dropping the     *)
(* lock directory works on the file as it is, so each locked               *)
(* read-modify-write is one atomic mutation of ApprovalChallenges, and a   *)
(* challenge backs one proof at most.                                      *)
(***************************************************************************)
EXTENDS ApprovalStore, TLAPS

-----------------------------------------------------------------------------
(* The mutations as functions of the array.                                *)

(* create appends one pending challenge and keeps the others. *)
LEMMA PreparedKeeps ==
  ASSUME NEW cs \in Seq(Challenge), NEW action \in Actions, NEW tenant \in Tenants,
         NEW at \in Nat
  PROVE  /\ Prepared(cs, action, tenant, at) \in Seq(Challenge)
         /\ Len(Prepared(cs, action, tenant, at)) = Len(cs) + 1
         /\ \A i \in DOMAIN cs : Prepared(cs, action, tenant, at)[i] = cs[i]
<1> DEFINE new == [ action |-> action, tenant |-> tenant,
                    expires_at |-> at + ChallengeTtl, status |-> "pending" ]
<1>1. new \in Challenge
  BY ChallengeAssumption DEF Challenge, Statuses
<1>2. Prepared(cs, action, tenant, at) = Append(cs, new)
  BY DEF Prepared
<1> HIDE DEF new, Challenge
<1> QED
  BY <1>1, <1>2

(* decide and consume change the status of one challenge and nothing else. *)
LEMMA WithStatusKeeps ==
  ASSUME NEW cs \in Seq(Challenge), NEW i \in DOMAIN cs, NEW s \in Statuses
  PROVE  /\ WithStatus(cs, i, s) \in Seq(Challenge)
         /\ Len(WithStatus(cs, i, s)) = Len(cs)
         /\ DOMAIN WithStatus(cs, i, s) = DOMAIN cs
         /\ WithStatus(cs, i, s)[i].status = s
         /\ \A j \in DOMAIN cs : j # i => WithStatus(cs, i, s)[j] = cs[j]
<1> DEFINE new == [cs[i] EXCEPT !.status = s]
<1>1. cs[i] \in Challenge
  OBVIOUS
<1>2. new \in Challenge /\ new.status = s
  BY <1>1 DEF Challenge
<1>3. WithStatus(cs, i, s) = [cs EXCEPT ![i] = new]
  BY DEF WithStatus
<1> HIDE DEF new, Challenge
<1>4. [cs EXCEPT ![i] = new] \in Seq(Challenge) /\ Len([cs EXCEPT ![i] = new]) = Len(cs)
  BY <1>2
<1> QED
  BY <1>2, <1>3, <1>4 DEF new

-----------------------------------------------------------------------------
(* The inductive invariant.                                                *)

Inside(r) == pc[r] \in {"reading", "writing", "unlocking"}

(* Only the maker of the lock directory is between taking and dropping it. *)
LockInv == \A r \in Requests : Inside(r) => lockdir = r

(* A request keeps what it was asked, at a time that has come. *)
CallInv == \A r \in Requests : pc[r] # "idle" => op[r] \in Ops /\ op[r].at <= now

(* The array in memory is one mutation away from the file as it is now. *)
Planned(r) ==
  LET o == op[r] IN
  \/ /\ o.kind = "prepare" /\ picked[r] = 0
     /\ Len(challenges) < MaxChallenges
     /\ copy[r] = Prepared(challenges, o.action, o.tenant, o.at)
  \/ /\ o.kind = "decide" /\ picked[r] = 0
     /\ Decidable(challenges, o.target, o.tenant, o.at)
     /\ copy[r] = WithStatus(challenges, o.target, o.verdict)
  \/ /\ o.kind = "consume"
     /\ picked[r] \in DOMAIN challenges
     /\ IsFirstMatch(challenges, picked[r], o.action, o.tenant, o.at)
     /\ copy[r] = WithStatus(challenges, picked[r], "consumed")
  \/ o.kind = "consume" /\ picked[r] = 0 /\ copy[r] = challenges

PlanInv == \A r \in Requests : pc[r] = "writing" => Planned(r)

Consumed(i) == i \in DOMAIN challenges /\ challenges[i].status = "consumed"

(* What a request is about to return is consumed in the file, and no proof *)
(* was returned for it before.                                             *)
PickInv ==
  \A r \in Requests :
    /\ pc[r] \notin {"writing", "unlocking"} => picked[r] = 0
    /\ pc[r] = "unlocking" /\ picked[r] # 0 =>
         Consumed(picked[r]) /\ \A i \in DOMAIN granted : granted[i] # picked[r]

SizeInv == Len(challenges) <= MaxChallenges

StoreInv ==
  /\ StoreTypeOK /\ SizeInv
  /\ LockInv /\ CallInv /\ PlanInv /\ PickInv
  /\ GrantedIsConsumed /\ ProofsSingleUse

(* The empty store, with no request begun. *)
LEMMA StoreInitial == StoreInit => StoreInv
<1> SUFFICES ASSUME StoreInit PROVE StoreInv
  OBVIOUS
<1>1. StoreTypeOK /\ SizeInv
  BY ChallengeAssumption, RequestAssumption
  DEF StoreInit, Init, StoreTypeOK, TypeOK, SizeInv
<1>2. LockInv /\ CallInv /\ PlanInv /\ PickInv
  BY DEF StoreInit, LockInv, CallInv, PlanInv, PickInv, Inside
<1>3. GrantedIsConsumed /\ ProofsSingleUse
  BY DEF StoreInit, GrantedIsConsumed, ProofsSingleUse
<1> QED
  BY <1>1, <1>2, <1>3 DEF StoreInv

(* mkdir succeeds only on an absent directory, and only its maker removes  *)
(* it; what a crash leaves behind is nobody's.                             *)
LEMMA LockStep ==
  ASSUME StoreTypeOK, LockInv, [StoreNext]_storeVars
  PROVE  LockInv'
<1> USE RequestAssumption DEF LockInv, Inside, StoreTypeOK
<1>1. ASSUME NEW r \in Requests, BeginAny(r) PROVE LockInv'
  BY <1>1 DEF BeginAny, Begin
<1>2. ASSUME NEW r \in Requests, AcquireLock(r) \/ LockTimeout(r) PROVE LockInv'
  BY <1>2 DEF AcquireLock, LockTimeout
<1>3. ASSUME NEW r \in Requests, Mutate(r) PROVE LockInv'
  BY <1>3 DEF Mutate
<1>4. ASSUME NEW r \in Requests, Throw(r) \/ Rename(r) PROVE LockInv'
  BY <1>4 DEF Throw, Rename
<1>5. ASSUME NEW r \in Requests, Return(r) PROVE LockInv'
  BY <1>5 DEF Return
<1>6. ASSUME NEW r \in Requests, Crash(r) PROVE LockInv'
  BY <1>6 DEF Crash
<1>7. CASE Tick /\ UNCHANGED procVars
  BY <1>7 DEF procVars
<1>8. CASE UNCHANGED storeVars
  BY <1>8 DEF storeVars, procVars
<1> QED
  BY <1>1, <1>2, <1>3, <1>4, <1>5, <1>6, <1>7, <1>8 DEF StoreNext, Step

(* A request is begun with the time at hand, and time does not go back. *)
LEMMA CallStep ==
  ASSUME StoreTypeOK, CallInv, [StoreNext]_storeVars
  PROVE  CallInv'
<1> USE DEF CallInv, StoreTypeOK, TypeOK
<1>1. ASSUME NEW r \in Requests, BeginAny(r) PROVE CallInv'
  <2> HIDE DEF Ops
  <2>1. PICK o \in Ops : o.at = now /\ Begin(r, o)
    BY <1>1 DEF BeginAny
  <2>2. op' = [op EXCEPT ![r] = o] /\ now' = now /\ pc' = [pc EXCEPT ![r] = "waiting"]
    BY <2>1 DEF Begin
  <2> QED
    BY <2>1, <2>2
<1>2. ASSUME NEW r \in Requests, AcquireLock(r) PROVE CallInv'
  BY <1>2 DEF AcquireLock
<1>3. ASSUME NEW r \in Requests, LockTimeout(r) PROVE CallInv'
  BY <1>3 DEF LockTimeout
<1>4. ASSUME NEW r \in Requests, Mutate(r) PROVE CallInv'
  BY <1>4 DEF Mutate
<1>5. ASSUME NEW r \in Requests, Throw(r) \/ Rename(r) PROVE CallInv'
  BY <1>5 DEF Throw, Rename
<1>6. ASSUME NEW r \in Requests, Return(r) PROVE CallInv'
  BY <1>6 DEF Return
<1>7. ASSUME NEW r \in Requests, Crash(r) PROVE CallInv'
  BY <1>7 DEF Crash
<1>8. CASE Tick /\ UNCHANGED procVars
  <2>1. now' = now + 1 /\ pc' = pc /\ op' = op
    BY <1>8 DEF Tick, procVars
  <2>2. \A r \in Requests : op[r] \in Ops => op[r].at \in Nat
    BY DEF Ops
  <2> HIDE DEF Ops
  <2> QED
    BY <2>1, <2>2
<1>9. CASE UNCHANGED storeVars
  BY <1>9 DEF storeVars, procVars, vars
<1> HIDE DEF CallInv, StoreTypeOK, TypeOK
<1> QED
  BY <1>1, <1>2, <1>3, <1>4, <1>5, <1>6, <1>7, <1>8, <1>9 DEF StoreNext, Step

(* The kinds of operation, and what each carries. *)
LEMMA OpParts ==
  ASSUME NEW o \in Ops
  PROVE  /\ o.kind \in {"prepare", "consume", "decide"}
         /\ o.tenant \in Tenants /\ o.at \in Nat
         /\ o.kind \in {"prepare", "consume"} => o.action \in Actions
         /\ o.kind = "decide" => o.verdict \in Verdicts
  BY ChallengeAssumption DEF Ops

(* Whoever is about to rename a file over the store holds an array of      *)
(* challenges no longer than the bound, in which every challenge of the    *)
(* store is still there, moved forward at most.                            *)
LEMMA PlannedKeeps ==
  ASSUME StoreTypeOK, SizeInv, NEW r \in Requests, op[r] \in Ops, Planned(r)
  PROVE  /\ copy[r] \in Seq(Challenge)
         /\ Len(copy[r]) \in Len(challenges)..MaxChallenges
         /\ \A i \in DOMAIN challenges :
              /\ copy[r][i] = [challenges[i] EXCEPT !.status = copy[r][i].status]
              /\ Forward(challenges[i].status, copy[r][i].status)
<1> DEFINE o == op[r]
<1>1. challenges \in Seq(Challenge) /\ Len(challenges) <= MaxChallenges
  BY DEF StoreTypeOK, TypeOK, SizeInv
<1>2. \A i \in DOMAIN challenges :
        /\ challenges[i] \in Challenge
        /\ challenges[i] = [challenges[i] EXCEPT !.status = challenges[i].status]
        /\ Forward(challenges[i].status, challenges[i].status)
  <2> SUFFICES ASSUME NEW i \in DOMAIN challenges
               PROVE  /\ challenges[i] \in Challenge
                      /\ challenges[i] = [challenges[i] EXCEPT !.status = challenges[i].status]
    BY DEF Forward
  <2>1. challenges[i] \in Challenge
    BY <1>1
  <2> QED
    BY <2>1 DEF Challenge
<1> USE ChallengeAssumption
<1>3. CASE o.kind = "prepare" /\ Len(challenges) < MaxChallenges
             /\ copy[r] = Prepared(challenges, o.action, o.tenant, o.at)
  BY <1>1, <1>2, <1>3, OpParts, PreparedKeeps
<1>4. ASSUME NEW i \in DOMAIN challenges, NEW s \in Statuses,
             copy[r] = WithStatus(challenges, i, s), Forward(challenges[i].status, s)
      PROVE  /\ copy[r] \in Seq(Challenge)
             /\ Len(copy[r]) \in Len(challenges)..MaxChallenges
             /\ \A j \in DOMAIN challenges :
                  /\ copy[r][j] = [challenges[j] EXCEPT !.status = copy[r][j].status]
                  /\ Forward(challenges[j].status, copy[r][j].status)
  <2>1. /\ copy[r] \in Seq(Challenge) /\ Len(copy[r]) = Len(challenges)
        /\ copy[r][i].status = s
        /\ \A j \in DOMAIN challenges : j # i => copy[r][j] = challenges[j]
    BY <1>1, <1>4, WithStatusKeeps
  <2>2. copy[r][i] = [challenges[i] EXCEPT !.status = s]
    BY <1>1, <1>4 DEF WithStatus
  <2>3. Len(copy[r]) \in Len(challenges)..MaxChallenges
    BY <1>1, <2>1
  <2>4. ASSUME NEW j \in DOMAIN challenges
        PROVE  /\ copy[r][j] = [challenges[j] EXCEPT !.status = copy[r][j].status]
               /\ Forward(challenges[j].status, copy[r][j].status)
    <3>1. CASE j = i
      BY <1>4, <2>1, <2>2, <3>1
    <3>2. CASE j # i
      BY <1>2, <2>1, <3>2
    <3> QED
      BY <3>1, <3>2
  <2> QED
    BY <2>1, <2>3, <2>4
<1>5. CASE o.kind = "decide" /\ Decidable(challenges, o.target, o.tenant, o.at)
             /\ copy[r] = WithStatus(challenges, o.target, o.verdict)
  BY <1>4, <1>5, OpParts DEF Decidable, Verdicts, Statuses, Forward
<1>6. CASE picked[r] \in DOMAIN challenges
             /\ IsFirstMatch(challenges, picked[r], o.action, o.tenant, o.at)
             /\ copy[r] = WithStatus(challenges, picked[r], "consumed")
  BY <1>4, <1>6 DEF IsFirstMatch, MatchSet, Matches, Statuses, Forward
<1>7. CASE copy[r] = challenges
  BY <1>1, <1>2, <1>7
<1> QED
  BY <1>3, <1>5, <1>6, <1>7 DEF Planned

(* The types of the variables, and the bound on the array. *)
LEMMA TypeStep ==
  ASSUME StoreTypeOK, SizeInv, CallInv, PlanInv, [StoreNext]_storeVars
  PROVE  (StoreTypeOK /\ SizeInv)'
<1> USE RequestAssumption, ChallengeAssumption DEF StoreTypeOK, TypeOK, SizeInv
<1> HIDE DEF Ops, Challenge
<1>1. ASSUME NEW r \in Requests, BeginAny(r) PROVE (StoreTypeOK /\ SizeInv)'
  BY <1>1 DEF BeginAny, Begin
<1>2. ASSUME NEW r \in Requests, AcquireLock(r) \/ LockTimeout(r) PROVE (StoreTypeOK /\ SizeInv)'
  BY <1>2 DEF AcquireLock, LockTimeout
<1>3. ASSUME NEW r \in Requests, Mutate(r) PROVE (StoreTypeOK /\ SizeInv)'
  <2>1. op[r] \in Ops
    BY <1>3 DEF Mutate, CallInv
  <2>2. \E a \in Seq(Challenge) : copy' = [copy EXCEPT ![r] = a]
    <3>1. CASE /\ op[r].kind = "prepare"
               /\ copy' = [copy EXCEPT ![r] = Prepared(challenges, op[r].action, op[r].tenant, op[r].at)]
      BY <2>1, <3>1, OpParts, PreparedKeeps
    <3>2. CASE \E i \in DOMAIN challenges, s \in Statuses :
                  copy' = [copy EXCEPT ![r] = WithStatus(challenges, i, s)]
      BY <3>2, WithStatusKeeps
    <3>3. CASE copy' = [copy EXCEPT ![r] = challenges]
      BY <3>3
    <3> QED
      BY <1>3, <2>1, <3>1, <3>2, <3>3, OpParts DEF Mutate, Decidable, Statuses, Verdicts
  <2>3. picked' \in [Requests -> 0..MaxChallenges]
    <3>1. \A i \in DOMAIN challenges : i \in 0..MaxChallenges
      OBVIOUS
    <3>2. \/ \E i \in DOMAIN challenges : picked' = [picked EXCEPT ![r] = i]
          \/ picked' = picked
      BY <1>3 DEF Mutate
    <3> QED
      BY <3>1, <3>2
  <2>4. copy' \in [Requests -> Seq(Challenge)]
    BY <2>2
  <2>5. /\ pc' = [pc EXCEPT ![r] = "writing"]
        /\ UNCHANGED <<challenges, now, lockdir, op, granted, crashes>>
    BY <1>3 DEF Mutate
  <2> QED
    BY <2>3, <2>4, <2>5
<1>4. ASSUME NEW r \in Requests, Throw(r) PROVE (StoreTypeOK /\ SizeInv)'
  BY <1>4 DEF Throw
<1>5. ASSUME NEW r \in Requests, Rename(r) PROVE (StoreTypeOK /\ SizeInv)'
  <2>1. copy[r] \in Seq(Challenge) /\ Len(copy[r]) <= MaxChallenges
    BY <1>5, PlannedKeeps DEF Rename, PlanInv, CallInv
  <2> QED
    BY <1>5, <2>1 DEF Rename
<1>6. ASSUME NEW r \in Requests, Return(r) PROVE (StoreTypeOK /\ SizeInv)'
  <2>1. granted' \in Seq(1..MaxChallenges)
    <3>1. CASE picked[r] = 0
      BY <1>6, <3>1 DEF Return
    <3>2. CASE picked[r] \in 1..MaxChallenges
      <4>1. granted' = Append(granted, picked[r])
        BY <1>6, <3>2 DEF Return
      <4> QED
        BY <3>2, <4>1
    <3> QED
      BY <3>1, <3>2
  <2> QED
    BY <1>6, <2>1 DEF Return
<1>7. ASSUME NEW r \in Requests, Crash(r) PROVE (StoreTypeOK /\ SizeInv)'
  BY <1>7 DEF Crash
<1>8. CASE Tick /\ UNCHANGED procVars
  BY <1>8 DEF Tick, procVars
<1>9. CASE UNCHANGED storeVars
  BY <1>9 DEF storeVars, procVars
<1> QED
  BY <1>1, <1>2, <1>3, <1>4, <1>5, <1>6, <1>7, <1>8, <1>9 DEF StoreNext, Step

(* Nobody else reads or writes between one request's read and its rename, *)
(* so what it holds stays one mutation away from the file.                *)
LEMMA PlanStep ==
  ASSUME StoreTypeOK, LockInv, PlanInv, PickInv, [StoreNext]_storeVars
  PROVE  PlanInv'
<1> SUFFICES ASSUME NEW q \in Requests, pc'[q] = "writing" PROVE Planned(q)'
  BY DEF PlanInv
<1> USE DEF StoreTypeOK
<1> HIDE DEF Ops, Challenge
<1>1. ASSUME pc[q] = "writing", challenges' = challenges,
             copy'[q] = copy[q], picked'[q] = picked[q], op'[q] = op[q]
      PROVE  Planned(q)'
  <2>1. Planned(q)
    BY <1>1 DEF PlanInv
  <2> QED
    BY <1>1, <2>1 DEF Planned
<1>2. ASSUME NEW r \in Requests, BeginAny(r) PROVE Planned(q)'
  BY <1>1, <1>2 DEF BeginAny, Begin
<1>3. ASSUME NEW r \in Requests, AcquireLock(r) \/ LockTimeout(r) PROVE Planned(q)'
  BY <1>1, <1>3 DEF AcquireLock, LockTimeout
<1>4. ASSUME NEW r \in Requests, Mutate(r) PROVE Planned(q)'
  <2>1. CASE q # r
    BY <1>1, <1>4, <2>1 DEF Mutate
  <2>2. CASE q = r
    <3>1. /\ challenges' = challenges /\ op' = op
          /\ picked[r] = 0
      BY <1>4 DEF Mutate, PickInv, Inside
    <3>2. CASE \E i \in DOMAIN challenges :
                  /\ op[r].kind = "consume"
                  /\ IsFirstMatch(challenges, i, op[r].action, op[r].tenant, op[r].at)
                  /\ copy' = [copy EXCEPT ![r] = WithStatus(challenges, i, "consumed")]
                  /\ picked' = [picked EXCEPT ![r] = i]
      BY <2>2, <3>1, <3>2 DEF Planned
    <3>3. CASE UNCHANGED picked
      BY <1>4, <2>2, <3>1, <3>3 DEF Mutate, Planned
    <3> QED
      BY <1>4, <3>2, <3>3 DEF Mutate
  <2> QED
    BY <2>1, <2>2
<1>5. ASSUME NEW r \in Requests, Throw(r) PROVE Planned(q)'
  BY <1>1, <1>5 DEF Throw
<1>6. ASSUME NEW r \in Requests, Rename(r) PROVE Planned(q)'
  <2>1. q # r /\ pc[q] = "writing"
    BY <1>6 DEF Rename
  <2> QED
    BY <1>6, <2>1 DEF Rename, LockInv, Inside
<1>7. ASSUME NEW r \in Requests, Return(r) PROVE Planned(q)'
  BY <1>1, <1>7 DEF Return
<1>8. ASSUME NEW r \in Requests, Crash(r) PROVE Planned(q)'
  BY <1>1, <1>8 DEF Crash
<1>9. CASE Tick /\ UNCHANGED procVars
  BY <1>1, <1>9 DEF Tick, procVars
<1>10. CASE UNCHANGED storeVars
  BY <1>1, <1>10 DEF storeVars, procVars
<1> QED
  BY <1>2, <1>3, <1>4, <1>5, <1>6, <1>7, <1>8, <1>9, <1>10 DEF StoreNext, Step

(* A challenge keeps its consumed status, and what is written with it.     *)
LEMMA ConsumedStays ==
  ASSUME StoreTypeOK, SizeInv, NEW r \in Requests, op[r] \in Ops, Planned(r),
         challenges' = copy[r], NEW i, Consumed(i)
  PROVE  Consumed(i)'
<1>1. i \in DOMAIN copy[r]
  BY PlannedKeeps DEF Consumed, StoreTypeOK, TypeOK
<1>2. Forward(challenges[i].status, copy[r][i].status)
  BY PlannedKeeps DEF Consumed
<1> QED
  BY <1>1, <1>2 DEF Consumed, Forward, Verdicts

(* consume finds a confirmed challenge and marks it consumed. *)
LEMMA FoundIsConsumed ==
  ASSUME StoreTypeOK, NEW r \in Requests, Planned(r), picked[r] # 0
  PROVE  /\ picked[r] \in DOMAIN challenges /\ challenges[picked[r]].status = "confirmed"
         /\ picked[r] \in DOMAIN copy[r] /\ copy[r][picked[r]].status = "consumed"
<1> DEFINE i == picked[r]
<1>1. /\ i \in DOMAIN challenges
      /\ IsFirstMatch(challenges, i, op[r].action, op[r].tenant, op[r].at)
      /\ copy[r] = WithStatus(challenges, i, "consumed")
  BY DEF Planned
<1>2. challenges[i].status = "confirmed"
  BY <1>1 DEF IsFirstMatch, MatchSet, Matches
<1>3. challenges \in Seq(Challenge) /\ Len(challenges) \in Nat
  BY DEF StoreTypeOK, TypeOK
<1>4. "consumed" \in Statuses
  BY DEF Statuses
<1> HIDE DEF i
<1>5. DOMAIN copy[r] = DOMAIN challenges /\ copy[r][i].status = "consumed"
  BY <1>1, <1>3, <1>4, WithStatusKeeps
<1> QED
  BY <1>1, <1>2, <1>5 DEF i

(* What a request found was confirmed, hence never returned before, and is *)
(* consumed in the file before the request returns a proof for it.         *)
LEMMA PickStep ==
  ASSUME StoreInv, [StoreNext]_storeVars
  PROVE  (PickInv /\ GrantedIsConsumed /\ ProofsSingleUse)'
<1> DEFINE Goal == PickInv /\ GrantedIsConsumed /\ ProofsSingleUse
<1>1. /\ StoreTypeOK /\ SizeInv /\ LockInv /\ CallInv /\ PlanInv /\ PickInv
      /\ GrantedIsConsumed /\ ProofsSingleUse
  BY DEF StoreInv
<1> USE DEF StoreTypeOK, PickInv, Inside, GrantedIsConsumed, ProofsSingleUse, Consumed
<1> HIDE DEF Ops, Challenge
<1>2. ASSUME NEW r \in Requests, BeginAny(r) PROVE Goal'
  BY <1>1, <1>2 DEF BeginAny, Begin
<1>3. ASSUME NEW r \in Requests, AcquireLock(r) \/ LockTimeout(r) PROVE Goal'
  <2>1. CASE AcquireLock(r)
    BY <1>1, <2>1 DEF AcquireLock
  <2>2. CASE LockTimeout(r)
    BY <1>1, <2>2 DEF LockTimeout
  <2> QED
    BY <1>3, <2>1, <2>2
<1>4. ASSUME NEW r \in Requests, Mutate(r) PROVE Goal'
  <2>1. \A q \in Requests : q # r => picked'[q] = picked[q] /\ pc'[q] = pc[q]
    BY <1>1, <1>4 DEF Mutate
  <2>2. pc'[r] = "writing" /\ challenges' = challenges /\ granted' = granted
    BY <1>1, <1>4 DEF Mutate
  <2>3. PickInv'
    <3>1. ASSUME NEW q \in Requests
          PROVE  /\ pc'[q] \notin {"writing", "unlocking"} => picked'[q] = 0
                 /\ pc'[q] = "unlocking" /\ picked'[q] # 0 =>
                      /\ picked'[q] \in DOMAIN challenges'
                      /\ challenges'[picked'[q]].status = "consumed"
                      /\ \A i \in DOMAIN granted' : granted'[i] # picked'[q]
      <4>1. CASE q = r
        BY <2>2, <4>1
      <4>2. CASE q # r
        BY <1>1, <2>1, <2>2, <4>2
      <4> QED
        BY <4>1, <4>2
    <3> QED
      BY <3>1
  <2>4. (GrantedIsConsumed /\ ProofsSingleUse)'
    BY <1>1, <2>2
  <2> QED
    BY <2>3, <2>4
<1>5. ASSUME NEW r \in Requests, Throw(r) PROVE Goal'
  BY <1>1, <1>5 DEF Throw
<1>6. ASSUME NEW r \in Requests, Rename(r) PROVE Goal'
  <2>1. /\ op[r] \in Ops /\ Planned(r) /\ challenges' = copy[r]
        /\ pc' = [pc EXCEPT ![r] = "unlocking"]
        /\ UNCHANGED <<now, lockdir, op, picked, granted, crashes>>
    BY <1>1, <1>6 DEF Rename, CallInv, PlanInv
  <2>2. \A i : Consumed(i) => Consumed(i)'
    BY <1>1, <2>1, ConsumedStays
  <2>3. picked[r] # 0 => Consumed(picked[r])' /\ ~Consumed(picked[r])
    BY <1>1, <2>1, FoundIsConsumed
  <2>4. \A i \in DOMAIN granted : Consumed(granted[i])
    BY <1>1
  <2> HIDE DEF Consumed
  <2>5. \A q \in Requests : q # r => pc'[q] = pc[q]
    BY <1>1, <2>1
  <2>6. (GrantedIsConsumed /\ ProofsSingleUse)'
    BY <1>1, <2>1, <2>2, <2>4 DEF Consumed
  <2>7. PickInv'
    BY <1>1, <2>1, <2>2, <2>3, <2>4, <2>5
  <2> QED
    BY <2>6, <2>7
<1>7. ASSUME NEW r \in Requests, Return(r) PROVE Goal'
  <2>1. \A q \in Requests : q # r => ~Inside(q)
    BY <1>1, <1>7 DEF Return, LockInv
  <2>2. /\ challenges' = challenges /\ pc' = [pc EXCEPT ![r] = "idle"]
        /\ picked' = [picked EXCEPT ![r] = 0]
    BY <1>7 DEF Return
  <2>3. PickInv'
    BY <1>1, <2>1, <2>2
  <2>4. CASE picked[r] = 0
    BY <1>1, <1>7, <2>3, <2>4 DEF Return
  <2>5. CASE picked[r] # 0
    <3>1. granted' = Append(granted, picked[r])
      BY <1>7, <2>5 DEF Return
    <3>2. Consumed(picked[r]) /\ \A i \in DOMAIN granted : granted[i] # picked[r]
      BY <1>1, <1>7, <2>5 DEF Return
    <3>3. granted \in Seq(1..MaxChallenges) /\ picked[r] \in 1..MaxChallenges
      BY <1>1, <2>5
    <3>4. /\ DOMAIN granted' = 1..(Len(granted) + 1)
          /\ \A i \in 1..Len(granted) : granted'[i] = granted[i]
          /\ granted'[Len(granted) + 1] = picked[r]
      BY <3>1, <3>3
    <3>5. /\ Len(granted) \in Nat /\ DOMAIN granted = 1..Len(granted)
      BY <3>3
    <3>6. ASSUME NEW i \in DOMAIN granted'
          PROVE  \/ i \in DOMAIN granted /\ granted'[i] = granted[i]
                 \/ i = Len(granted) + 1 /\ granted'[i] = picked[r]
      BY <3>4, <3>5
    <3>7. GrantedIsConsumed'
      BY <1>1, <2>2, <3>2, <3>6
    <3>8. ProofsSingleUse'
      BY <1>1, <3>2, <3>6
    <3> QED
      BY <2>3, <3>7, <3>8
  <2> QED
    BY <2>4, <2>5
<1>8. ASSUME NEW r \in Requests, Crash(r) PROVE Goal'
  BY <1>1, <1>8 DEF Crash
<1>9. CASE Tick /\ UNCHANGED procVars
  BY <1>1, <1>9 DEF Tick, procVars
<1>10. CASE UNCHANGED storeVars
  BY <1>1, <1>10 DEF storeVars, procVars
<1> HIDE DEF PickInv, GrantedIsConsumed, ProofsSingleUse
<1> QED
  BY <1>2, <1>3, <1>4, <1>5, <1>6, <1>7, <1>8, <1>9, <1>10 DEF StoreNext, Step

(* Every step of a request, a crash and the clock keep the invariant. *)
LEMMA StoreInductive == StoreInv /\ [StoreNext]_storeVars => StoreInv'
  BY TypeStep, LockStep, CallStep, PlanStep, PickStep DEF StoreInv

(* The invariant the theorems below are read from. *)
LEMMA StoreInvariant == StoreSpec => []StoreInv
  BY StoreInitial, StoreInductive, PTL DEF StoreSpec

-----------------------------------------------------------------------------
(* What the store promises.                                                *)

(* The types of the variables. *)
THEOREM StoreTypeCorrect == StoreSpec => []StoreTypeOK
<1>1. StoreInv => StoreTypeOK
  BY DEF StoreInv
<1> QED
  BY <1>1, StoreInvariant, PTL

(* An approval is single use: no challenge backs two proofs, however many  *)
(* calls for one action race to consume it and whichever of them die.      *)
THEOREM ApprovalsSingleUse == StoreSpec => []ProofsSingleUse
<1>1. StoreInv => ProofsSingleUse
  BY DEF StoreInv
<1> QED
  BY <1>1, StoreInvariant, PTL

(* A proof is returned after the consumption is in the file, never before. *)
THEOREM ProofsAreConsumed == StoreSpec => []GrantedIsConsumed
<1>1. StoreInv => GrantedIsConsumed
  BY DEF StoreInv
<1> QED
  BY <1>1, StoreInvariant, PTL

(* No request undoes what another one decided: each write of the file      *)
(* moves challenges forward and drops none.                                *)
THEOREM DecisionsAreKept == StoreSpec => DecisionsStand
<1> DEFINE A == /\ Len(challenges') >= Len(challenges)
                /\ \A i \in DOMAIN challenges :
                     /\ challenges'[i] = [challenges[i] EXCEPT !.status = challenges'[i].status]
                     /\ Forward(challenges[i].status, challenges'[i].status)
<1>1. StoreInv /\ [StoreNext]_storeVars => [A]_storeVars
  <2> SUFFICES ASSUME StoreInv, StoreNext PROVE A
    OBVIOUS
  <2>1. challenges \in Seq(Challenge) /\ StoreTypeOK /\ SizeInv /\ CallInv /\ PlanInv
    BY DEF StoreInv, StoreTypeOK, TypeOK
  <2>2. ASSUME NEW r \in Requests, Rename(r) PROVE A
    BY <2>1, <2>2, PlannedKeeps DEF Rename, CallInv, PlanInv
  <2>3. ASSUME challenges' = challenges PROVE A
    <3>1. \A i \in DOMAIN challenges : challenges[i] \in Challenge
      BY <2>1
    <3>2. \A ch \in Challenge : ch = [ch EXCEPT !.status = ch.status]
      BY DEF Challenge
    <3> QED
      BY <2>1, <2>3, <3>1, <3>2 DEF Forward
  <2> HIDE DEF A
  <2>4. (\A r \in Requests : ~Rename(r)) => challenges' = challenges
    BY DEF StoreNext, Step, BeginAny, Begin, AcquireLock, LockTimeout, Mutate, Throw, Return,
           Crash, Tick
  <2> QED
    BY <2>2, <2>3, <2>4
<1> QED
  BY <1>1, StoreInvariant, PTL DEF StoreSpec, DecisionsStand

(* The locked read-modify-write over the file, interrupted or not, is the  *)
(* atomic store of ApprovalChallenges.                                     *)
THEOREM StoreImplementsChallenges == StoreSpec => ImplementsChallenges
<1>1. StoreInit => Atomic!Init
  BY DEF StoreInit, Init, Atomic!Init
<1>2. StoreInv /\ [StoreNext]_storeVars => [Atomic!Next]_Atomic!vars
  <2> SUFFICES ASSUME StoreInv, [StoreNext]_storeVars
               PROVE  Atomic!Next \/ UNCHANGED <<challenges, now>>
    BY DEF Atomic!vars
  <2>1. ASSUME NEW r \in Requests, Rename(r) PROVE Atomic!Next \/ UNCHANGED <<challenges, now>>
    <3> DEFINE o == op[r]
    <3>1. /\ o \in Ops /\ o.at \in 0..now /\ Planned(r)
          /\ challenges' = copy[r] /\ now' = now
      BY <2>1, OpParts DEF StoreInv, StoreTypeOK, TypeOK, CallInv, PlanInv, Rename
    <3>2. CASE o.kind = "prepare" /\ Len(challenges) < MaxChallenges
               /\ copy[r] = Prepared(challenges, o.action, o.tenant, o.at)
      BY <3>1, <3>2, OpParts DEF Atomic!Next, Atomic!Prepare, Atomic!Prepared, Prepared
    <3>3. CASE o.kind = "decide" /\ Decidable(challenges, o.target, o.tenant, o.at)
               /\ copy[r] = WithStatus(challenges, o.target, o.verdict)
      <4>1. o.target \in DOMAIN challenges
        BY <3>3 DEF Decidable
      <4>2. Atomic!Decide(o.target, o.tenant, o.verdict, o.at)
        BY <3>1, <3>3 DEF Atomic!Decide, Atomic!Decidable, Decidable, Atomic!WithStatus, WithStatus
      <4>3. o.tenant \in Tenants /\ o.verdict \in Atomic!Verdicts
        BY <3>1, <3>3, OpParts DEF Atomic!Verdicts, Verdicts
      <4> QED
        BY <3>1, <4>1, <4>2, <4>3 DEF Atomic!Next
    <3>4. CASE o.kind = "consume" /\ picked[r] \in DOMAIN challenges
               /\ IsFirstMatch(challenges, picked[r], o.action, o.tenant, o.at)
               /\ copy[r] = WithStatus(challenges, picked[r], "consumed")
      <4>1. Atomic!Consume(picked[r], o.action, o.tenant, o.at)
        BY <3>1, <3>4
        DEF Atomic!Consume, Atomic!IsFirstMatch, IsFirstMatch, Atomic!MatchSet, MatchSet,
            Atomic!Matches, Matches, Atomic!WithStatus, WithStatus
      <4>2. o.tenant \in Tenants /\ o.action \in Actions
        BY <3>1, <3>4, OpParts
      <4> QED
        BY <3>1, <3>4, <4>1, <4>2 DEF Atomic!Next
    <3>5. CASE copy[r] = challenges
      BY <3>1, <3>5
    <3> QED
      BY <3>1, <3>2, <3>3, <3>4, <3>5 DEF Planned
  <2>2. CASE Tick /\ UNCHANGED procVars
    BY <2>2 DEF Tick, Atomic!Next, Atomic!Tick
  <2>3. CASE UNCHANGED storeVars
    BY <2>3 DEF storeVars
  <2> QED
    BY <2>1, <2>2, <2>3
    DEF StoreNext, Step, BeginAny, Begin, AcquireLock, LockTimeout, Mutate, Throw, Return, Crash
<1> QED
  BY <1>1, <1>2, StoreInvariant, PTL DEF StoreSpec, ImplementsChallenges, Atomic!Spec
=============================================================================
