---------------------------- MODULE ApprovalStore ----------------------------
(***************************************************************************)
(* ApprovalChallengeStore.mutate (src/apps/approval-store.ts) as several   *)
(* requests and processes run it: take .approval-lock, read the whole      *)
(* file, change the copy in memory, write a temporary file, rename it over *)
(* the old one, drop the lock.  A request may die between any two steps.   *)
(***************************************************************************)
EXTENDS ApprovalChallenges, FiniteSets

CONSTANTS
  Requests,    \* concurrent requests to the store
  Free,        \* the lock directory does not exist
  Orphan,      \* it exists, and the process that made it is dead
  NoOp,        \* a request that asks for nothing yet
  MaxCrashes   \* bound on crashes

ASSUME RequestAssumption ==
  /\ Free \notin Requests /\ Orphan \notin Requests /\ Free # Orphan
  /\ MaxCrashes \in Nat

VARIABLES
  lockdir,     \* who made .approval-lock
  pc,          \* per request: where its mutation is
  op,          \* per request: what it asks for
  copy,        \* per request: the array it holds in memory
  picked,      \* per request: the challenge it found, 0 for none
  granted,     \* the challenges a proof was returned for, in order
  crashes

procVars == <<lockdir, pc, op, copy, picked, granted, crashes>>

storeVars == <<challenges, now, procVars>>

Ops ==
  [kind : {"prepare", "consume"}, action : Actions, tenant : Tenants, at : 0..MaxTime]
    \cup [kind : {"decide"}, target : 1..MaxChallenges, tenant : Tenants,
          verdict : Verdicts, at : 0..MaxTime]

(* The types of the variables. *)
StoreTypeOK ==
  /\ TypeOK
  /\ lockdir \in Requests \cup {Free, Orphan}
  /\ pc \in [Requests -> {"idle", "waiting", "reading", "writing", "unlocking"}]
  /\ op \in [Requests -> Ops \cup {NoOp}]
  /\ copy \in [Requests -> Seq(Challenge)]
  /\ picked \in [Requests -> 0..MaxChallenges]
  /\ granted \in Seq(1..MaxChallenges)
  /\ crashes \in 0..MaxCrashes

StoreInit ==
  /\ Init
  /\ lockdir = Free
  /\ pc = [r \in Requests |-> "idle"]
  /\ op = [r \in Requests |-> NoOp]
  /\ copy = [r \in Requests |-> <<>>]
  /\ picked = [r \in Requests |-> 0]
  /\ granted = <<>>
  /\ crashes = 0

-----------------------------------------------------------------------------
Preparing == {q \in Requests : op[q] # NoOp /\ op[q].kind = "prepare"}

Begin(r, o) ==
  /\ pc[r] = "idle"
  /\ o.kind = "prepare" => Len(challenges) + Cardinality(Preparing) < MaxChallenges
  /\ pc' = [pc EXCEPT ![r] = "waiting"]
  /\ op' = [op EXCEPT ![r] = o]
  /\ UNCHANGED <<challenges, now, lockdir, copy, picked, granted, crashes>>

BeginAny(r) == \E o \in {x \in Ops : x.at = now} : Begin(r, o)

(* Mutant: an existing lock directory counts as taken by the caller. *)
AcquireLock_Recursive(r) ==
  /\ pc[r] = "waiting"
  /\ lockdir' = r
  /\ pc' = [pc EXCEPT ![r] = "reading"]
  /\ UNCHANGED <<challenges, now, op, copy, picked, granted, crashes>>

AcquireLock(r) ==
  /\ pc[r] = "waiting" /\ lockdir = Free
  /\ lockdir' = r
  /\ pc' = [pc EXCEPT ![r] = "reading"]
  /\ UNCHANGED <<challenges, now, op, copy, picked, granted, crashes>>

(* Mutant: the loop never gives up. *)
LockTimeout_Never(r) == pc[r] = "waiting" /\ lockdir # Free /\ UNCHANGED storeVars

(* A hundred attempts found the directory: APPROVAL_STORE_LOCK_TIMEOUT.    *)
LockTimeout(r) ==
  /\ pc[r] = "waiting" /\ lockdir # Free
  /\ pc' = [pc EXCEPT ![r] = "idle"]
  /\ op' = [op EXCEPT ![r] = NoOp]
  /\ UNCHANGED <<challenges, now, lockdir, copy, picked, granted, crashes>>

(* Read the file and run the mutation on the copy.  The mutation of decide *)
(* may throw, and then nothing is written.  A consume that finds nothing   *)
(* writes the array back as it read it.                                    *)
Mutate(r) ==
  LET o == op[r] IN
  /\ pc[r] = "reading"
  /\ \/ /\ o.kind = "prepare"
        /\ Len(challenges) < MaxChallenges
        /\ copy' = [copy EXCEPT ![r] = Prepared(challenges, o.action, o.tenant, o.at)]
        /\ UNCHANGED picked
     \/ /\ o.kind = "decide"
        /\ Decidable(challenges, o.target, o.tenant, o.at)
        /\ copy' = [copy EXCEPT ![r] = WithStatus(challenges, o.target, o.verdict)]
        /\ UNCHANGED picked
     \/ /\ o.kind = "consume"
        /\ \E i \in DOMAIN challenges :
             /\ IsFirstMatch(challenges, i, o.action, o.tenant, o.at)
             /\ copy' = [copy EXCEPT ![r] = WithStatus(challenges, i, "consumed")]
             /\ picked' = [picked EXCEPT ![r] = i]
     \/ /\ o.kind = "consume"
        /\ MatchSet(challenges, o.action, o.tenant, o.at) = {}
        /\ copy' = [copy EXCEPT ![r] = challenges]
        /\ UNCHANGED picked
  /\ pc' = [pc EXCEPT ![r] = "writing"]
  /\ UNCHANGED <<challenges, now, lockdir, op, granted, crashes>>

Throw(r) ==
  /\ pc[r] = "reading"
  /\ op[r].kind = "decide"
  /\ ~Decidable(challenges, op[r].target, op[r].tenant, op[r].at)
  /\ pc' = [pc EXCEPT ![r] = "unlocking"]
  /\ UNCHANGED <<challenges, now, lockdir, op, copy, picked, granted, crashes>>

(* Mutant: a consumption is answered but not written back. *)
Rename_NotConsumed(r) ==
  /\ pc[r] = "writing"
  /\ challenges' = IF picked[r] = 0 THEN copy[r] ELSE challenges
  /\ copy' = [copy EXCEPT ![r] = <<>>]
  /\ pc' = [pc EXCEPT ![r] = "unlocking"]
  /\ UNCHANGED <<now, lockdir, op, picked, granted, crashes>>

(* rename is atomic: the file is the old array or the new one.  A write or *)
(* rename that throws in a live process is left out: the file is then the  *)
(* old one and the lock is removed, as after a mutation that refuses.      *)
Rename(r) ==
  /\ pc[r] = "writing"
  /\ challenges' = copy[r]
  /\ copy' = [copy EXCEPT ![r] = <<>>]
  /\ pc' = [pc EXCEPT ![r] = "unlocking"]
  /\ UNCHANGED <<now, lockdir, op, picked, granted, crashes>>

(* Drop the lock and return; resolveApproval signs a proof for the         *)
(* challenge consume returned, with the challenge id as its nonce.         *)
Return(r) ==
  /\ pc[r] = "unlocking"
  /\ lockdir' = Free
  /\ granted' = IF picked[r] = 0 THEN granted ELSE Append(granted, picked[r])
  /\ pc' = [pc EXCEPT ![r] = "idle"]
  /\ op' = [op EXCEPT ![r] = NoOp]
  /\ picked' = [picked EXCEPT ![r] = 0]
  /\ UNCHANGED <<challenges, now, copy, crashes>>

Crash(r) ==
  /\ pc[r] # "idle"
  /\ crashes < MaxCrashes
  /\ crashes' = crashes + 1
  /\ lockdir' = IF lockdir = r THEN Orphan ELSE lockdir
  /\ pc' = [pc EXCEPT ![r] = "idle"]
  /\ op' = [op EXCEPT ![r] = NoOp]
  /\ copy' = [copy EXCEPT ![r] = <<>>]
  /\ picked' = [picked EXCEPT ![r] = 0]
  /\ UNCHANGED <<challenges, now, granted>>

Step(r) ==
  AcquireLock(r) \/ LockTimeout(r) \/ Mutate(r) \/ Throw(r) \/ Rename(r) \/ Return(r)

StoreNext ==
  \/ \E r \in Requests : BeginAny(r) \/ Step(r) \/ Crash(r)
  \/ Tick /\ UNCHANGED procVars

StoreSpec == StoreInit /\ [][StoreNext]_storeVars

FairStoreSpec == StoreSpec /\ \A r \in Requests : WF_storeVars(Step(r))

-----------------------------------------------------------------------------
(* An approval is single use: no challenge backs two proofs, however many  *)
(* calls for the same action race to consume it.                           *)
ProofsSingleUse ==
  \A i, j \in DOMAIN granted : i # j => granted[i] # granted[j]

(* A proof was returned only for a challenge the store holds as consumed,  *)
(* so no later call can find it again -- not after a crash either.         *)
GrantedIsConsumed ==
  \A i \in DOMAIN granted :
     /\ granted[i] \in DOMAIN challenges
     /\ challenges[granted[i]].status = "consumed"

(* No mutation is lost or undone: the array only grows, a challenge keeps  *)
(* what it is bound to, and its status only moves forward -- pending to    *)
(* confirmed or denied, confirmed to consumed.                             *)
Forward(s, t) ==
  \/ s = t
  \/ s = "pending" /\ t \in Verdicts
  \/ s = "confirmed" /\ t = "consumed"

DecisionsStand ==
  [][/\ Len(challenges') >= Len(challenges)
     /\ \A i \in DOMAIN challenges :
          /\ challenges'[i] = [challenges[i] EXCEPT !.status = challenges'[i].status]
          /\ Forward(challenges[i].status, challenges'[i].status)]_storeVars

(* The locked read-modify-write over the file is the atomic store.         *)
Atomic == INSTANCE ApprovalChallenges

ImplementsChallenges == Atomic!Spec

(* Every request returns, even behind a lock a dead process left.          *)
RequestsReturn == \A r \in Requests : (pc[r] # "idle") ~> (pc[r] = "idle")
=============================================================================
