------------------------ MODULE DispatchLedger_proofs ------------------------
(***************************************************************************)
(* Proofs about the durable dispatch ledger, for every set of processes    *)
(* and envelopes and every bound.  The inductive invariant is assembled    *)
(* from TypeOK, the lock (MutualExclusion), the freshness of decisions and *)
(* what a call carries with it; what the journal guarantees follows.       *)
(***************************************************************************)
EXTENDS DispatchLedger, LedgerRules_proofs

-----------------------------------------------------------------------------
(* The lock.                                                               *)

PCTypeOK == pc \in [Procs -> PCs]

LockInv == PCTypeOK /\ MutualExclusion

(* The lock directory is absent when no call has begun. *)
LEMMA LockInitial == Init => LockInv
  BY DEF Init, LockInv, PCTypeOK, PCs, MutualExclusion, Holding

(* mkdir succeeds only on an absent directory, and only its maker removes it. *)
LEMMA LockInductive == LockInv /\ [Next]_vars => LockInv'
<1> SUFFICES ASSUME LockInv, [Next]_vars PROVE LockInv'
  OBVIOUS
<1> USE ProcsAssumption DEF LockInv, PCTypeOK, PCs, MutualExclusion, Holding, files
<1>1. ASSUME NEW p \in Procs, BeginAny(p) PROVE LockInv'
  BY <1>1 DEF BeginAny, Begin
<1>2. ASSUME NEW p \in Procs, AcquireLock(p) PROVE LockInv'
  BY <1>2 DEF AcquireLock
<1>3. ASSUME NEW p \in Procs, LockTimeout(p) PROVE LockInv'
  BY <1>3 DEF LockTimeout
<1>4. ASSUME NEW p \in Procs, FindMetadata(p) PROVE LockInv'
  BY <1>4 DEF FindMetadata
<1>5. ASSUME NEW p \in Procs, WriteMetadata(p) \/ EnsureEventsFile(p) PROVE LockInv'
  BY <1>5 DEF WriteMetadata, EnsureEventsFile
<1>6. ASSUME NEW p \in Procs, InitializeFails(p) PROVE LockInv'
  BY <1>6 DEF InitializeFails
<1>7. ASSUME NEW p \in Procs, Refuse(p) \/ Replay(p) \/ Decide(p) PROVE LockInv'
  BY <1>7 DEF Refuse, Replay, Decide, ReadyToDecide
<1>8. ASSUME NEW p \in Procs, AppendEvent(p) \/ AppendFails(p) PROVE LockInv'
  BY <1>8 DEF AppendEvent, AppendFails
<1>9. ASSUME NEW p \in Procs, ReleaseLock(p) PROVE LockInv'
  BY <1>9 DEF ReleaseLock
<1>10. ASSUME NEW p \in Procs, Crash(p) PROVE LockInv'
  BY <1>10 DEF Crash
<1>11. CASE Tick
  BY <1>11 DEF Tick
<1>12. CASE UNCHANGED vars
  BY <1>12 DEF vars
<1> QED
  BY <1>1, <1>2, <1>3, <1>4, <1>5, <1>6, <1>7, <1>8, <1>9, <1>10, <1>11, <1>12 DEF Next, Step

(* A process is between taking and dropping the lock only while the lock   *)
(* directory is its own, so at most one is: withLedgerLock excludes.       *)
THEOREM LockExcludes == Spec => []MutualExclusion
<1>1. LockInv => MutualExclusion
  BY DEF LockInv
<1> QED
  BY <1>1, LockInitial, LockInductive, PTL DEF Spec

-----------------------------------------------------------------------------
(* Types.                                                                  *)

(* The events and digests of the journal belong to the sets TypeOK names. *)
LEMMA ConstantsTyped ==
  /\ NoCall \in Calls
  /\ NoReply \in Replies /\ Failure \in Replies /\ Ok(Null) \in Replies
  /\ \A ev \in Events : Ok(ev) \in Replies
  /\ \A c \in Calls : c.op = "init" \/ c.envelope \in Envelopes
  BY ProcsAssumption DEF NoCall, Calls, NoReply, Failure, Ok, Replies

(* The previous_event_digest of the next event has the shape of a digest.  *)
LEMMA LastDigestType ==
  ASSUME NEW jn \in Seq(Events)
  PROVE  LastDigest(jn) \in {Null} \cup ((Nat \ {0}) \X EventTypes
                              \X {ReservationId(e) : e \in Envelopes} \X (0..MaxTime))
<1>1. CASE jn = <<>>
  BY <1>1 DEF LastDigest
<1>2. CASE jn # <<>>
  <2> DEFINE ev == jn[Len(jn)]
  <2>1. ev \in Events
    BY <1>2
  <2> HIDE DEF ev
  <2>2. /\ ev.sequence \in Nat \ {0} /\ ev.type \in EventTypes
        /\ ev.envelope \in Envelopes /\ ev.occurred_at \in 0..MaxTime
    BY <2>1 DEF Events
  <2>3. EventDigest(ev) \in (Nat \ {0}) \X EventTypes
                              \X {ReservationId(e) : e \in Envelopes} \X (0..MaxTime)
    BY <2>2 DEF EventDigest
  <2> QED
    BY <1>2, <2>3 DEF LastDigest, ev
<1> QED
  BY <1>1, <1>2

(* createEvent and createTransitionEvent yield an event of the journal. *)
LEMMA DecisionType ==
  ASSUME NEW jn \in Seq(Events), NEW c \in Calls, c.op # "init"
  PROVE  Decision(jn, c) \in Events
<1>1. /\ c.op \in {"reserve", "commit", "release"}
      /\ c.envelope \in Envelopes
      /\ c.reason \in Reasons \cup {Null}
      /\ c.at \in 0..MaxTime
  BY DEF Calls
<1>2. TypeFor(c.op) \in EventTypes
  BY <1>1 DEF TypeFor, EventTypes
<1>3. Len(jn) + 1 \in Nat \ {0}
  OBVIOUS
<1> HIDE DEF Events
<1>4. LastDigest(jn) \in {Null} \cup ((Nat \ {0}) \X EventTypes
                              \X {ReservationId(e) : e \in Envelopes} \X (0..MaxTime))
  BY LastDigestType
<1> QED
  BY <1>1, <1>2, <1>3, <1>4 DEF Decision, NextEvent, Events

(* The event a replay signs a receipt for is in the journal.               *)
LEMMA ReplayFindsEvent ==
  ASSUME NEW jn, NEW c \in Calls, Replays(jn, c)
  PROVE  \E i \in DOMAIN jn : RecordedEvent(jn, c) = jn[i] /\ IsA(jn[i], TypeFor(c.op), c.envelope)
<1>1. c.op # "init" /\ c.envelope \in Envelopes
  BY DEF Replays, Calls
<1>2. \E i \in DOMAIN jn : IsA(jn[i], TypeFor(c.op), c.envelope)
  <2>1. CASE c.op = "reserve"
    <3>1. Created(jn, c.envelope)
      BY <1>1, <2>1 DEF Replays, ReserveReplays, StatusOf
    <3> QED
      BY <2>1, <3>1 DEF Created, IsA, TypeFor
  <2>2. CASE c.op = "commit"
    <3>1. Occurs(jn, "dispatch_committed", c.envelope)
      BY <1>1, <2>2 DEF Replays, CommitReplays, StatusOf
    <3> QED
      BY <2>2, <3>1 DEF Occurs, TypeFor
  <2>3. CASE c.op = "release"
    BY <2>3 DEF Replays, ReleaseReplays, TypeFor
  <2> QED
    BY <2>1, <2>2, <2>3 DEF Replays
<1> QED
  BY <1>2 DEF RecordedEvent

(* Whatever a finished or interrupted append leaves, the journal and its   *)
(* tail keep their types.                                                  *)
LEMMA WriteType ==
  ASSUME NEW ev \in Events, journal \in Seq(Events), tail \in Tails,
         InterruptedWrite(ev)
  PROVE  journal' \in Seq(Events) /\ tail' \in Tails
<1> HIDE DEF Events
<1> QED
  BY DEF InterruptedWrite, NothingWritten, PartOfLine, LineWithoutNewline, WholeLine, Tails

(* The empty directory has the shape of a ledger directory. *)
LEMMA TypeInitial == Init => TypeOK
<1> SUFFICES ASSUME Init PROVE TypeOK
  OBVIOUS
<1>1. journal \in Seq(Events) /\ tail \in Tails
  BY DEF Init, Tails
<1>2. /\ call \in [Procs -> Calls] /\ reply \in [Procs -> Replies]
      /\ pending \in [Procs -> Events \cup {Null}]
  BY ConstantsTyped DEF Init
<1>3. metadata \in BOOLEAN /\ events_file \in BOOLEAN
  BY DEF Init
<1>4. /\ lockdir \in Procs \cup {Free, Orphan}
      /\ now \in 0..MaxTime /\ faults \in 0..MaxFaults
      /\ pc \in [Procs -> PCs]
  BY ProcsAssumption DEF Init, PCs
<1> QED
  BY <1>1, <1>2, <1>3, <1>4 DEF TypeOK

(* An event is pending exactly while its append is under way.              *)
PendingInv == \A p \in Procs : pc[p] = "appending" => pending[p] \in Events

(* No call holds an event before one has begun. *)
LEMMA PendingInitial == Init => PendingInv
  BY DEF Init, PendingInv

(* Every step of withLedgerLock and of its callers keeps the shape. *)
LEMMA TypeInductive == TypeOK /\ PendingInv /\ [Next]_vars => TypeOK' /\ PendingInv'
<1> SUFFICES ASSUME TypeOK, PendingInv, [Next]_vars PROVE TypeOK' /\ PendingInv'
  OBVIOUS
<1> USE ProcsAssumption, ConstantsTyped DEF TypeOK, PendingInv, files
<1>1. ASSUME NEW p \in Procs, NEW c \in Calls, Begin(p, c) PROVE TypeOK' /\ PendingInv'
  BY <1>1 DEF Begin, PCs
<1>2. ASSUME NEW p \in Procs, AcquireLock(p) \/ LockTimeout(p) PROVE TypeOK' /\ PendingInv'
  BY <1>2 DEF AcquireLock, LockTimeout, PCs
<1>3. ASSUME NEW p \in Procs, FindMetadata(p) PROVE TypeOK' /\ PendingInv'
  BY <1>3 DEF FindMetadata, PCs
<1>4. ASSUME NEW p \in Procs, WriteMetadata(p) \/ EnsureEventsFile(p) PROVE TypeOK' /\ PendingInv'
  <2>1. CASE WriteMetadata(p)
    BY <2>1 DEF WriteMetadata, PCs
  <2>2. CASE EnsureEventsFile(p)
    BY <2>2 DEF EnsureEventsFile, PCs
  <2> QED
    BY <1>4, <2>1, <2>2
<1>5. ASSUME NEW p \in Procs, InitializeFails(p) PROVE TypeOK' /\ PendingInv'
  BY <1>5 DEF InitializeFails, PCs
<1>6. ASSUME NEW p \in Procs, Refuse(p) PROVE TypeOK' /\ PendingInv'
  BY <1>6 DEF Refuse, PCs
<1>7. ASSUME NEW p \in Procs, Replay(p) PROVE TypeOK' /\ PendingInv'
  <2>1. RecordedEvent(journal, call[p]) \in Events
    BY <1>7, ReplayFindsEvent DEF Replay
  <2> QED
    BY <1>7, <2>1 DEF Replay, PCs
<1>8. ASSUME NEW p \in Procs, Decide(p) PROVE TypeOK' /\ PendingInv'
  <2>1. Decision(journal, call[p]) \in Events
    BY <1>8, DecisionType DEF Decide, ReadyToDecide
  <2> QED
    BY <1>8, <2>1 DEF Decide, PCs
<1>9. ASSUME NEW p \in Procs, AppendEvent(p) PROVE TypeOK' /\ PendingInv'
  <2>1. pending[p] \in Events /\ InterruptedWrite(pending[p])
    BY <1>9 DEF AppendEvent, InterruptedWrite
  <2>2. journal' \in Seq(Events) /\ tail' \in Tails
    BY <2>1, WriteType
  <2> QED
    BY <1>9, <2>1, <2>2 DEF AppendEvent, PCs
<1>10. ASSUME NEW p \in Procs, AppendFails(p) PROVE TypeOK' /\ PendingInv'
  <2>1. journal' \in Seq(Events) /\ tail' \in Tails
    BY <1>10, WriteType DEF AppendFails
  <2> QED
    BY <1>10, <2>1 DEF AppendFails, PCs
<1>11. ASSUME NEW p \in Procs, ReleaseLock(p) PROVE TypeOK' /\ PendingInv'
  BY <1>11 DEF ReleaseLock, PCs
<1>12. ASSUME NEW p \in Procs, Crash(p) PROVE TypeOK' /\ PendingInv'
  <2>1. journal' \in Seq(Events) /\ tail' \in Tails
    BY <1>12, WriteType DEF Crash, NothingWritten
  <2> QED
    BY <1>12, <2>1 DEF Crash, PCs
<1>13. CASE Tick
  BY <1>13 DEF Tick
<1>14. CASE UNCHANGED vars
  BY <1>14 DEF vars
<1> QED
  BY <1>1, <1>2, <1>3, <1>4, <1>5, <1>6, <1>7, <1>8, <1>9, <1>10, <1>11, <1>12, <1>13, <1>14
  DEF Next, Step, BeginAny

(* The state of the ledger directory and of every call keeps its shape,    *)
(* whatever crashes and torn writes happen.                                *)
THEOREM LedgerTyped == Spec => []TypeOK
  BY TypeInitial, PendingInitial, TypeInductive, PTL DEF Spec

-----------------------------------------------------------------------------
(* Decisions.  A decision waits in `pending` while appendEvent awaits the  *)
(* file system; the lock is what keeps the journal from moving meanwhile.  *)

(* reserveDispatch validated its envelope before it asked for the lock.    *)
ValidatedInv ==
  \A p \in Procs : (pc[p] # "idle" /\ call[p].op = "reserve") =>
     call[p].envelope.permitted /\ ~Expired(call[p].envelope, call[p].at)

FreshInv == LockInv /\ DecisionsFresh /\ ValidatedInv

(* No decision is pending on an empty ledger. *)
LEMMA FreshInitial == Init => FreshInv
  BY LockInitial DEF Init, FreshInv, DecisionsFresh, ValidatedInv

(* Between reading the journal and appending, only the lock holder writes. *)
LEMMA FreshInductive ==
  FreshInv /\ call \in [Procs -> Calls] /\ pending \in [Procs -> Events \cup {Null}]
    /\ [Next]_vars => FreshInv'
<1> SUFFICES ASSUME FreshInv, call \in [Procs -> Calls],
                    pending \in [Procs -> Events \cup {Null}], [Next]_vars
             PROVE  FreshInv'
  OBVIOUS
<1>0. LockInv'
  BY LockInductive DEF FreshInv
<1> SUFFICES DecisionsFresh' /\ ValidatedInv'
  BY <1>0 DEF FreshInv
<1> USE ProcsAssumption DEF FreshInv, LockInv, PCTypeOK, DecisionsFresh, ValidatedInv, files
<1>1. ASSUME NEW p \in Procs, NEW c \in Calls, Begin(p, c) PROVE DecisionsFresh' /\ ValidatedInv'
  BY <1>1 DEF Begin
<1>2. ASSUME NEW p \in Procs, AcquireLock(p) \/ LockTimeout(p)
      PROVE  DecisionsFresh' /\ ValidatedInv'
  BY <1>2 DEF AcquireLock, LockTimeout
<1>3. ASSUME NEW p \in Procs, FindMetadata(p) PROVE DecisionsFresh' /\ ValidatedInv'
  BY <1>3 DEF FindMetadata
<1>4. ASSUME NEW p \in Procs, WriteMetadata(p) \/ EnsureEventsFile(p) \/ InitializeFails(p)
      PROVE  DecisionsFresh' /\ ValidatedInv'
  BY <1>4 DEF WriteMetadata, EnsureEventsFile, InitializeFails
<1>5. ASSUME NEW p \in Procs, Refuse(p) \/ Replay(p) PROVE DecisionsFresh' /\ ValidatedInv'
  BY <1>5 DEF Refuse, Replay, ReadyToDecide
<1>6. ASSUME NEW p \in Procs, Decide(p) PROVE DecisionsFresh' /\ ValidatedInv'
  BY <1>6 DEF Decide, ReadyToDecide
<1>7. ASSUME NEW p \in Procs, AppendEvent(p) \/ AppendFails(p)
      PROVE  DecisionsFresh' /\ ValidatedInv'
  <2>1. \A q \in Procs \ {p} : pc[q] # "appending"
    BY <1>7 DEF AppendEvent, AppendFails, MutualExclusion, Holding
  <2> QED
    BY <1>7, <2>1 DEF AppendEvent, AppendFails
<1>8. ASSUME NEW p \in Procs, ReleaseLock(p) PROVE DecisionsFresh' /\ ValidatedInv'
  BY <1>8 DEF ReleaseLock
<1>9. ASSUME NEW p \in Procs, Crash(p) PROVE DecisionsFresh' /\ ValidatedInv'
  <2>1. CASE pc[p] = "appending"
    <3>1. \A q \in Procs \ {p} : pc[q] # "appending"
      BY <2>1 DEF MutualExclusion, Holding
    <3> QED
      BY <1>9, <2>1, <3>1 DEF Crash, NoCall
  <2>2. CASE pc[p] # "appending"
    BY <1>9, <2>2 DEF Crash, NothingWritten, NoCall
  <2> QED
    BY <2>1, <2>2
<1>10. CASE Tick
  BY <1>10 DEF Tick
<1>11. CASE UNCHANGED vars
  BY <1>11 DEF vars
<1> QED
  BY <1>1, <1>2, <1>3, <1>4, <1>5, <1>6, <1>7, <1>8, <1>9, <1>10, <1>11 DEF Next, Step, BeginAny

(* No decision is stale when it is written: between loadLedgerState and    *)
(* appendEvent nothing another process does reaches the journal.           *)
THEOREM LedgerDecisionsFresh == Spec => []DecisionsFresh
<1>1. FreshInv => DecisionsFresh
  BY DEF FreshInv
<1>2. TypeOK => call \in [Procs -> Calls] /\ pending \in [Procs -> Events \cup {Null}]
  BY DEF TypeOK
<1> QED
  BY <1>1, <1>2, LedgerTyped, FreshInitial, FreshInductive, PTL DEF Spec

-----------------------------------------------------------------------------
(* The journal.  It changes only by the append of a fresh decision.        *)

(* A step leaves the journal alone or appends one legal, fresh event. *)
LEMMA JournalSteps ==
  ASSUME TypeOK, PendingInv, FreshInv, [Next]_vars
  PROVE  \/ journal' = journal
         \/ \E p \in Procs :
              /\ call[p] \in Calls /\ call[p].op # "init"
              /\ Allows(journal, call[p])
              /\ call[p].op = "reserve" =>
                   call[p].envelope.permitted /\ ~Expired(call[p].envelope, call[p].at)
              /\ journal' = Append(journal, Decision(journal, call[p]))
<1>1. ASSUME NEW p \in Procs, pc[p] = "appending", InterruptedWrite(pending[p])
      PROVE  \/ journal' = journal
             \/ /\ call[p] \in Calls /\ call[p].op # "init"
                /\ Allows(journal, call[p])
                /\ call[p].op = "reserve" =>
                     call[p].envelope.permitted /\ ~Expired(call[p].envelope, call[p].at)
                /\ journal' = Append(journal, Decision(journal, call[p]))
  <2>1. /\ call[p] \in Calls /\ Allows(journal, call[p]) /\ pending[p] = Decision(journal, call[p])
        /\ call[p].op = "reserve" =>
             call[p].envelope.permitted /\ ~Expired(call[p].envelope, call[p].at)
    BY <1>1 DEF TypeOK, FreshInv, DecisionsFresh, ValidatedInv
  <2>2. call[p].op # "init"
    BY <2>1 DEF Allows
  <2>3. journal' \in {journal, Append(journal, pending[p])}
    BY <1>1 DEF InterruptedWrite, NothingWritten, PartOfLine, LineWithoutNewline, WholeLine
  <2> QED
    BY <2>1, <2>2, <2>3
<1>2. ASSUME NEW p \in Procs, AppendEvent(p) \/ AppendFails(p) \/ Crash(p)
      PROVE  \/ journal' = journal
             \/ pc[p] = "appending" /\ InterruptedWrite(pending[p])
  BY <1>2 DEF AppendEvent, AppendFails, Crash, InterruptedWrite, NothingWritten
<1>3. \/ journal' = journal
      \/ \E p \in Procs : AppendEvent(p) \/ AppendFails(p) \/ Crash(p)
  BY DEF Next, Step, BeginAny, Begin, AcquireLock, LockTimeout, FindMetadata, WriteMetadata,
         EnsureEventsFile, InitializeFails, Refuse, Replay, Decide, ReleaseLock, Tick, vars, files
<1> QED
  BY <1>1, <1>2, <1>3

(* What an allowed call requires of the journal, by kind of call.          *)
LEMMA AllowedCall ==
  ASSUME NEW jn \in Seq(Events), NEW c \in Calls, c.op # "init", Allows(jn, c)
  PROVE  /\ c.envelope \in Envelopes
         /\ Decision(jn, c) \in Events
         /\ Decision(jn, c).envelope = c.envelope
         /\ Decision(jn, c).type = TypeFor(c.op)
         /\ Decision(jn, c).sequence = Len(jn) + 1
         /\ Decision(jn, c).previous = LastDigest(jn)
         /\ Decision(jn, c).reason = c.reason
         /\ Decision(jn, c).occurred_at = c.at
         /\ \/ /\ c.op = "reserve" /\ TypeFor(c.op) = "reservation_created"
               /\ c.reason = Null
               /\ ReserveAllowed(StatusOf(jn), c.envelope)
            \/ /\ c.op = "commit" /\ TypeFor(c.op) = "dispatch_committed"
               /\ c.reason = Null
               /\ CommitAllowed(StatusOf(jn), c.envelope, c.at)
            \/ /\ c.op = "release" /\ TypeFor(c.op) = "reservation_released"
               /\ ReleaseAllowed(StatusOf(jn), c.envelope, c.reason, c.at)
<1>1. c.envelope \in Envelopes
  BY ConstantsTyped
<1>2. Decision(jn, c) \in Events
  BY DecisionType
<1>3. c.op \in {"reserve", "commit"} => c.reason = Null
  BY DEF Calls
<1>4. \/ c.op = "reserve" /\ ReserveAllowed(StatusOf(jn), c.envelope)
      \/ c.op = "commit" /\ CommitAllowed(StatusOf(jn), c.envelope, c.at)
      \/ c.op = "release" /\ ReleaseAllowed(StatusOf(jn), c.envelope, c.reason, c.at)
  BY DEF Allows
<1>5. /\ c.op = "reserve" => TypeFor(c.op) = "reservation_created"
      /\ c.op = "commit" => TypeFor(c.op) = "dispatch_committed"
      /\ c.op = "release" => TypeFor(c.op) = "reservation_released"
  BY DEF TypeFor
<1>6. /\ Decision(jn, c).envelope = c.envelope
      /\ Decision(jn, c).type = TypeFor(c.op)
      /\ Decision(jn, c).sequence = Len(jn) + 1
      /\ Decision(jn, c).previous = LastDigest(jn)
      /\ Decision(jn, c).reason = c.reason
      /\ Decision(jn, c).occurred_at = c.at
  BY DEF Decision, NextEvent
<1> QED
  BY <1>1, <1>2, <1>3, <1>4, <1>5, <1>6

(* Every event of a typed journal carries one of the envelopes. *)
LEMMA EventEnvelopes ==
  ASSUME NEW jn \in Seq(Events)
  PROVE  \A i \in DOMAIN jn : jn[i] \in Events /\ jn[i].envelope \in Envelopes
<1>1. \A i \in DOMAIN jn : jn[i] \in Events
  OBVIOUS
<1> QED
  BY <1>1 DEF Events

(* Appending a fresh decision keeps the journal verifiable. *)
LEMMA VerifiesDecision ==
  ASSUME NEW jn \in Seq(Events), Verifies(jn),
         NEW c \in Calls, c.op # "init", Allows(jn, c)
  PROVE  Verifies(Append(jn, Decision(jn, c)))
<1> DEFINE ev == Decision(jn, c)
           e  == c.envelope
<1>1. /\ e \in Envelopes /\ ev \in Events /\ ev.envelope = e
      /\ ev.sequence = Len(jn) + 1 /\ ev.previous = LastDigest(jn)
  BY AllowedCall
<1>2. CASE c.op = "reserve"
  <2>1. ev.type = "reservation_created" /\ ~Consumed(StatusOf(jn), e)
    BY <1>2, AllowedCall DEF ReserveAllowed
  <2>2. ~Occurs(jn, "reservation_created", e)
    BY <1>1, <2>1, EventEnvelopes, NotConsumedIsNew
  <2> HIDE DEF ev
  <2>3. Verifies(Append(jn, ev))
    BY <1>1, <2>1, <2>2, VerifiesAppend
  <2> QED
    BY <2>3 DEF ev
<1>3. CASE c.op # "reserve"
  <2>1. ev.type # "reservation_created" /\ StatusOf(jn)[e] = "reserved"
    BY <1>3, AllowedCall DEF CommitAllowed, ReleaseAllowed
  <2>2. /\ Created(jn, e)
        /\ ~Occurs(jn, "dispatch_committed", e)
        /\ ~Occurs(jn, "reservation_released", e)
    BY <1>1, <2>1, StatusCreated
  <2>3. Occurs(jn, "reservation_created", e)
    BY <2>2 DEF Created, Occurs, IsA
  <2> HIDE DEF ev
  <2>4. Verifies(Append(jn, ev))
    BY <1>1, <2>1, <2>2, <2>3, VerifiesAppend
  <2> QED
    BY <2>4 DEF ev
<1> QED
  BY <1>2, <1>3

(* The part of the inductive invariant every later theorem rests on.       *)
BaseInv == TypeOK /\ PendingInv /\ FreshInv

(* The base invariant holds of the empty ledger. *)
LEMMA BaseInitial == Init => BaseInv
  BY TypeInitial, PendingInitial, FreshInitial DEF BaseInv

(* The base invariant is kept by every step. *)
LEMMA BaseInductive == BaseInv /\ [Next]_vars => BaseInv'
  BY TypeInductive, FreshInductive DEF BaseInv, TypeOK

(* appendEvent never leaves a line that loadLedgerState would reject. *)
LEMMA VerifiesInductive == BaseInv /\ JournalVerifies /\ [Next]_vars => JournalVerifies'
<1> SUFFICES ASSUME BaseInv, JournalVerifies, [Next]_vars PROVE JournalVerifies'
  OBVIOUS
<1>1. journal \in Seq(Events)
  BY DEF BaseInv, TypeOK
<1>2. CASE journal' = journal
  BY <1>2 DEF JournalVerifies
<1>3. ASSUME NEW p \in Procs, call[p] \in Calls, call[p].op # "init",
             Allows(journal, call[p]), journal' = Append(journal, Decision(journal, call[p]))
      PROVE  JournalVerifies'
  BY <1>1, <1>3, VerifiesDecision DEF JournalVerifies
<1> QED
  BY <1>2, <1>3, JournalSteps DEF BaseInv

(* What the operations write, loadLedgerState accepts: no interleaving,    *)
(* crash or torn write makes the readable lines a broken chain or an       *)
(* illegal transition.                                                     *)
THEOREM LedgerJournalVerifies == Spec => []JournalVerifies
<1>1. Init => JournalVerifies
  BY DEF Init, JournalVerifies, Verifies, Chained
<1> QED
  BY <1>1, BaseInitial, BaseInductive, VerifiesInductive, PTL DEF Spec

-----------------------------------------------------------------------------
(* Single use.                                                             *)

(* Single use, restated about reservation_created events alone. *)
LEMMA SingleUseIsCreated ==
  ASSUME journal \in Seq(Events)
  PROVE  SingleUse <=>
           \A e, f \in Envelopes :
             (Created(journal, e) /\ Created(journal, f) /\ e # f) => 
                /\ e.execution_nonce # f.execution_nonce
                /\ e.authorization_id # f.authorization_id
                /\ e.approval_nonce # Null => e.approval_nonce # f.approval_nonce
                /\ e.key # Null => e.key # f.key
  BY StatusCreated DEF SingleUse

(* reserveDispatch refuses an envelope that reuses a consumed value. *)
LEMMA SingleUseInductive == BaseInv /\ SingleUse /\ [Next]_vars => SingleUse'
<1> SUFFICES ASSUME BaseInv, SingleUse, [Next]_vars PROVE SingleUse'
  OBVIOUS
<1>1. journal \in Seq(Events)
  BY DEF BaseInv, TypeOK
<1>2. CASE journal' = journal
  BY <1>2 DEF SingleUse
<1>3. ASSUME NEW p \in Procs, call[p] \in Calls, call[p].op # "init",
             Allows(journal, call[p]), journal' = Append(journal, Decision(journal, call[p]))
      PROVE  SingleUse'
  <2> DEFINE ev == Decision(journal, call[p])
             g  == call[p].envelope
  <2>1. g \in Envelopes /\ ev \in Events /\ ev.envelope = g
    BY <1>1, <1>3, AllowedCall
  <2>2. \A e : Created(journal', e) <=> Created(journal, e) \/ (ev.type = "reservation_created" /\ g = e)
    <3> HIDE DEF ev
    <3>1. journal' = Append(journal, ev)
      BY <1>3 DEF ev
    <3> QED
      BY <1>1, <2>1, <3>1, CreatedAppend
  <2>3. SingleUse' <=>
          \A e, f \in Envelopes :
             (Created(journal', e) /\ Created(journal', f) /\ e # f) => 
                /\ e.execution_nonce # f.execution_nonce
                /\ e.authorization_id # f.authorization_id
                /\ e.approval_nonce # Null => e.approval_nonce # f.approval_nonce
                /\ e.key # Null => e.key # f.key
    BY StatusCreated DEF SingleUse
  <2>4. CASE call[p].op = "reserve"
    <3>1. ~Consumed(StatusOf(journal), g)
      BY <1>1, <1>3, <2>4, AllowedCall DEF ReserveAllowed
    <3>2. \A f \in Envelopes : Created(journal, f) => ~SharesSingleUse(f, g)
      BY <3>1, StatusCreated DEF Consumed
    <3> QED
      BY <1>1, <2>1, <2>2, <2>3, <3>2, SingleUseIsCreated DEF SharesSingleUse
  <2>5. CASE call[p].op # "reserve"
    <3>1. ev.type # "reservation_created"
      BY <1>1, <1>3, <2>5, AllowedCall
    <3> QED
      BY <1>1, <2>2, <2>3, <3>1, SingleUseIsCreated
  <2> QED
    BY <2>4, <2>5
<1> QED
  BY <1>2, <1>3, JournalSteps DEF BaseInv

(* Keys, nonces and authorization ids are consumed once and for all, over  *)
(* concurrent reservations, retries, releases and crashes.                 *)
THEOREM LedgerSingleUse == Spec => []SingleUse
<1>1. Init => SingleUse
  BY DEF Init, SingleUse, StatusOf, Created
<1> QED
  BY <1>1, BaseInitial, BaseInductive, SingleUseInductive, PTL DEF Spec

-----------------------------------------------------------------------------
(* Times.                                                                  *)

(* The expiry checks of commit and release hold of what is recorded. *)
LEMMA RecordedInductive == BaseInv /\ RecordedInTime /\ [Next]_vars => RecordedInTime'
<1> SUFFICES ASSUME BaseInv, RecordedInTime, [Next]_vars PROVE RecordedInTime'
  OBVIOUS
<1>1. journal \in Seq(Events)
  BY DEF BaseInv, TypeOK
<1>2. CASE journal' = journal
  BY <1>2 DEF RecordedInTime
<1>3. ASSUME NEW p \in Procs, call[p] \in Calls, call[p].op # "init",
             Allows(journal, call[p]), journal' = Append(journal, Decision(journal, call[p])),
             call[p].op = "reserve" => ~Expired(call[p].envelope, call[p].at)
      PROVE  RecordedInTime'
  <2> DEFINE ev == Decision(journal, call[p])
             Timely(x) == /\ x.type \in {"reservation_created", "dispatch_committed"} =>
                               ~Expired(x.envelope, x.occurred_at)
                          /\ x.reason = "expired" => Expired(x.envelope, x.occurred_at)
  <2>1. ev \in Events
    BY <1>1, <1>3, AllowedCall
  <2>2. Timely(ev)
    BY <1>1, <1>3, AllowedCall, NullAssumption DEF CommitAllowed, ReleaseAllowed
  <2>3. \A i \in DOMAIN journal : Timely(journal[i])
    BY DEF RecordedInTime
  <2> HIDE DEF ev
  <2>4. journal' = Append(journal, ev)
    BY <1>3 DEF ev
  <2>5. \A i \in DOMAIN journal' : Timely(journal'[i])
    BY <1>1, <2>1, <2>2, <2>3, <2>4, AppendShape
  <2> QED
    BY <2>5 DEF RecordedInTime
<1> QED
  BY <1>2, <1>3, JournalSteps DEF BaseInv

(* Expiry is judged at the time the event records, not at the time the     *)
(* lock was obtained: reservations and commits before it, releases as      *)
(* expired after it.                                                       *)
THEOREM LedgerRecordedInTime == Spec => []RecordedInTime
<1>1. Init => RecordedInTime
  BY DEF Init, RecordedInTime
<1> QED
  BY <1>1, BaseInitial, BaseInductive, RecordedInductive, PTL DEF Spec

-----------------------------------------------------------------------------
(* Failing closed.                                                         *)

(* Nobody is about to append once a line of the journal does not parse.    *)
CleanInv == \A p \in Procs : pc[p] = "appending" => tail # "garbled"

(* A call may write only while the end of the journal is clean. *)
LEMMA CleanInductive == LockInv /\ CleanInv /\ [Next]_vars => CleanInv'
<1> SUFFICES ASSUME LockInv, CleanInv, [Next]_vars PROVE CleanInv'
  OBVIOUS
<1> USE DEF LockInv, PCTypeOK, CleanInv, files
<1>1. ASSUME NEW p \in Procs, AppendEvent(p) \/ AppendFails(p) PROVE CleanInv'
  <2>1. \A q \in Procs \ {p} : pc[q] # "appending"
    BY <1>1 DEF AppendEvent, AppendFails, MutualExclusion, Holding
  <2> QED
    BY <1>1, <2>1 DEF AppendEvent, AppendFails
<1>2. ASSUME NEW p \in Procs, Crash(p) PROVE CleanInv'
  <2>1. CASE pc[p] = "appending"
    <3>1. \A q \in Procs \ {p} : pc[q] # "appending"
      BY <2>1 DEF MutualExclusion, Holding
    <3> QED
      BY <1>2, <2>1, <3>1 DEF Crash
  <2>2. CASE pc[p] # "appending"
    BY <1>2, <2>2 DEF Crash, NothingWritten
  <2> QED
    BY <2>1, <2>2
<1>3. ASSUME NEW p \in Procs, BeginAny(p) PROVE CleanInv'
  BY <1>3 DEF BeginAny, Begin
<1>4. ASSUME NEW p \in Procs, AcquireLock(p) \/ LockTimeout(p) \/ ReleaseLock(p) PROVE CleanInv'
  BY <1>4 DEF AcquireLock, LockTimeout, ReleaseLock
<1>5. ASSUME NEW p \in Procs,
             FindMetadata(p) \/ WriteMetadata(p) \/ EnsureEventsFile(p) \/ InitializeFails(p)
      PROVE  CleanInv'
  BY <1>5 DEF FindMetadata, WriteMetadata, EnsureEventsFile, InitializeFails
<1>6. ASSUME NEW p \in Procs, Refuse(p) \/ Replay(p) \/ Decide(p) PROVE CleanInv'
  BY <1>6 DEF Refuse, Replay, Decide, Readable
<1>7. CASE Tick \/ UNCHANGED vars
  BY <1>7 DEF Tick, vars
<1> QED
  BY <1>1, <1>2, <1>3, <1>4, <1>5, <1>6, <1>7 DEF Next, Step

(* Nothing recorded, no new receipt: the consequent of FailsClosed.        *)
NoEffect ==
  /\ journal' = journal /\ tail' = tail
  /\ \A p \in Procs : reply'[p] # reply[p] => reply'[p].event = Null

(* No step records anything or adds a receipt behind a torn line. *)
LEMMA FailsClosedStep ==
  ASSUME reply \in [Procs -> Replies], CleanInv, [Next]_vars, tail = "garbled"
  PROVE  NoEffect
<1> USE DEF NoEffect, CleanInv, files, NoReply, Failure, Ok
<1>1. ASSUME NEW p \in Procs, BeginAny(p) PROVE NoEffect
  BY <1>1 DEF BeginAny, Begin
<1>2. ASSUME NEW p \in Procs, AcquireLock(p) \/ LockTimeout(p) \/ ReleaseLock(p) PROVE NoEffect
  BY <1>2 DEF AcquireLock, LockTimeout, ReleaseLock
<1>3. ASSUME NEW p \in Procs,
             FindMetadata(p) \/ WriteMetadata(p) \/ EnsureEventsFile(p) \/ InitializeFails(p)
      PROVE  NoEffect
  BY <1>3 DEF FindMetadata, WriteMetadata, EnsureEventsFile, InitializeFails
<1>4. ASSUME NEW p \in Procs, Refuse(p) \/ Replay(p) \/ Decide(p) PROVE NoEffect
  BY <1>4 DEF Refuse, Replay, Decide, Readable
<1>5. ASSUME NEW p \in Procs, AppendEvent(p) \/ AppendFails(p) PROVE NoEffect
  BY <1>5 DEF AppendEvent, AppendFails
<1>6. ASSUME NEW p \in Procs, Crash(p) PROVE NoEffect
  BY <1>6 DEF Crash, NothingWritten
<1>7. CASE Tick \/ UNCHANGED vars
  BY <1>7 DEF Tick, vars
<1> QED
  BY <1>1, <1>2, <1>3, <1>4, <1>5, <1>6, <1>7 DEF Next, Step

(* A journal with a torn line records nothing more and backs no new        *)
(* receipt: every later loadLedgerState throws.                            *)
THEOREM LedgerFailsClosed == Spec => FailsClosed
<1>1. Init => LockInv /\ CleanInv
  BY LockInitial DEF Init, CleanInv
<1>2. LockInv /\ CleanInv /\ [Next]_vars => LockInv' /\ CleanInv'
  BY LockInductive, CleanInductive
<1>3. TypeOK /\ CleanInv /\ [Next]_vars =>
        [tail = "garbled" =>
           /\ journal' = journal /\ tail' = tail
           /\ \A p \in Procs : reply'[p] # reply[p] => reply'[p].event = Null]_vars
  BY FailsClosedStep DEF TypeOK, NoEffect
<1> QED
  BY <1>1, <1>2, <1>3, LedgerTyped, PTL DEF Spec, FailsClosed

(* While the lock is orphaned only waiting calls move.                     *)
LEMMA OrphanStep ==
  ASSUME LockInv, [Next]_vars, lockdir = Orphan
  PROVE  UNCHANGED <<files, lockdir>>
<1>1. \A p \in Procs : pc[p] \in {"idle", "waiting"}
  BY ProcsAssumption DEF LockInv, MutualExclusion, Holding
<1>2. ASSUME NEW p \in Procs, BeginAny(p) \/ LockTimeout(p) PROVE UNCHANGED <<files, lockdir>>
  BY <1>2 DEF BeginAny, Begin, LockTimeout
<1>3. ASSUME NEW p \in Procs, AcquireLock(p) PROVE FALSE
  BY <1>3, ProcsAssumption DEF AcquireLock
<1>4. ASSUME NEW p \in Procs, Crash(p) PROVE UNCHANGED <<files, lockdir>>
  <2>1. pc[p] # "appending" /\ lockdir # p
    BY <1>1, ProcsAssumption
  <2> QED
    BY <1>4, <2>1 DEF Crash, NothingWritten, files
<1>5. ASSUME NEW p \in Procs,
             \/ FindMetadata(p) \/ WriteMetadata(p) \/ EnsureEventsFile(p) \/ InitializeFails(p)
             \/ Refuse(p) \/ Replay(p) \/ Decide(p) \/ AppendEvent(p) \/ AppendFails(p)
             \/ ReleaseLock(p)
      PROVE  FALSE
  BY <1>1, <1>5 DEF FindMetadata, WriteMetadata, EnsureEventsFile, InitializeFails,
                    Refuse, Replay, Decide, ReadyToDecide, AppendEvent, AppendFails, ReleaseLock
<1>6. CASE Tick \/ UNCHANGED vars
  BY <1>6 DEF Tick, vars
<1> QED
  BY <1>2, <1>3, <1>4, <1>5, <1>6 DEF Next, Step

(* A lock directory whose maker died is never taken over, and every writer *)
(* stops at it: nothing in the directory changes again.                    *)
THEOREM LedgerOrphanFreezes == Spec => OrphanedLockFreezes
<1>1. LockInv /\ [Next]_vars => [lockdir = Orphan => UNCHANGED <<files, lockdir>>]_vars
  BY OrphanStep
<1> QED
  BY <1>1, LockInitial, LockInductive, PTL DEF Spec, OrphanedLockFreezes

-----------------------------------------------------------------------------
(* Receipts.                                                               *)

Recorded(jn, ev) == \E i \in DOMAIN jn : jn[i] = ev

(* An append keeps every earlier event where it is, or leaves the journal  *)
(* unreadable for good.                                                    *)
LEMMA WriteKeeps ==
  ASSUME journal \in Seq(Events), NEW ev \in Events, InterruptedWrite(ev)
  PROVE  tail' # "garbled" =>
           /\ tail # "garbled"
           /\ \A x : Recorded(journal, x) => Recorded(journal', x)
<1>1. CASE journal' = journal
  BY <1>1 DEF InterruptedWrite, NothingWritten, PartOfLine, LineWithoutNewline, WholeLine,
              Recorded
<1>2. CASE journal' = Append(journal, ev) /\ tail = "clean"
  <2>1. \A i \in DOMAIN journal : i \in DOMAIN journal' /\ journal'[i] = journal[i]
    BY <1>2, AppendShape
  <2> QED
    BY <1>2, <2>1 DEF Recorded
<1> QED
  BY <1>1, <1>2 DEF InterruptedWrite, NothingWritten, PartOfLine, LineWithoutNewline, WholeLine

(* A receipt is given only for an event that is in the journal. *)
LEMMA ReceiptsInductive == BaseInv /\ ReceiptsBacked /\ [Next]_vars => ReceiptsBacked'
<1> SUFFICES ASSUME BaseInv, ReceiptsBacked, [Next]_vars PROVE ReceiptsBacked'
  OBVIOUS
<1>0. journal \in Seq(Events) /\ reply \in [Procs -> Replies]
  BY DEF BaseInv, TypeOK
<1> DEFINE Backed(p) == (reply[p].code = "ok" /\ reply[p].event # Null /\ tail # "garbled")
                           => Recorded(journal, reply[p].event)
<1>a. ReceiptsBacked <=> \A p \in Procs : Backed(p)
  BY DEF ReceiptsBacked, Recorded
<1>b. ReceiptsBacked' <=> \A p \in Procs : Backed(p)'
  BY DEF ReceiptsBacked, Recorded
<1> SUFFICES \A p \in Procs : Backed(p)'
  BY <1>b
<1>1. ASSUME UNCHANGED <<journal, tail>>,
             \A p \in Procs : reply'[p] = reply[p] \/ reply'[p].event = Null
      PROVE  \A p \in Procs : Backed(p)'
  BY <1>1, <1>a DEF Recorded
<1>2. ASSUME NEW p \in Procs, BeginAny(p) PROVE \A q \in Procs : Backed(q)'
  BY <1>0, <1>1, <1>2 DEF BeginAny, Begin, files, Failure, NoReply
<1>3. ASSUME NEW p \in Procs, AcquireLock(p) \/ LockTimeout(p) \/ ReleaseLock(p)
      PROVE  \A q \in Procs : Backed(q)'
  BY <1>0, <1>1, <1>3 DEF AcquireLock, LockTimeout, ReleaseLock, files, Failure
<1>4. ASSUME NEW p \in Procs,
             FindMetadata(p) \/ WriteMetadata(p) \/ EnsureEventsFile(p) \/ InitializeFails(p)
      PROVE  \A q \in Procs : Backed(q)'
  BY <1>0, <1>1, <1>4
  DEF FindMetadata, WriteMetadata, EnsureEventsFile, InitializeFails, files, Failure, Ok
<1>5. ASSUME NEW p \in Procs, Refuse(p) \/ Decide(p) PROVE \A q \in Procs : Backed(q)'
  BY <1>0, <1>1, <1>5 DEF Refuse, Decide, files, Failure
<1>6. ASSUME NEW p \in Procs, Replay(p) PROVE \A q \in Procs : Backed(q)'
  <2>1. Recorded(journal, RecordedEvent(journal, call[p]))
    <3>1. call[p] \in Calls
      BY DEF BaseInv, TypeOK
    <3> QED
      BY <1>6, <3>1, ReplayFindsEvent DEF Replay, Recorded
  <2>2. /\ UNCHANGED <<journal, tail>>
        /\ reply' = [reply EXCEPT ![p] = Ok(RecordedEvent(journal, call[p]))]
    BY <1>6 DEF Replay, files
  <2>3. \A q \in Procs : reply'[q] = reply[q] \/ reply'[q].event = RecordedEvent(journal, call[p])
    BY <1>0, <2>2 DEF Ok
  <2> QED
    BY <1>a, <2>1, <2>2, <2>3 DEF Recorded
<1>7. ASSUME NEW p \in Procs, AppendEvent(p) PROVE \A q \in Procs : Backed(q)'
  <2>1. pending[p] \in Events
    BY <1>7 DEF AppendEvent, BaseInv, PendingInv
  <2>2. InterruptedWrite(pending[p])
    BY <1>7 DEF AppendEvent, InterruptedWrite
  <2>3. tail' # "garbled" => Recorded(journal', pending[p])
    <3>1. tail' # "garbled" => journal' = Append(journal, pending[p])
      BY <1>7 DEF AppendEvent, WholeLine
    <3>2. Append(journal, pending[p])[Len(journal) + 1] = pending[p]
          /\ Len(journal) + 1 \in DOMAIN Append(journal, pending[p])
      BY <1>0, <2>1, AppendShape
    <3>3. CASE tail' # "garbled"
      <4> DEFINE k == Len(journal) + 1
      <4>1. k \in DOMAIN journal' /\ journal'[k] = pending[p]
        BY <3>1, <3>2, <3>3
      <4>2. \E i \in DOMAIN journal' : journal'[i] = pending[p]
        BY <4>1
      <4> QED
        BY <4>2 DEF Recorded
    <3> QED
      BY <3>3
  <2>4. reply' = [reply EXCEPT ![p] = Ok(pending[p])]
    BY <1>7 DEF AppendEvent
  <2> QED
    BY <1>0, <1>a, <2>1, <2>2, <2>3, <2>4, WriteKeeps DEF Ok
<1>8. ASSUME NEW p \in Procs, AppendFails(p) \/ Crash(p) PROVE \A q \in Procs : Backed(q)'
  <2>1. \A q \in Procs : reply'[q] = reply[q] \/ reply'[q].event = Null
    BY <1>0, <1>8 DEF AppendFails, Crash, Failure, NoReply
  <2>2. CASE UNCHANGED <<journal, tail>>
    BY <1>1, <2>1, <2>2
  <2>3. CASE pc[p] = "appending" /\ InterruptedWrite(pending[p])
    <3>1. pending[p] \in Events
      BY <2>3 DEF BaseInv, PendingInv
    <3> QED
      BY <1>0, <1>a, <2>1, <2>3, <3>1, WriteKeeps
  <2> QED
    BY <1>8, <2>2, <2>3 DEF AppendFails, Crash, NothingWritten
<1>9. CASE Tick \/ UNCHANGED vars
  BY <1>1, <1>9 DEF Tick, vars, files
<1> QED
  BY <1>2, <1>3, <1>4, <1>5, <1>6, <1>7, <1>8, <1>9 DEF Next, Step

(* A receipt in a caller's hands is evidence: its event is in the journal, *)
(* unless a later torn line made the journal unreadable for everyone.      *)
THEOREM LedgerReceiptsBacked == Spec => []ReceiptsBacked
<1>1. Init => ReceiptsBacked
  BY DEF Init, ReceiptsBacked, NoReply
<1> QED
  BY <1>1, BaseInitial, BaseInductive, ReceiptsInductive, PTL DEF Spec

-----------------------------------------------------------------------------
(* Refinement: through StatusOf, the concurrent, crash-prone ledger takes  *)
(* only the atomic steps of AbstractLedger.                                *)

(* AbstractLedger reads the same rules; only the names of its instance     *)
(* differ.                                                                 *)
LEMMA SameCardinality == \A S : Abstract!Cardinality(S) = Cardinality(S)
  BY DEF Abstract!Cardinality, Cardinality

(* The budget rule of AbstractLedger is the one of the journal. *)
LEMMA SameBudget ==
  ASSUME NEW st, NEW e
  PROVE  Abstract!BudgetAvailable(st, e) <=> BudgetAvailable(st, e)
<1>1. \A account : Abstract!Holders(st, account) = Holders(st, account)
  BY DEF Abstract!Holders, Holders, Abstract!Counts, Counts
<1>2. \A es : Abstract!UnitsOf(es) = UnitsOf(es)
  BY DEF Abstract!UnitsOf, UnitsOf
<1> QED
  BY <1>1, <1>2, SameCardinality DEF Abstract!BudgetAvailable, BudgetAvailable

(* The rules of AbstractLedger, instantiated, are the rules of the ledger. *)
LEMMA SameRules ==
  ASSUME NEW st, NEW e
  PROVE  Abstract!ReserveAllowed(st, e) <=> ReserveAllowed(st, e)
<1>1. Abstract!Consumed(st, e) <=> Consumed(st, e)
  BY DEF Abstract!Consumed, Consumed, Abstract!SharesSingleUse, SharesSingleUse
<1> QED
  BY <1>1, SameBudget DEF Abstract!ReserveAllowed, ReserveAllowed

(* A fresh envelope's reservation: only its own status changes.            *)
LEMMA StatusAfterReserve ==
  ASSUME NEW jn \in Seq(Events), Verifies(jn), NEW ev \in Events,
         ev.type = "reservation_created",
         ~Occurs(jn, "reservation_created", ev.envelope)
  PROVE  StatusOf(Append(jn, ev)) = [StatusOf(jn) EXCEPT ![ev.envelope] = "reserved"]
<1> DEFINE e   == ev.envelope
           new == Append(jn, ev)
<1>1. /\ \A f : Created(new, f) <=> Created(jn, f) \/ e = f
      /\ \A f : Occurs(new, "dispatch_committed", f) <=> Occurs(jn, "dispatch_committed", f)
      /\ \A f : Occurs(new, "reservation_released", f) <=> Occurs(jn, "reservation_released", f)
  BY CreatedAppend, OccursAppend DEF IsA
<1>2. /\ ~Occurs(jn, "dispatch_committed", e)
      /\ ~Occurs(jn, "reservation_released", e)
  <2> SUFFICES ASSUME NEW i \in DOMAIN jn, NEW type \in {"dispatch_committed", "reservation_released"},
                      IsA(jn[i], type, e)
               PROVE  FALSE
    BY DEF Occurs
  <2>1. \E j \in 1..(i - 1) : IsA(jn[j], "reservation_created", jn[i].envelope)
    BY DEF Verifies, FirstOfItsKind, IsA
  <2>2. \E j \in 1..(i - 1) : IsA(jn[j], "reservation_created", e)
    BY <2>1 DEF IsA
  <2>3. 1..(i - 1) \subseteq DOMAIN jn
    OBVIOUS
  <2> QED
    BY <2>2, <2>3 DEF Occurs
<1> HIDE DEF new, e
<1>3. StatusOf(new) = [StatusOf(jn) EXCEPT ![e] = "reserved"]
  BY <1>1, <1>2 DEF StatusOf
<1> QED
  BY <1>3 DEF new, e

(* A transition: no other created envelope shares the reservation id.      *)
LEMMA StatusAfterTransition ==
  ASSUME NEW jn \in Seq(Events), NEW ev \in Events, NEW to,
         \/ ev.type = "dispatch_committed" /\ to = "dispatched"
         \/ ev.type = "reservation_released" /\ to = "released",
         StatusOf(jn)[ev.envelope] = "reserved",
         ev.envelope \in Envelopes,
         \A f \in Envelopes : (Created(jn, f) /\ f # ev.envelope) =>
            ReservationId(f) # ReservationId(ev.envelope)
  PROVE  StatusOf(Append(jn, ev)) = [StatusOf(jn) EXCEPT ![ev.envelope] = to]
<1> DEFINE e   == ev.envelope
           new == Append(jn, ev)
<1>1. /\ \A f : Created(new, f) <=> Created(jn, f)
      /\ \A type, f : Occurs(new, type, f) <=> Occurs(jn, type, f) \/ IsA(ev, type, f)
  BY CreatedAppend, OccursAppend
<1>2. /\ Created(jn, e)
      /\ ~Occurs(jn, "dispatch_committed", e)
      /\ ~Occurs(jn, "reservation_released", e)
  BY StatusCreated
<1>3. \A type, f : IsA(ev, type, f) <=> (ev.type = type /\ ReservationId(e) = ReservationId(f))
  BY DEF IsA
<1> HIDE DEF new, e
<1>4. ASSUME NEW f \in Envelopes
      PROVE  StatusOf(new)[f] = [StatusOf(jn) EXCEPT ![e] = to][f]
  <2>1. CASE f = e
    BY <1>1, <1>2, <1>3, <2>1 DEF StatusOf
  <2>2. CASE f # e
    BY <1>1, <1>3, <2>2 DEF StatusOf, e
  <2> QED
    BY <2>1, <2>2
<1>5. StatusOf(new) = [StatusOf(jn) EXCEPT ![e] = to]
  BY <1>4 DEF StatusOf
<1> QED
  BY <1>5 DEF new, e

(* What a fresh decision does to the status once it is appended.           *)
LEMMA StatusStep ==
  ASSUME BaseInv, JournalVerifies, SingleUse,
         NEW c \in Calls, c.op # "init", Allows(journal, c)
  PROVE  LET st  == StatusOf(journal)
             e   == c.envelope
             new == StatusOf(Append(journal, Decision(journal, c)))
         IN  /\ e \in Envelopes
             /\ \/ /\ c.op = "reserve" /\ ReserveAllowed(st, e) /\ ~Created(journal, e)
                   /\ new = [st EXCEPT ![e] = "reserved"]
                \/ /\ c.op = "commit" /\ st[e] = "reserved"
                   /\ new = [st EXCEPT ![e] = "dispatched"]
                \/ /\ c.op = "release" /\ st[e] = "reserved"
                   /\ new = [st EXCEPT ![e] = "released"]
<1> DEFINE ev == Decision(journal, c)
           e  == c.envelope
<1>1. journal \in Seq(Events)
  BY DEF BaseInv, TypeOK
<1>2. e \in Envelopes /\ ev \in Events /\ ev.envelope = e
  BY <1>1, AllowedCall
<1>3. CASE c.op = "reserve"
  <2>1. ev.type = "reservation_created" /\ ReserveAllowed(StatusOf(journal), e)
    BY <1>1, <1>3, AllowedCall
  <2>2. ~Occurs(journal, "reservation_created", e)
    BY <1>1, <1>2, <2>1, EventEnvelopes, NotConsumedIsNew DEF ReserveAllowed
  <2>3. ~Created(journal, e)
    BY <2>2 DEF Created, Occurs, IsA
  <2> HIDE DEF ev
  <2>4. StatusOf(Append(journal, ev)) = [StatusOf(journal) EXCEPT ![e] = "reserved"]
    BY <1>1, <1>2, <2>1, <2>2, StatusAfterReserve DEF JournalVerifies
  <2> QED
    BY <1>2, <1>3, <2>1, <2>3, <2>4 DEF ev
<1>4. CASE c.op # "reserve"
  <2>1. /\ StatusOf(journal)[e] = "reserved"
        /\ \/ c.op = "commit" /\ ev.type = "dispatch_committed"
           \/ c.op = "release" /\ ev.type = "reservation_released"
    BY <1>1, <1>4, AllowedCall DEF CommitAllowed, ReleaseAllowed
  <2>2. Created(journal, e)
    BY <1>2, <2>1, StatusCreated
  <2>3. \A f \in Envelopes : (Created(journal, f) /\ f # e) => ReservationId(f) # ReservationId(e)
    BY <1>1, <1>2, <2>2, SingleUseIsCreated DEF ReservationId
  <2> DEFINE to == IF c.op = "commit" THEN "dispatched" ELSE "released"
  <2>4. \/ ev.type = "dispatch_committed" /\ to = "dispatched"
        \/ ev.type = "reservation_released" /\ to = "released"
    BY <2>1
  <2> HIDE DEF ev, e, to
  <2>5. /\ StatusOf(journal)[ev.envelope] = "reserved"
        /\ ev.envelope \in Envelopes
        /\ \A f \in Envelopes : (Created(journal, f) /\ f # ev.envelope) =>
             ReservationId(f) # ReservationId(ev.envelope)
    BY <1>2, <2>1, <2>3
  <2>6. StatusOf(Append(journal, ev)) = [StatusOf(journal) EXCEPT ![ev.envelope] = to]
    BY <1>1, <1>2, <2>4, <2>5, StatusAfterTransition
  <2>7. StatusOf(Append(journal, ev)) = [StatusOf(journal) EXCEPT ![e] = to]
    BY <1>2, <2>6
  <2> QED
    BY <1>2, <2>1, <2>7 DEF ev, e, to
<1> QED
  BY <1>3, <1>4

(* Every step of the directory is a step of AbstractLedger, or none. *)
LEMMA AbstractStep ==
  BaseInv /\ JournalVerifies /\ SingleUse /\ [Next]_vars => [Abstract!Next]_(StatusOf(journal))
<1> SUFFICES ASSUME BaseInv, JournalVerifies, SingleUse, [Next]_vars
             PROVE  Abstract!Next \/ UNCHANGED StatusOf(journal)
  OBVIOUS
<1>1. CASE journal' = journal
  BY <1>1
<1>2. ASSUME NEW p \in Procs, call[p] \in Calls, call[p].op # "init",
             Allows(journal, call[p]), journal' = Append(journal, Decision(journal, call[p])),
             call[p].op = "reserve" => call[p].envelope.permitted
      PROVE  Abstract!Next
  <2> DEFINE c == call[p]
             e == c.envelope
  <2>1. StatusOf(journal') = StatusOf(Append(journal, Decision(journal, c)))
    BY <1>2
  <2>2. e \in Envelopes
    BY <1>2, StatusStep
  <2>3. CASE c.op = "reserve"
    BY <1>2, <2>1, <2>2, <2>3, StatusStep, SameRules DEF Abstract!Next, Abstract!Reserve
  <2>4. CASE c.op = "commit"
    BY <1>2, <2>1, <2>2, <2>4, StatusStep DEF Abstract!Next, Abstract!Dispatch
  <2>5. CASE c.op = "release"
    BY <1>2, <2>1, <2>2, <2>5, StatusStep DEF Abstract!Next, Abstract!Release
  <2> QED
    BY <1>2, <2>3, <2>4, <2>5 DEF Calls
<1> QED
  BY <1>1, <1>2, JournalSteps DEF BaseInv

(* reserveDispatch, commitDispatch and releaseDispatch are atomic: the     *)
(* ledger of concurrent processes, torn writes and crashes implements the  *)
(* one of AbstractLedger.                                                  *)
THEOREM LedgerImplementsAbstract == Spec => ImplementsAbstractLedger
<1>1. Init => Abstract!Init
  BY DEF Init, Abstract!Init, StatusOf, Created
<1>2. Init => JournalVerifies /\ SingleUse
  BY DEF Init, JournalVerifies, Verifies, Chained, SingleUse, StatusOf, Created
<1>3. BaseInv /\ JournalVerifies /\ SingleUse /\ [Next]_vars =>
        BaseInv' /\ JournalVerifies' /\ SingleUse'
  BY BaseInductive, VerifiesInductive, SingleUseInductive
<1> QED
  BY <1>1, <1>2, <1>3, BaseInitial, AbstractStep, PTL
  DEF Spec, ImplementsAbstractLedger, Abstract!Spec

-----------------------------------------------------------------------------
(* The budget.                                                             *)

CreatedUpTo(jn, i, f) ==
  \E j \in 1..i : jn[j].type = "reservation_created" /\ jn[j].envelope = f

(* BudgetHeld, of any journal.                                             *)
BudgetIn(jn) ==
  \A i \in DOMAIN jn :
     LET e == jn[i].envelope
     IN  (jn[i].type = "reservation_created" /\ e.account # Null /\ Counts(StatusOf(jn), e)) =>
           Cardinality(UnitsOf({f \in Holders(StatusOf(jn), e.account) : CreatedUpTo(jn, i, f)}))
              <= e.remaining_before

(* BudgetHeld says BudgetIn of the journal, before and after a step. *)
LEMMA BudgetHeldIn == (BudgetHeld <=> BudgetIn(journal)) /\ (BudgetHeld' <=> BudgetIn(journal'))
  BY DEF BudgetHeld, BudgetIn, CreatedBy, CreatedUpTo

(* ensureBudgetAvailable sums over finitely many reservations. *)
LEMMA HoldersFinite ==
  ASSUME NEW jn \in Seq(Events), NEW account
  PROVE  /\ Holders(StatusOf(jn), account) \subseteq Envelopes
         /\ IsFiniteSet(Holders(StatusOf(jn), account))
<1> DEFINE recipients == {jn[i].envelope : i \in DOMAIN jn}
<1>1. IsFiniteSet(recipients)
  <2> DEFINE at == [i \in DOMAIN jn |-> jn[i].envelope]
  <2>1. at \in Surjection(DOMAIN jn, recipients)
    BY DEF Surjection
  <2>2. DOMAIN jn = 1..Len(jn) /\ Len(jn) \in Int /\ 1 \in Int
    OBVIOUS
  <2>3. IsFiniteSet(DOMAIN jn)
    BY <2>2, FS_Interval
  <2> HIDE DEF at, recipients
  <2> QED
    BY <2>1, <2>3, FS_Surjection
<1>2. Holders(StatusOf(jn), account) \subseteq recipients
  <2> SUFFICES ASSUME NEW f \in Envelopes, Counts(StatusOf(jn), f) PROVE f \in recipients
    BY DEF Holders
  <2>1. Created(jn, f)
    BY StatusCreated DEF Counts
  <2> QED
    BY <2>1 DEF Created
<1> HIDE DEF recipients
<1>3. IsFiniteSet(Holders(StatusOf(jn), account))
  BY <1>1, <1>2, FS_Subset
<1> QED
  BY <1>3 DEF Holders

(* Appending a decision that passed ensureBudgetAvailable overspends nothing. *)
LEMMA BudgetAppend ==
  ASSUME BaseInv, JournalVerifies, SingleUse, BudgetIn(journal),
         NEW c \in Calls, c.op # "init", Allows(journal, c)
  PROVE  BudgetIn(Append(journal, Decision(journal, c)))
<1> DEFINE ev  == Decision(journal, c)
           new == Append(journal, ev)
           n   == Len(journal)
           e   == c.envelope
           st  == StatusOf(journal)
           st2 == StatusOf(new)
<1>1. journal \in Seq(Events)
  BY DEF BaseInv, TypeOK
<1>2. /\ e \in Envelopes /\ ev \in Events /\ ev.envelope = e
      /\ ev.type = "reservation_created" => c.op = "reserve"
  BY <1>1, AllowedCall
<1>3. \/ /\ c.op = "reserve" /\ ReserveAllowed(st, e) /\ ~Created(journal, e)
         /\ st2 = [st EXCEPT ![e] = "reserved"]
      \/ /\ c.op # "reserve" /\ st[e] = "reserved"
         /\ st2 \in {[st EXCEPT ![e] = "dispatched"], [st EXCEPT ![e] = "released"]}
  BY StatusStep
<1>4. /\ DOMAIN journal = 1..n /\ n \in Nat
      /\ DOMAIN new = 1..(n + 1)
      /\ \A i \in 1..n : new[i] = journal[i]
      /\ new[n + 1] = ev
  <2> HIDE DEF ev
  <2> QED
    BY <1>1, <1>2, AppendShape
<1>5. DOMAIN st = Envelopes
  BY DEF StatusOf
<1> HIDE DEF ev, new, n, st, st2, e
<1> SUFFICES ASSUME NEW i \in 1..(n + 1), new[i].type = "reservation_created",
                    new[i].envelope.account # Null, Counts(st2, new[i].envelope)
             PROVE  Cardinality(UnitsOf({f \in Holders(st2, new[i].envelope.account) :
                                           CreatedUpTo(new, i, f)}))
                      <= new[i].envelope.remaining_before
  <2>1. BudgetIn(new)
    BY <1>4 DEF BudgetIn, st2
  <2> QED
    BY <2>1 DEF new, ev
<1> DEFINE g  == new[i].envelope
           hs == {f \in Holders(st2, g.account) : CreatedUpTo(new, i, f)}
<1>6. CASE i \in 1..n
  <2>1. \A f : CreatedUpTo(new, i, f) <=> CreatedUpTo(journal, i, f)
    BY <1>4, <1>6 DEF CreatedUpTo
  <2>2. ASSUME NEW f \in Envelopes, CreatedUpTo(journal, i, f), Counts(st2, f)
        PROVE  Counts(st, f)
    <3>1. CASE f = e
      <4>1. Created(journal, e)
        BY <1>4, <1>6, <2>2, <3>1 DEF CreatedUpTo, Created
      <4> QED
        BY <1>3, <3>1, <4>1 DEF Counts
    <3>2. CASE f # e
      BY <1>3, <1>5, <2>2, <3>2 DEF Counts
    <3> QED
      BY <3>1, <3>2
  <2>3. g = journal[i].envelope /\ journal[i].type = "reservation_created"
    BY <1>4, <1>6
  <2>4. g \in Envelopes /\ CreatedUpTo(journal, i, g)
    <3>1. g \in Envelopes
      BY <1>1, <1>4, <1>6, <2>3, EventEnvelopes
    <3>2. i \in 1..i
      BY <1>4, <1>6
    <3> QED
      BY <2>3, <3>1, <3>2 DEF CreatedUpTo
  <2> DEFINE before == {f \in Holders(st, g.account) : CreatedUpTo(journal, i, f)}
  <2>5. Cardinality(UnitsOf(before)) <= g.remaining_before
    BY <1>4, <1>6, <2>2, <2>3, <2>4 DEF BudgetIn, st
  <2>6. hs \subseteq before
    BY <2>1, <2>2 DEF Holders
  <2>7. before \subseteq Envelopes /\ IsFiniteSet(before)
    <3>1. /\ Holders(st, g.account) \subseteq Envelopes
          /\ IsFiniteSet(Holders(st, g.account))
      BY <1>1, HoldersFinite DEF st
    <3> QED
      BY <3>1, FS_Subset
  <2>8. g.remaining_before \in Nat
    BY <2>4, EnvelopeAssumption
  <2> HIDE DEF before, hs
  <2>9. /\ Cardinality(UnitsOf(hs)) \in Nat /\ Cardinality(UnitsOf(before)) \in Nat
        /\ Cardinality(UnitsOf(hs)) <= Cardinality(UnitsOf(before))
    BY <2>6, <2>7, UnitsMonotone
  <2>10. Cardinality(UnitsOf(hs)) <= g.remaining_before
    BY <2>5, <2>8, <2>9
  <2> QED
    BY <2>10 DEF hs
<1>7. CASE i = n + 1
  <2>1. g = e /\ c.op = "reserve" /\ e.account # Null
    BY <1>2, <1>4, <1>7
  <2>2. /\ ReserveAllowed(st, e) /\ ~Created(journal, e)
        /\ st2 = [st EXCEPT ![e] = "reserved"]
    BY <1>3, <2>1
  <2> DEFINE held == Holders(st, e.account)
  <2>3. held \subseteq Envelopes /\ IsFiniteSet(held)
    BY <1>1, HoldersFinite DEF st
  <2>4. e \notin held
    <3>1. st[e] = "absent"
      BY <1>2, <2>2, StatusCreated DEF st
    <3> QED
      BY <3>1 DEF Holders, Counts
  <2>5. hs \subseteq held \cup {e}
    BY <1>5, <2>1, <2>2 DEF Holders, Counts
  <2>6. e.amount + Cardinality(UnitsOf(held)) <= e.remaining_before
    BY <2>1, <2>2 DEF ReserveAllowed, BudgetAvailable
  <2> HIDE DEF held, hs
  <2>7. Cardinality(UnitsOf(held \cup {e})) = e.amount + Cardinality(UnitsOf(held))
    BY <1>2, <2>3, <2>4, UnitsAdd
  <2>8. held \cup {e} \subseteq Envelopes /\ IsFiniteSet(held \cup {e})
    BY <1>2, <2>3, FS_AddElement
  <2>9. /\ Cardinality(UnitsOf(hs)) \in Nat /\ Cardinality(UnitsOf(held \cup {e})) \in Nat
        /\ Cardinality(UnitsOf(hs)) <= Cardinality(UnitsOf(held \cup {e}))
    BY <2>5, <2>8, UnitsMonotone
  <2>10. e.remaining_before \in Nat
    BY <1>2, EnvelopeAssumption
  <2>11. Cardinality(UnitsOf(hs)) <= g.remaining_before
    BY <2>1, <2>6, <2>7, <2>9, <2>10
  <2> QED
    BY <2>11 DEF hs
<1> QED
  BY <1>4, <1>6, <1>7

(* No account is overspent: whatever reservations race, what counts        *)
(* against an account fits the remainder its envelopes were authorized     *)
(* against, at every reservation and ever after.                           *)
THEOREM LedgerBudgetHeld == Spec => []BudgetHeld
<1>1. Init => JournalVerifies /\ SingleUse /\ BudgetHeld
  BY DEF Init, JournalVerifies, Verifies, Chained, SingleUse, StatusOf, Created, BudgetHeld
<1>2. BaseInv /\ JournalVerifies /\ SingleUse /\ BudgetHeld /\ [Next]_vars => BudgetHeld'
  <2> SUFFICES ASSUME BaseInv, JournalVerifies, SingleUse, BudgetHeld, [Next]_vars
               PROVE  BudgetHeld'
    OBVIOUS
  <2>1. CASE journal' = journal
    BY <2>1, BudgetHeldIn
  <2>2. ASSUME NEW p \in Procs, call[p] \in Calls, call[p].op # "init",
               Allows(journal, call[p]), journal' = Append(journal, Decision(journal, call[p]))
        PROVE  BudgetHeld'
    BY <2>2, BudgetHeldIn, BudgetAppend
  <2> QED
    BY <2>1, <2>2, JournalSteps DEF BaseInv
<1>3. BaseInv /\ JournalVerifies /\ SingleUse /\ [Next]_vars =>
        BaseInv' /\ JournalVerifies' /\ SingleUse'
  BY BaseInductive, VerifiesInductive, SingleUseInductive
<1> QED
  BY <1>1, <1>2, <1>3, BaseInitial, PTL DEF Spec

-----------------------------------------------------------------------------
(* A ledger that was initialized.                                          *)

(* While nothing failed, the journal file is missing beside its metadata   *)
(* only for as long as an initialization is between the two, and what was  *)
(* answered found both.                                                    *)
UsableParts ==
  /\ tail = "clean"
  /\ metadata /\ ~events_file => \E p \in Procs : pc[p] = "ensuring"
  /\ \A p \in Procs : pc[p] = "ensuring" => metadata
  /\ \A p \in Procs : pc[p] = "appending" => metadata /\ events_file
  /\ \A p \in Procs : reply[p].code = "ok" => metadata /\ events_file
UsableInv == faults = 0 => UsableParts

(* Only the holder of the lock creates the files, and a ledger is taken    *)
(* for initialized under the lock.                                         *)
LEMMA UsableInductive ==
  ASSUME TypeOK, LockInv, UsableInv, [Next]_vars
  PROVE  UsableInv'
<1> SUFFICES ASSUME faults' = 0 PROVE UsableParts'
  BY DEF UsableInv
<1>0. faults \in Nat /\ pc \in [Procs -> PCs] /\ reply \in [Procs -> Replies]
  BY ProcsAssumption DEF TypeOK
<1>1. CASE UNCHANGED vars
  BY <1>1 DEF vars, files, UsableInv, UsableParts
<1>2. ASSUME NEW p \in Procs, InitializeFails(p) \/ AppendFails(p) \/ Crash(p)
      PROVE  FALSE
  BY <1>0, <1>2 DEF InitializeFails, AppendFails, Crash
<1> USE DEF files
<1>3. CASE Tick
  BY <1>3 DEF Tick, UsableInv, UsableParts
<1>4. ASSUME NEW p \in Procs, BeginAny(p)
      PROVE  UsableParts'
  BY <1>0, <1>4 DEF BeginAny, Begin, UsableInv, UsableParts, NoReply, Failure
<1>5. ASSUME NEW p \in Procs, AcquireLock(p) \/ LockTimeout(p) \/ ReleaseLock(p) \/ Refuse(p)
      PROVE  UsableParts'
  BY <1>0, <1>5 DEF AcquireLock, LockTimeout, ReleaseLock, Refuse, ReadyToDecide, UsableInv, UsableParts,
                    Failure
<1>6. ASSUME NEW p \in Procs, FindMetadata(p)
      PROVE  UsableParts'
  <2>1. pc[p] = "reading" /\ Holding(p) /\ lockdir = p
    BY <1>6 DEF FindMetadata, LockInv, MutualExclusion, Holding
  <2>2. \A q \in Procs : pc[q] # "ensuring"
    BY <2>1 DEF LockInv, MutualExclusion, Holding
  <2>3. faults = 0 /\ metadata' = metadata /\ events_file' = events_file /\ tail' = tail
    BY <1>6 DEF FindMetadata
  <2>4. metadata => events_file
    BY <2>2, <2>3 DEF UsableInv, UsableParts
  <2> QED
    BY <1>0, <1>6, <2>2, <2>3, <2>4 DEF FindMetadata, UsableInv, UsableParts, Ok
<1>7. ASSUME NEW p \in Procs, WriteMetadata(p)
      PROVE  UsableParts'
  BY <1>0, <1>7 DEF WriteMetadata, UsableInv, UsableParts
<1>8. ASSUME NEW p \in Procs, EnsureEventsFile(p)
      PROVE  UsableParts'
  BY <1>0, <1>8 DEF EnsureEventsFile, UsableInv, UsableParts, Ok
<1>9. ASSUME NEW p \in Procs, Replay(p) \/ Decide(p)
      PROVE  UsableParts'
  BY <1>0, <1>9 DEF Replay, Decide, ReadyToDecide, Readable, UsableInv, UsableParts, Ok
<1>10. ASSUME NEW p \in Procs, AppendEvent(p)
       PROVE  UsableParts'
  BY <1>0, <1>10 DEF AppendEvent, WholeLine, UsableInv, UsableParts, Ok
<1> QED
  BY <1>1, <1>2, <1>3, <1>4, <1>5, <1>6, <1>7, <1>8, <1>9, <1>10 DEF Next, Step

(* While nothing failed, a ledger that some call initialized can be used,  *)
(* however many processes initialize it at once (the existence check and   *)
(* the two writes of initializeDispatchLedger are under one lock).  After  *)
(* a failure between the two writes, or a torn line, it need not hold.     *)
THEOREM LedgerInitializedUsable == Spec => [](faults = 0 => InitializedIsUsable)
<1>1. Init => UsableInv
  BY DEF Init, UsableInv, UsableParts, NoReply
<1>2. BaseInv /\ JournalVerifies /\ UsableInv /\ [Next]_vars => UsableInv'
  BY UsableInductive DEF BaseInv, FreshInv
<1>3. JournalVerifies /\ UsableInv => (faults = 0 => InitializedIsUsable)
  BY DEF UsableInv, UsableParts, InitializedIsUsable, Readable, JournalVerifies, Ok
<1>4. Init => JournalVerifies
  BY DEF Init, JournalVerifies, Verifies, Chained
<1> QED
  BY <1>1, <1>2, <1>3, <1>4, BaseInitial, BaseInductive, VerifiesInductive, PTL DEF Spec
=============================================================================
