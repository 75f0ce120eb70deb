--------------------------- MODULE DispatchLedger ---------------------------
(***************************************************************************)
(* The durable dispatch ledger of src/dispatch/ledger-store.ts as several  *)
(* local processes use it: the files of the ledger directory, the          *)
(* .dispatch-lock directory, and every operation split where the code      *)
(* awaits the file system -- take the lock, read and decide, append, drop  *)
(* the lock -- with crashes and failed or torn writes between and inside   *)
(* the steps.                                                              *)
(*                                                                         *)
(* A caller captures the operation's time before it asks for the lock, so  *)
(* the clock may have moved on when the decision is made.                  *)
(***************************************************************************)
EXTENDS LedgerRules

CONSTANTS
  Procs,       \* the processes (or concurrent calls) that share the directory
  Free,        \* the lock directory does not exist
  Orphan,      \* it exists, and the process that made it is dead
  MaxTime,     \* bound on the clock
  MaxEvents,   \* bound on the calls: no new call once the journal has this many events
  MaxFaults    \* bound on crashes and failed writes

ASSUME ProcsAssumption ==
  /\ Free \notin Procs /\ Orphan \notin Procs /\ Free # Orphan
  /\ MaxTime \in Nat /\ MaxEvents \in Nat /\ MaxFaults \in Nat

VARIABLES
  metadata,    \* does ledger.meta.json exist?
  events_file, \* does events.jsonl exist?
  journal,     \* the events its lines parse to
  tail,        \* how its last line ends
  lockdir,     \* who made .dispatch-lock
  now,         \* the wall clock
  pc,          \* per process: where its call is
  call,        \* per process: the arguments of its call
  pending,     \* per process: the event it decided to append
  reply,       \* per process: how its last call ended
  faults       \* crashes and write failures so far

files == <<metadata, events_file, journal, tail>>
vars  == <<files, lockdir, now, pc, call, pending, reply, faults>>

(* "clean": the file is empty or ends in a newline.  "unterminated": the   *)
(* last line is a whole event without its newline.  "garbled": some line   *)
(* does not parse, so no later read succeeds.                              *)
Tails == {"clean", "unterminated", "garbled"}

PCs == {"idle", "waiting", "reading", "creating", "ensuring", "appending", "unlocking"}

Calls ==
  [op : {"init"}, envelope : {Null}, reason : {Null}, at : 0..MaxTime]
    \cup [op : {"reserve", "commit"}, envelope : Envelopes, reason : {Null}, at : 0..MaxTime]
    \cup [op : {"release"}, envelope : Envelopes, reason : Reasons, at : 0..MaxTime]

Events ==
  [ sequence : Nat \ {0},
    previous : {Null} \cup ((Nat \ {0}) \X EventTypes
                              \X {ReservationId(e) : e \in Envelopes} \X (0..MaxTime)),
    type     : EventTypes,
    envelope : Envelopes,
    reason   : Reasons \cup {Null},
    occurred_at : 0..MaxTime ]

(* "ok" with the event a receipt was signed for, "ok" with none after an   *)
(* initialization, or "failed": an exception reached the caller.           *)
Replies ==
  [code : {"none", "failed", "ok"}, event : {Null}] \cup [code : {"ok"}, event : Events]

TypeOK ==
  /\ metadata \in BOOLEAN
  /\ events_file \in BOOLEAN
  /\ journal \in Seq(Events)
  /\ tail \in Tails
  /\ lockdir \in Procs \cup {Free, Orphan}
  /\ now \in 0..MaxTime
  /\ pc \in [Procs -> PCs]
  /\ call \in [Procs -> Calls]
  /\ pending \in [Procs -> Events \cup {Null}]
  /\ reply \in [Procs -> Replies]
  /\ faults \in 0..MaxFaults

NoCall  == [op |-> "init", envelope |-> Null, reason |-> Null, at |-> 0]
NoReply == [code |-> "none", event |-> Null]
Failure == [code |-> "failed", event |-> Null]
Ok(ev)  == [code |-> "ok", event |-> ev]

Init ==
  /\ metadata = FALSE
  /\ events_file = FALSE
  /\ journal = <<>>
  /\ tail = "clean"
  /\ lockdir = Free
  /\ now = 0
  /\ pc = [p \in Procs |-> "idle"]
  /\ call = [p \in Procs |-> NoCall]
  /\ pending = [p \in Procs |-> Null]
  /\ reply = [p \in Procs |-> NoReply]
  /\ faults = 0

-----------------------------------------------------------------------------
(* Calling an operation: capture the arguments and, for a reservation,     *)
(* validate the envelope before the lock is asked for.                     *)

(* Mutant: the envelope is only checked for expiry. *)
Begin_Unvalidated(p, c) ==
  /\ pc[p] = "idle"
  /\ Len(journal) < MaxEvents
  /\ call' = [call EXCEPT ![p] = c]
  /\ pc' = [pc EXCEPT ![p] = "waiting"]
  /\ reply' = [reply EXCEPT ![p] = NoReply]
  /\ UNCHANGED <<files, lockdir, now, pending, faults>>

Begin(p, c) ==
  /\ pc[p] = "idle"
  /\ Len(journal) < MaxEvents
  /\ call' = [call EXCEPT ![p] = c]
  /\ IF c.op = "reserve" /\ (~c.envelope.permitted \/ Expired(c.envelope, c.at))
     THEN /\ reply' = [reply EXCEPT ![p] = Failure]
          /\ UNCHANGED pc
     ELSE /\ pc' = [pc EXCEPT ![p] = "waiting"]
          /\ reply' = [reply EXCEPT ![p] = NoReply]
  /\ UNCHANGED <<files, lockdir, now, pending, faults>>

BeginAny(p) == \E c \in {d \in Calls : d.at = now} : Begin(p, c)

(* Mutant: an existing lock directory counts as taken by the caller. *)
AcquireLock_Recursive(p) ==
  /\ pc[p] = "waiting"
  /\ lockdir' = p
  /\ pc' = [pc EXCEPT ![p] = "reading"]
  /\ UNCHANGED <<files, now, call, pending, reply, faults>>

(* mkdir succeeds for exactly one process while the directory is absent.   *)
AcquireLock(p) ==
  /\ pc[p] = "waiting"
  /\ lockdir = Free
  /\ lockdir' = p
  /\ pc' = [pc EXCEPT ![p] = "reading"]
  /\ UNCHANGED <<files, now, call, pending, reply, faults>>

(* Mutant: after the timeout the operation goes on without the lock. *)
LockTimeout_Proceeds(p) ==
  /\ pc[p] = "waiting"
  /\ lockdir # Free
  /\ pc' = [pc EXCEPT ![p] = "reading"]
  /\ UNCHANGED <<files, lockdir, now, call, pending, reply, faults>>

(* Mutant: after the timeout the lock is taken to be stale and removed. *)
LockTimeout_Steals(p) ==
  /\ pc[p] = "waiting"
  /\ lockdir # Free
  /\ lockdir' = p
  /\ pc' = [pc EXCEPT ![p] = "reading"]
  /\ UNCHANGED <<files, now, call, pending, reply, faults>>

(* Mutant: the loop never gives up. *)
LockTimeout_Never(p) == pc[p] = "waiting" /\ lockdir # Free /\ UNCHANGED vars

(* The retry loop ends with LEDGER_LOCK_TIMEOUT when the lock stayed taken.*)
LockTimeout(p) ==
  /\ pc[p] = "waiting"
  /\ lockdir # Free
  /\ pc' = [pc EXCEPT ![p] = "idle"]
  /\ reply' = [reply EXCEPT ![p] = Failure]
  /\ UNCHANGED <<files, lockdir, now, call, pending, faults>>

-----------------------------------------------------------------------------
(* initializeDispatchLedger under the lock.                                *)

FindMetadata(p) ==
  /\ pc[p] = "reading" /\ call[p].op = "init"
  /\ IF metadata
     THEN /\ pc' = [pc EXCEPT ![p] = "unlocking"]
          /\ reply' = [reply EXCEPT ![p] = Ok(Null)]
     ELSE /\ pc' = [pc EXCEPT ![p] = "creating"]
          /\ UNCHANGED reply
  /\ UNCHANGED <<files, lockdir, now, call, pending, faults>>

(* Mutant: the events file is left for the first append to create. *)
WriteMetadata_Only(p) ==
  /\ pc[p] = "creating"
  /\ metadata' = TRUE
  /\ pc' = [pc EXCEPT ![p] = "unlocking"]
  /\ reply' = [reply EXCEPT ![p] = Ok(Null)]
  /\ UNCHANGED <<events_file, journal, tail, lockdir, now, call, pending, faults>>

WriteMetadata(p) ==
  /\ pc[p] = "creating"
  /\ metadata' = TRUE
  /\ pc' = [pc EXCEPT ![p] = "ensuring"]
  /\ UNCHANGED <<events_file, journal, tail, lockdir, now, call, pending, reply, faults>>

EnsureEventsFile(p) ==
  /\ pc[p] = "ensuring"
  /\ events_file' = TRUE
  /\ pc' = [pc EXCEPT ![p] = "unlocking"]
  /\ reply' = [reply EXCEPT ![p] = Ok(Null)]
  /\ UNCHANGED <<metadata, journal, tail, lockdir, now, call, pending, faults>>

(* Creating either file throws (a full disk, a permission): what was        *)
(* created before stays, and the finally block drops the lock.             *)
InitializeFails(p) ==
  /\ pc[p] \in {"creating", "ensuring"}
  /\ faults < MaxFaults
  /\ pc' = [pc EXCEPT ![p] = "unlocking"]
  /\ reply' = [reply EXCEPT ![p] = Failure]
  /\ faults' = faults + 1
  /\ UNCHANGED <<files, lockdir, now, call, pending>>

-----------------------------------------------------------------------------
(* reserveDispatch, commitDispatch and releaseDispatch under the lock:     *)
(* read and verify the journal, then refuse, replay or decide an event.    *)

(* Mutant: the loader skips a line it cannot parse. *)
Readable_Lenient == metadata /\ events_file /\ Verifies(journal)

Readable == metadata /\ events_file /\ tail # "garbled" /\ Verifies(journal)

Replays(jn, c) ==
  LET st == StatusOf(jn)
  IN  \/ c.op = "reserve" /\ ReserveReplays(st, c.envelope)
      \/ c.op = "commit"  /\ CommitReplays(st, c.envelope)
      \/ c.op = "release" /\ ReleaseReplays(jn, c.envelope, c.reason)

Allows(jn, c) ==
  LET st == StatusOf(jn)
  IN  \/ c.op = "reserve" /\ ReserveAllowed(st, c.envelope)
      \/ c.op = "commit"  /\ CommitAllowed(st, c.envelope, c.at)
      \/ c.op = "release" /\ ReleaseAllowed(st, c.envelope, c.reason, c.at)

TypeFor(op) ==
  CASE op = "reserve" -> "reservation_created"
    [] op = "commit"  -> "dispatch_committed"
    [] op = "release" -> "reservation_released"

Decision(jn, c) == NextEvent(jn, TypeFor(c.op), c.envelope, c.reason, c.at)

(* A replay signs a receipt for the event that is already in the journal.  *)
RecordedEvent(jn, c) ==
  jn[CHOOSE i \in DOMAIN jn : IsA(jn[i], TypeFor(c.op), c.envelope)]

ReadyToDecide(p) == pc[p] = "reading" /\ call[p].op # "init"

Refuse(p) ==
  /\ ReadyToDecide(p)
  /\ ~(Readable /\ (Replays(journal, call[p]) \/ Allows(journal, call[p])))
  /\ pc' = [pc EXCEPT ![p] = "unlocking"]
  /\ reply' = [reply EXCEPT ![p] = Failure]
  /\ UNCHANGED <<files, lockdir, now, call, pending, faults>>

Replay(p) ==
  /\ ReadyToDecide(p)
  /\ Readable /\ Replays(journal, call[p])
  /\ pc' = [pc EXCEPT ![p] = "unlocking"]
  /\ reply' = [reply EXCEPT ![p] = Ok(RecordedEvent(journal, call[p]))]
  /\ UNCHANGED <<files, lockdir, now, call, pending, faults>>

Decide(p) ==
  /\ ReadyToDecide(p)
  /\ Readable /\ ~Replays(journal, call[p]) /\ Allows(journal, call[p])
  /\ pc' = [pc EXCEPT ![p] = "appending"]
  /\ pending' = [pending EXCEPT ![p] = Decision(journal, call[p])]
  /\ UNCHANGED <<files, lockdir, now, call, reply, faults>>

-----------------------------------------------------------------------------
(* appendEvent: open for append, write the line, fsync.  What lands on an  *)
(* unterminated line shares that line with the event before it.            *)

WholeLine(ev) ==
  IF tail = "clean" THEN journal' = Append(journal, ev) /\ tail' = "clean"
                    ELSE journal' = journal /\ tail' = "garbled"

LineWithoutNewline(ev) ==
  IF tail = "clean" THEN journal' = Append(journal, ev) /\ tail' = "unterminated"
                    ELSE journal' = journal /\ tail' = "garbled"

PartOfLine == journal' = journal /\ tail' = "garbled"

NothingWritten == UNCHANGED <<journal, tail>>

AppendEvent(p) ==
  /\ pc[p] = "appending"
  /\ WholeLine(pending[p])
  /\ pc' = [pc EXCEPT ![p] = "unlocking"]
  /\ pending' = [pending EXCEPT ![p] = Null]
  /\ reply' = [reply EXCEPT ![p] = Ok(pending[p])]
  /\ UNCHANGED <<metadata, events_file, lockdir, now, call, faults>>

(* What an interrupted append may leave behind.                            *)
InterruptedWrite(ev) ==
  NothingWritten \/ PartOfLine \/ LineWithoutNewline(ev) \/ WholeLine(ev)

(* Mutant: the write error is swallowed. *)
AppendFails_Silent(p) ==
  /\ pc[p] = "appending"
  /\ faults < MaxFaults
  /\ InterruptedWrite(pending[p])
  /\ pc' = [pc EXCEPT ![p] = "unlocking"]
  /\ pending' = [pending EXCEPT ![p] = Null]
  /\ reply' = [reply EXCEPT ![p] = Ok(pending[p])]
  /\ faults' = faults + 1
  /\ UNCHANGED <<metadata, events_file, lockdir, now, call>>

(* The write or the fsync throws: the caller gets the exception, and the   *)
(* finally block still drops the lock.                                     *)
AppendFails(p) ==
  /\ pc[p] = "appending"
  /\ faults < MaxFaults
  /\ InterruptedWrite(pending[p])
  /\ pc' = [pc EXCEPT ![p] = "unlocking"]
  /\ pending' = [pending EXCEPT ![p] = Null]
  /\ reply' = [reply EXCEPT ![p] = Failure]
  /\ faults' = faults + 1
  /\ UNCHANGED <<metadata, events_file, lockdir, now, call>>

(* The removal is taken to succeed; a lock that stays is a crash's.        *)
ReleaseLock(p) ==
  /\ pc[p] = "unlocking"
  /\ lockdir' = Free
  /\ pc' = [pc EXCEPT ![p] = "idle"]
  /\ UNCHANGED <<files, now, call, pending, reply, faults>>

-----------------------------------------------------------------------------
(* The process dies and restarts with nothing in memory.  A lock directory *)
(* it had made stays, and nothing in the code removes it.                  *)
Crash(p) ==
  /\ pc[p] # "idle"
  /\ faults < MaxFaults
  /\ IF pc[p] = "appending" THEN InterruptedWrite(pending[p]) ELSE NothingWritten
  /\ lockdir' = IF lockdir = p THEN Orphan ELSE lockdir
  /\ pc' = [pc EXCEPT ![p] = "idle"]
  /\ call' = [call EXCEPT ![p] = NoCall]
  /\ pending' = [pending EXCEPT ![p] = Null]
  /\ reply' = [reply EXCEPT ![p] = NoReply]
  /\ faults' = faults + 1
  /\ UNCHANGED <<metadata, events_file, now>>

Tick ==
  /\ now < MaxTime
  /\ now' = now + 1
  /\ UNCHANGED <<files, lockdir, pc, call, pending, reply, faults>>

(* What the process's own event loop drives once a call has begun. *)
Step(p) ==
  \/ AcquireLock(p) \/ LockTimeout(p)
  \/ FindMetadata(p) \/ WriteMetadata(p) \/ EnsureEventsFile(p)
  \/ Refuse(p) \/ Replay(p) \/ Decide(p)
  \/ AppendEvent(p) \/ ReleaseLock(p)

Next ==
  \/ \E p \in Procs : BeginAny(p) \/ Step(p)
  \/ \E p \in Procs : InitializeFails(p) \/ AppendFails(p) \/ Crash(p)
  \/ Tick

Spec == Init /\ [][Next]_vars

(* A call that has begun is driven by timers and completed I/O, so its     *)
(* next step is never postponed for ever.                                  *)
Fairness == \A p \in Procs : WF_vars(Step(p))

FairSpec == Spec /\ Fairness
-----------------------------------------------------------------------------
(* The loader never rejects what the operations wrote: whatever the        *)
(* interleaving, the lines that parse are a contiguous, linked sequence of *)
(* legal transitions (loadLedgerState would not answer LEDGER_CORRUPT).    *)
JournalVerifies == Verifies(journal)

(* A decision is never stale when it is written: at the moment of the      *)
(* append the journal still is the one the decision was made on.  The code *)
(* decides in one step and writes in a later one; only the lock keeps the  *)
(* two together.                                                           *)
DecisionsFresh ==
  \A p \in Procs : pc[p] = "appending" =>
     /\ ~Replays(journal, call[p])
     /\ Allows(journal, call[p])
     /\ pending[p] = Decision(journal, call[p])

(* At most one process is between taking and dropping the lock. *)
Holding(p) == pc[p] \notin {"idle", "waiting"}

MutualExclusion == \A p \in Procs : Holding(p) => lockdir = p

(* Nonces, keys and authorization ids stay consumed after a release, over  *)
(* concurrent reservations, retries and crashes.                           *)
SingleUse ==
  LET st == StatusOf(journal)
  IN  \A e, f \in Envelopes :
        (st[e] # "absent" /\ st[f] # "absent" /\ e # f) =>
           /\ e.execution_nonce # f.execution_nonce
           /\ e.authorization_id # f.authorization_id
           /\ e.approval_nonce # Null => e.approval_nonce # f.approval_nonce
           /\ e.key # Null => e.key # f.key

(* Of the reservations an account still carries, those taken no later than *)
(* any one of them fit the remainder that one was authorized against: the  *)
(* account is not overspent by concurrent reservations.                    *)
CreatedBy(i, e) ==
  \E j \in 1..i : journal[j].type = "reservation_created" /\ journal[j].envelope = e

BudgetHeld ==
  LET st == StatusOf(journal)
  IN  \A i \in DOMAIN journal :
        LET e == journal[i].envelope
        IN  (journal[i].type = "reservation_created" /\ e.account # Null /\ Counts(st, e)) =>
              Cardinality(UnitsOf({f \in Holders(st, e.account) : CreatedBy(i, f)}))
                 <= e.remaining_before

(* A receipt the caller got is backed by the journal, unless the journal   *)
(* can no longer be read by anyone.                                        *)
ReceiptsBacked ==
  \A p \in Procs :
     (reply[p].code = "ok" /\ reply[p].event # Null /\ tail # "garbled") =>
        \E i \in DOMAIN journal : journal[i] = reply[p].event

(* Without faults, a ledger some call initialized can be used by every     *)
(* call after it, even while other processes initialize it too.            *)
InitializedIsUsable ==
  \A p \in Procs : reply[p] = Ok(Null) => Readable

(* A commit is recorded with a time before the envelope's expiry, and no   *)
(* reservation is released as expired before it.                           *)
RecordedInTime ==
  \A i \in DOMAIN journal :
     LET ev == journal[i]
     IN  /\ ev.type \in {"reservation_created", "dispatch_committed"} =>
              ~Expired(ev.envelope, ev.occurred_at)
         /\ ev.reason = "expired" => Expired(ev.envelope, ev.occurred_at)

(* Fail closed: once a line does not parse nothing more is recorded, and   *)
(* no process obtains a receipt it did not have.                           *)
FailsClosed ==
  [][tail = "garbled" =>
       /\ journal' = journal /\ tail' = tail
       /\ \A p \in Procs : reply'[p] # reply[p] => reply'[p].event = Null]_vars

(* A lock directory left by a dead process stops every writer and is never *)
(* taken over: nothing on disk changes any more.                           *)
OrphanedLockFreezes ==
  [][lockdir = Orphan => UNCHANGED <<files, lockdir>>]_vars

(* The durable, concurrent, crash-prone ledger is a ledger of atomic       *)
(* reservations, dispatches and releases.                                  *)
Abstract == INSTANCE AbstractLedger WITH status <- StatusOf(journal)

ImplementsAbstractLedger == Abstract!Spec

(* Every call that has begun returns, with a result or an exception, even  *)
(* when a dead process left the lock taken.                                *)
CallsReturn == \A p \in Procs : (pc[p] # "idle") ~> (pc[p] = "idle")
=============================================================================
