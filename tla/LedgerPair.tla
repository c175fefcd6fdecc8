----------------------------- MODULE LedgerPair -----------------------------
(***************************************************************************)
(* The paired ledger write of the court runtime.  A command runs inside    *)
(* runtime_lock; entering it recovers an interrupted pair.  The command    *)
(* loads tasks.json, decides on one mutation, and ledger_pair_write        *)
(* commits it: rollback marker, tasks.json, event line, verification,      *)
(* marker removal.  Any step can raise, the process can die between any    *)
(* two steps (the operating system then drops its lock), an event line can *)
(* be left half written, and readers look at the files without the lock.   *)
(*                                                                         *)
(* Data: a task document is the sequence of mutations that produced it     *)
(* (an absent file is the empty one); the event file is its complete lines *)
(* plus `torn', TRUE while an incomplete line ends it.                     *)
(***************************************************************************)
EXTENDS Naturals, Sequences, SequencesExt

CONSTANTS Proc,              \* processes running court commands
          NoProc,            \* nobody: the lock is free
          Reader,            \* processes that read without the lock
          Mutation,          \* the changes a command can commit
          ForeignDoc,        \* bytes of tasks.json that no pair write produced
          MaxCommits,        \* bound: lines the event log may reach
          MaxEdits           \* bound: outside edits of tasks.json

ASSUME ConstantsAssumption ==
    /\ NoProc \notin Proc
    /\ Mutation # {}
    /\ ForeignDoc \notin Seq(Mutation)
    /\ MaxCommits \in Nat
    /\ MaxEdits \in Nat

VARIABLES
    tasks,                   \* tasks.json
    events, torn,            \* court_events.jsonl: its lines, an unfinished tail
    pending, marker,         \* ledger-pair.rollback.json: present?, its record
    lock,                    \* owner of runtime.lock
    pc,                      \* where each command is
    doc,                     \* the task document a command loaded
    want,                    \* the mutation a command is committing
    result,                  \* how the command's write ended
    rpc,                     \* readers: progress,
    seenTasks, seenEvents,   \* and the contents of the two files they hold
    edits                    \* outside edits so far (bound only)

files == <<tasks, events, torn, pending, marker>>
local == <<doc, want, result>>
readers == <<rpc, seenTasks, seenEvents>>
vars == <<files, lock, pc, local, readers, edits>>

Doc == Seq(Mutation)
Marker == [before : Doc, after : Doc, size : Nat, line : Mutation]
SomeMutation == CHOOSE m \in Mutation : TRUE
BlankMarker == [before |-> <<>>, after |-> <<>>, size |-> 0, line |-> SomeMutation]

Outside == {"idle", "waiting"}
Writing == {"marked", "tasked", "tearing", "evented", "verified"}
Recovering == {"restoring", "truncating", "unlinking"}
Inside == {"entered", "open", "prepared", "failed", "leaving"}
              \cup Writing \cup Recovering

Init == /\ tasks = <<>>
        /\ events = <<>>
        /\ torn = FALSE
        /\ pending = FALSE
        /\ marker = BlankMarker
        /\ lock = NoProc
        /\ pc = [p \in Proc |-> "idle"]
        /\ doc = [p \in Proc |-> <<>>]
        /\ want = [p \in Proc |-> SomeMutation]
        /\ result = [p \in Proc |-> "none"]
        /\ rpc = [r \in Reader |-> "idle"]
        /\ seenTasks = [r \in Reader |-> <<>>]
        /\ seenEvents = [r \in Reader |-> <<>>]
        /\ edits = 0

Goto(p, from, to) == /\ pc[p] = from
                     /\ pc' = [pc EXCEPT ![p] = to]

-----------------------------------------------------------------------------
(* runtime_lock                                                            *)

Start(p) == /\ Goto(p, "idle", "waiting")
            /\ UNCHANGED <<files, lock, local, readers, edits>>

Acquire(p) == /\ lock = NoProc
              /\ Goto(p, "waiting", "entered")
              /\ lock' = p
              /\ UNCHANGED <<files, local, readers, edits>>

\* Mutant: the deadline is never looked at.
NeverTimeOut(p) == /\ lock # NoProc
                   /\ Goto(p, "waiting", "waiting")
                   /\ UNCHANGED <<files, lock, local, readers, edits>>

\* The deadline passes while another process owns the lock: TimeoutError.
TimeOut(p) == /\ lock # NoProc
              /\ Goto(p, "waiting", "idle")
              /\ UNCHANGED <<files, lock, local, readers, edits>>

\* The locals of a command end with it.
Forget(p) == /\ doc' = [doc EXCEPT ![p] = <<>>]
             /\ want' = [want EXCEPT ![p] = SomeMutation]
             /\ result' = [result EXCEPT ![p] = "none"]

Release(p) == /\ Goto(p, "leaving", "idle")
              /\ lock' = NoProc
              /\ Forget(p)
              /\ UNCHANGED <<files, readers, edits>>

-----------------------------------------------------------------------------
(* recover_ledger_pair                                                     *)

TailIsPrefixOfLine ==
    \/ Len(events) = marker.size
    \/ /\ Len(events) = marker.size + 1
       /\ events[Len(events)] = marker.line
       /\ ~torn

\* Mutant: only the event tail is compared before a recovery.
RecoverableTail == TailIsPrefixOfLine

Recoverable == /\ tasks \in {marker.before, marker.after}
               /\ TailIsPrefixOfLine

\* Entering with recover=True and a marker that validates.
EnterRecover(p) == /\ pending
                   /\ Recoverable
                   /\ Goto(p, "entered", "restoring")
                   /\ UNCHANGED <<files, lock, local, readers, edits>>

\* ledger_pair_recovery_conflict: nothing is restored.
EnterConflict(p) == /\ pending
                    /\ ~Recoverable
                    /\ Goto(p, "entered", "leaving")
                    /\ UNCHANGED <<files, lock, local, readers, edits>>

\* recover=False with a marker present: ledger_pair_recovery_required.
EnterReadOnly(p) == /\ pending
                    /\ Goto(p, "entered", "leaving")
                    /\ UNCHANGED <<files, lock, local, readers, edits>>

EnterClean(p) == /\ ~pending
                 /\ Goto(p, "entered", "open")
                 /\ UNCHANGED <<files, lock, local, readers, edits>>

\* Mutant: the recovery restores the state before there was a task.
RestoreNoTasks(p) == /\ Goto(p, "restoring", "truncating")
                     /\ tasks' = <<>>
                     /\ UNCHANGED <<events, torn, pending, marker>>
                     /\ UNCHANGED <<lock, local, readers, edits>>

RestoreTasks(p) == /\ Goto(p, "restoring", "truncating")
                   /\ tasks' = marker.before
                   /\ UNCHANGED <<events, torn, pending, marker>>
                   /\ UNCHANGED <<lock, local, readers, edits>>

\* Mutant: only whole lines are cut off, a torn one is left.
TruncateLines(p) == /\ Goto(p, "truncating", "unlinking")
                    /\ events' = SubSeq(events, 1, marker.size)
                    /\ UNCHANGED <<tasks, torn, pending, marker>>
                    /\ UNCHANGED <<lock, local, readers, edits>>

TruncateEvents(p) == /\ Goto(p, "truncating", "unlinking")
                     /\ events' = SubSeq(events, 1, marker.size)
                     /\ torn' = FALSE
                     /\ UNCHANGED <<tasks, pending, marker>>
                     /\ UNCHANGED <<lock, local, readers, edits>>

\* The recovery ends; a command that recovered its own failed write re-raises.
UnlinkRecovered(p) ==
    /\ Goto(p, "unlinking", IF result[p] = "failed" THEN "leaving" ELSE "open")
    /\ pending' = FALSE
    /\ marker' = BlankMarker
    /\ UNCHANGED <<tasks, events, torn, lock, local, readers, edits>>

\* Mutant: the marker is removed even when the recovery fails.
RecoveryRaisesUnmarked(p) == /\ \E s \in Recovering : Goto(p, s, "leaving")
                             /\ pending' = FALSE
                             /\ marker' = BlankMarker
                             /\ UNCHANGED <<tasks, events, torn>>
                             /\ UNCHANGED <<lock, local, readers, edits>>

\* An I/O error inside the recovery propagates and leaves the marker.
RecoveryRaises(p) == /\ \E s \in Recovering : Goto(p, s, "leaving")
                     /\ UNCHANGED <<files, lock, local, readers, edits>>

-----------------------------------------------------------------------------
(* The command body and ledger_pair_write                                  *)

\* The handler loads the document and settles on a mutation ...
Prepare(p) == /\ Len(tasks) < MaxCommits
              /\ Goto(p, "open", "prepared")
              /\ doc' = [doc EXCEPT ![p] = tasks]
              /\ \E m \in Mutation : want' = [want EXCEPT ![p] = m]
              /\ UNCHANGED <<files, lock, result, readers, edits>>

\* ... or a guard of the handler refuses, or it only replays or inspects.
Decline(p) == /\ Goto(p, "open", "leaving")
              /\ UNCHANGED <<files, lock, local, readers, edits>>

\* Mutant: the event size is taken one short.
WriteMarkerShort(p) ==
    /\ ~pending
    /\ Goto(p, "prepared", "marked")
    /\ pending' = TRUE
    /\ marker' = [before |-> tasks, after |-> Append(doc[p], want[p]),
                  size |-> Len(events) - 1, line |-> want[p]]
    /\ UNCHANGED <<tasks, events, torn, lock, local, readers, edits>>

WriteMarker(p) == /\ ~pending
                  /\ Goto(p, "prepared", "marked")
                  /\ pending' = TRUE
                  /\ marker' = [before |-> tasks, after |-> Append(doc[p], want[p]),
                                size |-> Len(events), line |-> want[p]]
                  /\ UNCHANGED <<tasks, events, torn, lock, local, readers, edits>>

WriteTasks(p) == /\ Goto(p, "marked", "tasked")
                 /\ tasks' = Append(doc[p], want[p])
                 /\ UNCHANGED <<events, torn, pending, marker>>
                 /\ UNCHANGED <<lock, local, readers, edits>>

\* append_event writes a first part of the line, then the rest and the newline.
TearEvent(p) == /\ Goto(p, "tasked", "tearing")
                /\ torn' = TRUE
                /\ UNCHANGED <<tasks, events, pending, marker>>
                /\ UNCHANGED <<lock, local, readers, edits>>

FinishEvent(p) == /\ Goto(p, "tearing", "evented")
                  /\ events' = Append(events, want[p])
                  /\ torn' = FALSE
                  /\ UNCHANGED <<tasks, pending, marker>>
                  /\ UNCHANGED <<lock, local, readers, edits>>

PairComplete == /\ tasks = marker.after
                /\ Len(events) = marker.size + 1
                /\ events[Len(events)] = marker.line
                /\ ~torn

Verify(p) == /\ PairComplete
             /\ Goto(p, "evented", "verified")
             /\ UNCHANGED <<files, lock, local, readers, edits>>

\* The removal of the marker is the commit point.
UnlinkCommitted(p) == /\ Goto(p, "verified", "leaving")
                      /\ pending' = FALSE
                      /\ marker' = BlankMarker
                      /\ result' = [result EXCEPT ![p] = "committed"]
                      /\ UNCHANGED <<tasks, events, torn, lock, doc, want, readers, edits>>

\* Mutant: the error of the marker's removal is swallowed.
UnlinkErrorSwallowed(p) ==
    /\ Goto(p, "verified", "leaving")
    /\ result' = [result EXCEPT ![p] = "committed"]
    /\ UNCHANGED <<files, lock, doc, want, readers, edits>>

\* The marker could not be removed: the error leaves it in place.
UnlinkRaises(p) == /\ Goto(p, "verified", "leaving")
                   /\ result' = [result EXCEPT ![p] = "failed"]
                   /\ UNCHANGED <<files, lock, doc, want, readers, edits>>

\* The body raises, or the verification finds ledger_pair_commit_incomplete.
WriteRaises(p) == /\ \E s \in {"marked", "tasked", "tearing", "evented"} :
                        Goto(p, s, "failed")
                  /\ result' = [result EXCEPT ![p] = "failed"]
                  /\ UNCHANGED <<files, lock, doc, want, readers, edits>>

RecoverOwn(p) == /\ Goto(p, "failed", IF Recoverable THEN "restoring" ELSE "leaving")
                 /\ UNCHANGED <<files, lock, local, readers, edits>>

\* The process dies; the kernel closes its descriptors and drops the lock.
Crash(p) == /\ pc[p] \in Inside
            /\ pc' = [pc EXCEPT ![p] = "idle"]
            /\ lock' = NoProc
            /\ Forget(p)
            /\ UNCHANGED <<files, readers, edits>>

-----------------------------------------------------------------------------
(* Readers without the lock: load_tasks, then read_events                  *)

CheckTasks(r) == /\ rpc[r] = "idle"
                 /\ ~pending
                 /\ rpc' = [rpc EXCEPT ![r] = "tasks"]
                 /\ UNCHANGED <<files, lock, pc, local, seenTasks, seenEvents, edits>>

ReadTasks(r) == /\ rpc[r] = "tasks"
                /\ rpc' = [rpc EXCEPT ![r] = "loaded"]
                /\ seenTasks' = [seenTasks EXCEPT ![r] = tasks]
                /\ UNCHANGED <<files, lock, pc, local, seenEvents, edits>>

CheckEvents(r) == /\ rpc[r] = "loaded"
                  /\ rpc' = [rpc EXCEPT ![r] = IF pending THEN "idle" ELSE "events"]
                  /\ UNCHANGED <<files, lock, pc, local, seenTasks, seenEvents, edits>>

ReadEvents(r) == /\ rpc[r] = "events"
                 /\ rpc' = [rpc EXCEPT ![r] = "idle"]
                 /\ seenEvents' = [seenEvents EXCEPT ![r] = events]
                 /\ UNCHANGED <<files, lock, pc, local, seenTasks, edits>>

-----------------------------------------------------------------------------
(* Someone edits tasks.json by hand after a crash, and may undo the edit.  *)

EditTasks == /\ lock = NoProc
             /\ pending
             /\ tasks # ForeignDoc
             /\ edits < MaxEdits
             /\ tasks' = ForeignDoc
             /\ edits' = edits + 1
             /\ UNCHANGED <<events, torn, pending, marker, lock, pc, local, readers>>

UndoEdit == /\ lock = NoProc
            /\ tasks = ForeignDoc
            /\ tasks' \in {marker.before, marker.after}
            /\ UNCHANGED <<events, torn, pending, marker, lock, pc, local, readers, edits>>

-----------------------------------------------------------------------------
Recover(p) == \/ EnterRecover(p) \/ EnterConflict(p) \/ EnterReadOnly(p)
              \/ EnterClean(p)
              \/ RestoreTasks(p) \/ TruncateEvents(p) \/ UnlinkRecovered(p)
              \/ RecoveryRaises(p)

Write(p) == \/ Prepare(p) \/ Decline(p) \/ WriteMarker(p) \/ WriteTasks(p)
            \/ TearEvent(p) \/ FinishEvent(p) \/ Verify(p)
            \/ UnlinkCommitted(p) \/ UnlinkRaises(p)
            \/ WriteRaises(p) \/ RecoverOwn(p)

\* What a live process does once it asked for the lock.
Proceed(p) == \/ Acquire(p) \/ TimeOut(p) \/ Recover(p) \/ Write(p) \/ Release(p)

Read(r) == \/ CheckTasks(r) \/ ReadTasks(r) \/ CheckEvents(r) \/ ReadEvents(r)

Next == \/ \E p \in Proc : Start(p) \/ Proceed(p) \/ Crash(p)
        \/ \E r \in Reader : Read(r)
        \/ EditTasks
        \/ UndoEdit

Spec == Init /\ [][Next]_vars

\* A process that has called runtime_lock keeps being scheduled.
FairSpec == Spec /\ \A p \in Proc : WF_vars(Proceed(p))

-----------------------------------------------------------------------------
(* Properties                                                              *)

TypeOK ==
    /\ tasks \in Doc \cup {ForeignDoc}
    /\ events \in Doc
    /\ torn \in BOOLEAN
    /\ pending \in BOOLEAN
    /\ marker \in Marker
    /\ lock \in Proc \cup {NoProc}
    /\ pc \in [Proc -> Outside \cup Inside]
    /\ doc \in [Proc -> Doc]
    /\ want \in [Proc -> Mutation]
    /\ result \in [Proc -> {"none", "committed", "failed"}]
    /\ rpc \in [Reader -> {"idle", "tasks", "loaded", "events"}]
    /\ seenTasks \in [Reader -> Doc \cup {ForeignDoc}]
    /\ seenEvents \in [Reader -> Doc]
    /\ edits \in 0..MaxEdits

\* Without a marker the two files tell the same history and the event log ends
\* at a line end: no crash, error or interrupted recovery separates them.
LedgersAgree == ~pending => /\ tasks = events
                            /\ ~torn

\* What the ledgers hold once an interrupted write is undone.
CommittedTasks == IF pending THEN marker.before ELSE tasks
CommittedEvents == IF pending THEN SubSeq(events, 1, marker.size) ELSE events

\* ledger_pair_write is all or nothing to its caller: a command that returns
\* has its mutation on top of the document it loaded, and one whose write
\* raised (even one that could not undo it at once) has changed nothing.
OutcomeIsHonest ==
    \A p \in Proc : pc[p] = "leaving" =>
        /\ result[p] = "committed" => CommittedTasks = Append(doc[p], want[p])
        /\ result[p] = "failed" => CommittedTasks = doc[p]

\* No recovery writes over bytes of tasks.json that the pair did not write.
ForeignEditKept == [][tasks = ForeignDoc => tasks' = ForeignDoc \/ UndoEdit]_vars

\* The pair protocol implements one indivisible, irrevocable change of both
\* ledgers, whatever crashes and errors interrupt it.
Atomic == INSTANCE AtomicLedger WITH tasks <- CommittedTasks,
                                     events <- CommittedEvents
RefinesAtomicLedger == Atomic!Spec

\* A command that asks for the runtime lock ends: it commits, is refused,
\* fails or times out, and never hangs behind the others.
EveryCommandEnds == \A p \in Proc : pc[p] = "waiting" ~> pc[p] = "idle"

\* A reader without the lock can be given a mutation that is rolled back
\* afterwards, but one at most, on top of what is committed for good: no crash
\* or error lets a second write start before the first is undone.
ReadersAreOneAhead ==
    \A r \in Reader : \A seen \in {seenTasks[r], seenEvents[r]} :
        seen # ForeignDoc => IsPrefix(Front(seen), CommittedTasks)

=============================================================================
