------------------------- MODULE LedgerTransactions -------------------------
(***************************************************************************)
(* Three commands of the court runtime do not use the paired write: they   *)
(* write tasks.json and court_events.jsonl one after the other under the   *)
(* runtime lock and keep a marker of their own from which an interrupted   *)
(* run is finalized or rolled back later.                                  *)
(*                                                                         *)
(*   Completion  complete_task_atomically: one marker per task, recovered  *)
(*               by the next completion of the same task;                  *)
(*   Review      _result_recovery_commit_locked: one marker per operation, *)
(*               recovered by an explicit command;                         *)
(*   Paired      _paired_ledger_commit: marker and journal per operation,  *)
(*               recovered by an explicit command that checks for conflict.*)
(*                                                                         *)
(* Every other command commits with the paired write, which LedgerPair     *)
(* shows to be one indivisible step: PlainCommit.  The runtime lock lets   *)
(* one command run at a time, so `pc' is the progress of its owner.        *)
(***************************************************************************)
EXTENDS Naturals, Sequences, SequencesExt

CONSTANTS Completion, Review, Paired,   \* transactions, by protocol
          Plain,                        \* mutations of all other commands
          Garbled,                      \* an event line no reader can parse
          NoTxn,                        \* no transaction is running
          MaxCrashes                    \* bound: commands that end half way

Txn == Completion \cup Review \cup Paired

ASSUME DisjointKinds ==
    /\ Completion \cap Review = {}
    /\ (Completion \cup Review) \cap Paired = {}
    /\ Plain \cap Txn = {}
    /\ Garbled \notin Txn \cup Plain
    /\ NoTxn \notin Txn
    /\ MaxCrashes \in Nat

VARIABLES
    tasks,                   \* tasks.json: the mutations it shows
    events, torn,            \* the event log: lines, pieces of an unfinished one
    marker,                  \* each transaction's crash marker
    journal,                 \* each paired operation's journal phase
    pc, cur,                 \* progress and transaction of the lock's owner
    retry,                   \* TRUE: after recovering, run the completion
    acked,                   \* history: plain mutations reported committed
    overlapped,              \* history: whose marker existed with another one
    crashes                  \* commands that ended half way (bound only)

ledgers == <<tasks, events, torn>>
control == <<pc, cur, retry>>
history == <<acked, overlapped, crashes>>
vars == <<ledgers, marker, journal, control, history>>

Absent == [phase |-> "absent", preTasks |-> <<>>, preEvents |-> <<>>, preTorn |-> 0,
           postTasks |-> <<>>, postEvents |-> <<>>]
Marked(x) == marker[x].phase # "absent"

Init == /\ tasks = <<>>
        /\ events = <<>>
        /\ torn = 0
        /\ marker = [x \in Txn |-> Absent]
        /\ journal = [x \in Paired |-> "none"]
        /\ pc = "free"
        /\ cur = NoTxn
        /\ retry = FALSE
        /\ acked = {}
        /\ overlapped = {}
        /\ crashes = 0

Step(from, to) == /\ pc = from
                  /\ pc' = to
                  /\ UNCHANGED <<cur, retry>>

Unlock == /\ pc' = "free"
          /\ cur' = NoTxn
          /\ retry' = FALSE

\* append_event; behind an unfinished tail the new line is not parseable.
AppendLine(e) == /\ events' = Append(events, IF torn > 0 THEN Garbled ELSE e)
                 /\ torn' = 0

-----------------------------------------------------------------------------
(* write_journal                                                           *)

PhaseOrder == [none |-> 0, PREPARED |-> 10, TASK_WRITTEN |-> 40, EVENT_WRITTEN |-> 50,
               COMMITTED |-> 60, ROLLED_BACK |-> 60]

JournalAccepts(x, phase) ==
    /\ journal[x] = "ROLLED_BACK" => phase = "ROLLED_BACK"
    /\ phase # "ROLLED_BACK" => PhaseOrder[phase] >= PhaseOrder[journal[x]]

\* Only the paired protocol keeps a journal; a refused phase raises.
Journal(x, phase) ==
    IF x \in Paired
    THEN /\ JournalAccepts(x, phase)
         /\ journal' = [journal EXCEPT ![x] = phase]
    ELSE journal' = journal

-----------------------------------------------------------------------------
(* The forward protocol                                                    *)

PlainCommit(m) == /\ pc = "free"
                  /\ m \notin Range(tasks) \cup acked
                  /\ tasks' = Append(tasks, m)
                  /\ AppendLine(m)
                  /\ acked' = acked \cup {m}
                  /\ UNCHANGED <<marker, journal, control, overlapped, crashes>>

\* A marker left behind is recovered first by a completion, and refused by
\* the other two; work already shown by tasks.json is not done again.
Begin(x) == /\ pc = "free"
            /\ cur' = x
            /\ IF Marked(x)
               THEN /\ x \in Completion
                    /\ pc' = "recovering"
                    /\ retry' = TRUE
               ELSE /\ x \notin Range(tasks)
                    /\ pc' = "begun"
                    /\ retry' = FALSE
            /\ UNCHANGED <<ledgers, marker, journal, history>>

\* The completion it just recovered turned out to be done.
NothingLeft == /\ pc = "begun"
               /\ cur \in Range(tasks)
               /\ Unlock
               /\ UNCHANGED <<ledgers, marker, journal, history>>

WriteMarker == /\ Step("begun", "marked")
               /\ cur \notin Range(tasks)
               /\ marker' = [marker EXCEPT ![cur] =
                     [Absent EXCEPT !.phase = "PREPARED", !.preTasks = tasks,
                                    !.preEvents = events, !.preTorn = torn]]
               /\ LET waiting == {y \in Txn \ {cur} : Marked(y)} IN
                  overlapped' = IF waiting = {} THEN overlapped
                                ELSE overlapped \cup waiting \cup {cur}
               /\ UNCHANGED <<ledgers, journal, acked, crashes>>

\* operation_phase_regression: an operation that was rolled back, or has
\* committed, cannot start again; its new marker stays.
JournalRefuses == /\ pc = "marked"
                  /\ cur \in Paired
                  /\ ~JournalAccepts(cur, "PREPARED")
                  /\ Unlock
                  /\ UNCHANGED <<ledgers, marker, journal, history>>

\* A paired operation tasks.json already shows repeats its receipt.
Replay(x) == /\ pc = "free"
             /\ x \in Paired \cap Range(tasks)
             /\ ~Marked(x)
             /\ Journal(x, "COMMITTED")
             /\ UNCHANGED <<ledgers, marker, control, history>>

JournalPrepared == /\ Step("marked", "prepared")
                   /\ Journal(cur, "PREPARED")
                   /\ UNCHANGED <<ledgers, marker, history>>

WriteTasks == /\ Step("prepared", "tasked")
              /\ tasks' = Append(tasks, cur)
              /\ UNCHANGED <<events, torn, marker, journal, history>>

MarkTasks == /\ Step("tasked", "taskMarked")
             /\ marker' = [marker EXCEPT ![cur] =
                              [@ EXCEPT !.phase = "TASK_WRITTEN", !.postTasks = tasks]]
             /\ UNCHANGED <<ledgers, journal, history>>

JournalTasks == /\ Step("taskMarked", "appending")
                /\ Journal(cur, "TASK_WRITTEN")
                /\ UNCHANGED <<ledgers, marker, history>>

AppendEvent == /\ Step("appending", "appended")
               /\ AppendLine(cur)
               /\ UNCHANGED <<tasks, marker, journal, history>>

\* The append stops in the middle of the line.
TearEvent == /\ Step("appending", "tearing")
             /\ torn' = torn + 1
             /\ UNCHANGED <<tasks, events, marker, journal, history>>

MarkEvent == /\ Step("appended", "eventMarked")
             /\ marker' = [marker EXCEPT ![cur] =
                              [@ EXCEPT !.phase = "EVENT_WRITTEN", !.postEvents = events]]
             /\ UNCHANGED <<ledgers, journal, history>>

JournalEvent == /\ Step("eventMarked", "journaled")
                /\ Journal(cur, "EVENT_WRITTEN")
                /\ UNCHANGED <<ledgers, marker, history>>

JournalCommitted == /\ Step("journaled", "committed")
                    /\ Journal(cur, "COMMITTED")
                    /\ UNCHANGED <<ledgers, marker, history>>

RemoveMarker == /\ pc = "committed"
                /\ marker' = [marker EXCEPT ![cur] = Absent]
                /\ Unlock
                /\ UNCHANGED <<ledgers, journal, history>>

Forward == {"marked", "prepared", "tasked", "taskMarked", "appending", "tearing",
            "appended", "eventMarked", "journaled", "committed"}
Backward == {"recovering", "restoring", "truncating", "restored", "finalizing", "clearing"}

\* An error after the marker: a completion recovers itself, then re-raises.
CompletionRaises == /\ pc \in Forward
                    /\ cur \in Completion
                    /\ pc' = "recovering"
                    /\ retry' = FALSE
                    /\ UNCHANGED <<cur, ledgers, marker, journal, history>>

\* The process dies, or an error leaves one of the other two commands.
Abandon == /\ pc \in Forward \cup Backward \cup {"begun"}
           /\ crashes < MaxCrashes
           /\ crashes' = crashes + 1
           /\ Unlock
           /\ UNCHANGED <<ledgers, marker, journal, acked, overlapped>>

-----------------------------------------------------------------------------
(* Recovery                                                                *)

\* recover_result_recovery_operation, recover_paired_operation.
Recover(x) == /\ pc = "free"
              /\ x \in Review \cup Paired
              /\ Marked(x)
              /\ pc' = "recovering"
              /\ cur' = x
              /\ retry' = FALSE
              /\ UNCHANGED <<ledgers, marker, journal, history>>

\* The ledgers are byte for byte what the finished transaction left; the
\* paired protocol also parses every line to find its event.
PostImage(x) == /\ marker[x].phase = "EVENT_WRITTEN"
                /\ tasks = marker[x].postTasks
                /\ events = marker[x].postEvents
                /\ torn = 0
                /\ x \in Paired => Garbled \notin Range(events)

\* Mutant: events appended since the marker do not count as a conflict.
EventsExtendPreImage(x) == /\ IsPrefix(marker[x].preEvents, events)
                           /\ torn = marker[x].preTorn

EventsArePreImage(x) == /\ events = marker[x].preEvents
                        /\ torn = marker[x].preTorn

\* When each protocol goes back to the images taken before the transaction.
MayRestore(x) ==
    \/ x \in Completion /\ ~PostImage(x)
    \/ x \in Review /\ marker[x].phase \in {"PREPARED", "TASK_WRITTEN"}
    \/ /\ x \in Paired /\ EventsArePreImage(x)
       /\ \/ marker[x].phase = "PREPARED" /\ tasks = marker[x].preTasks
          \/ marker[x].phase = "TASK_WRITTEN" /\ tasks = marker[x].postTasks

Finalize == /\ Step("recovering", "finalizing")
            /\ PostImage(cur)
            /\ UNCHANGED <<ledgers, marker, journal, history>>

Restore == /\ Step("recovering", "restoring")
           /\ MayRestore(cur)
           /\ UNCHANGED <<ledgers, marker, journal, history>>

\* result_recovery_journal_corrupt, RECOVERY_CONFLICT: the marker stays.
RecoveryConflict == /\ pc = "recovering"
                    /\ ~PostImage(cur)
                    /\ ~MayRestore(cur)
                    /\ Unlock
                    /\ UNCHANGED <<ledgers, marker, journal, history>>

\* Mutant: the wrong image is put back.
RestoreTasksFromEvents == /\ Step("restoring", "truncating")
                          /\ tasks' = marker[cur].preEvents
                          /\ UNCHANGED <<events, torn, marker, journal, history>>

RestoreTasks == /\ Step("restoring", "truncating")
                /\ tasks' = marker[cur].preTasks
                /\ UNCHANGED <<events, torn, marker, journal, history>>

\* Mutant: an unfinished line is not cut off.
RestoreEventLines == /\ Step("truncating", "restored")
                     /\ events' = marker[cur].preEvents
                     /\ UNCHANGED <<tasks, torn, marker, journal, history>>

RestoreEvents == /\ Step("truncating", "restored")
                 /\ events' = marker[cur].preEvents
                 /\ torn' = marker[cur].preTorn
                 /\ UNCHANGED <<tasks, marker, journal, history>>

\* Mutant: every recovery closes the journal as committed.
JournalRecoveredCommitted == /\ \/ Step("restored", "clearing")
                                \/ Step("finalizing", "clearing")
                             /\ Journal(cur, "COMMITTED")
                             /\ UNCHANGED <<ledgers, marker, history>>

JournalRecovered == /\ \/ /\ Step("restored", "clearing")
                          /\ Journal(cur, "ROLLED_BACK")
                       \/ /\ Step("finalizing", "clearing")
                          /\ Journal(cur, "COMMITTED")
                    /\ UNCHANGED <<ledgers, marker, history>>

ClearMarker == /\ pc = "clearing"
               /\ marker' = [marker EXCEPT ![cur] = Absent]
               /\ IF retry THEN pc' = "begun" /\ UNCHANGED <<cur, retry>>
                           ELSE Unlock
               /\ UNCHANGED <<ledgers, journal, history>>

-----------------------------------------------------------------------------
Commit == \/ NothingLeft \/ WriteMarker \/ JournalPrepared \/ JournalRefuses \/ WriteTasks \/ MarkTasks
          \/ JournalTasks \/ AppendEvent \/ TearEvent \/ MarkEvent \/ JournalEvent
          \/ JournalCommitted \/ RemoveMarker
Undo == \/ Finalize \/ Restore \/ RecoveryConflict \/ RestoreTasks \/ RestoreEvents
        \/ JournalRecovered \/ ClearMarker

Next == \/ \E m \in Plain : PlainCommit(m)
        \/ \E x \in Txn : Begin(x) \/ Replay(x) \/ Recover(x)
        \/ Commit \/ CompletionRaises \/ Abandon
        \/ Undo

Spec == Init /\ [][Next]_vars

-----------------------------------------------------------------------------
(* Properties                                                              *)

Entry == Txn \cup Plain
Line == Entry \cup {Garbled}
Marker == [phase : {"absent", "PREPARED", "TASK_WRITTEN", "EVENT_WRITTEN"}, preTorn : Nat,
           preTasks : Seq(Entry), preEvents : Seq(Line),
           postTasks : Seq(Entry), postEvents : Seq(Line)]

\* Types of all variables; an unfinished line has a piece for each death at most.
TypeOK ==
    /\ tasks \in Seq(Entry)
    /\ events \in Seq(Line)
    /\ torn \in 0..(MaxCrashes + 1)
    /\ marker \in [Txn -> Marker]
    /\ journal \in [Paired -> DOMAIN PhaseOrder]
    /\ pc \in {"free", "begun"} \cup Forward \cup Backward
    /\ cur \in Txn \cup {NoTxn}
    /\ retry \in BOOLEAN
    /\ acked \subseteq Plain
    /\ overlapped \subseteq Txn
    /\ crashes \in 0..MaxCrashes

Settled == /\ pc = "free"
           /\ \A x \in Txn : ~Marked(x)

\* As long as no transaction starts while another one's marker is waiting, a
\* settled pair of ledgers tells one history: crashes at any point, even
\* inside a recovery, leave no transaction half done once it is recovered.
SettledLedgersAgree == (Settled /\ overlapped = {}) => /\ tasks = events
                                                   /\ torn = 0

TakesBackOnly(x) == /\ UNCHANGED <<events, torn>>
                    /\ tasks' = tasks \/ tasks = Append(tasks', x)

\* The conflict checks of recover_paired_operation protect everybody else: a
\* rollback takes back its own mutation, if anything, and no event.
PairedRollbackTakesOnlyItsOwn ==
    [][(pc \in Backward /\ cur \in Paired) => TakesBackOnly(cur)]_vars

\* A journal that says COMMITTED speaks of an operation tasks.json shows, one
\* that says ROLLED_BACK of an operation it does not show, now and later and
\* whatever paired operations overlap; only a completion or a result recovery
\* that waited next to another marker may restore images from before.
JournalTellsTheTruth ==
    overlapped \subseteq Paired =>
        \A x \in Paired : /\ journal[x] = "COMMITTED" => x \in Range(tasks)
                          /\ journal[x] = "ROLLED_BACK" => x \notin Range(tasks)

\* The event log is authoritative: what a command reported as committed stays.
CommittedStays == acked \subseteq Range(tasks)

=============================================================================
