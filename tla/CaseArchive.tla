---------------------------- MODULE CaseArchive ----------------------------
(***************************************************************************)
(* How accepted cases reach the Shiguan: archive_and_record_task, the      *)
(* archiver, runs the archive producer (archive_checkpoint.py) in a        *)
(* process of its own, compares the receipt it printed with the one it     *)
(* left in a cache file, and records it on the task.  Two stores are       *)
(* written one after the other, the archive block and the index row, and a *)
(* third, the runtime ledger, only accepts a receipt that it finds again   *)
(* in the index.  Notes, memory rebuilds and new charters share the same   *)
(* index.  Either process can die alone: a producer that outlives its      *)
(* archiver goes on, while the locks of the archiver are free again.       *)
(*                                                                         *)
(* Data: the court code of a case is the case; a block, a row or a receipt *)
(* is identified by the time it carries, which is taken to be different    *)
(* for every append; an assessment is the charter revision it accepts.     *)
(***************************************************************************)
EXTENDS Naturals, FiniteSets

CONSTANTS Cases,             \* accepted, case-bound tasks and their court codes
          Archivers,         \* archivers; each has room for one producer at a time
          NoReceipt,
          MaxRevision,       \* bound: charter revisions of a case
          MaxNotes,          \* bound: light notes of a session
          MaxLosses,         \* bound: deaths of a process and failed deliveries
          MaxRebuilds        \* bound: rebuilds of the index

ASSUME SomebodyAssumption == Cases # {} /\ Archivers # {}
ASSUME ReceiptAssumption == NoReceipt \notin Nat
ASSUME BoundsAssumption == /\ MaxRevision \in Nat \ {0}
                           /\ {MaxNotes, MaxLosses, MaxRebuilds} \subseteq Nat

VARIABLES
    task,                    \* state, revision and checkpoint of each case
    blocks,                  \* checkpoint blocks in plan-archives
    rows,                    \* readable rows of shiguan-index.jsonl
    torn,                    \* a line of the index is no JSON
    cache,                   \* archive-runtime-receipts of [case, revision]
    pc, job,                 \* where each archiver is, and at work on what
    step, work,              \* the same of the producer it started last, or a note
    forsaken,                \* blocks whose receipt no archiver got (history)
    notes, losses, rebuilds  \* spent of the bounds

stores == <<blocks, rows, torn>>
archiver == <<pc, job>>
producer == <<step, work>>
spent == <<notes, losses, rebuilds>>
vars == <<task, stores, cache, archiver, producer, forsaken, spent>>

Revision == 1..MaxRevision
Key == Cases \X Revision
\* `full': written by the producer, with its residual gaps and record_ref.
Row == [case : Cases, revision : 0..MaxRevision, time : Nat, full : BOOLEAN]
Block == [case : Cases, revision : 0..MaxRevision, time : Nat]
NoJob == [case |-> CHOOSE c \in Cases : TRUE, revision |-> 0, time |-> NoReceipt]

Init == /\ task = [c \in Cases |->
                     [state |-> "MenxiaReview", revision |-> 1, checkpoint |-> NoReceipt]]
        /\ blocks = {}
        /\ rows = {}
        /\ torn = FALSE
        /\ cache = [k \in Key |-> NoReceipt]
        /\ pc = [a \in Archivers |-> "idle"]
        /\ job = [a \in Archivers |-> NoJob]
        /\ step = [a \in Archivers |-> "idle"]
        /\ work = [a \in Archivers |-> NoJob]
        /\ forsaken = [k \in Key |-> 0]
        /\ notes = 0 /\ losses = 0 /\ rebuilds = 0

At(a, to) == pc' = [pc EXCEPT ![a] = to]
Go(a, to) == /\ At(a, to)
             /\ job' = [job EXCEPT ![a] = IF to = "idle" THEN NoJob ELSE @]
Produce(a, to) == /\ step' = [step EXCEPT ![a] = to]
                  /\ work' = [work EXCEPT ![a] = IF to = "idle" THEN NoJob ELSE @]

Holding(a) == step[a] \in {"seeding", "archived"}
IndexFree == \A a \in Archivers : ~Holding(a)

\* A note carries the session's court code but no charter revision.
IsNote(j) == j.revision = 0
KeyOf(j) == <<j.case, j.revision>>
Caching(a) == pc[a] \in {"cached?", "producing", "validating", "recording"}
CacheFree(k) == \A a \in Archivers : ~(Caching(a) /\ KeyOf(job[a]) = k)

\* The archiver is there and waits for its producer.
Awaited(a) == pc[a] = "producing"

RowsOf(c) == {r \in rows : r.case = c}

\* _validated_archive_producer_receipt: every line of the index must parse,
\* exactly one row has the court code and it is the one of the receipt.
Validates(c, time) ==
    /\ ~torn
    /\ Cardinality(RowsOf(c)) = 1
    /\ \A r \in RowsOf(c) : r.full /\ r.time = time
    /\ \E b \in blocks : b.case = c

-----------------------------------------------------------------------------
(* archive_and_record_task                                                 *)

\* The preflight of a case in review, or the replay of a recorded one.
Begin(a, c) ==
    /\ pc[a] = "idle"
    /\ task[c].state \in {"MenxiaReview", "ShiguanRecorded"}
    /\ job' = [job EXCEPT ![a] = [case |-> c, revision |-> task[c].revision,
                                  time |-> task[c].checkpoint]]
    /\ At(a, IF task[c].state = "MenxiaReview" THEN "entering" ELSE "replaying")
    /\ UNCHANGED <<task, stores, cache, producer, forsaken, spent>>

EnterCache(a) == /\ pc[a] = "entering"
                 /\ CacheFree(KeyOf(job[a]))
                 /\ Go(a, "cached?")
                 /\ UNCHANGED <<task, stores, cache, producer, forsaken, spent>>

\* Mutant: an archive that was delivered once is not handed out again.
LookUpOnce(a) == /\ pc[a] = "cached?"
                 /\ cache[KeyOf(job[a])] # NoReceipt
                 /\ Go(a, "idle")
                 /\ UNCHANGED <<task, stores, cache, producer, forsaken, spent>>

LookUp(a) == /\ pc[a] = "cached?"
             /\ cache[KeyOf(job[a])] # NoReceipt
             /\ job' = [job EXCEPT ![a] = [@ EXCEPT !.time = cache[KeyOf(job[a])]]]
             /\ At(a, "validating")
             /\ UNCHANGED <<task, stores, cache, producer, forsaken, spent>>

\* Mutant: the cache is only read, never trusted.
StartProducerAgain(a) == /\ pc[a] = "cached?"
                         /\ step[a] = "idle"
                         /\ At(a, "producing")
                         /\ step' = [step EXCEPT ![a] = "checking"]
                         /\ work' = [work EXCEPT ![a] = job[a]]
                         /\ UNCHANGED <<task, stores, cache, job, forsaken, spent>>

StartProducer(a) == /\ pc[a] = "cached?"
                    /\ cache[KeyOf(job[a])] = NoReceipt
                    /\ step[a] = "idle"
                    /\ At(a, "producing")
                    /\ step' = [step EXCEPT ![a] = "checking"]
                    /\ work' = [work EXCEPT ![a] = job[a]]
                    /\ UNCHANGED <<task, stores, cache, job, forsaken, spent>>

\* The producer has printed its receipt: archive_runtime_receipt_cache_mismatch
\* when the file has another one, of a producer that outlived its archiver.
Compare(a) ==
    /\ Awaited(a)
    /\ step[a] = "printing"
    /\ Produce(a, "idle")
    /\ IF cache[KeyOf(work[a])] = work[a].time
       THEN job' = [job EXCEPT ![a] = work[a]] /\ At(a, "validating")
       ELSE Go(a, "idle")
    /\ UNCHANGED <<task, stores, cache, forsaken, spent>>

Validate(a) ==
    /\ pc[a] \in {"validating", "replaying"}
    /\ Go(a, IF ~Validates(job[a].case, job[a].time) THEN "idle"
             ELSE IF pc[a] = "validating" THEN "recording" ELSE "rerecording")
    /\ UNCHANGED <<task, stores, cache, producer, forsaken, spent>>

\* Mutant: the revision is not compared with the one the archiver read.
AcceptsAnyCharter(c, revision) == task[c].state = "MenxiaReview"

Accepts(c, revision) == /\ task[c].state = "MenxiaReview"
                        /\ task[c].revision = revision

\* record_shiguan_task under the runtime lock; a task that is recorded by now
\* is answered with its event, a task that moved on with an error.
Record(a) ==
    /\ pc[a] \in {"recording", "rerecording"}
    /\ task' = IF Accepts(job[a].case, job[a].revision)
               THEN [task EXCEPT ![job[a].case] = [state |-> "ShiguanRecorded",
                                                   revision |-> @.revision,
                                                   checkpoint |-> job[a].time]]
               ELSE task
    /\ Go(a, "idle")
    /\ UNCHANGED <<stores, cache, producer, forsaken, spent>>

-----------------------------------------------------------------------------
(* append_checkpoint, run for a case or for a light note                   *)

Note(a, c) == /\ step[a] = "idle"
              /\ notes < MaxNotes
              /\ notes' = notes + 1
              /\ step' = [step EXCEPT ![a] = "waiting"]
              /\ work' = [work EXCEPT ![a] = [case |-> c, revision |-> 0, time |-> NoReceipt]]
              /\ UNCHANGED <<task, stores, cache, archiver, forsaken, losses, rebuilds>>

\* The producer ends without a receipt, and so does who waits for it.
ProducerEnds(a) == /\ Produce(a, "idle")
                   /\ IF Awaited(a) THEN Go(a, "idle") ELSE UNCHANGED archiver

\* The preflight repeated by the producer, for its terminal status.
CheckCase(a) == /\ step[a] = "checking"
                /\ IF Accepts(work[a].case, work[a].revision)
                   THEN Produce(a, "waiting") /\ UNCHANGED archiver
                   ELSE ProducerEnds(a)
                /\ UNCHANGED <<task, stores, cache, forsaken, spent>>

TakeIndex(a) == /\ step[a] = "waiting"
                /\ IndexFree
                /\ step' = [step EXCEPT ![a] = "seeding"]
                /\ work' = [work EXCEPT ![a] = [@ EXCEPT !.time = Cardinality(blocks) + 1]]
                /\ UNCHANGED <<task, stores, cache, archiver, forsaken, spent>>

\* Neither lock is waited for longer than its timeout.
GiveUp(a) == /\ \/ pc[a] = "entering" /\ Go(a, "idle") /\ UNCHANGED producer
                \/ step[a] = "waiting" /\ ProducerEnds(a)
             /\ UNCHANGED <<task, stores, cache, forsaken, spent>>

BlockOf(j) == [case |-> j.case, revision |-> j.revision, time |-> j.time]
RowOf(j) == [case |-> j.case, revision |-> j.revision, time |-> j.time, full |-> TRUE]

Forsake(a, is) == forsaken' = IF is /\ ~IsNote(work[a])
                              THEN [forsaken EXCEPT ![KeyOf(work[a])] = @ + 1] ELSE forsaken

\* Mutant: the row is appended first and the block after it.
AppendBlockLast(a) == /\ step[a] = "seeding"
                      /\ rows' = rows \cup {RowOf(work[a])}
                      /\ Produce(a, "archived")
                      /\ Forsake(a, ~Awaited(a))
                      /\ UNCHANGED <<task, blocks, torn, cache, archiver, spent>>

AppendBlock(a) == /\ step[a] = "seeding"
                  /\ blocks' = blocks \cup {BlockOf(work[a])}
                  /\ Produce(a, "archived")
                  /\ Forsake(a, ~Awaited(a))
                  /\ UNCHANGED <<task, rows, torn, cache, archiver, spent>>

AppendRow(a) == /\ step[a] = "archived"
                /\ rows' = rows \cup {RowOf(work[a])}
                /\ Produce(a, "refreshing")
                /\ UNCHANGED <<task, blocks, torn, cache, archiver, forsaken, spent>>

\* The refresh request is written, then the receipt into the cache file, and
\* then it is printed for who is there to read it.
Deliver(a) ==
    /\ step[a] = "refreshing"
    /\ cache' = IF IsNote(work[a]) THEN cache
                ELSE [cache EXCEPT ![KeyOf(work[a])] = work[a].time]
    /\ Produce(a, IF Awaited(a) THEN "printing" ELSE "idle")
    /\ UNCHANGED <<task, stores, archiver, forsaken, spent>>

-----------------------------------------------------------------------------
(* Deaths                                                                  *)

Undelivered(a) == Awaited(a) /\ step[a] \in {"archived", "refreshing"}

\* The archiver dies; a producer at work goes on.
Die(a) == /\ pc[a] # "idle"
          /\ losses < MaxLosses
          /\ losses' = losses + 1
          /\ Go(a, "idle")
          /\ IF step[a] = "printing" THEN Produce(a, "idle") ELSE UNCHANGED producer
          /\ Forsake(a, Undelivered(a))
          /\ UNCHANGED <<task, stores, cache, notes, rebuilds>>

\* The producer dies, alone or with its archiver, or fails to write the refresh
\* request or the cache file; `tears': the row was being appended.
ProducerFails(a, tears) ==
    /\ step[a] # "idle"
    /\ tears => step[a] = "archived"
    /\ losses < MaxLosses
    /\ losses' = losses + 1
    /\ torn' = (torn \/ tears)
    /\ ProducerEnds(a)
    /\ Forsake(a, Undelivered(a))
    /\ UNCHANGED <<task, blocks, rows, cache, notes, rebuilds>>

-----------------------------------------------------------------------------
(* Around it                                                               *)

\* rebuild_index: rows are made from the blocks, without residual gaps; a torn
\* line goes and an orphan block gets its row.
Rebuild == /\ IndexFree
           /\ rebuilds < MaxRebuilds
           /\ rebuilds' = rebuilds + 1
           /\ rows' = {[case |-> b.case, revision |-> b.revision, time |-> b.time,
                        full |-> FALSE] : b \in blocks}
           /\ torn' = FALSE
           /\ UNCHANGED <<task, blocks, cache, archiver, producer, forsaken, notes, losses>>

\* Mutant: the revision is counted by the correction and by its binding.
RecharterTwice(c) ==
    /\ task[c].state # "Done"
    /\ task[c].revision < MaxRevision
    /\ task' = [task EXCEPT ![c] = [state |-> "MenxiaReview", revision |-> @.revision + 2,
                                    checkpoint |-> NoReceipt]]
    /\ UNCHANGED <<stores, cache, archiver, producer, forsaken, spent>>

\* A charter revision and the work up to the acceptance of its result.
Recharter(c) ==
    /\ task[c].state # "Done"
    /\ task[c].revision < MaxRevision
    /\ task' = [task EXCEPT ![c] = [state |-> "MenxiaReview", revision |-> @.revision + 1,
                                    checkpoint |-> NoReceipt]]
    /\ UNCHANGED <<stores, cache, archiver, producer, forsaken, spent>>

\* The transition ShiguanRecorded -> MenxiaReview keeps the checkpoint.
ReturnToReview(c) == /\ task[c].state = "ShiguanRecorded"
                     /\ task' = [task EXCEPT ![c] = [@ EXCEPT !.state = "MenxiaReview"]]
                     /\ UNCHANGED <<stores, cache, archiver, producer, forsaken, spent>>

Complete(c) == /\ task[c].state = "ShiguanRecorded"
               /\ Validates(c, task[c].checkpoint)
               /\ task' = [task EXCEPT ![c] = [@ EXCEPT !.state = "Done"]]
               /\ UNCHANGED <<stores, cache, archiver, producer, forsaken, spent>>

-----------------------------------------------------------------------------
Archive(a) == \/ \E c \in Cases : Begin(a, c)
              \/ EnterCache(a) \/ LookUp(a) \/ StartProducer(a) \/ Compare(a)
              \/ Validate(a) \/ Record(a) \/ GiveUp(a) \/ Die(a)

Append(a) == \/ \E c \in Cases : Note(a, c)
             \/ CheckCase(a) \/ TakeIndex(a) \/ AppendBlock(a) \/ AppendRow(a) \/ Deliver(a)
             \/ \E tears \in BOOLEAN : ProducerFails(a, tears)

Next == \/ \E a \in Archivers : Archive(a) \/ Append(a)
        \/ Rebuild
        \/ \E c \in Cases : Recharter(c) \/ ReturnToReview(c) \/ Complete(c)

Working(a) == LookUp(a) \/ StartProducer(a) \/ Compare(a) \/ Validate(a) \/ Record(a)
Producing(a) == CheckCase(a) \/ AppendBlock(a) \/ AppendRow(a) \/ Deliver(a)

\* A process that holds a lock goes on (the locks are the operating system's
\* and a dead owner's are free), each lock is got some time by whoever keeps
\* asking, and an accepted case is handed in again until it is recorded.
Fairness == /\ \A a \in Archivers : WF_vars(Working(a)) /\ WF_vars(Producing(a))
            /\ \A a \in Archivers : SF_vars(EnterCache(a)) /\ SF_vars(TakeIndex(a))
            /\ \A a \in Archivers, c \in Cases : SF_vars(Begin(a, c))

Spec == Init /\ [][Next]_vars
FairSpec == Spec /\ Fairness

-----------------------------------------------------------------------------
(* Properties                                                              *)

Pc == {"idle", "entering", "cached?", "producing", "validating", "replaying", "recording",
       "rerecording"}
Step == {"idle", "checking", "waiting", "seeding", "archived", "refreshing", "printing"}
Receipt == Nat \cup {NoReceipt}
Task == [state : {"MenxiaReview", "ShiguanRecorded", "Done"}, revision : Revision,
         checkpoint : Receipt]
Job == [case : Cases, revision : 0..MaxRevision, time : Receipt]

\* Types of all variables.
TypeOK ==
    /\ task \in [Cases -> Task]
    /\ blocks \subseteq Block
    /\ rows \subseteq Row
    /\ torn \in BOOLEAN
    /\ cache \in [Key -> Receipt]
    /\ pc \in [Archivers -> Pc]
    /\ job \in [Archivers -> Job]
    /\ step \in [Archivers -> Step]
    /\ work \in [Archivers -> Job]
    /\ forsaken \in [Key -> Nat]
    /\ notes \in 0..MaxNotes /\ losses \in 0..MaxLosses /\ rebuilds \in 0..MaxRebuilds

\* Whatever dies and whenever, the index never has a row without its block in
\* the archive, and no cached receipt or checkpoint is without one either.
RowsAreArchived ==
    /\ \A r \in rows : [case |-> r.case, revision |-> r.revision, time |-> r.time] \in blocks
    /\ \A k \in Key : cache[k] # NoReceipt =>
           [case |-> k[1], revision |-> k[2], time |-> cache[k]] \in blocks

\* A checkpoint is of the charter in force: its block was archived for this
\* case under this revision, however long archiver and task went separate ways.
CheckpointIsOfThisCharter ==
    \A c \in Cases : task[c].checkpoint # NoReceipt =>
        [case |-> c, revision |-> task[c].revision, time |-> task[c].checkpoint] \in blocks

\* One acceptance gets one block in the archive, by however many archivers and
\* retries at a time, and one more for each block that was forsaken: whose
\* archiver or producer had died before the receipt was handed over.
BlocksOf(k) == {b \in blocks : b.case = k[1] /\ b.revision = k[2]}
ArchivedOnce == \A k \in Key : Cardinality(BlocksOf(k)) <= 1 + forsaken[k]

\* A case whose index shows nothing but the one row of a delivered archive, or
\* none at all, is recorded in the end, whatever times out or dies meanwhile.
Delivered(r) == \/ cache[<<r.case, r.revision>>] = r.time
                \/ \E a \in Archivers : step[a] = "refreshing" /\ work[a].time = r.time
Unspoiled(c) == /\ ~torn
                /\ Cardinality(RowsOf(c)) <= 1
                /\ \A r \in RowsOf(c) : /\ r.full
                                        /\ r.revision = task[c].revision
                                        /\ Delivered(r)
UnspoiledIsRecorded == \A c \in Cases : []Unspoiled(c) => []<>(task[c].state # "MenxiaReview")

\* "A crash can leave only a recoverable orphan block": a case in review that
\* nobody is archiving can be archived (again): it has no row, or the one of
\* its cached receipt.
AtRest(c) == \A a \in Archivers : /\ pc[a] = "idle" \/ job[a].case # c
                                  /\ step[a] = "idle" \/ work[a].case # c
CrashLeavesOrphanOnly ==
    \A c \in Cases : (AtRest(c) /\ task[c].state = "MenxiaReview" /\ ~torn) =>
        \/ RowsOf(c) = {}
        \/ Validates(c, cache[<<c, task[c].revision>>])

=============================================================================
