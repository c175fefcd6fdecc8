-------------------------- MODULE CaseArchiveProofs --------------------------
(***************************************************************************)
(* Proofs, for any cases, archivers and bounds, that rows, cached receipts *)
(* and checkpoints are of archived blocks, that a checkpoint is of the     *)
(* charter in force, and that an acceptance gets a second block only for   *)
(* one that was forsaken, whichever of archiver and producer dies first.   *)
(***************************************************************************)
EXTENDS CaseArchive, FiniteSetTheorems, TLAPS

-----------------------------------------------------------------------------
(* The inductive invariant                                                 *)

WithReceipt == {"validating", "replaying", "recording", "rerecording"}
Timed == {"seeding", "archived", "refreshing", "printing"}
Written == {"archived", "refreshing", "printing"}
Early == {"checking", "waiting", "seeding"}

\* An archiver works for a case, with a receipt of an archived block once it
\* has one; a producer past the append has its block in the archive; and the
\* producer an archiver waits for is at work on the archiver's acceptance.
SlotFits(a) ==
    /\ pc[a] # "idle" => job[a].revision \in Revision
    /\ (pc[a] \in WithReceipt /\ job[a].time # NoReceipt) => BlockOf(job[a]) \in blocks
    /\ step[a] \in Timed => work[a].time \in Nat
    /\ step[a] \in Written => BlockOf(work[a]) \in blocks
    /\ Awaited(a) => step[a] # "idle" /\ KeyOf(work[a]) = KeyOf(job[a])
    /\ step[a] = "printing" => Awaited(a)

JobsFit == IsFiniteSet(blocks) /\ \A a \in Archivers : SlotFits(a)

Archived == TypeOK /\ JobsFit /\ RowsAreArchived /\ CheckpointIsOfThisCharter

\* One archiver at a time for an acceptance.
Exclusive == \A a, b \in Archivers :
                 (Caching(a) /\ Caching(b) /\ KeyOf(job[a]) = KeyOf(job[b])) => a = b

\* Each block of an acceptance has its receipt in the cache, was forsaken, or
\* is on its way to an archiver; none but forsaken ones are there before that.
Pending(a) == Awaited(a) /\ step[a] \in Early
Flying(a) == Awaited(a) /\ step[a] \in {"archived", "refreshing"}
Owed(k) == IF cache[k] # NoReceipt \/ (\E a \in Archivers : Flying(a) /\ KeyOf(work[a]) = k)
           THEN 1 ELSE 0
Counted == /\ \A k \in Key : Cardinality(BlocksOf(k)) <= forsaken[k] + Owed(k)
           /\ \A a \in Archivers : Pending(a) =>
                  Cardinality(BlocksOf(KeyOf(work[a]))) <= forsaken[KeyOf(work[a])]

IInv == Archived /\ Exclusive /\ Counted

-----------------------------------------------------------------------------
(* Slots                                                                   *)

LEMMA Bounds ==
    /\ MaxRevision \in Nat \ {0} /\ MaxNotes \in Nat /\ MaxLosses \in Nat /\ MaxRebuilds \in Nat
    /\ Revision \subseteq 0..MaxRevision /\ 1 \in Revision /\ 0 \notin Revision
BY BoundsAssumption DEF Revision

LEMMA NoJobIsJob == NoJob \in Job
BY SomebodyAssumption, Bounds DEF NoJob, Job, Receipt

\* The types of the two processes of each slot.
Slots == /\ pc \in [Archivers -> Pc] /\ job \in [Archivers -> Job]
         /\ step \in [Archivers -> Step] /\ work \in [Archivers -> Job]

\* No other slot is touched.
Alone(a) == \A b \in Archivers : b # a => /\ pc'[b] = pc[b] /\ job'[b] = job[b]
                                          /\ step'[b] = step[b] /\ work'[b] = work[b]

LEMMA ArchiverMoves ==
    ASSUME Slots, NEW a \in Archivers, NEW to \in Pc, Go(a, to)
    PROVE  /\ pc' \in [Archivers -> Pc] /\ job' \in [Archivers -> Job]
           /\ pc'[a] = to /\ job'[a] = IF to = "idle" THEN NoJob ELSE job[a]
           /\ \A b \in Archivers : b # a => pc'[b] = pc[b] /\ job'[b] = job[b]
BY NoJobIsJob DEF Slots, Go, At

LEMMA ArchiverTakes ==
    ASSUME Slots, NEW a \in Archivers, NEW to \in Pc, NEW j \in Job,
           At(a, to), job' = [job EXCEPT ![a] = j]
    PROVE  /\ pc' \in [Archivers -> Pc] /\ job' \in [Archivers -> Job]
           /\ pc'[a] = to /\ job'[a] = j
           /\ \A b \in Archivers : b # a => pc'[b] = pc[b] /\ job'[b] = job[b]
BY DEF Slots, At

LEMMA ProducerMoves ==
    ASSUME Slots, NEW a \in Archivers, NEW to \in Step, Produce(a, to)
    PROVE  /\ step' \in [Archivers -> Step] /\ work' \in [Archivers -> Job]
           /\ step'[a] = to /\ work'[a] = IF to = "idle" THEN NoJob ELSE work[a]
           /\ \A b \in Archivers : b # a => step'[b] = step[b] /\ work'[b] = work[b]
BY NoJobIsJob DEF Slots, Produce

LEMMA ProducerTakes ==
    ASSUME Slots, NEW a \in Archivers, NEW to \in Step, NEW j \in Job,
           step' = [step EXCEPT ![a] = to], work' = [work EXCEPT ![a] = j]
    PROVE  /\ step' \in [Archivers -> Step] /\ work' \in [Archivers -> Job]
           /\ step'[a] = to /\ work'[a] = j
           /\ \A b \in Archivers : b # a => step'[b] = step[b] /\ work'[b] = work[b]
BY DEF Slots

\* A producer that ends leaves an archiver that waited for it with nothing.
LEMMA ProducerLeaves ==
    ASSUME Slots, NEW a \in Archivers, ProducerEnds(a)
    PROVE  /\ Slots' /\ Alone(a) /\ step'[a] = "idle" /\ work'[a] = NoJob /\ ~Awaited(a)'
           /\ \/ pc'[a] = pc[a] /\ job'[a] = job[a]
              \/ pc'[a] = "idle" /\ job'[a] = NoJob
<1>1. /\ step' \in [Archivers -> Step] /\ work' \in [Archivers -> Job]
      /\ step'[a] = "idle" /\ work'[a] = NoJob
      /\ \A b \in Archivers : b # a => step'[b] = step[b] /\ work'[b] = work[b]
  BY ProducerMoves DEF ProducerEnds, Step
<1>2. CASE Awaited(a)
  BY <1>1, <1>2, ArchiverMoves DEF ProducerEnds, Slots, Alone, Awaited, Pc
<1>3. CASE ~Awaited(a)
  <2>1. pc' = pc /\ job' = job
    BY <1>3 DEF ProducerEnds, archiver
  <2> QED
    BY <1>1, <1>3, <2>1 DEF Slots, Alone, Awaited
<1> QED
  BY <1>2, <1>3

\* A note is of no acceptance; what is for one is one of Key.
LEMMA KeysOfCases ==
    ASSUME NEW j \in Job
    PROVE  (~IsNote(j) <=> KeyOf(j) \in Key) /\ (j.revision \in Revision <=> ~IsNote(j))
BY Bounds DEF Job, IsNote, KeyOf, Key, Revision

-----------------------------------------------------------------------------
(* What a step leaves alone                                                *)

LEMMA FitsStay ==
    ASSUME JobsFit, NEW a \in Archivers, Alone(a), SlotFits(a)',
           blocks \subseteq blocks', IsFiniteSet(blocks')
    PROVE  JobsFit'
<1>1. ASSUME NEW b \in Archivers, b # a PROVE SlotFits(b)'
  BY <1>1 DEF JobsFit, SlotFits, Alone, Awaited, KeyOf, BlockOf
<1> QED
  BY <1>1 DEF JobsFit

LEMMA RowsStay ==
    ASSUME RowsAreArchived, UNCHANGED <<rows, cache>>, blocks \subseteq blocks'
    PROVE  RowsAreArchived'
BY DEF RowsAreArchived

LEMMA CheckpointsStay ==
    ASSUME CheckpointIsOfThisCharter, task' = task, blocks \subseteq blocks'
    PROVE  CheckpointIsOfThisCharter'
BY DEF CheckpointIsOfThisCharter

LEMMA ExclusiveStays ==
    ASSUME Exclusive, NEW a \in Archivers, Alone(a),
           Caching(a)' => Caching(a) /\ KeyOf(job[a])' = KeyOf(job[a])
    PROVE  Exclusive'
<1>1. \A b \in Archivers : Caching(b)' => Caching(b) /\ KeyOf(job[b])' = KeyOf(job[b])
  BY DEF Alone, Caching, KeyOf
<1> QED
  BY <1>1 DEF Exclusive

LEMMA CountsAreNumbers ==
    ASSUME Archived, NEW k \in Key
    PROVE  /\ IsFiniteSet(BlocksOf(k)) /\ Cardinality(BlocksOf(k)) \in Nat
           /\ forsaken[k] \in Nat /\ Owed(k) \in 0..1
<1>1. IsFiniteSet(BlocksOf(k))
  BY FS_Subset DEF Archived, JobsFit, BlocksOf
<1> QED
  BY <1>1, FS_CardinalityType DEF Archived, TypeOK, Owed

LEMMA CountedStays ==
    ASSUME Counted, NEW a \in Archivers, Alone(a), UNCHANGED <<blocks, cache, forsaken>>,
           Pending(a)' => Pending(a) /\ KeyOf(work[a])' = KeyOf(work[a]),
           Flying(a)' <=> Flying(a),
           Flying(a) => KeyOf(work[a])' = KeyOf(work[a])
    PROVE  Counted'
<1>1. \A b \in Archivers : /\ Pending(b)' => Pending(b) /\ KeyOf(work[b])' = KeyOf(work[b])
                           /\ Flying(b)' <=> Flying(b)
                           /\ Flying(b) => KeyOf(work[b])' = KeyOf(work[b])
  BY DEF Alone, Pending, Flying, Awaited, KeyOf
<1>2. \A k \in Key : Owed(k)' = Owed(k)
  BY <1>1 DEF Owed
<1>3. \A k : BlocksOf(k)' = BlocksOf(k)
  BY DEF BlocksOf
<1> QED
  BY <1>1, <1>2, <1>3 DEF Counted

\* A step of one slot that writes nothing.
LEMMA QuietStep ==
    ASSUME IInv, NEW a \in Archivers, Slots', Alone(a), SlotFits(a)',
           UNCHANGED <<task, blocks, rows, torn, cache, forsaken, losses, rebuilds>>,
           notes' \in 0..MaxNotes,
           Exclusive',
           Pending(a)' => Pending(a) /\ KeyOf(work[a])' = KeyOf(work[a]),
           Flying(a)' <=> Flying(a),
           Flying(a) => KeyOf(work[a])' = KeyOf(work[a])
    PROVE  IInv'
<1>1. Archived /\ TypeOK /\ JobsFit /\ IsFiniteSet(blocks)
  BY DEF IInv, Archived, JobsFit
<1>2. TypeOK'
  BY <1>1 DEF TypeOK, Slots
<1>3. JobsFit'
  BY <1>1, FitsStay
<1>4. RowsAreArchived' /\ CheckpointIsOfThisCharter'
  BY <1>1, RowsStay, CheckpointsStay DEF Archived
<1>5. Counted'
  BY CountedStays DEF IInv
<1> QED
  BY <1>2, <1>3, <1>4, <1>5 DEF IInv, Archived

\* What every step starts from.
LEMMA Here ==
    ASSUME IInv, NEW a \in Archivers
    PROVE  /\ Slots /\ TypeOK /\ JobsFit /\ SlotFits(a) /\ Archived /\ Exclusive /\ Counted
           /\ pc[a] \in Pc /\ step[a] \in Step /\ job[a] \in Job /\ work[a] \in Job
           /\ notes \in 0..MaxNotes
BY DEF IInv, Archived, TypeOK, JobsFit, Slots

-----------------------------------------------------------------------------
(* Steps that write nothing                                                *)

LEMMA BeginStep ==
    ASSUME IInv, NEW a \in Archivers, NEW c \in Cases, Begin(a, c)
    PROVE  IInv'
<1> DEFINE to == IF task[c].state = "MenxiaReview" THEN "entering" ELSE "replaying"
           j == [case |-> c, revision |-> task[c].revision, time |-> task[c].checkpoint]
<1>1. /\ pc[a] = "idle" /\ At(a, to) /\ job' = [job EXCEPT ![a] = j]
      /\ UNCHANGED <<task, blocks, rows, torn, cache, forsaken, losses, rebuilds, notes, step, work>>
  BY DEF Begin, stores, spent, producer
<1>2. to \in {"entering", "replaying"} /\ to \in Pc
  BY DEF Pc
<1>3. task[c] \in Task
  BY Here DEF TypeOK
<1>4. j \in Job /\ j.revision \in Revision
  BY <1>3, Bounds DEF Task, Job
<1>5. j.time # NoReceipt => BlockOf(j) \in blocks
  BY Here DEF Archived, CheckpointIsOfThisCharter, BlockOf
<1> HIDE DEF to, j
<1>6. /\ Slots' /\ Alone(a) /\ pc'[a] = to /\ job'[a] = j
      /\ step'[a] = step[a] /\ work'[a] = work[a]
  BY <1>1, <1>2, <1>4, Here, ArchiverTakes DEF Slots, Alone
<1>7. SlotFits(a)'
  <2>1. j.time # NoReceipt => BlockOf(job[a])' \in blocks'
    BY <1>1, <1>5, <1>6 DEF BlockOf
  <2>2. pc'[a] # "producing" /\ step[a] # "printing"
    BY <1>1, <1>2, <1>6, Here DEF SlotFits, Awaited
  <2>3. step'[a] \in Timed => work'[a].time \in Nat
    BY <1>6, Here DEF SlotFits
  <2>4. step'[a] \in Written => BlockOf(work[a])' \in blocks'
    BY <1>1, <1>6, Here DEF SlotFits, BlockOf
  <2> QED
    BY <1>4, <1>6, <2>1, <2>2, <2>3, <2>4 DEF SlotFits, Awaited
<1>8. Exclusive'
  BY <1>2, <1>6, Here, ExclusiveStays DEF Caching
<1> QED
  BY <1>1, <1>2, <1>6, <1>7, <1>8, Here, QuietStep DEF Pending, Flying, Awaited

LEMMA EnterStep == ASSUME IInv, NEW a \in Archivers, EnterCache(a) PROVE IInv'
<1>1. /\ pc[a] = "entering" /\ Go(a, "cached?") /\ CacheFree(KeyOf(job[a]))
      /\ UNCHANGED <<task, blocks, rows, torn, cache, forsaken, losses, rebuilds, notes, step, work>>
  BY DEF EnterCache, stores, spent, producer
<1>2. /\ Slots' /\ Alone(a) /\ pc'[a] = "cached?" /\ job'[a] = job[a]
      /\ step'[a] = step[a] /\ work'[a] = work[a]
  BY <1>1, Here, ArchiverMoves DEF Slots, Alone, Pc
<1>3. SlotFits(a)'
  BY <1>1, <1>2, Here DEF SlotFits, Awaited, WithReceipt, BlockOf
<1>4. \A b \in Archivers : /\ KeyOf(job[b])' = KeyOf(job[b])
                           /\ b # a => (Caching(b)' <=> Caching(b))
  BY <1>2 DEF Alone, KeyOf, Caching
<1>5. Exclusive'
  BY <1>1, <1>4, Here DEF Exclusive, CacheFree
<1> QED
  BY <1>1, <1>2, <1>3, <1>5, Here, QuietStep DEF Pending, Flying, Awaited

LEMMA LookUpStep == ASSUME IInv, NEW a \in Archivers, LookUp(a) PROVE IInv'
<1> DEFINE j == [job[a] EXCEPT !.time = cache[KeyOf(job[a])]]
<1>1. /\ pc[a] = "cached?" /\ At(a, "validating") /\ job' = [job EXCEPT ![a] = j]
      /\ cache[KeyOf(job[a])] # NoReceipt
      /\ UNCHANGED <<task, blocks, rows, torn, cache, forsaken, losses, rebuilds, notes, step, work>>
  BY Here DEF LookUp, stores, spent, producer, Slots
<1>2. KeyOf(job[a]) \in Key /\ job[a].revision \in Revision
  BY <1>1, Here, KeysOfCases DEF SlotFits
<1>3. cache[KeyOf(job[a])] \in Receipt
  BY <1>2, Here DEF TypeOK
<1>4. /\ j \in Job /\ j.case = job[a].case /\ j.revision = job[a].revision
      /\ j.time = cache[KeyOf(job[a])]
  BY <1>3, Here DEF Job
<1>5. BlockOf(j) \in blocks
  BY <1>1, <1>2, <1>4, Here DEF Archived, RowsAreArchived, BlockOf, KeyOf
<1> HIDE DEF j
<1>6. /\ Slots' /\ Alone(a) /\ pc'[a] = "validating" /\ job'[a] = j
      /\ step'[a] = step[a] /\ work'[a] = work[a]
  BY <1>1, <1>4, Here, ArchiverTakes DEF Slots, Alone, Pc
<1>7. SlotFits(a)'
  <2>1. BlockOf(job[a])' \in blocks'
    BY <1>1, <1>5, <1>6 DEF BlockOf
  <2>2. pc'[a] # "producing" /\ step[a] # "printing"
    BY <1>1, <1>6, Here DEF SlotFits, Awaited
  <2>3. step'[a] \in Timed => work'[a].time \in Nat
    BY <1>6, Here DEF SlotFits
  <2>4. step'[a] \in Written => BlockOf(work[a])' \in blocks'
    BY <1>1, <1>6, Here DEF SlotFits, BlockOf
  <2> QED
    BY <1>2, <1>4, <1>6, <2>1, <2>2, <2>3, <2>4 DEF SlotFits, Awaited
<1>8. Exclusive'
  BY <1>1, <1>4, <1>6, Here, ExclusiveStays DEF Caching, KeyOf
<1> QED
  BY <1>1, <1>6, <1>7, <1>8, Here, QuietStep DEF Pending, Flying, Awaited

LEMMA CompareStep == ASSUME IInv, NEW a \in Archivers, Compare(a) PROVE IInv'
<1>1. /\ pc[a] = "producing" /\ step[a] = "printing" /\ Produce(a, "idle")
      /\ UNCHANGED <<task, blocks, rows, torn, cache, forsaken, losses, rebuilds, notes>>
      /\ \/ job' = [job EXCEPT ![a] = work[a]] /\ At(a, "validating")
         \/ Go(a, "idle")
  BY DEF Compare, Awaited, stores, spent
<1>2. /\ step' \in [Archivers -> Step] /\ work' \in [Archivers -> Job]
      /\ step'[a] = "idle" /\ work'[a] = NoJob
      /\ \A b \in Archivers : b # a => step'[b] = step[b] /\ work'[b] = work[b]
  BY <1>1, Here, ProducerMoves DEF Step
<1>3. /\ KeyOf(work[a]) = KeyOf(job[a]) /\ BlockOf(work[a]) \in blocks
      /\ work[a].revision \in Revision
  BY <1>1, Here DEF SlotFits, Awaited, Written, KeyOf
<1>4. /\ Slots' /\ Alone(a)
      /\ \/ pc'[a] = "validating" /\ job'[a] = work[a]
         \/ pc'[a] = "idle" /\ job'[a] = NoJob
  <2>1. CASE job' = [job EXCEPT ![a] = work[a]] /\ At(a, "validating")
    BY <1>2, <2>1, Here, ArchiverTakes DEF Slots, Alone, Pc
  <2>2. CASE Go(a, "idle")
    BY <1>2, <2>2, Here, ArchiverMoves DEF Slots, Alone, Pc
  <2> QED
    BY <1>1, <2>1, <2>2
<1>5. SlotFits(a)'
  BY <1>1, <1>2, <1>3, <1>4 DEF SlotFits, Awaited, WithReceipt, BlockOf, Timed, Written
<1>6. Exclusive'
  <2>1. Caching(a)' => Caching(a) /\ KeyOf(job[a])' = KeyOf(job[a])
    BY <1>1, <1>3, <1>4 DEF Caching, KeyOf
  <2> QED
    BY <1>4, <2>1, Here, ExclusiveStays
<1> QED
  BY <1>1, <1>2, <1>4, <1>5, <1>6, Here, QuietStep DEF Pending, Flying, Awaited, Early

LEMMA ValidateStep == ASSUME IInv, NEW a \in Archivers, Validate(a) PROVE IInv'
<1>1. PICK to \in {"idle", "recording", "rerecording"} :
          /\ Go(a, to) /\ pc[a] \in {"validating", "replaying"}
          /\ to = "recording" => pc[a] = "validating"
          /\ UNCHANGED <<task, blocks, rows, torn, cache, forsaken, losses, rebuilds, notes, step, work>>
  BY DEF Validate, stores, spent, producer
<1>2. /\ Slots' /\ Alone(a) /\ pc'[a] = to /\ job'[a] = IF to = "idle" THEN NoJob ELSE job[a]
      /\ step'[a] = step[a] /\ work'[a] = work[a]
  BY <1>1, Here, ArchiverMoves DEF Slots, Alone, Pc
<1>3. SlotFits(a)'
  BY <1>1, <1>2, Here DEF SlotFits, Awaited, WithReceipt, BlockOf
<1>4. Exclusive'
  BY <1>1, <1>2, Here, ExclusiveStays DEF Caching
<1> QED
  BY <1>1, <1>2, <1>3, <1>4, Here, QuietStep DEF Pending, Flying, Awaited

LEMMA NoteStep == ASSUME IInv, NEW a \in Archivers, NEW c \in Cases, Note(a, c) PROVE IInv'
<1> DEFINE j == [case |-> c, revision |-> 0, time |-> NoReceipt]
<1>1. /\ step[a] = "idle" /\ step' = [step EXCEPT ![a] = "waiting"] /\ work' = [work EXCEPT ![a] = j]
      /\ UNCHANGED <<task, blocks, rows, torn, cache, forsaken, losses, rebuilds, pc, job>>
      /\ notes' \in 0..MaxNotes
  BY Here, Bounds DEF Note, stores, archiver
<1>2. j \in Job
  BY Bounds DEF Job, Receipt
<1> HIDE DEF j
<1>3. /\ Slots' /\ Alone(a) /\ step'[a] = "waiting" /\ work'[a] = j
      /\ pc'[a] = pc[a] /\ job'[a] = job[a]
  BY <1>1, <1>2, Here, ProducerTakes DEF Slots, Alone, Step
<1>4. ~Awaited(a) /\ ~Awaited(a)'
  BY <1>1, <1>3, Here DEF SlotFits, Awaited
<1>5. SlotFits(a)'
  BY <1>1, <1>3, <1>4, Here DEF SlotFits, WithReceipt, BlockOf, Timed, Written
<1>6. Exclusive'
  BY <1>1, <1>3, Here, ExclusiveStays DEF Caching
<1> QED
  BY <1>1, <1>3, <1>4, <1>5, <1>6, Here, QuietStep DEF Pending, Flying

\* A producer that has written nothing ends.
LEMMA EndStep ==
    ASSUME IInv, NEW a \in Archivers, ProducerEnds(a), step[a] \in {"checking", "waiting"},
           UNCHANGED <<task, blocks, rows, torn, cache, forsaken, losses, rebuilds, notes>>
    PROVE  IInv'
<1>1. /\ Slots' /\ Alone(a) /\ step'[a] = "idle" /\ work'[a] = NoJob /\ ~Awaited(a)'
      /\ \/ pc'[a] = pc[a] /\ job'[a] = job[a]
         \/ pc'[a] = "idle" /\ job'[a] = NoJob
  BY Here, ProducerLeaves
<1>2. SlotFits(a)'
  BY <1>1, Here DEF SlotFits, WithReceipt, BlockOf, Timed, Written
<1>3. Exclusive'
  BY <1>1, Here, ExclusiveStays DEF Caching
<1> QED
  BY <1>1, <1>2, <1>3, Here, QuietStep DEF Pending, Flying

LEMMA CheckStep == ASSUME IInv, NEW a \in Archivers, CheckCase(a) PROVE IInv'
<1>1. /\ step[a] = "checking"
      /\ UNCHANGED <<task, blocks, rows, torn, cache, forsaken, losses, rebuilds, notes>>
      /\ (Produce(a, "waiting") /\ UNCHANGED archiver) \/ ProducerEnds(a)
  BY DEF CheckCase, stores, spent
<1>2. CASE Produce(a, "waiting") /\ UNCHANGED archiver
  <2>1. /\ Slots' /\ Alone(a) /\ step'[a] = "waiting" /\ work'[a] = work[a]
        /\ pc'[a] = pc[a] /\ job'[a] = job[a]
    BY <1>2, Here, ProducerMoves DEF archiver, Slots, Alone, Step
  <2>2. SlotFits(a)'
    BY <1>1, <2>1, Here DEF SlotFits, Awaited, BlockOf, KeyOf, Timed, Written
  <2>3. Exclusive'
    BY <2>1, Here, ExclusiveStays DEF Caching
  <2> QED
    BY <1>1, <2>1, <2>2, <2>3, Here, QuietStep DEF Pending, Flying, Awaited, KeyOf, Early
<1>3. CASE ProducerEnds(a)
  BY <1>1, <1>3, EndStep
<1> QED
  BY <1>1, <1>2, <1>3

LEMMA TakeIndexStep == ASSUME IInv, NEW a \in Archivers, TakeIndex(a) PROVE IInv'
<1> DEFINE j == [work[a] EXCEPT !.time = Cardinality(blocks) + 1]
<1>1. /\ step[a] = "waiting" /\ step' = [step EXCEPT ![a] = "seeding"] /\ work' = [work EXCEPT ![a] = j]
      /\ UNCHANGED <<task, blocks, rows, torn, cache, forsaken, losses, rebuilds, notes, pc, job>>
  BY Here DEF TakeIndex, stores, spent, archiver, Slots
<1>2. Cardinality(blocks) + 1 \in Nat
  BY Here, FS_CardinalityType DEF JobsFit
<1>3. /\ j \in Job /\ j.case = work[a].case /\ j.revision = work[a].revision /\ j.time \in Nat
  BY <1>2, Here DEF Job, Receipt
<1> HIDE DEF j
<1>4. /\ Slots' /\ Alone(a) /\ step'[a] = "seeding" /\ work'[a] = j
      /\ pc'[a] = pc[a] /\ job'[a] = job[a]
  BY <1>1, <1>3, Here, ProducerTakes DEF Slots, Alone, Step
<1>5. KeyOf(work[a])' = KeyOf(work[a]) /\ (Awaited(a)' <=> Awaited(a))
  BY <1>3, <1>4 DEF KeyOf, Awaited
<1>6. SlotFits(a)'
  BY <1>1, <1>3, <1>4, <1>5, Here DEF SlotFits, Awaited, BlockOf, KeyOf, Timed, Written
<1>7. Exclusive'
  BY <1>1, <1>4, Here, ExclusiveStays DEF Caching
<1> QED
  BY <1>1, <1>4, <1>5, <1>6, <1>7, Here, QuietStep DEF Pending, Flying, Early

LEMMA GiveUpStep == ASSUME IInv, NEW a \in Archivers, GiveUp(a) PROVE IInv'
<1>1. UNCHANGED <<task, blocks, rows, torn, cache, forsaken, losses, rebuilds, notes>>
  BY DEF GiveUp, stores, spent
<1>2. CASE pc[a] = "entering" /\ Go(a, "idle") /\ UNCHANGED producer
  <2>1. /\ Slots' /\ Alone(a) /\ pc'[a] = "idle" /\ job'[a] = NoJob
        /\ step'[a] = step[a] /\ work'[a] = work[a]
    BY <1>2, Here, ArchiverMoves DEF Slots, Alone, Pc, producer
  <2>2. SlotFits(a)'
    BY <1>1, <1>2, <2>1, Here DEF SlotFits, Awaited, WithReceipt, BlockOf
  <2>3. Exclusive'
    BY <2>1, Here, ExclusiveStays DEF Caching
  <2> QED
    BY <1>1, <1>2, <2>1, <2>2, <2>3, Here, QuietStep DEF Pending, Flying, Awaited
<1>3. CASE step[a] = "waiting" /\ ProducerEnds(a)
  BY <1>1, <1>3, EndStep
<1> QED
  BY <1>2, <1>3 DEF GiveUp

-----------------------------------------------------------------------------
(* An archiver and what it waits for                                       *)

\* Whom an archiver waits for is at work on an acceptance, on its own.
LEMMA WaitsForCase ==
    ASSUME IInv, NEW a \in Archivers, Awaited(a)
    PROVE  /\ Caching(a) /\ KeyOf(work[a]) = KeyOf(job[a]) /\ KeyOf(work[a]) \in Key
           /\ ~IsNote(work[a])
<1>1. KeyOf(work[a]) = KeyOf(job[a]) /\ job[a].revision \in Revision
  BY Here DEF SlotFits, Awaited
<1>2. KeyOf(job[a]) \in Key
  BY <1>1, Here, KeysOfCases
<1> QED
  BY <1>1, <1>2, Here, KeysOfCases DEF Caching, Awaited

LEMMA OnlyOneWaits ==
    ASSUME IInv, NEW a \in Archivers, NEW b \in Archivers, Caching(a), Awaited(b),
           KeyOf(work[b]) = KeyOf(job[a])
    PROVE  a = b
BY WaitsForCase, Here DEF Exclusive

LEMMA StartStep == ASSUME IInv, NEW a \in Archivers, StartProducer(a) PROVE IInv'
<1>1. /\ pc[a] = "cached?" /\ step[a] = "idle" /\ cache[KeyOf(job[a])] = NoReceipt
      /\ At(a, "producing") /\ step' = [step EXCEPT ![a] = "checking"]
      /\ work' = [work EXCEPT ![a] = job[a]] /\ job' = job
      /\ UNCHANGED <<task, blocks, rows, torn, cache, forsaken, losses, rebuilds, notes>>
  BY DEF StartProducer, stores, spent
<1>2. /\ pc' \in [Archivers -> Pc] /\ pc'[a] = "producing"
      /\ \A b \in Archivers : b # a => pc'[b] = pc[b]
  BY <1>1, Here DEF At, Slots, Pc
<1>3. /\ Slots' /\ Alone(a) /\ job'[a] = job[a] /\ step'[a] = "checking" /\ work'[a] = job[a]
  BY <1>1, <1>2, Here, ProducerTakes DEF Slots, Alone, Step
<1>4. SlotFits(a)'
  BY <1>1, <1>2, <1>3, Here DEF SlotFits, Awaited, WithReceipt, BlockOf, KeyOf, Timed, Written
<1>5. Exclusive'
  BY <1>1, <1>2, <1>3, Here, ExclusiveStays DEF Caching, KeyOf
<1> DEFINE key == KeyOf(job[a])
<1>6. key \in Key /\ Caching(a)
  BY <1>1, Here, KeysOfCases DEF SlotFits, Caching
<1>7. Cardinality(BlocksOf(key)) <= forsaken[key]
  <2>1. ~\E b \in Archivers : Flying(b) /\ KeyOf(work[b]) = key
    BY <1>1, <1>6, OnlyOneWaits DEF Flying, Awaited
  <2>2. Owed(key) = 0
    BY <1>1, <2>1 DEF Owed
  <2> QED
    BY <1>6, <2>2, Here, CountsAreNumbers DEF Counted
<1>8. Counted'
  <2>1. \A b \in Archivers : /\ Flying(b)' <=> Flying(b)
                             /\ Flying(b) => KeyOf(work[b])' = KeyOf(work[b])
    BY <1>1, <1>2, <1>3 DEF Alone, Flying, Awaited, KeyOf
  <2>2. \A k \in Key : Owed(k)' = Owed(k)
    BY <1>1, <2>1 DEF Owed
  <2>3. \A k : BlocksOf(k)' = BlocksOf(k)
    BY <1>1 DEF BlocksOf
  <2>4. \A b \in Archivers : b # a => /\ Pending(b)' => Pending(b)
                                      /\ KeyOf(work[b])' = KeyOf(work[b])
    BY <1>3 DEF Alone, Pending, Awaited, KeyOf
  <2>5. KeyOf(work[a])' = key
    BY <1>3 DEF KeyOf
  <2>6. \A k \in Key : Cardinality(BlocksOf(k)') <= forsaken'[k] + Owed(k)'
    BY <1>1, <2>2, <2>3, Here DEF Counted
  <2>7. ASSUME NEW b \in Archivers, Pending(b)'
        PROVE  Cardinality(BlocksOf(KeyOf(work[b]))') <= forsaken'[KeyOf(work[b])']
    <3>1. CASE b = a
      BY <1>1, <1>7, <2>3, <2>5, <3>1
    <3>2. CASE b # a
      BY <1>1, <2>3, <2>4, <2>7, <3>2, Here DEF Counted
    <3> QED
      BY <3>1, <3>2
  <2> QED
    BY <2>6, <2>7 DEF Counted
<1> QED
  <2>1. TypeOK'
    BY <1>1, <1>3, Here DEF TypeOK, Slots
  <2>2. JobsFit'
    BY <1>1, <1>3, <1>4, Here, FitsStay DEF JobsFit
  <2>3. RowsAreArchived' /\ CheckpointIsOfThisCharter'
    BY <1>1, Here, RowsStay, CheckpointsStay DEF Archived
  <2> QED
    BY <1>5, <1>8, <2>1, <2>2, <2>3 DEF IInv, Archived

LEMMA RecordStep == ASSUME IInv, NEW a \in Archivers, Record(a) PROVE IInv'
<1>1. /\ pc[a] \in {"recording", "rerecording"} /\ Go(a, "idle")
      /\ UNCHANGED <<blocks, rows, torn, cache, forsaken, losses, rebuilds, notes, step, work>>
  BY DEF Record, stores, spent, producer
<1>2. /\ Slots' /\ Alone(a) /\ pc'[a] = "idle" /\ job'[a] = NoJob
      /\ step'[a] = step[a] /\ work'[a] = work[a]
  BY <1>1, Here, ArchiverMoves DEF Slots, Alone, Pc
<1>3. SlotFits(a)'
  BY <1>1, <1>2, Here DEF SlotFits, Awaited, WithReceipt, BlockOf
<1>4. Exclusive'
  BY <1>2, Here, ExclusiveStays DEF Caching
<1>5. Counted'
  BY <1>1, <1>2, Here, CountedStays DEF Pending, Flying, Awaited
<1>6. task' \in [Cases -> Task] /\ CheckpointIsOfThisCharter'
  <2>1. CASE Accepts(job[a].case, job[a].revision)
    <3>1. task' = [task EXCEPT ![job[a].case] = [state |-> "ShiguanRecorded", revision |-> @.revision,
                                                 checkpoint |-> job[a].time]]
      BY <2>1 DEF Record
    <3>2. task[job[a].case].revision = job[a].revision /\ job[a].case \in Cases /\ job[a].time \in Receipt
      BY <2>1, Here DEF Accepts, Job
    <3>3. job[a].time # NoReceipt => BlockOf(job[a]) \in blocks
      BY <1>1, Here DEF SlotFits, WithReceipt
    <3>4. task \in [Cases -> Task] /\ CheckpointIsOfThisCharter
      BY Here DEF TypeOK, Archived
    <3> QED
      BY <1>1, <3>1, <3>2, <3>3, <3>4 DEF CheckpointIsOfThisCharter, BlockOf, Task
  <2>2. CASE ~Accepts(job[a].case, job[a].revision)
    BY <1>1, <2>2, Here, CheckpointsStay DEF Record, TypeOK, Archived
  <2> QED
    BY <2>1, <2>2
<1> QED
  <2>1. TypeOK'
    BY <1>1, <1>2, <1>6, Here DEF TypeOK, Slots
  <2>2. JobsFit'
    BY <1>1, <1>2, <1>3, Here, FitsStay DEF JobsFit
  <2>3. RowsAreArchived'
    BY <1>1, Here, RowsStay DEF Archived
  <2> QED
    BY <1>4, <1>5, <1>6, <2>1, <2>2, <2>3 DEF IInv, Archived

-----------------------------------------------------------------------------
(* What a producer writes                                                  *)

LEMMA BlockStep == ASSUME IInv, NEW a \in Archivers, AppendBlock(a) PROVE IInv'
<1> DEFINE key == KeyOf(work[a])
<1>1. /\ step[a] = "seeding" /\ blocks' = blocks \cup {BlockOf(work[a])} /\ Produce(a, "archived")
      /\ forsaken' = IF ~Awaited(a) /\ ~IsNote(work[a]) THEN [forsaken EXCEPT ![key] = @ + 1]
                     ELSE forsaken
      /\ UNCHANGED <<task, rows, torn, cache, losses, rebuilds, notes, pc, job>>
  BY DEF AppendBlock, Forsake, archiver, spent
<1>2. /\ Slots' /\ Alone(a) /\ step'[a] = "archived" /\ work'[a] = work[a]
      /\ pc'[a] = pc[a] /\ job'[a] = job[a]
  BY <1>1, Here, ProducerMoves DEF Slots, Alone, Step
<1>3. work[a].time \in Nat /\ (key \in Key <=> ~IsNote(work[a])) /\ work[a] \in Job
  BY <1>1, Here, KeysOfCases DEF SlotFits, Timed
<1>4. IsFiniteSet(blocks) /\ IsFiniteSet(blocks')
  BY <1>1, Here, FS_AddElement DEF JobsFit
<1>5. forsaken' \in [Key -> Nat]
      /\ \A k \in Key : forsaken'[k] = IF k = key /\ ~Awaited(a) THEN forsaken[k] + 1 ELSE forsaken[k]
  BY <1>1, <1>3, Here DEF TypeOK
<1>6. TypeOK'
  <2>1. BlockOf(work[a]) \in Block
    BY <1>3 DEF BlockOf, Block, Job
  <2> QED
    BY <1>1, <1>2, <1>5, <2>1, Here DEF TypeOK, Slots
<1>7. SlotFits(a)'
  BY <1>1, <1>2, <1>3, Here DEF SlotFits, Awaited, BlockOf, KeyOf, Timed, Written
<1>8. JobsFit'
  BY <1>1, <1>2, <1>4, <1>7, Here, FitsStay
<1>9. RowsAreArchived' /\ CheckpointIsOfThisCharter'
  BY <1>1, Here, RowsStay, CheckpointsStay DEF Archived
<1>10. Exclusive'
  BY <1>2, Here, ExclusiveStays DEF Caching
<1>11. \A k \in Key : k # key => BlocksOf(k)' = BlocksOf(k)
  BY <1>1 DEF BlocksOf, BlockOf, KeyOf, Key
<1>12. ASSUME NEW k \in Key, k = key
       PROVE  /\ Cardinality(BlocksOf(k)') \in Nat
              /\ Cardinality(BlocksOf(k)') <= Cardinality(BlocksOf(k)) + 1
  <2>1. BlocksOf(k)' = BlocksOf(k) \cup {BlockOf(work[a])}
    BY <1>1, <1>12 DEF BlocksOf, BlockOf, KeyOf
  <2>2. IsFiniteSet(BlocksOf(k)) /\ Cardinality(BlocksOf(k)) \in Nat
    BY Here, CountsAreNumbers
  <2>3. Cardinality(BlocksOf(k)') \in Nat
    BY <2>1, <2>2, FS_AddElement, FS_CardinalityType
  <2>4. Cardinality(BlocksOf(k)') <= Cardinality(BlocksOf(k)) + 1
    <3>1. \/ Cardinality(BlocksOf(k)') = Cardinality(BlocksOf(k))
          \/ Cardinality(BlocksOf(k)') = Cardinality(BlocksOf(k)) + 1
      BY <2>1, <2>2, FS_AddElement
    <3> QED
      BY <2>2, <3>1
  <2> QED
    BY <2>3, <2>4
<1>13. /\ \A b \in Archivers : /\ KeyOf(work[b])' = KeyOf(work[b])
                               /\ b # a => (Flying(b)' <=> Flying(b)) /\ (Pending(b)' <=> Pending(b))
       /\ ~Flying(a) /\ ~Pending(a)' /\ (Flying(a)' <=> Awaited(a)) /\ (Awaited(a) => Pending(a))
  BY <1>1, <1>2 DEF Alone, Flying, Pending, Awaited, KeyOf, Early
<1>14. ASSUME NEW k \in Key PROVE Cardinality(BlocksOf(k)') <= forsaken'[k] + Owed(k)'
  <2>1. CASE k # key
    <3>1. Owed(k)' = Owed(k)
      BY <1>1, <1>13, <2>1 DEF Owed
    <3> QED
      BY <1>5, <1>11, <2>1, <3>1, Here DEF Counted
  <2>2. CASE k = key /\ Awaited(a)
    <3>1. Cardinality(BlocksOf(k)) <= forsaken[k]
      BY <1>13, <2>2, Here DEF Counted
    <3>2. Owed(k)' = 1
      BY <1>13, <2>2 DEF Owed
    <3> QED
      BY <1>5, <1>12, <2>2, <3>1, <3>2, Here, CountsAreNumbers
  <2>3. CASE k = key /\ ~Awaited(a)
    <3>1. Owed(k)' = Owed(k)
      BY <1>1, <1>13, <2>3 DEF Owed
    <3> QED
      BY <1>5, <1>12, <2>3, <3>1, Here, CountsAreNumbers DEF Counted
  <2> QED
    BY <2>1, <2>2, <2>3
<1>15. ASSUME NEW b \in Archivers, Pending(b)'
       PROVE  Cardinality(BlocksOf(KeyOf(work[b]))') <= forsaken'[KeyOf(work[b])']
  <2> DEFINE k == KeyOf(work[b])
  <2>1. b # a /\ Pending(b) /\ Awaited(b) /\ k \in Key /\ KeyOf(work[b])' = k
    BY <1>13, <1>15, WaitsForCase DEF Pending
  <2>2. Cardinality(BlocksOf(k)) <= forsaken[k]
    BY <2>1, Here DEF Counted
  <2>3. BlocksOf(k)' = BlocksOf(KeyOf(work[b]))'
    BY <2>1 DEF BlocksOf
  <2>4. CASE k # key
    BY <1>5, <1>11, <2>1, <2>2, <2>3, <2>4
  <2>5. CASE k = key
    <3>1. ~Awaited(a)
      BY <2>1, <2>5, WaitsForCase, OnlyOneWaits
    <3> QED
      BY <1>5, <1>12, <2>1, <2>2, <2>3, <2>5, <3>1, Here, CountsAreNumbers
  <2> QED
    BY <2>4, <2>5
<1> QED
  BY <1>6, <1>8, <1>9, <1>10, <1>14, <1>15 DEF IInv, Archived, Counted

LEMMA RowStep == ASSUME IInv, NEW a \in Archivers, AppendRow(a) PROVE IInv'
<1>1. /\ step[a] = "archived" /\ rows' = rows \cup {RowOf(work[a])} /\ Produce(a, "refreshing")
      /\ UNCHANGED <<task, blocks, torn, cache, forsaken, losses, rebuilds, notes, pc, job>>
  BY DEF AppendRow, archiver, spent
<1>2. /\ Slots' /\ Alone(a) /\ step'[a] = "refreshing" /\ work'[a] = work[a]
      /\ pc'[a] = pc[a] /\ job'[a] = job[a]
  BY <1>1, Here, ProducerMoves DEF Slots, Alone, Step
<1>3. work[a].time \in Nat /\ BlockOf(work[a]) \in blocks
  BY <1>1, Here DEF SlotFits, Timed, Written
<1>4. TypeOK'
  <2>1. RowOf(work[a]) \in Row
    BY <1>3, Here DEF RowOf, Row, Job
  <2> QED
    BY <1>1, <1>2, <2>1, Here DEF TypeOK, Slots
<1>5. JobsFit'
  <2>1. SlotFits(a)'
    BY <1>1, <1>2, Here DEF SlotFits, Awaited, BlockOf, KeyOf, Timed, Written
  <2> QED
    BY <1>1, <1>2, <2>1, Here, FitsStay DEF JobsFit
<1>6. RowsAreArchived'
  <2>1. [case |-> RowOf(work[a]).case, revision |-> RowOf(work[a]).revision,
         time |-> RowOf(work[a]).time] = BlockOf(work[a])
    BY DEF RowOf, BlockOf
  <2> QED
    BY <1>1, <1>3, <2>1, Here DEF RowsAreArchived, Archived
<1>7. CheckpointIsOfThisCharter' /\ Exclusive'
  BY <1>1, <1>2, Here, CheckpointsStay, ExclusiveStays DEF Archived, Caching
<1>8. Counted'
  BY <1>1, <1>2, Here, CountedStays DEF Pending, Flying, Awaited, KeyOf, Early
<1> QED
  BY <1>4, <1>5, <1>6, <1>7, <1>8 DEF IInv, Archived

LEMMA DeliverStep == ASSUME IInv, NEW a \in Archivers, Deliver(a) PROVE IInv'
<1> DEFINE key == KeyOf(work[a])
           to == IF Awaited(a) THEN "printing" ELSE "idle"
<1>1. /\ step[a] = "refreshing" /\ Produce(a, to)
      /\ cache' = IF IsNote(work[a]) THEN cache ELSE [cache EXCEPT ![key] = work[a].time]
      /\ UNCHANGED <<task, blocks, rows, torn, forsaken, losses, rebuilds, notes, pc, job>>
  BY DEF Deliver, stores, archiver, spent
<1>2. to \in Step
  BY DEF Step
<1>3. /\ Slots' /\ Alone(a) /\ step'[a] = to /\ work'[a] = IF to = "idle" THEN NoJob ELSE work[a]
      /\ pc'[a] = pc[a] /\ job'[a] = job[a]
  BY <1>1, <1>2, Here, ProducerMoves DEF Slots, Alone
<1>4. /\ work[a].time \in Nat /\ BlockOf(work[a]) \in blocks
      /\ (key \in Key <=> ~IsNote(work[a])) /\ work[a].time # NoReceipt
  BY <1>1, Here, KeysOfCases, ReceiptAssumption DEF SlotFits, Timed, Written
<1>5. /\ cache' \in [Key -> Receipt]
      /\ \A k \in Key : cache'[k] = IF k = key THEN work[a].time ELSE cache[k]
  BY <1>1, <1>4, Here DEF TypeOK, Receipt
<1>6. TypeOK'
  BY <1>1, <1>3, <1>5, Here DEF TypeOK, Slots
<1>7. JobsFit'
  <2>1. SlotFits(a)'
    BY <1>1, <1>3, <1>4, Here DEF SlotFits, Awaited, BlockOf, KeyOf, Timed, Written
  <2> QED
    BY <1>1, <1>3, <2>1, Here, FitsStay DEF JobsFit
<1>8. RowsAreArchived'
  <2>1. \A k \in Key : k = key =>
            [case |-> k[1], revision |-> k[2], time |-> work[a].time] = BlockOf(work[a])
    BY DEF KeyOf, BlockOf
  <2> QED
    BY <1>1, <1>4, <1>5, <2>1, Here DEF RowsAreArchived, Archived
<1>9. CheckpointIsOfThisCharter' /\ Exclusive'
  BY <1>1, <1>3, Here, CheckpointsStay, ExclusiveStays DEF Archived, Caching
<1>10. /\ \A b \in Archivers : b # a => /\ KeyOf(work[b])' = KeyOf(work[b])
                                         /\ (Flying(b)' <=> Flying(b)) /\ (Pending(b)' <=> Pending(b))
       /\ ~Pending(a)'
  BY <1>1, <1>3 DEF Alone, Flying, Pending, Awaited, KeyOf, Early
<1>11. ASSUME NEW k \in Key PROVE Owed(k)' >= Owed(k)
  <2>1. CASE k = key
    BY <1>4, <1>5, <2>1 DEF Owed
  <2>2. CASE k # key
    <3>1. (\E b \in Archivers : Flying(b) /\ KeyOf(work[b]) = k) =>
             (\E b \in Archivers : Flying(b) /\ KeyOf(work[b]) = k)'
      BY <1>10, <2>2
    <3> QED
      BY <1>5, <2>2, <3>1 DEF Owed
  <2> QED
    BY <2>1, <2>2
<1>12. \A k : BlocksOf(k)' = BlocksOf(k)
  BY <1>1 DEF BlocksOf
<1>13. ASSUME NEW k \in Key PROVE Cardinality(BlocksOf(k)') <= forsaken'[k] + Owed(k)'
  <2>1. Cardinality(BlocksOf(k)) <= forsaken[k] + Owed(k)
    BY Here DEF Counted
  <2>2. Owed(k)' \in 0..1
    BY DEF Owed
  <2> QED
    BY <1>1, <1>11, <1>12, <2>1, <2>2, Here, CountsAreNumbers
<1>14. ASSUME NEW b \in Archivers, Pending(b)'
       PROVE  Cardinality(BlocksOf(KeyOf(work[b]))') <= forsaken'[KeyOf(work[b])']
  BY <1>1, <1>10, <1>12, <1>14, Here DEF Counted
<1> QED
  BY <1>6, <1>7, <1>8, <1>9, <1>13, <1>14 DEF IInv, Archived, Counted

-----------------------------------------------------------------------------
(* Deaths                                                                  *)

\* What dies on the way to an archiver is forsaken, and nothing else changes.
LEMMA LossStep ==
    ASSUME IInv, NEW a \in Archivers, Slots', Alone(a), SlotFits(a)', ~Awaited(a)',
           Forsake(a, Undelivered(a)), Caching(a)' => Caching(a) /\ KeyOf(job[a])' = KeyOf(job[a]),
           UNCHANGED <<task, blocks, rows, cache, rebuilds, notes>>,
           torn' \in BOOLEAN, losses' \in 0..MaxLosses
    PROVE  IInv'
<1>1. /\ forsaken' \in [Key -> Nat]
      /\ \A k \in Key : forsaken'[k] = IF Flying(a) /\ KeyOf(work[a]) = k THEN forsaken[k] + 1
                                        ELSE forsaken[k]
  <2>1. Flying(a) <=> Undelivered(a)
    BY DEF Flying, Undelivered
  <2>2. Flying(a) => KeyOf(work[a]) \in Key /\ ~IsNote(work[a])
    BY WaitsForCase DEF Flying
  <2> QED
    BY <2>1, <2>2, Here DEF Forsake, TypeOK
<1>2. TypeOK'
  BY <1>1, Here DEF TypeOK, Slots
<1>3. JobsFit'
  BY Here, FitsStay DEF JobsFit
<1>4. RowsAreArchived' /\ CheckpointIsOfThisCharter' /\ Exclusive'
  BY Here, RowsStay, CheckpointsStay, ExclusiveStays DEF Archived
<1>5. /\ \A b \in Archivers : b # a => /\ KeyOf(work[b])' = KeyOf(work[b])
                                        /\ (Flying(b)' <=> Flying(b)) /\ (Pending(b)' <=> Pending(b))
      /\ ~Pending(a)'
  BY DEF Alone, Flying, Pending, Awaited, KeyOf
<1>6. \A k : BlocksOf(k)' = BlocksOf(k)
  BY DEF BlocksOf
<1>7. ASSUME NEW k \in Key PROVE Cardinality(BlocksOf(k)') <= forsaken'[k] + Owed(k)'
  <2>1. Cardinality(BlocksOf(k)) <= forsaken[k] + Owed(k)
    BY Here DEF Counted
  <2>2. Owed(k)' \in 0..1
    BY DEF Owed
  <2>3. CASE Flying(a) /\ KeyOf(work[a]) = k
    BY <1>1, <1>6, <2>1, <2>2, <2>3, Here, CountsAreNumbers
  <2>4. CASE ~(Flying(a) /\ KeyOf(work[a]) = k)
    <3>1. Owed(k)' >= Owed(k)
      BY <1>5, <2>4 DEF Owed
    <3> QED
      BY <1>1, <1>6, <2>1, <2>2, <2>4, <3>1, Here, CountsAreNumbers
  <2> QED
    BY <2>3, <2>4
<1>8. ASSUME NEW b \in Archivers, Pending(b)'
      PROVE  Cardinality(BlocksOf(KeyOf(work[b]))') <= forsaken'[KeyOf(work[b])']
  <2> DEFINE k == KeyOf(work[b])
  <2>1. b # a /\ Pending(b) /\ k \in Key /\ KeyOf(work[b])' = k
    BY <1>5, <1>8, WaitsForCase DEF Pending
  <2>2. Cardinality(BlocksOf(k)) <= forsaken[k]
    BY <2>1, Here DEF Counted
  <2>3. forsaken'[k] >= forsaken[k] /\ forsaken'[k] \in Nat
    BY <1>1, <2>1, Here, CountsAreNumbers
  <2> HIDE DEF k
  <2>4. Cardinality(BlocksOf(k)) <= forsaken'[k]
    BY <2>1, <2>2, <2>3, Here, CountsAreNumbers
  <2> QED
    BY <1>6, <2>1, <2>4 DEF k
<1> QED
  BY <1>2, <1>3, <1>4, <1>7, <1>8 DEF IInv, Archived, Counted

LEMMA DieStep == ASSUME IInv, NEW a \in Archivers, Die(a) PROVE IInv'
<1>1. /\ Go(a, "idle") /\ Forsake(a, Undelivered(a))
      /\ UNCHANGED <<task, blocks, rows, torn, cache, rebuilds, notes>>
      /\ losses' \in 0..MaxLosses
      /\ IF step[a] = "printing" THEN Produce(a, "idle") ELSE UNCHANGED producer
  BY Here, Bounds DEF Die, stores, TypeOK
<1>2. /\ pc' \in [Archivers -> Pc] /\ job' \in [Archivers -> Job]
      /\ pc'[a] = "idle" /\ job'[a] = NoJob
      /\ \A b \in Archivers : b # a => pc'[b] = pc[b] /\ job'[b] = job[b]
  BY <1>1, Here, ArchiverMoves DEF Pc
<1>3. /\ Slots' /\ Alone(a)
      /\ \/ step'[a] = "idle"
         \/ step'[a] = step[a] /\ work'[a] = work[a] /\ step[a] # "printing"
  <2>1. CASE step[a] = "printing"
    BY <1>1, <1>2, <2>1, Here, ProducerMoves DEF Slots, Alone, Step
  <2>2. CASE step[a] # "printing"
    BY <1>1, <1>2, <2>2, Here DEF Slots, Alone, producer
  <2> QED
    BY <2>1, <2>2
<1>4. SlotFits(a)'
  BY <1>1, <1>2, <1>3, Here DEF SlotFits, Awaited, WithReceipt, BlockOf, Timed, Written
<1>5. torn' \in BOOLEAN
  BY <1>1, Here DEF TypeOK
<1> QED
  BY <1>1, <1>2, <1>3, <1>4, <1>5, LossStep DEF Caching, Awaited

LEMMA ProducerFailsStep ==
    ASSUME IInv, NEW a \in Archivers, NEW tears \in BOOLEAN, ProducerFails(a, tears)
    PROVE  IInv'
<1>1. /\ ProducerEnds(a) /\ Forsake(a, Undelivered(a))
      /\ UNCHANGED <<task, blocks, rows, cache, rebuilds, notes>>
      /\ losses' \in 0..MaxLosses
      /\ torn' \in BOOLEAN
  BY Here, Bounds DEF ProducerFails, TypeOK
<1>2. /\ Slots' /\ Alone(a) /\ step'[a] = "idle" /\ work'[a] = NoJob /\ ~Awaited(a)'
      /\ \/ pc'[a] = pc[a] /\ job'[a] = job[a]
         \/ pc'[a] = "idle" /\ job'[a] = NoJob
  BY <1>1, Here, ProducerLeaves
<1>3. SlotFits(a)'
  BY <1>1, <1>2, Here DEF SlotFits, WithReceipt, BlockOf, Timed, Written
<1> QED
  BY <1>1, <1>2, <1>3, LossStep DEF Caching

-----------------------------------------------------------------------------
(* Every step                                                              *)

LEMMA IInvInit == Init => IInv
<1> SUFFICES ASSUME Init PROVE IInv
  OBVIOUS
<1>1. torn \in BOOLEAN /\ task \in [Cases -> Task]
  BY Bounds DEF Init, Task, Receipt
<1>2. TypeOK
  BY <1>1, Bounds, NoJobIsJob DEF Init, TypeOK, Pc, Step, Receipt
<1>3. JobsFit
  BY FS_EmptySet DEF Init, JobsFit, SlotFits, WithReceipt, Timed, Written, Awaited
<1>4. \A k \in Key : BlocksOf(k) = {} /\ Owed(k) = 0 /\ forsaken[k] = 0
  BY DEF Init, BlocksOf, Owed, Flying, Awaited
<1>5. \A a \in Archivers : ~Caching(a) /\ ~Pending(a)
  BY DEF Init, Caching, Pending, Awaited
<1>6. \A k \in Key : Cardinality(BlocksOf(k)) <= forsaken[k] + Owed(k)
  BY <1>4, FS_EmptySet
<1>7. Exclusive /\ Counted
  BY <1>5, <1>6 DEF Exclusive, Counted
<1> QED
  BY <1>2, <1>3, <1>7 DEF Init, IInv, Archived, RowsAreArchived, CheckpointIsOfThisCharter

\* Rebuilds, charters and transitions leave archivers and producers alone.
LEMMA AroundStep ==
    ASSUME IInv, NEW c \in Cases, Rebuild \/ Recharter(c) \/ ReturnToReview(c) \/ Complete(c)
    PROVE  IInv'
<1>1. PICK a \in Archivers : TRUE
  BY SomebodyAssumption
<1>2. UNCHANGED <<blocks, cache, forsaken, losses, notes, pc, job, step, work>>
  BY DEF Rebuild, Recharter, ReturnToReview, Complete, stores, archiver, producer, spent
<1>3. Slots' /\ Alone(a) /\ SlotFits(a)'
  BY <1>1, <1>2, Here DEF Slots, Alone, SlotFits, Awaited, KeyOf, BlockOf
<1>4. JobsFit'
  BY <1>1, <1>2, <1>3, Here, FitsStay DEF JobsFit
<1>5. Exclusive' /\ Counted'
  BY <1>1, <1>2, <1>3, Here, ExclusiveStays, CountedStays DEF Caching, Pending, Flying, Awaited
<1>6. TypeOK' /\ RowsAreArchived' /\ CheckpointIsOfThisCharter'
  <2>1. CASE Rebuild
    <3>1. \A b \in blocks : /\ [case |-> b.case, revision |-> b.revision, time |-> b.time,
                                full |-> FALSE] \in Row
                            /\ b = [case |-> b.case, revision |-> b.revision, time |-> b.time]
      BY <1>1, Here DEF Row, Block, TypeOK
    <3>2. \A r \in rows' : \E b \in blocks :
              r = [case |-> b.case, revision |-> b.revision, time |-> b.time, full |-> FALSE]
      BY <2>1 DEF Rebuild
    <3>3. rows' \subseteq Row /\ torn' \in BOOLEAN /\ rebuilds' \in 0..MaxRebuilds /\ task' = task
      <4>1. rows' \subseteq Row
        BY <3>1, <3>2
      <4>2. torn' = FALSE /\ task' = task /\ rebuilds' = rebuilds + 1 /\ rebuilds < MaxRebuilds
        BY <2>1 DEF Rebuild
      <4>3. rebuilds' \in 0..MaxRebuilds
        BY <1>1, <4>2, Here, Bounds DEF TypeOK
      <4> QED
        BY <4>1, <4>2, <4>3
    <3>4. TypeOK'
      BY <1>1, <1>2, <1>3, <3>3, Here DEF TypeOK, Slots
    <3>5. RowsAreArchived'
      BY <1>1, <1>2, <3>1, <3>2, Here DEF RowsAreArchived, Archived
    <3> QED
      BY <1>1, <1>2, <3>3, <3>4, <3>5, Here, CheckpointsStay DEF Archived
  <2>2. CASE Recharter(c) \/ ReturnToReview(c) \/ Complete(c)
    <3>1. UNCHANGED <<rows, torn, rebuilds>>
      BY <2>2 DEF Recharter, ReturnToReview, Complete, stores, spent
    <3>2. task' \in [Cases -> Task]
      BY <1>1, <2>2, Here, Bounds
         DEF Recharter, ReturnToReview, Complete, TypeOK, Task, Revision, Receipt
    <3>3. CheckpointIsOfThisCharter'
      BY <1>1, <1>2, <2>2, Here
         DEF Recharter, ReturnToReview, Complete, CheckpointIsOfThisCharter, Archived, TypeOK, Task
    <3> QED
      BY <1>1, <1>2, <1>3, <3>1, <3>2, <3>3, Here, RowsStay DEF TypeOK, Slots, Archived
  <2> QED
    BY <2>1, <2>2
<1> QED
  BY <1>4, <1>5, <1>6 DEF IInv, Archived

LEMMA IInvStep == IInv /\ [Next]_vars => IInv'
<1> SUFFICES ASSUME IInv, [Next]_vars PROVE IInv'
  OBVIOUS
<1>1. ASSUME NEW a \in Archivers, Archive(a) PROVE IInv'
  BY <1>1, BeginStep, EnterStep, LookUpStep, StartStep, CompareStep, ValidateStep, RecordStep,
     GiveUpStep, DieStep DEF Archive
<1>2. ASSUME NEW a \in Archivers, Append(a) PROVE IInv'
  BY <1>2, NoteStep, CheckStep, TakeIndexStep, BlockStep, RowStep, DeliverStep, ProducerFailsStep
     DEF Append
<1>3. CASE Rebuild
  BY <1>3, SomebodyAssumption, AroundStep
<1>4. ASSUME NEW c \in Cases, Recharter(c) \/ ReturnToReview(c) \/ Complete(c) PROVE IInv'
  BY <1>4, AroundStep
<1>5. CASE UNCHANGED vars
  <2>1. PICK a \in Archivers : TRUE
    BY SomebodyAssumption
  <2>2. UNCHANGED <<task, blocks, rows, torn, cache, forsaken, losses, rebuilds, notes>>
        /\ UNCHANGED <<pc, job, step, work>>
    BY <1>5 DEF vars, stores, archiver, producer, spent
  <2>3. Slots' /\ Alone(a) /\ SlotFits(a)' /\ notes' \in 0..MaxNotes
    BY <2>1, <2>2, Here DEF Slots, Alone, SlotFits, Awaited, KeyOf, BlockOf
  <2>4. Exclusive'
    BY <2>1, <2>2, <2>3, Here, ExclusiveStays DEF Caching
  <2> QED
    BY <2>1, <2>2, <2>3, <2>4, QuietStep DEF Pending, Flying, Awaited
<1> QED
  BY <1>1, <1>2, <1>3, <1>4, <1>5 DEF Next

LEMMA IInvHolds == Spec => []IInv
BY IInvInit, IInvStep, PTL DEF Spec

-----------------------------------------------------------------------------
(* What follows                                                            *)

\* Every variable keeps its type.
THEOREM TypeCorrect == Spec => []TypeOK
<1>1. IInv => TypeOK
  BY DEF IInv, Archived
<1> QED
  BY <1>1, IInvHolds, PTL

\* append_checkpoint writes the block before the row and the receipt after
\* both: wherever a producer dies, no row and no cached receipt lacks its block.
THEOREM RowsStayArchived == Spec => []RowsAreArchived
<1>1. IInv => RowsAreArchived
  BY DEF IInv, Archived
<1> QED
  BY <1>1, IInvHolds, PTL

\* record_shiguan_task accepts a receipt for the revision it was archived
\* under only: the checkpoint of a task is of the charter in force.
THEOREM CheckpointsFollowTheCharter == Spec => []CheckpointIsOfThisCharter
<1>1. IInv => CheckpointIsOfThisCharter
  BY DEF IInv, Archived
<1> QED
  BY <1>1, IInvHolds, PTL

\* The cache lock of archive_and_record_task and its receipt file keep an
\* acceptance from getting a second block, but for each block that was
\* forsaken: by an archiver that died before its producer had delivered, or
\* by a producer that died, or failed, between the block and the receipt.
THEOREM AcceptancesAreArchivedOnce == Spec => []ArchivedOnce
<1>1. ASSUME IInv PROVE ArchivedOnce
  <2>1. ASSUME NEW k \in Key PROVE Cardinality(BlocksOf(k)) <= 1 + forsaken[k]
    BY <1>1, CountsAreNumbers DEF IInv, Counted
  <2> QED
    BY <2>1 DEF ArchivedOnce
<1> QED
  BY <1>1, IInvHolds, PTL
=============================================================================
