---------------------- MODULE LedgerTransactionsProofs ----------------------
(***************************************************************************)
(* Proofs, for any transactions, mutations and number of deaths, that the  *)
(* settled ledgers agree, that journals tell the truth, that a paired      *)
(* rollback takes back nothing but its own work, and that what others      *)
(* committed is withdrawn only by the recovery of a command that died.     *)
(***************************************************************************)
EXTENDS LedgerTransactions, TLAPS

-----------------------------------------------------------------------------
(* The inductive invariant                                                 *)

\* The types, but for the bound of the pieces.
LedgersOK == tasks \in Seq(Entry) /\ events \in Seq(Line) /\ torn \in Nat
ControlOK == /\ journal \in [Paired -> DOMAIN PhaseOrder]
             /\ pc \in {"free", "begun"} \cup Forward \cup Backward
             /\ cur \in Txn \cup {NoTxn}
             /\ retry \in BOOLEAN
SpentOK == /\ acked \subseteq Plain
           /\ overlapped \subseteq Txn
           /\ crashes \in 0..MaxCrashes
Types == LedgersOK /\ marker \in [Txn -> Marker] /\ ControlOK /\ SpentOK

\* An unfinished line has a piece for each death, and one more as long as the
\* transaction that tore it has not ended.
Tearing == \/ pc = "tearing"
           \/ pc \in {"recovering", "restoring", "truncating"} /\ cur \in Completion
TornBound == /\ torn <= crashes + (IF Tearing THEN 1 ELSE 0)
             /\ \A x \in Txn : marker[x].preTorn <= crashes

\* Whoever is past its marker, or recovers it, has one.
Placed == /\ pc \in Forward \cup Backward => cur \in Txn /\ Marked(cur)
          /\ pc = "begun" => cur \in Txn /\ ~Marked(cur)

\* What a transaction makes of the images in its marker.
Ahead(x) == Append(marker[x].preTasks, x)
Told(x) == Append(marker[x].preEvents, IF marker[x].preTorn > 0 THEN Garbled ELSE x)

MarkersSpeak ==
    \A x \in Txn : Marked(x) =>
        /\ x \notin Range(marker[x].preTasks)
        /\ marker[x].phase \in {"TASK_WRITTEN", "EVENT_WRITTEN"} => marker[x].postTasks = Ahead(x)
        /\ marker[x].phase = "EVENT_WRITTEN" => marker[x].postEvents = Told(x)

\* The ledgers are as far as the transaction that writes them.
Untouched == tasks = marker[cur].preTasks /\ EventsArePreImage(cur)
Written == tasks = Ahead(cur) /\ events = Told(cur) /\ torn = 0
WorkingForward ==
    /\ pc \in {"marked", "prepared"} => marker[cur].phase = "PREPARED" /\ Untouched
    /\ pc = "tasked" => /\ marker[cur].phase = "PREPARED"
                        /\ tasks = Ahead(cur) /\ EventsArePreImage(cur)
    /\ pc \in {"taskMarked", "appending"} => /\ marker[cur].phase = "TASK_WRITTEN"
                                             /\ tasks = Ahead(cur) /\ EventsArePreImage(cur)
    /\ pc = "appended" => marker[cur].phase = "TASK_WRITTEN" /\ Written
    /\ pc \in {"eventMarked", "journaled", "committed"} =>
          marker[cur].phase = "EVENT_WRITTEN" /\ Written
    /\ (pc \in Forward \ {"marked"} /\ cur \in Paired) => journal[cur] # "ROLLED_BACK"

\* A recovery takes back what its checks allowed it to.
WorkingBackward ==
    /\ pc = "finalizing" => PostImage(cur)
    /\ pc = "restoring" => MayRestore(cur)
    /\ pc = "truncating" => /\ tasks = marker[cur].preTasks
                            /\ cur \in Paired => EventsArePreImage(cur)
    /\ pc = "restored" => Untouched
    /\ pc = "clearing" => Untouched \/ PostImage(cur)

\* Markers that wait at the same time are remembered.
Overlaps == \A x, y \in Txn : (x # y /\ Marked(x) /\ Marked(y)) => x \in overlapped

\* Without an overlap the images of a marker agree, and so do the ledgers
\* when there is none.
Agreed ==
    overlapped = {} =>
        /\ (\A x \in Txn : ~Marked(x)) => tasks = events /\ torn = 0
        /\ \A x \in Txn : Marked(x) => /\ marker[x].preTasks = marker[x].preEvents
                                       /\ marker[x].preTorn = 0

\* The journals tell the truth, a committed one that has a marker has it
\* complete, and what another protocol may restore shows the same operations.
Journaled ==
    overlapped \subseteq Paired =>
        /\ \A x \in Paired :
              /\ journal[x] = "COMMITTED" => x \in Range(tasks)
              /\ journal[x] = "ROLLED_BACK" => x \notin Range(tasks)
              /\ Marked(x) /\ journal[x] = "COMMITTED" => marker[x].phase = "EVENT_WRITTEN"
        /\ \A x \in Txn \ Paired : Marked(x) =>
              \A y \in Paired : y \in Range(tasks) <=> y \in Range(marker[x].preTasks)

Working == WorkingForward /\ WorkingBackward
IInv == Types /\ TornBound /\ Placed /\ MarkersSpeak /\ Working /\ Overlaps /\ Agreed /\ Journaled

-----------------------------------------------------------------------------
(* Data                                                                    *)

\* Range of a longer sequence.
LEMMA RangeOfAppend ==
    ASSUME NEW S, NEW s \in Seq(S), NEW e \in S
    PROVE  Range(Append(s, e)) = Range(s) \cup {e}
<1>1. Append(s, e) \in Seq(S) /\ Len(Append(s, e)) = Len(s) + 1
  OBVIOUS
<1>2. \A i \in 1..Len(s) : Append(s, e)[i] = s[i]
  OBVIOUS
<1>3. Append(s, e)[Len(s) + 1] = e
  OBVIOUS
<1>4. DOMAIN s = 1..Len(s) /\ DOMAIN Append(s, e) = 1..(Len(s) + 1) /\ Len(s) \in Nat
  BY <1>1
<1>5. 1..(Len(s) + 1) = 1..Len(s) \cup {Len(s) + 1}
  BY <1>4
<1> QED
  BY <1>2, <1>3, <1>4, <1>5 DEF Range

LEMMA PhasesAre ==
    DOMAIN PhaseOrder = {"none", "PREPARED", "TASK_WRITTEN", "EVENT_WRITTEN", "COMMITTED",
                         "ROLLED_BACK"}
BY DEF PhaseOrder

\* What a journal may become.
LEMMA JournalWritten ==
    ASSUME Types, NEW x \in Txn, NEW phase \in DOMAIN PhaseOrder, Journal(x, phase)
    PROVE  /\ journal' \in [Paired -> DOMAIN PhaseOrder]
           /\ \A y \in Paired : journal'[y] = IF y = x THEN phase ELSE journal[y]
           /\ (x \in Paired /\ journal[x] = "ROLLED_BACK") => phase = "ROLLED_BACK"
BY DEF Types, ControlOK, Journal, JournalAccepts

LEMMA TypesSayIt == Types /\ TornBound => TypeOK
<1> SUFFICES ASSUME Types, TornBound PROVE TypeOK
  OBVIOUS
<1>1. torn \in 0..(MaxCrashes + 1)
  BY DisjointKinds DEF Types, LedgersOK, SpentOK, TornBound
<1> QED
  BY <1>1 DEF Types, LedgersOK, ControlOK, SpentOK, TypeOK

\* What the steps that leave the ledgers and the markers alone keep.
LEMMA WaitingStay ==
    ASSUME Overlaps, Agreed, MarkersSpeak, UNCHANGED <<tasks, events, torn, marker, overlapped>>
    PROVE  Overlaps' /\ Agreed' /\ MarkersSpeak'
BY DEF Overlaps, Agreed, MarkersSpeak, Marked, Ahead, Told

LEMMA JournaledStay ==
    ASSUME Journaled, UNCHANGED <<tasks, marker, overlapped, journal>>
    PROVE  Journaled'
BY DEF Journaled, Marked

-----------------------------------------------------------------------------
(* The steps that change the progress of the owner alone                   *)

LEMMA InvOfBeginning ==
    ASSUME IInv, NEW x \in Txn, Begin(x) \/ Recover(x)
    PROVE  IInv'
<1> USE DEF IInv, Types, LedgersOK, ControlOK, SpentOK
<1>1. /\ UNCHANGED <<tasks, events, torn, marker, journal, acked, overlapped, crashes>>
      /\ pc = "free" /\ cur' = x /\ retry' \in BOOLEAN
      /\ \/ pc' = "recovering" /\ Marked(x)
         \/ pc' = "begun" /\ ~Marked(x)
  BY DEF Begin, Recover, ledgers, history
<1>2. Types'
  BY <1>1 DEF Backward
<1>3. TornBound'
  BY <1>1 DEF TornBound, Tearing
<1>4. Placed'
  BY <1>1 DEF Placed, Forward, Backward, Marked
<1>5. Working'
  BY <1>1 DEF Working, WorkingForward, WorkingBackward, Forward
<1> QED
  BY <1>1, <1>2, <1>3, <1>4, <1>5, WaitingStay, JournaledStay

LEMMA InvOfUnlocking ==
    ASSUME IInv, NothingLeft \/ JournalRefuses \/ RecoveryConflict \/ Abandon
    PROVE  IInv'
<1> USE DEF IInv, Types, LedgersOK, ControlOK, SpentOK
<1>1. /\ UNCHANGED <<tasks, events, torn, marker, journal, acked, overlapped>>
      /\ pc' = "free" /\ cur' = NoTxn /\ retry' = FALSE
      /\ \/ crashes' = crashes /\ (pc \in {"begun", "marked"} \/ RecoveryConflict)
         \/ crashes' = crashes + 1 /\ crashes' \in 0..MaxCrashes
  BY DisjointKinds DEF NothingLeft, JournalRefuses, RecoveryConflict, Abandon, Unlock, ledgers, history
<1>2. Types'
  BY <1>1
<1>3. RecoveryConflict => ~Tearing
  BY DEF RecoveryConflict, Tearing, MayRestore
<1>4. TornBound'
  <2>1. torn <= crashes'
    BY <1>1, <1>3 DEF TornBound, Tearing
  <2>2. \A x \in Txn : marker[x].preTorn <= crashes'
    BY <1>1 DEF TornBound, Marker
  <2> QED
    BY <1>1, <2>1, <2>2 DEF TornBound, Tearing
<1>5. Placed' /\ Working'
  BY <1>1 DEF Placed, Working, WorkingForward, WorkingBackward, Forward, Backward
<1> QED
  BY <1>1, <1>2, <1>4, <1>5, WaitingStay, JournaledStay

LEMMA InvOfTurning ==
    ASSUME IInv, CompletionRaises \/ Finalize \/ Restore
    PROVE  IInv'
<1> USE DEF IInv, Types, LedgersOK, ControlOK, SpentOK
<1>1. /\ UNCHANGED <<tasks, events, torn, marker, journal, acked, overlapped, crashes, cur>>
      /\ retry' \in BOOLEAN
      /\ \/ pc' = "recovering" /\ pc \in Forward /\ cur \in Completion
         \/ pc' = "finalizing" /\ pc = "recovering" /\ PostImage(cur)
         \/ pc' = "restoring" /\ pc = "recovering" /\ MayRestore(cur)
  BY DEF CompletionRaises, Finalize, Restore, Step, ledgers, history
<1>2. Types'
  BY <1>1 DEF Backward
<1>3. TornBound'
  BY <1>1 DEF TornBound, Tearing, PostImage
<1>4. Placed'
  BY <1>1 DEF Placed, Backward, Marked
<1>5. Working'
  BY <1>1 DEF Working, WorkingForward, WorkingBackward, Forward, PostImage, MayRestore,
              EventsArePreImage
<1> QED
  BY <1>1, <1>2, <1>3, <1>4, <1>5, WaitingStay, JournaledStay

-----------------------------------------------------------------------------
(* The steps that write the journal                                        *)

LEMMA InvOfReplay ==
    ASSUME IInv, NEW x \in Txn, Replay(x)
    PROVE  IInv'
<1> USE DEF IInv, Types, LedgersOK, ControlOK, SpentOK
<1>1. /\ UNCHANGED <<tasks, events, torn, marker, acked, overlapped, crashes, pc, cur, retry>>
      /\ pc = "free" /\ x \in Paired \cap Range(tasks) /\ ~Marked(x)
      /\ Journal(x, "COMMITTED")
  BY DEF Replay, ledgers, control, history
<1>2. /\ journal' \in [Paired -> DOMAIN PhaseOrder]
      /\ \A y \in Paired : journal'[y] = IF y = x THEN "COMMITTED" ELSE journal[y]
  BY <1>1, PhasesAre, JournalWritten
<1>3. Types'
  BY <1>1, <1>2
<1>4. TornBound' /\ Placed'
  BY <1>1 DEF TornBound, Tearing, Placed, Marked
<1>5. Working'
  BY <1>1 DEF Working, WorkingForward, WorkingBackward, Forward
<1>6. Journaled'
  BY <1>1, <1>2 DEF Journaled, Marked
<1> QED
  BY <1>1, <1>3, <1>4, <1>5, <1>6, WaitingStay

LEMMA InvOfJournal ==
    ASSUME IInv, JournalPrepared \/ JournalTasks \/ JournalEvent \/ JournalCommitted
    PROVE  IInv'
<1> USE DEF IInv, Types, LedgersOK, ControlOK, SpentOK
<1>1. UNCHANGED <<tasks, events, torn, marker, acked, overlapped, crashes, cur, retry>>
  BY DEF JournalPrepared, JournalTasks, JournalEvent, JournalCommitted, Step, ledgers, history
<1>2. PICK f \in {"PREPARED", "TASK_WRITTEN", "EVENT_WRITTEN", "COMMITTED"} :
         /\ Journal(cur, f)
         /\ \/ pc = "marked" /\ pc' = "prepared"
            \/ pc = "taskMarked" /\ pc' = "appending"
            \/ pc = "eventMarked" /\ pc' = "journaled"
            \/ pc = "journaled" /\ pc' = "committed"
         /\ f = "COMMITTED" => pc = "journaled"
  BY DEF JournalPrepared, JournalTasks, JournalEvent, JournalCommitted, Step
<1>3. cur \in Txn /\ Marked(cur)
  BY <1>2 DEF Placed, Forward
<1>4. /\ journal' \in [Paired -> DOMAIN PhaseOrder]
      /\ \A y \in Paired : journal'[y] = IF y = cur THEN f ELSE journal[y]
  BY <1>2, <1>3, PhasesAre, JournalWritten
<1>5. Types'
  BY <1>1, <1>2, <1>4 DEF Forward
<1>6. TornBound' /\ Placed'
  BY <1>1, <1>2, <1>3 DEF TornBound, Tearing, Placed, Marked
<1>7. Working'
  <2>1. cur \in Paired => journal'[cur] # "ROLLED_BACK"
    BY <1>2, <1>4
  <2> QED
    BY <1>1, <1>2, <2>1 DEF Working, WorkingForward, WorkingBackward, Untouched, Written, Ahead, Told,
                            EventsArePreImage
<1>8. Journaled'
  <2>1. pc = "journaled" => cur \in Range(tasks) /\ marker[cur].phase = "EVENT_WRITTEN"
    <3> SUFFICES ASSUME pc = "journaled" PROVE cur \in Range(tasks)
      BY DEF Working, WorkingForward
    <3>1. tasks = Ahead(cur)
      BY DEF Working, WorkingForward, Written
    <3>2. marker[cur].preTasks \in Seq(Entry) /\ cur \in Entry
      BY <1>3 DEF Marker, Entry
    <3> QED
      BY <3>1, <3>2, RangeOfAppend DEF Ahead
  <2> QED
    BY <1>1, <1>2, <1>4, <2>1 DEF Journaled, Marked
<1> QED
  BY <1>1, <1>5, <1>6, <1>7, <1>8, WaitingStay

LEMMA InvOfJournalRecovered ==
    ASSUME IInv, JournalRecovered
    PROVE  IInv'
<1> USE DEF IInv, Types, LedgersOK, ControlOK, SpentOK
<1>1. UNCHANGED <<tasks, events, torn, marker, acked, overlapped, crashes, cur, retry>>
  BY DEF JournalRecovered, Step, ledgers, history
<1>2. PICK f \in {"ROLLED_BACK", "COMMITTED"} :
         /\ Journal(cur, f) /\ pc' = "clearing"
         /\ \/ pc = "restored" /\ f = "ROLLED_BACK"
            \/ pc = "finalizing" /\ f = "COMMITTED"
  BY DEF JournalRecovered, Step
<1>3. cur \in Txn /\ Marked(cur)
  BY <1>2 DEF Placed, Backward
<1>4. /\ journal' \in [Paired -> DOMAIN PhaseOrder]
      /\ \A y \in Paired : journal'[y] = IF y = cur THEN f ELSE journal[y]
  BY <1>2, <1>3, PhasesAre, JournalWritten
<1>5. Types'
  BY <1>1, <1>2, <1>4 DEF Backward
<1>6. TornBound' /\ Placed'
  BY <1>1, <1>2, <1>3 DEF TornBound, Tearing, Placed, Marked
<1>7. Working'
  BY <1>1, <1>2 DEF Working, WorkingForward, WorkingBackward, Untouched, PostImage, Forward,
                    EventsArePreImage
<1>8. Journaled'
  <2>1. marker[cur].preTasks \in Seq(Entry) /\ cur \in Entry
    BY <1>3 DEF Marker, Entry
  <2>2. f = "ROLLED_BACK" => cur \notin Range(tasks)
    BY <1>2, <1>3 DEF Working, WorkingBackward, Untouched, MarkersSpeak
  <2>3. f = "COMMITTED" => cur \in Range(tasks) /\ marker[cur].phase = "EVENT_WRITTEN"
    <3> SUFFICES ASSUME f = "COMMITTED"
                 PROVE  cur \in Range(tasks) /\ marker[cur].phase = "EVENT_WRITTEN"
      OBVIOUS
    <3>1. PostImage(cur)
      BY <1>2 DEF Working, WorkingBackward
    <3>2. tasks = Append(marker[cur].preTasks, cur)
      BY <1>3, <3>1 DEF PostImage, MarkersSpeak, Ahead
    <3> QED
      BY <2>1, <3>1, <3>2, RangeOfAppend DEF PostImage
  <2> QED
    BY <1>1, <1>2, <1>4, <2>2, <2>3 DEF Journaled, Marked
<1> QED
  BY <1>1, <1>5, <1>6, <1>7, <1>8, WaitingStay

-----------------------------------------------------------------------------
(* The steps that write the marker                                         *)

LEMMA InvOfWriteMarker ==
    ASSUME IInv, WriteMarker
    PROVE  IInv'
<1> USE DEF IInv, Types, LedgersOK, ControlOK, SpentOK
<1> DEFINE waiting == {y \in Txn \ {cur} : Marked(y)}
<1>1. /\ UNCHANGED <<tasks, events, torn, journal, acked, crashes, cur, retry>>
      /\ pc = "begun" /\ pc' = "marked" /\ cur \notin Range(tasks)
      /\ marker' = [marker EXCEPT ![cur] =
                      [Absent EXCEPT !.phase = "PREPARED", !.preTasks = tasks,
                                     !.preEvents = events, !.preTorn = torn]]
      /\ overlapped' = IF waiting = {} THEN overlapped ELSE overlapped \cup waiting \cup {cur}
  BY DEF WriteMarker, Step, ledgers
<1>2. cur \in Txn /\ ~Marked(cur)
  BY <1>1 DEF Placed
<1>3. /\ marker'[cur] = [phase |-> "PREPARED", preTasks |-> tasks, preEvents |-> events,
                         preTorn |-> torn, postTasks |-> <<>>, postEvents |-> <<>>]
      /\ \A x \in Txn : x # cur => marker'[x] = marker[x]
  BY <1>1, <1>2 DEF Absent
<1>4. /\ \A x \in Txn : Marked(x)' <=> (Marked(x) \/ x = cur)
      /\ overlapped \subseteq overlapped'
      /\ \A x \in Txn : (x # cur /\ Marked(x)) => {x, cur} \subseteq overlapped'
  BY <1>1, <1>3 DEF Marked
<1>5. Types'
  <2>1. marker'[cur] \in Marker
    BY <1>3 DEF Marker
  <2>2. marker' \in [Txn -> Marker]
    BY <1>1, <1>2, <1>3, <2>1
  <2> QED
    BY <1>1, <1>2, <2>2 DEF Forward
<1>6. TornBound'
  BY <1>1, <1>3 DEF TornBound, Tearing
<1>7. Placed'
  BY <1>1, <1>2, <1>4 DEF Placed
<1>8. MarkersSpeak'
  <2> SUFFICES ASSUME NEW x \in Txn, Marked(x)'
               PROVE  /\ x \notin Range(marker'[x].preTasks)
                      /\ marker'[x].phase \in {"TASK_WRITTEN", "EVENT_WRITTEN"} =>
                            marker'[x].postTasks = Ahead(x)'
                      /\ marker'[x].phase = "EVENT_WRITTEN" => marker'[x].postEvents = Told(x)'
    BY DEF MarkersSpeak
  <2>1. CASE x = cur
    BY <1>1, <1>3, <2>1
  <2>2. CASE x # cur
    BY <1>3, <1>4, <2>2 DEF MarkersSpeak, Ahead, Told
  <2> QED
    BY <2>1, <2>2
<1>9. Working'
  BY <1>1, <1>3 DEF Working, WorkingForward, WorkingBackward, Untouched, EventsArePreImage
<1>10. Overlaps'
  BY <1>4 DEF Overlaps
<1>11. Agreed'
  BY <1>1, <1>2, <1>3, <1>4 DEF Agreed
<1>12. Journaled'
  <2> SUFFICES ASSUME overlapped \subseteq Paired
               PROVE  /\ \A x \in Paired :
                            /\ journal[x] = "COMMITTED" => x \in Range(tasks)
                            /\ journal[x] = "ROLLED_BACK" => x \notin Range(tasks)
                            /\ (Marked(x)' /\ journal[x] = "COMMITTED") =>
                                  marker'[x].phase = "EVENT_WRITTEN"
                      /\ \A x \in Txn \ Paired : Marked(x)' =>
                            \A y \in Paired : y \in Range(tasks) <=>
                                              y \in Range(marker'[x].preTasks)
    BY <1>1, <1>4 DEF Journaled
  <2> QED
    BY <1>1, <1>3, <1>4 DEF Journaled, Txn
<1> QED
  BY <1>5, <1>6, <1>7, <1>8, <1>9, <1>10, <1>11, <1>12

\* A marker goes on with the ledgers.
LEMMA InvOfMark ==
    ASSUME IInv, MarkTasks \/ MarkEvent
    PROVE  IInv'
<1> USE DEF IInv, Types, LedgersOK, ControlOK, SpentOK
<1>1. /\ UNCHANGED <<tasks, events, torn, journal, acked, overlapped, crashes, cur, retry>>
      /\ \/ /\ pc = "tasked" /\ pc' = "taskMarked"
            /\ marker' = [marker EXCEPT ![cur] =
                            [@ EXCEPT !.phase = "TASK_WRITTEN", !.postTasks = tasks]]
         \/ /\ pc = "appended" /\ pc' = "eventMarked"
            /\ marker' = [marker EXCEPT ![cur] =
                            [@ EXCEPT !.phase = "EVENT_WRITTEN", !.postEvents = events]]
  BY DEF MarkTasks, MarkEvent, Step, ledgers, history
<1>2. cur \in Txn /\ Marked(cur) /\ marker[cur] \in Marker
  BY <1>1 DEF Placed, Forward
<1>3. /\ \A x \in Txn : x # cur => marker'[x] = marker[x]
      /\ marker'[cur].preTasks = marker[cur].preTasks /\ marker'[cur].preEvents = marker[cur].preEvents
      /\ marker'[cur].preTorn = marker[cur].preTorn
      /\ pc = "tasked" => /\ marker'[cur].phase = "TASK_WRITTEN" /\ marker'[cur].postTasks = tasks
                          /\ marker'[cur].postEvents = marker[cur].postEvents
      /\ pc = "appended" => /\ marker'[cur].phase = "EVENT_WRITTEN"
                            /\ marker'[cur].postEvents = events
                            /\ marker'[cur].postTasks = marker[cur].postTasks
      /\ marker'[cur] \in Marker
  <2>1. \A x \in Txn : x # cur => marker'[x] = marker[x]
    BY <1>1, <1>2
  <2>2. CASE pc = "tasked"
    <3>1. marker'[cur] = [marker[cur] EXCEPT !.phase = "TASK_WRITTEN", !.postTasks = tasks]
      BY <1>1, <1>2, <2>2
    <3> QED
      BY <1>2, <2>1, <2>2, <3>1 DEF Marker
  <2>3. CASE pc = "appended"
    <3>1. marker'[cur] = [marker[cur] EXCEPT !.phase = "EVENT_WRITTEN", !.postEvents = events]
      BY <1>1, <1>2, <2>3
    <3> QED
      BY <1>2, <2>1, <2>3, <3>1 DEF Marker
  <2> QED
    BY <1>1, <2>2, <2>3
<1>4. /\ \A x \in Txn : (Marked(x)' <=> Marked(x)) /\ Ahead(x)' = Ahead(x) /\ Told(x)' = Told(x)
      /\ \A x \in Txn : marker'[x].preTasks = marker[x].preTasks
                        /\ marker'[x].preEvents = marker[x].preEvents
                        /\ marker'[x].preTorn = marker[x].preTorn
  BY <1>1, <1>2, <1>3 DEF Marked, Ahead, Told
<1>5. Types'
  <2>1. marker' \in [Txn -> Marker]
    BY <1>1, <1>2, <1>3
  <2> QED
    BY <1>1, <2>1 DEF Forward
<1>6. TornBound'
  BY <1>1, <1>4 DEF TornBound, Tearing
<1>7. Placed'
  BY <1>1, <1>2, <1>4 DEF Placed
<1>8. Working'
  BY <1>1, <1>2, <1>3, <1>4 DEF Working, WorkingForward, WorkingBackward, Written,
                                EventsArePreImage, Forward
<1>9. MarkersSpeak'
  <2> SUFFICES ASSUME NEW x \in Txn, Marked(x)
               PROVE  /\ x \notin Range(marker'[x].preTasks)
                      /\ marker'[x].phase \in {"TASK_WRITTEN", "EVENT_WRITTEN"} =>
                            marker'[x].postTasks = Ahead(x)
                      /\ marker'[x].phase = "EVENT_WRITTEN" => marker'[x].postEvents = Told(x)
    BY <1>4 DEF MarkersSpeak
  <2>1. CASE x # cur
    BY <1>3, <2>1 DEF MarkersSpeak
  <2>2. CASE x = cur /\ pc = "tasked"
    BY <1>3, <2>2 DEF MarkersSpeak, Working, WorkingForward
  <2>3. CASE x = cur /\ pc = "appended"
    BY <1>3, <2>3 DEF MarkersSpeak, Working, WorkingForward, Written
  <2> QED
    BY <1>1, <2>1, <2>2, <2>3
<1>10. Overlaps' /\ Agreed'
  BY <1>1, <1>4 DEF Overlaps, Agreed
<1>11. Journaled'
  <2>1. pc = "tasked" => marker[cur].phase = "PREPARED"
    BY DEF Working, WorkingForward
  <2> SUFFICES ASSUME overlapped \subseteq Paired
               PROVE  /\ \A x \in Paired :
                            /\ journal[x] = "COMMITTED" => x \in Range(tasks)
                            /\ journal[x] = "ROLLED_BACK" => x \notin Range(tasks)
                            /\ (Marked(x) /\ journal[x] = "COMMITTED") =>
                                  marker'[x].phase = "EVENT_WRITTEN"
                      /\ \A x \in Txn \ Paired : Marked(x) =>
                            \A y \in Paired : y \in Range(tasks) <=>
                                              y \in Range(marker[x].preTasks)
    BY <1>1, <1>4 DEF Journaled, Txn
  <2>2. ASSUME NEW x \in Paired, Marked(x), journal[x] = "COMMITTED"
        PROVE  marker'[x].phase = "EVENT_WRITTEN"
    <3>1. x \in Txn /\ marker[x].phase = "EVENT_WRITTEN"
      BY <2>2 DEF Journaled, Txn
    <3> QED
      BY <1>1, <1>3, <2>1, <3>1
  <2> QED
    BY <2>2 DEF Journaled
<1> QED
  BY <1>5, <1>6, <1>7, <1>8, <1>9, <1>10, <1>11

LEMMA InvOfClearing ==
    ASSUME IInv, RemoveMarker \/ ClearMarker
    PROVE  IInv'
<1> USE DEF IInv, Types, LedgersOK, ControlOK, SpentOK
<1>1. /\ UNCHANGED <<tasks, events, torn, journal, acked, overlapped, crashes>>
      /\ marker' = [marker EXCEPT ![cur] = Absent]
      /\ pc \in {"committed", "clearing"}
      /\ \/ pc' = "free" /\ cur' = NoTxn /\ retry' = FALSE
         \/ pc' = "begun" /\ cur' = cur /\ retry' = retry
  BY DEF RemoveMarker, ClearMarker, Unlock, ledgers, history
<1>2. cur \in Txn /\ Marked(cur) /\ marker[cur] \in Marker
  BY <1>1 DEF Placed, Forward, Backward
<1>3. /\ marker'[cur] = Absent /\ \A x \in Txn : x # cur => marker'[x] = marker[x]
      /\ \A x \in Txn : Marked(x)' <=> (Marked(x) /\ x # cur)
  BY <1>1, <1>2 DEF Marked, Absent
<1>4. Types'
  <2>1. Absent \in Marker
    BY DEF Absent, Marker
  <2>2. marker' \in [Txn -> Marker]
    BY <1>1, <1>2, <2>1
  <2> QED
    BY <1>1, <1>2, <2>2
<1>5. TornBound'
  BY <1>1, <1>3 DEF TornBound, Tearing, Absent
<1>6. Placed' /\ Working'
  BY <1>1, <1>2, <1>3 DEF Placed, Working, WorkingForward, WorkingBackward, Forward, Backward
<1>7. MarkersSpeak'
  <2>1. \A x \in Txn : x # cur => Ahead(x)' = Ahead(x) /\ Told(x)' = Told(x)
    BY <1>3 DEF Ahead, Told
  <2> QED
    BY <1>3, <2>1 DEF MarkersSpeak
<1>8. Overlaps'
  BY <1>1, <1>3 DEF Overlaps
<1>9. Agreed'
  <2> SUFFICES ASSUME overlapped = {}
               PROVE  (\A x \in Txn : x # cur => ~Marked(x)) => tasks = events /\ torn = 0
    BY <1>1, <1>2, <1>3 DEF Agreed
  <2>1. marker[cur].preTasks = marker[cur].preEvents /\ marker[cur].preTorn = 0
    BY <1>2 DEF Agreed
  <2>2. Ahead(cur) = Told(cur)
    BY <2>1 DEF Ahead, Told
  <2>3. Untouched \/ Written \/ PostImage(cur)
    BY <1>1 DEF Working, WorkingForward, WorkingBackward
  <2>4. PostImage(cur) => Written
    BY <1>2 DEF PostImage, MarkersSpeak, Written
  <2> QED
    BY <2>1, <2>2, <2>3, <2>4 DEF Untouched, Written, EventsArePreImage
<1>10. Journaled'
  <2> SUFFICES ASSUME overlapped \subseteq Paired
               PROVE  /\ \A x \in Paired :
                            /\ journal[x] = "COMMITTED" => x \in Range(tasks)
                            /\ journal[x] = "ROLLED_BACK" => x \notin Range(tasks)
                            /\ (Marked(x) /\ x # cur /\ journal[x] = "COMMITTED") =>
                                  marker[x].phase = "EVENT_WRITTEN"
                      /\ \A x \in Txn \ Paired : (Marked(x) /\ x # cur) =>
                            \A y \in Paired : y \in Range(tasks) <=>
                                              y \in Range(marker[x].preTasks)
    BY <1>1, <1>3 DEF Journaled, Txn
  <2> QED
    BY DEF Journaled
<1> QED
  BY <1>4, <1>5, <1>6, <1>7, <1>8, <1>9, <1>10

-----------------------------------------------------------------------------
(* The steps that write the ledgers                                        *)

LEMMA InvOfPlainCommit ==
    ASSUME IInv, NEW m \in Plain, PlainCommit(m)
    PROVE  IInv'
<1> USE DEF IInv, Types, LedgersOK, ControlOK, SpentOK
<1>1. /\ UNCHANGED <<marker, journal, overlapped, crashes, pc, cur, retry>>
      /\ pc = "free" /\ tasks' = Append(tasks, m) /\ acked' = acked \cup {m}
      /\ events' = Append(events, IF torn > 0 THEN Garbled ELSE m) /\ torn' = 0
  BY DEF PlainCommit, AppendLine, control
<1>2. m \in Entry /\ m \notin Paired
  BY DisjointKinds DEF Entry, Txn
<1>3. Types'
  BY <1>1, <1>2 DEF Line
<1>4. TornBound' /\ Placed'
  BY <1>1 DEF TornBound, Tearing, Placed, Marked
<1>5. MarkersSpeak' /\ Overlaps'
  BY <1>1 DEF MarkersSpeak, Overlaps, Marked, Ahead, Told
<1>6. Working'
  BY <1>1 DEF Working, WorkingForward, WorkingBackward, Forward
<1>7. Agreed'
  BY <1>1 DEF Agreed, Marked
<1>8. Journaled'
  <2>1. Range(tasks') = Range(tasks) \cup {m}
    BY <1>1, <1>2, RangeOfAppend
  <2> QED
    BY <1>1, <1>2, <2>1 DEF Journaled, Marked
<1> QED
  BY <1>3, <1>4, <1>5, <1>6, <1>7, <1>8

LEMMA InvOfWriteTasks ==
    ASSUME IInv, WriteTasks
    PROVE  IInv'
<1> USE DEF IInv, Types, LedgersOK, ControlOK, SpentOK
<1>1. /\ UNCHANGED <<events, torn, marker, journal, acked, overlapped, crashes, cur, retry>>
      /\ pc = "prepared" /\ pc' = "tasked" /\ tasks' = Append(tasks, cur)
  BY DEF WriteTasks, Step, history
<1>2. cur \in Txn /\ Marked(cur) /\ cur \in Entry
  BY <1>1 DEF Placed, Forward, Entry
<1>3. Types'
  BY <1>1, <1>2 DEF Forward
<1>4. TornBound' /\ Placed'
  BY <1>1, <1>2 DEF TornBound, Tearing, Placed, Marked
<1>5. MarkersSpeak' /\ Overlaps'
  BY <1>1 DEF MarkersSpeak, Overlaps, Marked, Ahead, Told
<1>6. Working'
  BY <1>1 DEF Working, WorkingForward, WorkingBackward, Forward, Untouched, EventsArePreImage,
              Ahead
<1>7. Agreed'
  BY <1>1, <1>2 DEF Agreed, Marked
<1>8. Journaled'
  <2> SUFFICES ASSUME overlapped \subseteq Paired
               PROVE  /\ \A x \in Paired :
                            /\ journal[x] = "COMMITTED" => x \in Range(tasks')
                            /\ journal[x] = "ROLLED_BACK" => x \notin Range(tasks')
                            /\ (Marked(x) /\ journal[x] = "COMMITTED") =>
                                  marker[x].phase = "EVENT_WRITTEN"
                      /\ \A x \in Txn \ Paired : Marked(x) =>
                            \A y \in Paired : y \in Range(tasks') <=>
                                              y \in Range(marker[x].preTasks)
    BY <1>1 DEF Journaled, Marked
  <2>1. Range(tasks') = Range(tasks) \cup {cur}
    BY <1>1, <1>2, RangeOfAppend
  <2>2. cur \in Paired => journal[cur] # "ROLLED_BACK"
    BY <1>1 DEF Working, WorkingForward, Forward
  <2>3. \A x \in Txn \ Paired : Marked(x) => x = cur
    BY <1>2 DEF Overlaps
  <2> QED
    BY <2>1, <2>2, <2>3 DEF Journaled
<1> QED
  BY <1>3, <1>4, <1>5, <1>6, <1>7, <1>8

LEMMA InvOfEvents ==
    ASSUME IInv, AppendEvent \/ TearEvent \/ RestoreEvents
    PROVE  IInv'
<1> USE DEF IInv, Types, LedgersOK, ControlOK, SpentOK
<1>1. /\ UNCHANGED <<tasks, marker, journal, acked, overlapped, crashes, cur, retry>>
      /\ \/ /\ pc = "appending" /\ pc' = "appended"
            /\ events' = Append(events, IF torn > 0 THEN Garbled ELSE cur) /\ torn' = 0
         \/ /\ pc = "appending" /\ pc' = "tearing"
            /\ events' = events /\ torn' = torn + 1
         \/ /\ pc = "truncating" /\ pc' = "restored"
            /\ events' = marker[cur].preEvents /\ torn' = marker[cur].preTorn
  BY DEF AppendEvent, TearEvent, RestoreEvents, AppendLine, Step, history
<1>2. cur \in Txn /\ Marked(cur) /\ marker[cur] \in Marker /\ cur \in Line
  BY <1>1 DEF Placed, Forward, Backward, Entry, Line
<1>3. Types'
  <2>1. (IF torn > 0 THEN Garbled ELSE cur) \in Line
    BY <1>2 DEF Line
  <2>2. marker[cur].preEvents \in Seq(Line) /\ marker[cur].preTorn \in Nat
    BY <1>2 DEF Marker
  <2>3. events \in Seq(Line) /\ torn \in Nat
    OBVIOUS
  <2>4. Append(events, IF torn > 0 THEN Garbled ELSE cur) \in Seq(Line)
    <3> HIDE DEF IInv, Types, LedgersOK, ControlOK, SpentOK, Line
    <3>1. ASSUME NEW s \in Seq(Line), NEW e \in Line PROVE Append(s, e) \in Seq(Line)
      OBVIOUS
    <3> QED
      BY <2>1, <2>3, <3>1
  <2>5. events' \in Seq(Line)
    <3> HIDE DEF IInv, Types, LedgersOK, ControlOK, SpentOK, Line
    <3> QED
      BY <1>1, <2>2, <2>3, <2>4
  <2>6. torn' \in Nat
    <3> HIDE DEF IInv, Types, LedgersOK, ControlOK, SpentOK, Line
    <3> QED
      BY <1>1, <2>2, <2>3
  <2> QED
    BY <1>1, <2>5, <2>6 DEF Forward, Backward
<1>4. TornBound'
  BY <1>1, <1>2 DEF TornBound, Tearing
<1>5. Placed'
  BY <1>1, <1>2 DEF Placed, Marked
<1>6. MarkersSpeak' /\ Overlaps'
  BY <1>1 DEF MarkersSpeak, Overlaps, Marked, Ahead, Told
<1>7. Working'
  BY <1>1 DEF Working, WorkingForward, WorkingBackward, Forward, Untouched, EventsArePreImage,
              Ahead, Told, Written
<1>8. Agreed'
  BY <1>1, <1>2 DEF Agreed, Marked
<1>9. Journaled'
  BY <1>1, JournaledStay
<1> QED
  BY <1>3, <1>4, <1>5, <1>6, <1>7, <1>8, <1>9

\* What a rollback of a paired operation takes out of tasks.json.
LEMMA PairedTakesItsOwn ==
    ASSUME IInv, RestoreTasks, cur \in Paired
    PROVE  /\ EventsArePreImage(cur) /\ marker[cur].phase # "EVENT_WRITTEN"
           /\ tasks = tasks' \/ tasks = Append(tasks', cur)
<1>1. pc = "restoring" /\ tasks' = marker[cur].preTasks
  BY DEF RestoreTasks, Step
<1>2. MayRestore(cur) /\ cur \in Txn /\ Marked(cur)
  BY <1>1 DEF IInv, Working, WorkingBackward, Placed, Backward
<1>3. cur \notin Completion /\ cur \notin Review
  BY DisjointKinds
<1>4. /\ EventsArePreImage(cur)
      /\ \/ marker[cur].phase = "PREPARED" /\ tasks = marker[cur].preTasks
         \/ marker[cur].phase = "TASK_WRITTEN" /\ tasks = marker[cur].postTasks
  BY <1>2, <1>3 DEF MayRestore
<1> QED
  BY <1>1, <1>2, <1>4 DEF IInv, MarkersSpeak, Ahead

LEMMA InvOfRestoreTasks ==
    ASSUME IInv, RestoreTasks
    PROVE  IInv'
<1>1. /\ UNCHANGED <<events, torn, marker, journal, acked, overlapped, crashes, cur, retry>>
      /\ pc = "restoring" /\ pc' = "truncating" /\ tasks' = marker[cur].preTasks
  BY DEF RestoreTasks, Step, history
<1> USE DEF IInv, Types, LedgersOK, ControlOK, SpentOK
<1>2. cur \in Txn /\ Marked(cur) /\ marker[cur] \in Marker /\ cur \in Entry
  BY <1>1 DEF Placed, Backward, Entry
<1>3. Types'
  BY <1>1, <1>2 DEF Marker, Backward
<1>4. TornBound'
  BY <1>1 DEF TornBound, Tearing
<1>5. Placed'
  BY <1>1, <1>2 DEF Placed, Marked
<1>6. MarkersSpeak' /\ Overlaps'
  BY <1>1 DEF MarkersSpeak, Overlaps, Marked, Ahead, Told
<1>7. Working'
  BY <1>1, PairedTakesItsOwn DEF Working, WorkingForward, WorkingBackward, Forward,
                                 EventsArePreImage
<1>8. Agreed'
  BY <1>1, <1>2 DEF Agreed, Marked
<1>9. Journaled'
  <2> SUFFICES ASSUME overlapped \subseteq Paired
               PROVE  /\ \A x \in Paired :
                            /\ journal[x] = "COMMITTED" => x \in Range(tasks')
                            /\ journal[x] = "ROLLED_BACK" => x \notin Range(tasks')
                            /\ (Marked(x) /\ journal[x] = "COMMITTED") =>
                                  marker[x].phase = "EVENT_WRITTEN"
                      /\ \A x \in Txn \ Paired : Marked(x) =>
                            \A y \in Paired : y \in Range(tasks') <=>
                                              y \in Range(marker[x].preTasks)
    BY <1>1 DEF Journaled, Marked
  <2>1. \A x \in Txn \ Paired : Marked(x) => x = cur
    BY <1>2 DEF Overlaps
  <2>2. CASE cur \notin Paired
    <3>1. \A y \in Paired : y \in Range(tasks) <=> y \in Range(tasks')
      BY <1>1, <1>2, <2>2 DEF Journaled
    <3> QED
      BY <1>1, <2>1, <3>1 DEF Journaled
  <2>3. CASE cur \in Paired
    <3>1. /\ marker[cur].phase # "EVENT_WRITTEN"
          /\ tasks = tasks' \/ tasks = Append(tasks', cur)
      BY <2>3, PairedTakesItsOwn
    <3>2. tasks' \in Seq(Entry)
      BY <1>3
    <3>3. Range(tasks) = Range(tasks') \/ Range(tasks) = Range(tasks') \cup {cur}
      <4>1. Range(Append(tasks', cur)) = Range(tasks') \cup {cur}
        BY <1>2, <3>2, RangeOfAppend
      <4> QED
        BY <3>1, <4>1
    <3>4. journal[cur] # "COMMITTED"
      BY <1>2, <2>3, <3>1 DEF Journaled
    <3> QED
      BY <2>1, <2>3, <3>3, <3>4 DEF Journaled
  <2> QED
    BY <2>2, <2>3
<1> QED
  BY <1>3, <1>4, <1>5, <1>6, <1>7, <1>8, <1>9

-----------------------------------------------------------------------------
(* Every step                                                              *)

LEMMA IInvInit == Init => IInv
<1> SUFFICES ASSUME Init PROVE IInv
  OBVIOUS
<1>1. \A x \in Txn : marker[x] = Absent /\ ~Marked(x)
  BY DEF Init, Marked, Absent
<1>2. Absent \in Marker
  BY DEF Absent, Marker
<1>3. Types
  <2>1. tasks \in Seq(Entry) /\ events \in Seq(Line) /\ torn \in Nat
    BY DEF Init
  <2>2. marker \in [Txn -> Marker] /\ journal \in [Paired -> DOMAIN PhaseOrder]
    BY <1>2, PhasesAre DEF Init
  <2>3. 0 \in 0..MaxCrashes
    BY DisjointKinds
  <2> QED
    BY <2>1, <2>2, <2>3 DEF Init, Types, LedgersOK, ControlOK, SpentOK
<1>4. TornBound /\ Placed /\ MarkersSpeak /\ Overlaps /\ Agreed
  BY <1>1 DEF Init, TornBound, Placed, MarkersSpeak, Overlaps, Agreed, Forward, Backward, Absent
<1>5. Working
  BY DEF Init, Working, WorkingForward, WorkingBackward, Forward
<1>6. Journaled
  BY <1>1 DEF Init, Journaled, Txn
<1> QED
  BY <1>3, <1>4, <1>5, <1>6 DEF IInv

LEMMA IInvStep == IInv /\ [Next]_vars => IInv'
<1> SUFFICES ASSUME IInv, [Next]_vars PROVE IInv'
  OBVIOUS
<1>1. ASSUME NEW m \in Plain, PlainCommit(m) PROVE IInv'
  BY <1>1, InvOfPlainCommit
<1>2. ASSUME NEW x \in Txn, Begin(x) \/ Replay(x) \/ Recover(x) PROVE IInv'
  BY <1>2, InvOfBeginning, InvOfReplay
<1>3. CASE Commit
  BY <1>3, InvOfUnlocking, InvOfJournal, InvOfWriteMarker, InvOfMark, InvOfClearing,
     InvOfWriteTasks, InvOfEvents DEF Commit
<1>4. CASE CompletionRaises \/ Abandon
  BY <1>4, InvOfTurning, InvOfUnlocking
<1>5. CASE Undo
  BY <1>5, InvOfTurning, InvOfUnlocking, InvOfRestoreTasks, InvOfEvents, InvOfJournalRecovered,
     InvOfClearing DEF Undo
<1>6. CASE UNCHANGED vars
  <2>1. UNCHANGED <<tasks, events, torn, marker, journal, pc, cur, retry, acked, overlapped,
                    crashes>>
    BY <1>6 DEF vars, ledgers, control, history
  <2>2. Types' /\ TornBound' /\ Placed'
    BY <2>1 DEF IInv, Types, LedgersOK, ControlOK, SpentOK, TornBound, Tearing, Placed, Marked
  <2>3. Working'
    BY <2>1 DEF IInv, Working, WorkingForward, WorkingBackward, Untouched, Written, Ahead, Told,
                EventsArePreImage, PostImage, MayRestore
  <2> QED
    BY <2>1, <2>2, <2>3, WaitingStay, JournaledStay DEF IInv
<1> QED
  BY <1>1, <1>2, <1>3, <1>4, <1>5, <1>6 DEF Next

LEMMA IInvHolds == Spec => []IInv
BY IInvInit, IInvStep, PTL DEF Spec

-----------------------------------------------------------------------------
(* What follows                                                            *)

\* Every variable keeps its type, and an unfinished event line never has more
\* pieces than commands ended half way, and one.
THEOREM TypeCorrect == Spec => []TypeOK
<1>1. IInv => TypeOK
  BY TypesSayIt DEF IInv
<1> QED
  BY <1>1, IInvHolds, PTL

\* Without overlapping markers the recoveries of complete_task_atomically, of
\* the result recovery and of _paired_ledger_commit leave one history in both
\* ledgers, wherever a command or a recovery died.
THEOREM RecoveredLedgersAgree == Spec => []SettledLedgersAgree
<1>1. IInv => SettledLedgersAgree
  BY DEF IInv, Agreed, SettledLedgersAgree, Settled
<1> QED
  BY <1>1, IInvHolds, PTL

\* write_journal never says of a paired operation what tasks.json denies, as
\* long as only markers of paired operations overlap.
THEOREM JournalsTellTheTruth == Spec => []JournalTellsTheTruth
<1>1. IInv => JournalTellsTheTruth
  BY DEF IInv, Journaled, JournalTellsTheTruth
<1> QED
  BY <1>1, IInvHolds, PTL

\* recover_paired_operation takes its own mutation out of tasks.json, if any,
\* and leaves the event log alone, whatever overlapped.
THEOREM PairedRollbackIsItsOwn == Spec => PairedRollbackTakesOnlyItsOwn
<1>1. ASSUME IInv, [Next]_vars, pc \in Backward, cur \in Paired
      PROVE  TakesBackOnly(cur)
  <2>1. ~(\E m \in Plain : PlainCommit(m)) /\ ~(\E x \in Txn : Begin(x) \/ Replay(x) \/ Recover(x))
    BY <1>1 DEF PlainCommit, Begin, Replay, Recover, Backward
  <2>2. ~WriteTasks /\ ~AppendEvent /\ ~TearEvent
    BY <1>1 DEF WriteTasks, AppendEvent, TearEvent, Step, Backward
  <2>3. CASE RestoreTasks
    BY <1>1, <2>3, PairedTakesItsOwn DEF RestoreTasks, TakesBackOnly
  <2>4. CASE RestoreEvents
    <3>1. EventsArePreImage(cur)
      BY <1>1, <2>4 DEF RestoreEvents, Step, IInv, Working, WorkingBackward
    <3> QED
      BY <2>4, <3>1 DEF RestoreEvents, EventsArePreImage, TakesBackOnly
  <2>5. CASE UNCHANGED ledgers
    BY <2>5 DEF ledgers, TakesBackOnly
  <2>6. (Commit \/ Undo \/ CompletionRaises \/ Abandon \/ UNCHANGED vars) =>
           UNCHANGED ledgers \/ RestoreTasks \/ RestoreEvents \/ WriteTasks \/ AppendEvent \/ TearEvent
    BY DEF Commit, Undo, CompletionRaises, Abandon, vars, NothingLeft, WriteMarker, JournalPrepared,
           JournalRefuses, MarkTasks, JournalTasks, MarkEvent, JournalEvent, JournalCommitted,
           RemoveMarker, Finalize, Restore, RecoveryConflict, JournalRecovered, ClearMarker
  <2> QED
    BY <1>1, <2>1, <2>2, <2>3, <2>4, <2>5, <2>6 DEF Next
<1>2. IInv /\ [Next]_vars => [(pc \in Backward /\ cur \in Paired) => TakesBackOnly(cur)]_vars
  BY <1>1
<1> QED
  BY <1>2, IInvHolds, PTL DEF Spec, PairedRollbackTakesOnlyItsOwn

-----------------------------------------------------------------------------
(* What others committed                                                   *)

\* What a command reported as committed is lost only by a command that ended
\* half way: the narrowest condition under which CommittedStays does hold.
LivingLoseNothing == crashes = 0 => CommittedStays

\* A commit is withdrawn by the recovery of a completion or a result recovery
\* alone, whose marker was written before it.
WithdrawnByEarlierMarkers ==
    [][\A m \in Plain : (m \in Range(tasks) /\ m \notin Range(tasks')) =>
          /\ cur \in Completion \cup Review
          /\ m \notin Range(marker[cur].preTasks)]_vars

\* Until somebody dies, the only marker waiting, but for those of operations
\* whose journal refused them, is that of the lock's owner, which saw all commits.
Alone ==
    crashes = 0 =>
        /\ acked \subseteq Range(tasks)
        /\ \A x \in Completion \cup Review : Marked(x) =>
              x = cur /\ pc # "free" /\ acked \subseteq Range(marker[x].preTasks)
        /\ pc \in Backward => cur \notin Review

LEMMA AloneStep ==
    ASSUME IInv, Alone, [Next]_vars
    PROVE  Alone'
<1> SUFFICES ASSUME crashes' = 0
             PROVE  /\ (acked \subseteq Range(tasks))'
                    /\ \A x \in Completion \cup Review : Marked(x)' =>
                          x = cur' /\ pc' # "free" /\ (acked \subseteq Range(marker[x].preTasks))'
                    /\ pc' \in Backward => cur' \notin Review
  BY DEF Alone
<1>1. Types /\ Placed
  BY DEF IInv
<1>2. crashes \in Nat /\ tasks \in Seq(Entry) /\ marker \in [Txn -> Marker]
  BY <1>1, DisjointKinds DEF Types, LedgersOK, SpentOK
<1>3. crashes = 0
  <2>1. crashes' = crashes \/ crashes' = crashes + 1
    BY DEF Next, vars, history, PlainCommit, Begin, Replay, Recover, Commit, Undo, CompletionRaises,
           Abandon, NothingLeft, WriteMarker, JournalPrepared, JournalRefuses, WriteTasks,
           MarkTasks, JournalTasks, AppendEvent, TearEvent, MarkEvent, JournalEvent,
           JournalCommitted, RemoveMarker, Finalize, Restore, RecoveryConflict, RestoreTasks,
           RestoreEvents, JournalRecovered, ClearMarker
  <2> QED
    BY <1>2, <2>1
<1>4. /\ acked \subseteq Range(tasks)
      /\ \A x \in Completion \cup Review : Marked(x) =>
            x = cur /\ pc # "free" /\ acked \subseteq Range(marker[x].preTasks)
      /\ pc \in Backward => cur \notin Review
  BY <1>3 DEF Alone
<1>5. /\ pc \in Forward \cup Backward => cur \in Txn /\ Marked(cur)
      /\ pc = "begun" => cur \in Txn /\ ~Marked(cur)
  BY <1>1 DEF Placed
<1>6. \A x \in Completion \cup Review : x \in Txn /\ x \notin Paired
  BY DisjointKinds DEF Txn
<1>7. CASE UNCHANGED <<tasks, marker, acked>> /\ cur' = cur /\ pc' # "free"
           /\ (pc' \in Backward => pc \in Backward \/ cur \in Completion)
  BY <1>4, <1>7, DisjointKinds DEF Marked
<1>8. CASE UNCHANGED <<tasks, marker, acked>>
           /\ (\A x \in Completion \cup Review : ~Marked(x)) /\ pc' \notin Backward
  BY <1>4, <1>8 DEF Marked
<1>9. ASSUME NEW m \in Plain, PlainCommit(m) PROVE Alone'
  <2>1. Range(tasks') = Range(tasks) \cup {m}
    BY <1>2, <1>9, RangeOfAppend DEF PlainCommit, Entry
  <2>2. \A x \in Completion \cup Review : ~Marked(x)
    BY <1>4, <1>9 DEF PlainCommit
  <2> QED
    BY <1>4, <1>9, <2>1, <2>2 DEF PlainCommit, control, Alone, Marked, Backward, Range
<1>10. ASSUME NEW x \in Txn, Begin(x) \/ Replay(x) \/ Recover(x) PROVE Alone'
  <2>1. pc = "free" /\ UNCHANGED <<tasks, marker, acked>>
    BY <1>10 DEF Begin, Replay, Recover, ledgers, history
  <2>2. \A y \in Completion \cup Review : ~Marked(y)
    BY <1>4, <2>1
  <2>3. pc' \in Backward => cur' \notin Review
    BY <1>10, <2>1, <2>2, DisjointKinds DEF Begin, Replay, Recover, control, Backward
  <2> QED
    BY <1>4, <2>1, <2>2, <2>3 DEF Alone, Marked
<1>11. CASE WriteMarker
  <2>1. pc = "begun" /\ pc' = "marked" /\ cur' = cur /\ UNCHANGED <<tasks, acked>>
    BY <1>11 DEF WriteMarker, Step, ledgers
  <2>2. /\ marker'[cur].preTasks = tasks
        /\ \A x \in Txn \ {cur} : marker'[x] = marker[x]
    BY <1>2, <1>5, <1>11, <2>1 DEF WriteMarker, Absent, Marker
  <2>3. \A x \in Completion \cup Review : ~Marked(x)
    BY <1>4, <1>5, <2>1
  <2> QED
    BY <1>4, <1>6, <2>1, <2>2, <2>3 DEF Marked, Backward
<1>12. CASE MarkTasks \/ MarkEvent
  <2>1. /\ pc \in Forward /\ pc' \in Forward /\ cur' = cur /\ UNCHANGED <<tasks, acked>>
        /\ pc' # "free" /\ pc' \notin Backward
    BY <1>12 DEF MarkTasks, MarkEvent, Step, ledgers, history, Forward, Backward
  <2>2. \A x \in Txn : marker'[x].preTasks = marker[x].preTasks
    <3>1. \E r : marker' = [marker EXCEPT ![cur] = r] /\ r.preTasks = marker[cur].preTasks
      <4>1. marker[cur] \in Marker
        BY <1>2, <1>5, <2>1
      <4>2. CASE MarkTasks
        <5> DEFINE r == [marker[cur] EXCEPT !.phase = "TASK_WRITTEN", !.postTasks = tasks]
        <5>1. marker' = [marker EXCEPT ![cur] = r]
          BY <4>2 DEF MarkTasks
        <5>2. r.preTasks = marker[cur].preTasks
          BY <4>1 DEF Marker
        <5> QED
          BY <5>1, <5>2
      <4>3. CASE MarkEvent
        <5> DEFINE r == [marker[cur] EXCEPT !.phase = "EVENT_WRITTEN", !.postEvents = events]
        <5>1. marker' = [marker EXCEPT ![cur] = r]
          BY <4>3 DEF MarkEvent
        <5>2. r.preTasks = marker[cur].preTasks
          BY <4>1 DEF Marker
        <5> QED
          BY <5>1, <5>2
      <4> QED
        BY <1>12, <4>2, <4>3
    <3> QED
      BY <1>2, <3>1
  <2>3. \A x \in Completion \cup Review : Marked(x)' => Marked(x)
    BY <1>2, <1>5, <1>6, <1>12, <2>1 DEF MarkTasks, MarkEvent, Marker, Marked
  <2> QED
    BY <1>4, <1>6, <2>1, <2>2, <2>3
<1>13. CASE RemoveMarker \/ ClearMarker
  <2>1. /\ pc \in Forward \cup Backward /\ pc' \notin Backward
        /\ marker' = [marker EXCEPT ![cur] = Absent] /\ UNCHANGED <<tasks, acked>>
    BY <1>13 DEF RemoveMarker, ClearMarker, Unlock, ledgers, history, Forward, Backward
  <2>2. \A x \in Completion \cup Review : ~Marked(x)'
    BY <1>2, <1>4, <1>6, <2>1 DEF Marked, Absent
  <2> QED
    BY <1>4, <2>1, <2>2
<1>14. CASE WriteTasks
  <2>1. pc' = "tasked" /\ cur' = cur /\ UNCHANGED <<marker, acked>> /\ tasks' = Append(tasks, cur)
    BY <1>14 DEF WriteTasks, Step, history
  <2>2. cur \in Txn
    BY <1>5, <1>14 DEF WriteTasks, Step, Forward
  <2>3. Range(tasks') = Range(tasks) \cup {cur}
    BY <1>2, <2>1, <2>2, RangeOfAppend DEF Entry
  <2> QED
    BY <1>4, <1>14, <2>1, <2>3 DEF Marked, Backward, WriteTasks, Step
<1>15. CASE RestoreTasks
  <2>1. /\ pc \in Backward /\ pc' # "free" /\ cur' = cur /\ UNCHANGED <<marker, acked>>
        /\ tasks' = marker[cur].preTasks
    BY <1>15 DEF RestoreTasks, Step, history, Backward
  <2>2. cur \in Txn /\ Marked(cur)
    BY <1>5, <2>1
  <2>3. acked \subseteq Range(tasks')
    <3>1. CASE cur \in Completion \cup Review
      BY <1>4, <2>1, <2>2, <3>1
    <3>2. CASE cur \in Paired
      <4>1. tasks = tasks' \/ tasks = Append(tasks', cur)
        BY <1>15, <3>2, PairedTakesItsOwn
      <4>2. tasks' \in Seq(Entry) /\ cur \in Entry
        BY <1>2, <2>1, <2>2 DEF Marker, Entry
      <4>3. tasks = Append(tasks', cur) => Range(tasks) = Range(tasks') \cup {cur}
        BY <4>2, RangeOfAppend
      <4>4. cur \notin acked
        BY <1>1, <2>2, DisjointKinds DEF Types, SpentOK
      <4> QED
        BY <1>4, <4>1, <4>3, <4>4
    <3> QED
      BY <2>2, <3>1, <3>2 DEF Txn
  <2> QED
    BY <1>4, <2>1, <2>3 DEF Marked
<1>16. CASE RecoveryConflict
  <2>1. cur \in Txn /\ cur \notin Completion /\ cur \notin Review
    BY <1>4, <1>5, <1>16 DEF RecoveryConflict, MayRestore, Backward
  <2> QED
    BY <1>4, <1>8, <1>16, <2>1 DEF RecoveryConflict, Unlock, ledgers, history, Backward
<1>17. CASE NothingLeft \/ JournalRefuses
  <2>1. \A x \in Completion \cup Review : ~Marked(x)
    BY <1>4, <1>5, <1>6, <1>17 DEF NothingLeft, JournalRefuses
  <2> QED
    BY <1>8, <1>17, <2>1 DEF NothingLeft, JournalRefuses, Unlock, ledgers, history, Backward
<1>18. ~Abandon
  BY <1>2, <1>3 DEF Abandon
<1>19. CASE CompletionRaises
  BY <1>7, <1>19 DEF CompletionRaises, ledgers, history
<1>20. CASE \/ JournalPrepared \/ JournalTasks \/ AppendEvent \/ TearEvent \/ JournalEvent
            \/ JournalCommitted
  BY <1>7, <1>20 DEF JournalPrepared, JournalTasks, AppendEvent, TearEvent, JournalEvent,
                     JournalCommitted, Step, ledgers, history, Backward
<1>21. CASE Finalize \/ Restore \/ RestoreEvents \/ JournalRecovered
  BY <1>7, <1>21 DEF Finalize, Restore, RestoreEvents, JournalRecovered, Step, ledgers, history,
                     Backward
<1>22. CASE UNCHANGED vars
  BY <1>4, <1>22 DEF vars, ledgers, control, history, Marked
<1>23. Alone' => /\ (acked \subseteq Range(tasks))'
                 /\ \A x \in Completion \cup Review : Marked(x)' =>
                       x = cur' /\ pc' # "free" /\ (acked \subseteq Range(marker[x].preTasks))'
                 /\ pc' \in Backward => cur' \notin Review
  BY DEF Alone
<1>24. CASE Commit
  BY <1>11, <1>12, <1>13, <1>14, <1>17, <1>20, <1>24 DEF Commit
<1>25. CASE Undo
  BY <1>13, <1>15, <1>16, <1>21, <1>25 DEF Undo
<1> QED
  BY <1>9, <1>10, <1>18, <1>19, <1>22, <1>23, <1>24, <1>25 DEF Next

\* Without a death no command of the court takes back what another one
\* committed, though completions raise and recover, operations are refused and
\* others are replayed: finding CompletionLosesCommit needs a dead completion.
THEOREM NothingIsLostAlive == Spec => []LivingLoseNothing
<1>1. Init => Alone
  BY DEF Init, Alone, Marked, Absent, Txn, Backward
<1>2. IInv /\ Alone /\ [Next]_vars => Alone'
  BY AloneStep
<1>3. Alone => LivingLoseNothing
  BY DEF Alone, LivingLoseNothing, CommittedStays
<1> QED
  BY <1>1, <1>2, <1>3, IInvHolds, PTL DEF Spec

\* What a late recovery withdraws is younger than its marker, and no recovery
\* of a paired operation withdraws anything of others.
THEOREM OnlyLateRecoveriesWithdraw == Spec => WithdrawnByEarlierMarkers
<1>1. ASSUME IInv, [Next]_vars, NEW m \in Plain, m \in Range(tasks), m \notin Range(tasks')
      PROVE  cur \in Completion \cup Review /\ m \notin Range(marker[cur].preTasks)
  <2>1. tasks \in Seq(Entry)
    BY <1>1 DEF IInv, Types, LedgersOK
  <2>2. tasks' # tasks
    BY <1>1
  <2>3. ASSUME NEW n \in Plain, PlainCommit(n) PROVE FALSE
    BY <1>1, <2>1, <2>3, RangeOfAppend DEF PlainCommit, Entry
  <2>4. CASE WriteTasks
    <3>1. cur \in Entry
      BY <1>1, <2>4 DEF WriteTasks, Step, IInv, Placed, Forward, Entry
    <3> QED
      BY <1>1, <2>1, <2>4, <3>1, RangeOfAppend DEF WriteTasks
  <2>5. CASE RestoreTasks
    <3>1. tasks' = marker[cur].preTasks /\ cur \in Txn
      BY <1>1, <2>5 DEF RestoreTasks, Step, IInv, Placed, Backward
    <3>2. cur \notin Paired
      <4> SUFFICES ASSUME cur \in Paired PROVE FALSE
        OBVIOUS
      <4>1. tasks = tasks' \/ tasks = Append(tasks', cur)
        BY <1>1, <2>5, PairedTakesItsOwn
      <4>2. tasks' \in Seq(Entry) /\ cur \in Entry /\ m # cur
        BY <1>1, <3>1, DisjointKinds DEF IInv, Types, Marker, Entry
      <4>3. tasks = Append(tasks', cur)
        BY <2>2, <4>1
      <4>4. Range(tasks) = Range(tasks') \cup {cur}
        BY <4>2, <4>3, RangeOfAppend
      <4> QED
        BY <1>1, <4>2, <4>4
    <3> QED
      BY <1>1, <3>1, <3>2 DEF Txn
  <2>6. \/ UNCHANGED tasks \/ WriteTasks \/ RestoreTasks
        \/ \E n \in Plain : PlainCommit(n)
    BY <1>1 DEF Next, vars, ledgers, Begin, Replay, Recover, Commit, Undo, CompletionRaises,
                Abandon, NothingLeft, WriteMarker, JournalPrepared, JournalRefuses, MarkTasks,
                JournalTasks, AppendEvent, TearEvent, MarkEvent, JournalEvent, JournalCommitted,
                RemoveMarker, Finalize, Restore, RecoveryConflict, RestoreEvents,
                JournalRecovered, ClearMarker
  <2> QED
    BY <2>2, <2>3, <2>4, <2>5, <2>6
<1>2. IInv /\ [Next]_vars =>
         [\A m \in Plain : (m \in Range(tasks) /\ m \notin Range(tasks')) =>
             /\ cur \in Completion \cup Review
             /\ m \notin Range(marker[cur].preTasks)]_vars
  BY <1>1
<1> QED
  BY <1>2, IInvHolds, PTL DEF Spec, WithdrawnByEarlierMarkers
=============================================================================
