-------------------------- MODULE LedgerPairProofs --------------------------
(***************************************************************************)
(* Proofs that the paired ledger write keeps the two ledgers in agreement, *)
(* reports honestly, and implements the indivisible write of AtomicLedger, *)
(* for any number of processes, readers, mutations and commits.            *)
(***************************************************************************)
EXTENDS LedgerPair, SequenceTheorems, TLAPS

-----------------------------------------------------------------------------
(* The inductive invariant                                                 *)

\* Whoever runs under the lock owns it, so at most one process does.
LockOwned == \A p \in Proc : pc[p] \in Inside => lock = p

\* A marker present describes the write it can undo: the task document is one
\* of its two images (or foreign), the event log its base or its completion.
MarkerDescribes ==
    pending =>
      /\ marker.size = Len(marker.before)
      /\ marker.after = Append(marker.before, marker.line)
      /\ tasks \in {marker.before, marker.after, ForeignDoc}
      /\ events \in {marker.before, marker.after}
      /\ torn => events = marker.before

\* A command starts with no outcome.
FreshOutside == \A p \in Proc : pc[p] \in Outside => result[p] = "none"

\* Without a marker the task document is no foreign one.
CleanIsOurs == ~pending => tasks \in Doc

\* The marker belongs to the write that p has in progress.
OwnMarker(p) == /\ pending
                /\ marker.before = doc[p]
                /\ marker.line = want[p]

\* How far the files are at each point of a command.
At(p) ==
    /\ pc[p] \in {"open", "prepared"} => ~pending /\ result[p] = "none"
    /\ pc[p] = "prepared" => doc[p] = tasks
    /\ pc[p] \in Writing => OwnMarker(p) /\ result[p] = "none"
    /\ pc[p] = "marked" => tasks = doc[p] /\ events = doc[p] /\ ~torn
    /\ pc[p] = "tasked" => tasks = marker.after /\ events = doc[p] /\ ~torn
    /\ pc[p] = "tearing" => tasks = marker.after /\ events = doc[p]
    /\ pc[p] \in {"evented", "verified"} =>
          tasks = marker.after /\ events = marker.after /\ ~torn
    /\ pc[p] = "failed" => OwnMarker(p) /\ result[p] = "failed"
    /\ pc[p] \in Recovering => /\ pending
                               /\ tasks \in {marker.before, marker.after}
                               /\ result[p] # "committed"
                               /\ result[p] = "failed" => OwnMarker(p)
    /\ pc[p] \in {"truncating", "unlinking"} => tasks = marker.before
    /\ pc[p] = "unlinking" => events = marker.before /\ ~torn
    /\ pc[p] = "entered" => result[p] = "none"
    /\ pc[p] = "leaving" =>
          /\ result[p] = "committed" => ~pending /\ tasks = Append(doc[p], want[p])
          /\ result[p] = "failed" => CommittedTasks = doc[p]

EveryAt == \A p \in Proc : At(p)

IInv == /\ TypeOK
        /\ LockOwned
        /\ FreshOutside
        /\ LedgersAgree
        /\ CleanIsOurs
        /\ MarkerDescribes
        /\ EveryAt

-----------------------------------------------------------------------------
(* Sequences                                                               *)

\* Cutting a log of documents back to a recorded length gives that document,
\* whether or not one line was appended since.
LEMMA CutBack ==
    ASSUME NEW S, NEW b \in Seq(S), NEW l \in S
    PROVE  /\ Append(b, l) \in Seq(S)
           /\ Len(Append(b, l)) = Len(b) + 1
           /\ Append(b, l)[Len(b) + 1] = l
           /\ Append(b, l) # b
           /\ SubSeq(b, 1, Len(b)) = b
           /\ SubSeq(Append(b, l), 1, Len(b)) = b
<1>1. /\ Append(b, l) \in Seq(S)
      /\ Len(Append(b, l)) = Len(b) + 1
      /\ Append(b, l)[Len(b) + 1] = l
      /\ Append(b, l) # b
  OBVIOUS
<1>2. SubSeq(b, 1, Len(b)) = b
  OBVIOUS
<1>3. SubSeq(Append(b, l), 1, Len(b)) = b
  OBVIOUS
<1> QED BY <1>1, <1>2, <1>3


-----------------------------------------------------------------------------
(* Type correctness                                                        *)

LEMMA InitialValues == /\ SomeMutation \in Mutation
                       /\ <<>> \in Doc
                       /\ BlankMarker \in Marker
                       /\ BlankMarker.before = <<>>
BY ConstantsAssumption DEF SomeMutation, Doc, Marker, BlankMarker

LEMMA MarkerFields ==
    ASSUME marker \in Marker
    PROVE  /\ marker.before \in Doc
           /\ marker.after \in Doc
           /\ marker.size \in Nat
           /\ marker.line \in Mutation
BY DEF Marker

LEMMA Appended ==
    ASSUME NEW d \in Doc, NEW m \in Mutation
    PROVE  Append(d, m) \in Doc
BY CutBack DEF Doc

\* Cutting the event log back to the marker's size undoes the write.
LEMMA EventsCutBack ==
    ASSUME TypeOK, MarkerDescribes, pending
    PROVE  SubSeq(events, 1, marker.size) = marker.before
<1>1. marker.before \in Seq(Mutation) /\ marker.line \in Mutation
  BY MarkerFields DEF TypeOK, Doc
<1>2. /\ SubSeq(marker.before, 1, Len(marker.before)) = marker.before
      /\ SubSeq(Append(marker.before, marker.line), 1, Len(marker.before))
            = marker.before
  BY <1>1, CutBack
<1> QED BY <1>2 DEF MarkerDescribes

LEMMA TypeStep == IInv /\ [Next]_vars => TypeOK'
<1> SUFFICES ASSUME IInv, [Next]_vars PROVE TypeOK'
  OBVIOUS
<1> TypeOK /\ MarkerDescribes
  BY DEF IInv
<1> USE InitialValues
<1> USE DEF TypeOK, Goto, files, local, readers, Forget,
            Outside, Inside, Writing, Recovering
<1>1. CASE UNCHANGED vars
  BY <1>1 DEF vars
<1>2. ASSUME NEW p \in Proc, Start(p) \/ Acquire(p) \/ TimeOut(p) \/ Release(p) \/ Crash(p)
      PROVE  TypeOK'
  BY <1>2 DEF Start, Acquire, TimeOut, Release, Crash
<1>3. ASSUME NEW p \in Proc, Recover(p)
      PROVE  TypeOK'
  <2>1. CASE EnterRecover(p) \/ EnterConflict(p) \/ EnterReadOnly(p) \/ EnterClean(p)
    BY <2>1 DEF EnterRecover, EnterConflict, EnterReadOnly, EnterClean
  <2>2. CASE RestoreTasks(p)
    BY <2>2, MarkerFields DEF RestoreTasks
  <2>3. CASE UnlinkRecovered(p)
    BY <2>3 DEF UnlinkRecovered
  <2>4. CASE RecoveryRaises(p)
    BY <2>4 DEF RecoveryRaises
  <2>5. CASE TruncateEvents(p)
    <3>1. pending
      BY <2>5 DEF IInv, EveryAt, At, TruncateEvents
    <3>2. events' = marker.before
      BY <2>5, <3>1, EventsCutBack DEF TruncateEvents
    <3> QED BY <2>5, <3>2, MarkerFields DEF TruncateEvents
  <2> QED BY <1>3, <2>1, <2>2, <2>3, <2>4, <2>5 DEF Recover
<1>4. ASSUME NEW p \in Proc, Write(p)
      PROVE  TypeOK'
  <2>1. CASE Prepare(p)
    <3>1. tasks \in Doc
      BY <2>1 DEF Prepare, IInv, CleanIsOurs, EveryAt, At
    <3> QED BY <2>1, <3>1 DEF Prepare
  <2>2. CASE Decline(p) \/ Verify(p) \/ UnlinkCommitted(p) \/ UnlinkRaises(p)
               \/ WriteRaises(p) \/ RecoverOwn(p)
    BY <2>2 DEF Decline, Verify, UnlinkCommitted, UnlinkRaises, WriteRaises, RecoverOwn
  <2>3. CASE WriteMarker(p)
    <3>1. tasks \in Doc /\ Append(doc[p], want[p]) \in Doc
      BY <2>3, Appended DEF WriteMarker, IInv, CleanIsOurs
    <3>2. Len(events) \in Nat
      BY DEF Doc
    <3>3. marker' \in Marker
      BY <2>3, <3>1, <3>2 DEF WriteMarker, Marker
    <3> QED BY <2>3, <3>3 DEF WriteMarker
  <2>4. CASE WriteTasks(p) \/ TearEvent(p) \/ FinishEvent(p)
    <3>1. Append(doc[p], want[p]) \in Doc /\ Append(events, want[p]) \in Doc
      BY Appended
    <3> QED BY <2>4, <3>1 DEF WriteTasks, TearEvent, FinishEvent
  <2> QED BY <1>4, <2>1, <2>2, <2>3, <2>4 DEF Write
<1>5. ASSUME NEW r \in Reader, Read(r)
      PROVE  TypeOK'
  BY <1>5 DEF Read, CheckTasks, ReadTasks, CheckEvents, ReadEvents
<1>6. CASE EditTasks
  BY <1>6, ConstantsAssumption DEF EditTasks
<1>7. CASE UndoEdit
  BY <1>7, MarkerFields DEF UndoEdit
<1> QED BY <1>1, <1>2, <1>3, <1>4, <1>5, <1>6, <1>7 DEF Next, Proceed

-----------------------------------------------------------------------------
(* The lock                                                                *)

\* While p runs inside, or nobody does, every other process is outside.
LEMMA OthersOutside ==
    ASSUME TypeOK, LockOwned,
           NEW p \in Proc, pc[p] \in Inside \/ lock = NoProc,
           NEW q \in Proc, q # p
    PROVE  pc[q] \in Outside
BY ConstantsAssumption DEF TypeOK, LockOwned

LEMMA LockStep == IInv /\ [Next]_vars => LockOwned'
<1> SUFFICES ASSUME IInv, [Next]_vars PROVE LockOwned'
  OBVIOUS
<1> TypeOK /\ LockOwned
  BY DEF IInv
<1>1. ASSUME NEW p \in Proc, Recover(p) \/ Write(p)
      PROVE  LockOwned'
  <2>1. lock' = lock
    BY <1>1 DEF Recover, Write, EnterRecover, EnterConflict, EnterReadOnly, EnterClean,
       RestoreTasks, TruncateEvents, UnlinkRecovered, RecoveryRaises, Prepare, Decline,
       WriteMarker, WriteTasks, TearEvent, FinishEvent, Verify, UnlinkCommitted,
       UnlinkRaises, WriteRaises, RecoverOwn
  <2>2. pc[p] \in Inside /\ \E s : pc' = [pc EXCEPT ![p] = s]
    BY <1>1 DEF Recover, Write, EnterRecover, EnterConflict, EnterReadOnly, EnterClean,
       RestoreTasks, TruncateEvents, UnlinkRecovered, RecoveryRaises, Prepare, Decline,
       WriteMarker, WriteTasks, TearEvent, FinishEvent, Verify, UnlinkCommitted,
       UnlinkRaises, WriteRaises, RecoverOwn, Goto, Inside, Writing, Recovering
  <2> QED BY <2>1, <2>2 DEF TypeOK, LockOwned
<1>2. ASSUME NEW p \in Proc, Acquire(p)
      PROVE  LockOwned'
  BY <1>2, OthersOutside DEF Acquire, Goto, TypeOK, LockOwned, Outside, Inside, Writing, Recovering
<1>3. ASSUME NEW p \in Proc, Start(p) \/ TimeOut(p)
      PROVE  LockOwned'
  BY <1>3 DEF Start, TimeOut, Goto, TypeOK, LockOwned, Inside, Writing, Recovering
<1>4. ASSUME NEW p \in Proc, Release(p) \/ Crash(p)
      PROVE  LockOwned'
  <2>1. pc[p] \in Inside /\ pc' = [pc EXCEPT ![p] = "idle"]
    BY <1>4 DEF Release, Crash, Goto, Inside
  <2>2. \A q \in Proc : pc'[q] \in Outside
    BY <2>1, OthersOutside DEF TypeOK, Outside
  <2> QED BY <2>2 DEF LockOwned, Outside, Inside, Writing, Recovering
<1>5. CASE (\E r \in Reader : Read(r)) \/ EditTasks \/ UndoEdit \/ UNCHANGED vars
  BY <1>5 DEF Read, CheckTasks, ReadTasks, CheckEvents, ReadEvents, EditTasks, UndoEdit,
              vars, LockOwned
<1> QED BY <1>1, <1>2, <1>3, <1>4, <1>5 DEF Next, Proceed

LEMMA FreshStep == IInv /\ [Next]_vars => FreshOutside'
<1> SUFFICES ASSUME IInv, [Next]_vars PROVE FreshOutside'
  OBVIOUS
<1> TypeOK /\ FreshOutside
  BY DEF IInv
<1>1. ASSUME NEW p \in Proc, Recover(p) \/ Write(p) \/ Acquire(p)
      PROVE  FreshOutside'
  <2>1. pc'[p] \notin Outside
    BY <1>1 DEF Recover, Write, EnterRecover, EnterConflict, EnterReadOnly, EnterClean,
       RestoreTasks, TruncateEvents, UnlinkRecovered, RecoveryRaises, Prepare, Decline,
       WriteMarker, WriteTasks, TearEvent, FinishEvent, Verify, UnlinkCommitted,
       UnlinkRaises, WriteRaises, RecoverOwn, Acquire, Goto, TypeOK, Outside
  <2>2. \A q \in Proc : q # p => pc'[q] = pc[q] /\ result'[q] = result[q]
    BY <1>1 DEF Recover, Write, EnterRecover, EnterConflict, EnterReadOnly, EnterClean,
       RestoreTasks, TruncateEvents, UnlinkRecovered, RecoveryRaises, Prepare, Decline,
       WriteMarker, WriteTasks, TearEvent, FinishEvent, Verify, UnlinkCommitted,
       UnlinkRaises, WriteRaises, RecoverOwn, Acquire, Goto, TypeOK, local
  <2> QED BY <2>1, <2>2 DEF FreshOutside
<1>2. ASSUME NEW p \in Proc, Release(p) \/ Crash(p)
      PROVE  FreshOutside'
  BY <1>2 DEF Release, Crash, Forget, Goto, TypeOK, FreshOutside
<1>3. ASSUME NEW p \in Proc, Start(p) \/ TimeOut(p)
      PROVE  FreshOutside'
  BY <1>3 DEF Start, TimeOut, Goto, TypeOK, local, FreshOutside, Outside
<1>4. CASE (\E r \in Reader : Read(r)) \/ EditTasks \/ UndoEdit \/ UNCHANGED vars
  BY <1>4 DEF Read, CheckTasks, ReadTasks, CheckEvents, ReadEvents, EditTasks, UndoEdit,
              vars, local, FreshOutside
<1> QED BY <1>1, <1>2, <1>3, <1>4 DEF Next, Proceed

-----------------------------------------------------------------------------
(* The files                                                               *)

FilesOK == LedgersAgree /\ CleanIsOurs /\ MarkerDescribes

LEMMA FilesStep == IInv /\ [Next]_vars => FilesOK'
<1> SUFFICES ASSUME IInv, [Next]_vars PROVE FilesOK'
  OBVIOUS
<1> TypeOK /\ FilesOK
  BY DEF IInv, FilesOK
<1>1. CASE UNCHANGED files
  BY <1>1 DEF files, FilesOK, LedgersAgree, CleanIsOurs, MarkerDescribes
<1>2. ASSUME NEW p \in Proc, RestoreTasks(p)
      PROVE  FilesOK'
  BY <1>2 DEF RestoreTasks, Goto, IInv, EveryAt, At, Recovering,
              FilesOK, LedgersAgree, CleanIsOurs, MarkerDescribes
<1>3. ASSUME NEW p \in Proc, TruncateEvents(p)
      PROVE  FilesOK'
  <2>1. pending
    BY <1>3 DEF TruncateEvents, Goto, IInv, EveryAt, At, Recovering
  <2>2. events' = marker.before
    BY <1>3, <2>1, EventsCutBack DEF TruncateEvents, FilesOK
  <2> QED BY <1>3, <2>1, <2>2 DEF TruncateEvents, FilesOK, LedgersAgree, CleanIsOurs,
                                 MarkerDescribes
<1>4. ASSUME NEW p \in Proc, UnlinkRecovered(p)
      PROVE  FilesOK'
  <2>1. tasks = marker.before /\ events = marker.before /\ ~torn
    BY <1>4 DEF UnlinkRecovered, Goto, IInv, EveryAt, At
  <2> QED BY <1>4, <2>1, MarkerFields DEF UnlinkRecovered, TypeOK, FilesOK, LedgersAgree,
                                          CleanIsOurs, MarkerDescribes
<1>5. ASSUME NEW p \in Proc, WriteMarker(p)
      PROVE  FilesOK'
  <2>1. ~pending /\ doc[p] = tasks
    BY <1>5 DEF WriteMarker, Goto, IInv, EveryAt, At
  <2> QED BY <1>5, <2>1 DEF WriteMarker, TypeOK, FilesOK, LedgersAgree, CleanIsOurs,
                            MarkerDescribes, Marker, Doc
<1>6. ASSUME NEW p \in Proc, WriteTasks(p) \/ TearEvent(p) \/ FinishEvent(p)
      PROVE  FilesOK'
  <2>1. OwnMarker(p) /\ events = doc[p]
    BY <1>6 DEF WriteTasks, TearEvent, FinishEvent, Goto, IInv, EveryAt, At, Writing, OwnMarker
  <2>2. marker.after = Append(doc[p], want[p])
    BY <2>1 DEF OwnMarker, FilesOK, MarkerDescribes
  <2>3. CASE WriteTasks(p)
    BY <2>1, <2>2, <2>3 DEF WriteTasks, OwnMarker, FilesOK, LedgersAgree, CleanIsOurs,
                            MarkerDescribes
  <2>4. CASE TearEvent(p)
    BY <2>1, <2>2, <2>4 DEF TearEvent, OwnMarker, FilesOK, LedgersAgree, CleanIsOurs,
                            MarkerDescribes
  <2>5. CASE FinishEvent(p)
    BY <2>1, <2>2, <2>5 DEF FinishEvent, OwnMarker, FilesOK, LedgersAgree, CleanIsOurs,
                            MarkerDescribes
  <2> QED BY <1>6, <2>3, <2>4, <2>5
<1>7. ASSUME NEW p \in Proc, UnlinkCommitted(p)
      PROVE  FilesOK'
  <2>1. tasks = marker.after /\ events = marker.after /\ ~torn
    BY <1>7 DEF UnlinkCommitted, Goto, IInv, EveryAt, At
  <2> QED BY <1>7, <2>1, MarkerFields DEF UnlinkCommitted, TypeOK, FilesOK, LedgersAgree,
                                          CleanIsOurs, MarkerDescribes
<1>8. CASE EditTasks \/ UndoEdit
  BY <1>8, ConstantsAssumption DEF EditTasks, UndoEdit, FilesOK, LedgersAgree,
                                   CleanIsOurs, MarkerDescribes, Doc
<1>9. \/ UNCHANGED files
      \/ \E p \in Proc : \/ RestoreTasks(p) \/ TruncateEvents(p) \/ UnlinkRecovered(p)
                         \/ WriteMarker(p) \/ WriteTasks(p) \/ TearEvent(p) \/ FinishEvent(p)
                         \/ UnlinkCommitted(p)
      \/ EditTasks \/ UndoEdit
  BY DEF Next, vars, Proceed, Start, Acquire, TimeOut, Release, Crash, Recover, Write,
         EnterRecover, EnterConflict, EnterReadOnly, EnterClean, RecoveryRaises, Prepare,
         Decline, Verify, UnlinkRaises, WriteRaises, RecoverOwn,
         Read, CheckTasks, ReadTasks, CheckEvents, ReadEvents
<1> QED BY <1>1, <1>2, <1>3, <1>4, <1>5, <1>6, <1>7, <1>8, <1>9

-----------------------------------------------------------------------------
(* The progress of each command                                            *)

\* When p alone moves under the lock, only its own progress needs an argument.
LEMMA OneMoves ==
    ASSUME TypeOK, LockOwned,
           NEW p \in Proc, pc[p] \in Inside \/ lock = NoProc,
           NEW s, pc' = [pc EXCEPT ![p] = s],
           At(p)'
    PROVE  EveryAt'
<1> SUFFICES ASSUME NEW q \in Proc, q # p
             PROVE  At(q)'
  BY DEF EveryAt
<1>1. pc'[q] \in Outside
  BY OthersOutside DEF TypeOK
<1> QED BY <1>1 DEF At, Outside, Writing, Recovering

\* The steps of a command inside the lock that p takes.
LEMMA RecoverAt ==
    ASSUME IInv, NEW p \in Proc, Recover(p)
    PROVE  EveryAt'
<1> TypeOK /\ LockOwned /\ At(p)
  BY DEF IInv, EveryAt
<1> USE DEF Goto, files, local, TypeOK
<1>1. CASE EnterRecover(p)
  <2>1. At(p)'
    BY <1>1 DEF EnterRecover, Recoverable, At, Writing, Recovering
  <2> QED BY <1>1, <2>1, OneMoves DEF EnterRecover, Inside
<1>2. CASE EnterConflict(p) \/ EnterReadOnly(p)
  <2>1. At(p)'
    BY <1>2 DEF EnterConflict, EnterReadOnly, At, Writing, Recovering
  <2> QED BY <1>2, <2>1, OneMoves DEF EnterConflict, EnterReadOnly, Inside
<1>3. CASE EnterClean(p)
  <2>1. At(p)'
    BY <1>3 DEF EnterClean, At, Writing, Recovering
  <2> QED BY <1>3, <2>1, OneMoves DEF EnterClean, Inside
<1>4. CASE RestoreTasks(p)
  <2>1. At(p)'
    BY <1>4 DEF RestoreTasks, At, Writing, Recovering, OwnMarker
  <2> QED BY <1>4, <2>1, OneMoves DEF RestoreTasks, Inside, Recovering
<1>5. CASE TruncateEvents(p)
  <2>1. pending /\ events' = marker.before
    BY <1>5, EventsCutBack DEF TruncateEvents, At, Recovering, IInv
  <2>2. At(p)'
    BY <1>5, <2>1 DEF TruncateEvents, At, Writing, Recovering, OwnMarker
  <2> QED BY <1>5, <2>2, OneMoves DEF TruncateEvents, Inside, Recovering
<1>6. CASE UnlinkRecovered(p)
  <2>1. /\ tasks = marker.before
        /\ result[p] \in {"none", "failed"}
        /\ result[p] = "failed" => marker.before = doc[p]
    BY <1>6 DEF UnlinkRecovered, At, Recovering, OwnMarker
  <2>2. At(p)'
    BY <1>6, <2>1 DEF UnlinkRecovered, At, Writing, Recovering, CommittedTasks
  <2> QED BY <1>6, <2>2, OneMoves DEF UnlinkRecovered, Inside, Recovering
<1>7. CASE RecoveryRaises(p)
  <2>1. At(p)'
    BY <1>7 DEF RecoveryRaises, At, Writing, Recovering, OwnMarker, CommittedTasks
  <2>2. pc[p] \in Inside /\ pc' = [pc EXCEPT ![p] = "leaving"]
    BY <1>7 DEF RecoveryRaises, Inside
  <2> QED BY <2>1, <2>2, OneMoves
<1> QED BY <1>1, <1>2, <1>3, <1>4, <1>5, <1>6, <1>7 DEF Recover

LEMMA WriteAt ==
    ASSUME IInv, NEW p \in Proc, Write(p)
    PROVE  EveryAt'
<1> TypeOK /\ LockOwned /\ At(p) /\ LedgersAgree /\ MarkerDescribes
  BY DEF IInv, EveryAt
<1> USE DEF Goto, files, local, TypeOK
<1>1. CASE Prepare(p)
  <2>1. At(p)'
    BY <1>1 DEF Prepare, At, Writing, Recovering
  <2> QED BY <1>1, <2>1, OneMoves DEF Prepare, Inside
<1>2. CASE Decline(p)
  <2>1. At(p)'
    BY <1>2 DEF Decline, At, Writing, Recovering
  <2> QED BY <1>2, <2>1, OneMoves DEF Decline, Inside
<1>3. CASE WriteMarker(p)
  <2>1. tasks = doc[p] /\ events = tasks /\ ~torn /\ result[p] = "none"
    BY <1>3 DEF WriteMarker, At, LedgersAgree
  <2>2. At(p)'
    BY <1>3, <2>1 DEF WriteMarker, At, OwnMarker, Writing, Recovering
  <2> QED BY <1>3, <2>2, OneMoves DEF WriteMarker, Inside
<1>4. CASE WriteTasks(p) \/ TearEvent(p) \/ FinishEvent(p)
  <2>1. OwnMarker(p) /\ events = doc[p] /\ result[p] = "none"
    BY <1>4 DEF WriteTasks, TearEvent, FinishEvent, At, Writing
  <2>2. marker.after = Append(doc[p], want[p])
    BY <2>1 DEF OwnMarker, MarkerDescribes
  <2>3. At(p)'
    <3>1. CASE WriteTasks(p)
      BY <3>1, <2>1, <2>2 DEF WriteTasks, At, OwnMarker, Writing, Recovering
    <3>2. CASE TearEvent(p)
      BY <3>2, <2>1, <2>2 DEF TearEvent, At, OwnMarker, Writing, Recovering
    <3>3. CASE FinishEvent(p)
      BY <3>3, <2>1, <2>2 DEF FinishEvent, At, OwnMarker, Writing, Recovering
    <3> QED BY <1>4, <3>1, <3>2, <3>3
  <2> QED BY <1>4, <2>3, OneMoves DEF WriteTasks, TearEvent, FinishEvent, Inside, Writing
<1>5. CASE Verify(p)
  <2>1. At(p)'
    BY <1>5 DEF Verify, At, OwnMarker, Writing, Recovering
  <2> QED BY <1>5, <2>1, OneMoves DEF Verify, Inside, Writing
<1>6. CASE UnlinkCommitted(p)
  <2>1. tasks = Append(doc[p], want[p])
    BY <1>6 DEF UnlinkCommitted, At, OwnMarker, Writing, MarkerDescribes
  <2>2. At(p)'
    BY <1>6, <2>1 DEF UnlinkCommitted, At, Writing, Recovering
  <2> QED BY <1>6, <2>2, OneMoves DEF UnlinkCommitted, Inside, Writing
<1>7. CASE UnlinkRaises(p)
  <2>1. At(p)'
    BY <1>7 DEF UnlinkRaises, At, OwnMarker, Writing, Recovering, CommittedTasks
  <2> QED BY <1>7, <2>1, OneMoves DEF UnlinkRaises, Inside, Writing
<1>8. CASE WriteRaises(p)
  <2>1. At(p)'
    BY <1>8 DEF WriteRaises, At, OwnMarker, Writing, Recovering
  <2>2. pc[p] \in Inside /\ pc' = [pc EXCEPT ![p] = "failed"]
    BY <1>8 DEF WriteRaises, Inside, Writing
  <2> QED BY <2>1, <2>2, OneMoves
<1>9. CASE RecoverOwn(p)
  <2>1. At(p)'
    BY <1>9 DEF RecoverOwn, Recoverable, At, OwnMarker, Writing, Recovering, CommittedTasks
  <2> QED BY <1>9, <2>1, OneMoves DEF RecoverOwn, Inside
<1> QED BY <1>1, <1>2, <1>3, <1>4, <1>5, <1>6, <1>7, <1>8, <1>9 DEF Write

LEMMA AtStep == IInv /\ [Next]_vars => EveryAt'
<1> SUFFICES ASSUME IInv, [Next]_vars PROVE EveryAt'
  OBVIOUS
<1> TypeOK /\ LockOwned /\ EveryAt
  BY DEF IInv
<1>1. ASSUME NEW p \in Proc, Recover(p) \/ Write(p)
      PROVE  EveryAt'
  BY <1>1, RecoverAt, WriteAt
<1>2. ASSUME NEW p \in Proc, Acquire(p)
      PROVE  EveryAt'
  <2>1. result[p] = "none"
    BY <1>2 DEF Acquire, Goto, IInv, FreshOutside, Outside
  <2>2. At(p)'
    BY <1>2, <2>1 DEF Acquire, Goto, local, At, TypeOK, Writing, Recovering
  <2> QED BY <1>2, <2>2, OneMoves DEF Acquire, Goto
<1>3. ASSUME NEW p \in Proc, Release(p) \/ Crash(p)
      PROVE  EveryAt'
  <2>1. pc[p] \in Inside /\ pc' = [pc EXCEPT ![p] = "idle"]
    BY <1>3 DEF Release, Crash, Goto, Inside
  <2>2. At(p)'
    BY <2>1 DEF At, TypeOK, Writing, Recovering
  <2> QED BY <2>1, <2>2, OneMoves
<1>4. ASSUME NEW p \in Proc, Start(p) \/ TimeOut(p)
      PROVE  EveryAt'
  <2>1. pc'[p] \in Outside /\ \A q \in Proc : q # p => pc'[q] = pc[q]
    BY <1>4 DEF Start, TimeOut, Goto, TypeOK, Outside
  <2>2. UNCHANGED <<files, local>>
    BY <1>4 DEF Start, TimeOut
  <2> SUFFICES ASSUME NEW q \in Proc PROVE At(q)'
    BY DEF EveryAt
  <2>3. CASE q = p
    BY <2>1, <2>3 DEF At, Outside, Writing, Recovering
  <2>4. CASE q # p
    BY <2>1, <2>2, <2>4 DEF EveryAt, At, OwnMarker, CommittedTasks, files, local
  <2> QED BY <2>3, <2>4
<1>5. CASE (\E r \in Reader : Read(r)) \/ UNCHANGED vars
  <2>1. UNCHANGED <<files, local, pc>>
    BY <1>5 DEF Read, CheckTasks, ReadTasks, CheckEvents, ReadEvents, vars
  <2> QED BY <2>1 DEF EveryAt, At, OwnMarker, CommittedTasks, files, local
<1>6. CASE EditTasks \/ UndoEdit
  <2>1. \A q \in Proc : pc'[q] \in Outside
    BY <1>6, ConstantsAssumption DEF EditTasks, UndoEdit, TypeOK, LockOwned
  <2> QED BY <2>1 DEF EveryAt, At, Outside, Writing, Recovering
<1> QED BY <1>1, <1>2, <1>3, <1>4, <1>5, <1>6 DEF Next, Proceed

-----------------------------------------------------------------------------
(* The theorems                                                            *)

LEMMA InitIsGood == Init => IInv
<1> SUFFICES ASSUME Init PROVE IInv
  OBVIOUS
<1>1. TypeOK
  <2>1. /\ pc \in [Proc -> Outside \cup Inside]
        /\ doc \in [Proc -> Doc]
        /\ want \in [Proc -> Mutation]
        /\ result \in [Proc -> {"none", "committed", "failed"}]
    BY InitialValues DEF Init, Outside
  <2>2. /\ rpc \in [Reader -> {"idle", "tasks", "loaded", "events"}]
        /\ seenTasks \in [Reader -> Doc \cup {ForeignDoc}]
        /\ seenEvents \in [Reader -> Doc]
    BY InitialValues DEF Init
  <2>3. edits \in 0..MaxEdits
    BY ConstantsAssumption DEF Init
  <2> QED BY <2>1, <2>2, <2>3, InitialValues DEF Init, TypeOK
<1>2. LockOwned /\ FreshOutside
  BY DEF Init, LockOwned, FreshOutside, Inside, Writing, Recovering
<1>3. LedgersAgree /\ CleanIsOurs /\ MarkerDescribes
  BY InitialValues DEF Init, LedgersAgree, CleanIsOurs, MarkerDescribes
<1>4. EveryAt
  BY DEF Init, EveryAt, At, Writing, Recovering
<1> QED BY <1>1, <1>2, <1>3, <1>4 DEF IInv

THEOREM Invariance == Spec => []IInv
<1>1. IInv /\ [Next]_vars => IInv'
  BY TypeStep, LockStep, FreshStep, FilesStep, AtStep DEF IInv, FilesOK
<1> QED BY <1>1, InitIsGood, PTL DEF Spec

\* The state of every run of the paired write is well typed.
THEOREM TypeCorrect == Spec => []TypeOK
BY Invariance, PTL DEF IInv

\* Without a rollback marker, tasks.json and court_events.jsonl tell the same
\* history and no line is left unfinished.
THEOREM Agreement == Spec => []LedgersAgree
BY Invariance, PTL DEF IInv

\* A write that returned is on the ledgers; one that raised left no trace.
THEOREM Honesty == Spec => []OutcomeIsHonest
<1>1. IInv => OutcomeIsHonest
  BY DEF IInv, EveryAt, At, OutcomeIsHonest, CommittedTasks
<1> QED BY <1>1, Invariance, PTL

\* No recovery overwrites bytes of tasks.json that the pair did not write.
THEOREM ForeignEditSafe == Spec => ForeignEditKept
<1>1. IInv /\ [Next]_vars => [tasks = ForeignDoc => tasks' = ForeignDoc \/ UndoEdit]_vars
  <2> SUFFICES ASSUME IInv, [Next]_vars, tasks = ForeignDoc
               PROVE  tasks' = ForeignDoc \/ UndoEdit
    OBVIOUS
  <2>1. ForeignDoc \notin Doc
    BY ConstantsAssumption DEF Doc
  <2>2. ASSUME NEW p \in Proc PROVE ~RestoreTasks(p)
    BY <2>1, <2>2, MarkerFields DEF RestoreTasks, Goto, IInv, EveryAt, At, Recovering, TypeOK
  <2>3. ASSUME NEW p \in Proc PROVE ~WriteTasks(p)
    BY <2>1, <2>3 DEF WriteTasks, Goto, IInv, EveryAt, At, TypeOK
  <2> QED BY <2>2, <2>3 DEF Next, vars, files, Proceed, Start, Acquire, TimeOut, Release,
         Crash, Recover, Write, EnterRecover, EnterConflict, EnterReadOnly, EnterClean,
         TruncateEvents, UnlinkRecovered, RecoveryRaises, Prepare, Decline, WriteMarker,
         TearEvent, FinishEvent, Verify, UnlinkCommitted, UnlinkRaises, WriteRaises,
         RecoverOwn, Read, CheckTasks, ReadTasks, CheckEvents, ReadEvents, EditTasks
<1> QED BY <1>1, Invariance, PTL DEF Spec, ForeignEditKept

-----------------------------------------------------------------------------
(* Refinement                                                              *)

\* Where the abstract ledgers are, in terms of the files.
SameHistory == CommittedEvents = CommittedTasks

LEMMA Mapping == IInv => SameHistory
<1> SUFFICES ASSUME IInv PROVE CommittedEvents = CommittedTasks
  BY DEF SameHistory
<1>1. CASE pending
  BY <1>1, MarkerFields, EventsCutBack DEF IInv, TypeOK, CommittedTasks, CommittedEvents
<1>2. CASE ~pending
  BY <1>2 DEF IInv, CleanIsOurs, LedgersAgree, CommittedTasks, CommittedEvents
<1> QED BY <1>1, <1>2

LEMMA MappingNext == IInv' => SameHistory'
BY Mapping, PTL

LEMMA StepRefines ==
    ASSUME IInv, IInv', [Next]_vars
    PROVE  [Atomic!Next]_<<CommittedTasks, CommittedEvents>>
<1>1. CommittedEvents = CommittedTasks /\ CommittedEvents' = CommittedTasks'
  BY Mapping, MappingNext DEF SameHistory
<1>2. ASSUME NEW p \in Proc, UnlinkCommitted(p)
      PROVE  Atomic!Commit(marker.line)
  <2>1. /\ pending /\ ~pending' /\ tasks' = tasks
        /\ tasks = marker.after
        /\ marker.after = Append(marker.before, marker.line)
    BY <1>2 DEF UnlinkCommitted, Goto, IInv, EveryAt, At, Writing, OwnMarker, MarkerDescribes
  <2>2. CommittedTasks' = Append(CommittedTasks, marker.line)
    BY <2>1 DEF CommittedTasks
  <2> QED BY <2>2, <1>1 DEF Atomic!Commit
<1>3. ASSUME NEW p \in Proc, UnlinkRecovered(p)
      PROVE  CommittedTasks' = CommittedTasks
  BY <1>3 DEF UnlinkRecovered, Goto, IInv, EveryAt, At, Recovering, CommittedTasks
<1>4. ASSUME NEW p \in Proc, WriteMarker(p)
      PROVE  CommittedTasks' = CommittedTasks
  BY <1>4 DEF WriteMarker, CommittedTasks
<1>5. ASSUME NEW p \in Proc, RestoreTasks(p) \/ WriteTasks(p)
      PROVE  CommittedTasks' = CommittedTasks
  <2>1. pending
    BY <1>5 DEF RestoreTasks, WriteTasks, Goto, IInv, EveryAt, At, Writing, Recovering, OwnMarker
  <2> QED BY <1>5, <2>1 DEF RestoreTasks, WriteTasks, CommittedTasks
<1>6. CASE EditTasks \/ UndoEdit
  <2>1. pending
    BY <1>6, ConstantsAssumption DEF EditTasks, UndoEdit, IInv, CleanIsOurs, Doc
  <2> QED BY <1>6, <2>1, <1>1 DEF EditTasks, UndoEdit, CommittedTasks
<1>7. CASE UNCHANGED <<tasks, pending, marker>>
  BY <1>7, <1>1 DEF CommittedTasks
<1>8. \/ UNCHANGED <<tasks, pending, marker>>
      \/ \E p \in Proc : \/ UnlinkCommitted(p) \/ UnlinkRecovered(p) \/ WriteMarker(p)
                         \/ RestoreTasks(p) \/ WriteTasks(p)
      \/ EditTasks \/ UndoEdit
  BY DEF Next, vars, files, Proceed, Start, Acquire, TimeOut, Release, Crash, Recover, Write,
         EnterRecover, EnterConflict, EnterReadOnly, EnterClean, TruncateEvents,
         RecoveryRaises, Prepare, Decline, TearEvent, FinishEvent, Verify, UnlinkRaises,
         WriteRaises, RecoverOwn, Read, CheckTasks, ReadTasks, CheckEvents, ReadEvents
<1>9. ASSUME NEW p \in Proc, UnlinkCommitted(p)
      PROVE  Atomic!Next
  BY <1>9, <1>2, MarkerFields DEF Atomic!Next, IInv, TypeOK
<1> QED BY <1>1, <1>3, <1>4, <1>5, <1>6, <1>7, <1>8, <1>9

\* The paired write implements an indivisible change of both ledgers that is
\* never withdrawn, for any number of processes, crashes and failures.
THEOREM Refinement == Spec => RefinesAtomicLedger
<1>1. Init => Atomic!Init
  BY DEF Init, Atomic!Init, CommittedTasks, CommittedEvents
<1>2. IInv /\ IInv' /\ [Next]_vars => [Atomic!Next]_<<CommittedTasks, CommittedEvents>>
  BY StepRefines
<1> QED BY <1>1, <1>2, Invariance, PTL DEF Spec, RefinesAtomicLedger, Atomic!Spec, Atomic!ledger

-----------------------------------------------------------------------------
(* Readers                                                                 *)

LEMMA PrefixMeans ==
    ASSUME NEW S, NEW s \in Seq(S), NEW t \in Seq(S)
    PROVE  IsPrefix(s, t) <=> Len(s) <= Len(t) /\ \A i \in 1..Len(s) : s[i] = t[i]
<1>1. Len(s) \in Nat /\ Len(t) \in Nat
  OBVIOUS
<1>2. SubSeq(s, 1, Len(s)) = s
  OBVIOUS
<1>3. ASSUME Len(s) <= Len(t)
      PROVE  /\ SubSeq(t, 1, Len(s)) \in Seq(S) /\ Len(SubSeq(t, 1, Len(s))) = Len(s)
             /\ \A i \in 1..Len(s) : SubSeq(t, 1, Len(s))[i] = t[i]
  BY <1>1, <1>3
<1>4. ASSUME Len(s) <= Len(t), \A i \in 1..Len(s) : s[i] = t[i]
      PROVE  s = SubSeq(t, 1, Len(s))
  BY <1>1, <1>3, <1>4
<1> QED
  BY <1>2, <1>3, <1>4 DEF IsPrefix

LEMMA PrefixAppend ==
    ASSUME NEW S, NEW s \in Seq(S), NEW t \in Seq(S), NEW e \in S, IsPrefix(s, t)
    PROVE  IsPrefix(s, Append(t, e))
<1>1. Len(s) <= Len(t) /\ \A i \in 1..Len(s) : s[i] = t[i]
  BY PrefixMeans
<1>2. /\ Append(t, e) \in Seq(S) /\ Len(Append(t, e)) = Len(t) + 1
      /\ \A i \in 1..Len(t) : Append(t, e)[i] = t[i]
  OBVIOUS
<1>3. Len(s) \in Nat /\ Len(t) \in Nat
  OBVIOUS
<1>4. Len(s) <= Len(Append(t, e)) /\ \A i \in 1..Len(s) : s[i] = Append(t, e)[i]
  BY <1>1, <1>2, <1>3
<1> QED
  BY <1>2, <1>4, PrefixMeans

\* Without its last line a log is a shorter log, and the one that line was
\* appended to.
LEMMA FrontMeans ==
    ASSUME NEW S, NEW s \in Seq(S)
    PROVE  /\ Front(s) \in Seq(S) /\ IsPrefix(Front(s), s)
           /\ \A l \in S : Front(Append(s, l)) = s
<1>1. Front(s) \in Seq(S) /\ IsPrefix(Front(s), s)
  <2>1. CASE s = <<>>
    <3>1. Front(s) = s
      BY <2>1 DEF Front
    <3>2. IsPrefix(s, s)
      BY DEF IsPrefix
    <3> QED
      BY <3>1, <3>2
  <2>2. CASE s # <<>>
    <3> DEFINE n == Len(s) - 1
    <3>1. n \in Nat /\ n <= Len(s) /\ Front(s) = SubSeq(s, 1, n)
      BY <2>2 DEF Front
    <3> HIDE DEF n
    <3>2. /\ SubSeq(s, 1, n) \in Seq(S) /\ Len(SubSeq(s, 1, n)) = n
          /\ \A i \in 1..n : SubSeq(s, 1, n)[i] = s[i]
      BY <3>1
    <3> QED
      BY <3>1, <3>2, PrefixMeans
  <2> QED
    BY <2>1, <2>2
<1>2. ASSUME NEW l \in S PROVE Front(Append(s, l)) = s
  <2>1. Len(Append(s, l)) - 1 = Len(s)
    BY CutBack
  <2> QED
    BY <2>1, CutBack DEF Front
<1> QED
  BY <1>1, <1>2

LEMMA CommittedTyped == IInv => CommittedTasks \in Doc
BY MarkerFields DEF IInv, TypeOK, CleanIsOurs, CommittedTasks

\* Both files are at most one write ahead of what is committed.
LEMMA FilesAreOneAhead ==
    ASSUME IInv, NEW seen \in {tasks, events}, seen # ForeignDoc
    PROVE  IsPrefix(Front(seen), CommittedTasks)
<1>1. CASE pending
  <2>1. /\ CommittedTasks = marker.before /\ marker.before \in Seq(Mutation)
        /\ marker.line \in Mutation
        /\ seen = marker.before \/ seen = Append(marker.before, marker.line)
    BY <1>1, MarkerFields DEF IInv, TypeOK, MarkerDescribes, CommittedTasks, Doc
  <2>2. IsPrefix(marker.before, marker.before)
    BY <2>1 DEF IsPrefix
  <2> QED
    BY <2>1, <2>2, FrontMeans
<1>2. CASE ~pending
  <2>1. seen = CommittedTasks /\ seen \in Seq(Mutation)
    BY <1>2 DEF IInv, CleanIsOurs, LedgersAgree, CommittedTasks, Doc
  <2> QED
    BY <2>1, FrontMeans
<1> QED
  BY <1>1, <1>2

\* What is committed stays so: AtomicLedger withdraws nothing.
LEMMA CommittedGrows ==
    ASSUME IInv, IInv', [Next]_vars, NEW s \in Doc, IsPrefix(s, CommittedTasks)
    PROVE  IsPrefix(s, CommittedTasks')
<1>1. CommittedTasks' = CommittedTasks
      \/ \E m \in Mutation : CommittedTasks' = Append(CommittedTasks, m)
  BY StepRefines DEF Atomic!Next, Atomic!Commit
<1> QED
  BY <1>1, CommittedTyped, PrefixAppend DEF Doc

LEMMA ReadersStep ==
    ASSUME IInv, IInv', ReadersAreOneAhead, [Next]_vars
    PROVE  ReadersAreOneAhead'
<1>1. ASSUME NEW r \in Reader
      PROVE  /\ seenTasks'[r] \in {seenTasks[r], tasks}
             /\ seenEvents'[r] \in {seenEvents[r], events}
  BY DEF Next, vars, readers, Proceed, Start, Acquire, TimeOut, Release, Crash, Recover, Write,
         EnterRecover, EnterConflict, EnterReadOnly, EnterClean, RestoreTasks, TruncateEvents,
         UnlinkRecovered, RecoveryRaises, Prepare, Decline, WriteMarker, WriteTasks, TearEvent,
         FinishEvent, Verify, UnlinkCommitted, UnlinkRaises, WriteRaises, RecoverOwn, Read,
         CheckTasks, ReadTasks, CheckEvents, ReadEvents, EditTasks, UndoEdit, IInv, TypeOK
<1>2. ASSUME NEW r \in Reader, NEW seen \in {seenTasks'[r], seenEvents'[r]}, seen # ForeignDoc
      PROVE  IsPrefix(Front(seen), CommittedTasks')
  <2>1. seen \in {seenTasks[r], seenEvents[r], tasks, events}
    BY <1>1, <1>2
  <2>2. IsPrefix(Front(seen), CommittedTasks)
    BY <1>2, <2>1, FilesAreOneAhead DEF ReadersAreOneAhead
  <2>3. seen \in Doc
    BY <1>2, <2>1 DEF IInv, TypeOK
  <2>4. Front(seen) \in Doc
    BY <2>3, FrontMeans DEF Doc
  <2> QED
    BY <2>2, <2>4, CommittedGrows
<1> QED
  BY <1>2 DEF ReadersAreOneAhead

\* load_tasks and read_events, without the lock, give at most one mutation that
\* recover_ledger_pair undoes afterwards, on top of what stays committed.
THEOREM ReadersAreNear == Spec => []ReadersAreOneAhead
<1>1. Init => ReadersAreOneAhead
  <2> SUFFICES ASSUME Init PROVE ReadersAreOneAhead
    OBVIOUS
  <2>1. CommittedTasks = <<>> /\ <<>> \in Seq(Mutation)
    BY DEF Init, CommittedTasks
  <2>2. \A r \in Reader : seenTasks[r] = <<>> /\ seenEvents[r] = <<>>
    BY DEF Init
  <2>3. IsPrefix(Front(<<>>), <<>>)
    BY <2>1, FrontMeans
  <2> QED
    BY <2>1, <2>2, <2>3 DEF ReadersAreOneAhead
<1>2. IInv /\ IInv' /\ ReadersAreOneAhead /\ [Next]_vars => ReadersAreOneAhead'
  BY ReadersStep
<1> QED
  BY <1>1, <1>2, Invariance, PTL DEF Spec
=============================================================================
