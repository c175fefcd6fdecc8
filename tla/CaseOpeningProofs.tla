-------------------------- MODULE CaseOpeningProofs --------------------------
(***************************************************************************)
(* Proofs, for any sessions, processes and bounds, that sessions never     *)
(* share a number, that decree, journal and event log agree, told once,    *)
(* and that opening a case implements the irrevocable course CaseRegister. *)
(***************************************************************************)
EXTENDS CaseOpening, TLAPS

-----------------------------------------------------------------------------
(* The inductive invariant                                                 *)

Numbering == {"numbering", "storing"}
Creating == {"issuing", "numbering", "storing", "committing"}
Telling == {"allocated", "telling", "told", "marked"}

\* Who is where has which lock, and works for a session.
LocksHeld ==
    \A p \in Openers :
        /\ pc[p] \in Numbering <=> numberLock = p
        /\ pc[p] \in Telling \cup {"committing"} => runtimeLock = p
        /\ runtimeLock = p => pc[p] \in Telling \cup Creating
        /\ pc[p] # "idle" => session[p] \in Sessions

\* Some session has the highest number (the sessions need not be finite), and
\* a number between its computation and its allocation is above all of them.
SomeIsHighest == \E s \in Sessions : \A t \in Sessions : allocation[t] <= allocation[s]
NumbersAreFresh ==
    \A p \in Openers :
        /\ pc[p] = "storing" => /\ allocation[S(p)] = 0
                                /\ \A t \in Sessions : allocation[t] < number[p]
        /\ pc[p] = "committing" => number[p] # 0 /\ number[p] = allocation[S(p)]

\* A case carries the number its session was given, though that was issued
\* under another lock, by another process, or before a crash.
CaseCarriesAllocation == \A s \in Sessions : code[s] # 0 => code[s] = allocation[s]

\* Each event is in the log at most once, and where it should be.
EventsTold ==
    \A s \in Sessions :
        /\ creates[s] <= 1
        /\ code[s] = 0 => creates[s] = 0 /\ decree[s] = "none"
        /\ code[s] # 0 => garbled \/ creates[s] = 1

\* A creator makes the only task of its session; a process at work on a decree
\* has a task, and the decree and its journal are as far as the process.
WorkersKnow ==
    \A p \in Openers :
        /\ (runtimeLock = p /\ pc[p] \in Creating) => code[S(p)] = 0
        /\ pc[p] \notin Creating \cup {"idle"} => code[S(p)] # 0
        /\ pc[p] \in Telling \cup {"recovering"} => decree[S(p)] # "none"
        /\ pc[p] = "rereading" => decree[S(p)] # "none"
        /\ pc[p] \in {"told", "marked"} => garbled \/ decrees[S(p)] = 1
        /\ pc[p] = "marked" => decree[S(p)] = "COMMITTED"
        /\ pc[p] = "allocated" => journal[S(p)] = "none"

Numbers == SomeIsHighest /\ NumbersAreFresh /\ SessionNumbersDistinct /\ CaseCarriesAllocation
Decrees == EventsTold /\ WorkersKnow /\ DecreeToldOnce
IInv == TypeOK /\ LocksHeld /\ Numbers /\ Decrees

LEMMA NextIsFresh ==
    ASSUME TypeOK, SomeIsHighest
    PROVE  /\ NextSequence \in Nat \ {0}
           /\ \A t \in Sessions : allocation[t] < NextSequence
<1> DEFINE N == {top} \cup Allocated
<1>1. N \subseteq Nat
  BY DEF TypeOK, Allocated
<1>2. \E x \in N : \A y \in N : x >= y
  <2>1. PICK s \in Sessions : \A t \in Sessions : allocation[t] <= allocation[s]
    BY DEF SomeIsHighest
  <2>2. allocation[s] \in N /\ top \in N /\ \A y \in N : y = top \/ y <= allocation[s]
    BY <2>1 DEF Allocated
  <2>3. top \in Nat /\ allocation[s] \in Nat
    BY <1>1, <2>2
  <2>4. CASE top >= allocation[s]
    BY <1>1, <2>2, <2>3, <2>4
  <2>5. CASE allocation[s] >= top
    BY <1>1, <2>2, <2>3, <2>5
  <2> QED
    BY <2>3, <2>4, <2>5
<1>3. Max(N) \in N /\ \A y \in N : Max(N) >= y
  BY <1>2 DEF Max
<1>4. \A t \in Sessions : allocation[t] \in N
  BY DEF Allocated
<1> QED
  BY <1>1, <1>3, <1>4 DEF NextSequence

-----------------------------------------------------------------------------
(* Types and locks                                                         *)

LEMMA AnswerIsNew ==
    ASSUME NEW status \in {"none", "ALLOCATED", "COMMITTED"}
    PROVE  Answer[status] \in {"opening", "recovering", "replaying"}
BY DEF Answer

LEMMA Bounds == MaxRows \in Nat /\ MaxChanges \in Nat /\ MaxCrashes \in Nat
BY BoundsAssumption

LEMMA TypeInit == Init => TypeOK
<1> SUFFICES ASSUME Init PROVE TypeOK
  OBVIOUS
<1>1. torn \in BOOLEAN /\ garbled \in BOOLEAN
  BY DEF Init
<1> QED
  BY <1>1, Bounds DEF Init, TypeOK, Pc

LEMMA ToTypes ==
    ASSUME TypeOK, NEW p \in Openers, NEW there \in Pc, To(p, there)
    PROVE  pc' \in [Openers -> Pc]
BY DEF TypeOK, To

LEMMA LeaveTypes ==
    ASSUME TypeOK, NEW p \in Openers, Leave(p)
    PROVE  /\ pc' \in [Openers -> Pc]
           /\ session' \in [Openers -> Sessions \cup {Nobody}]
           /\ outdated' \subseteq Openers
           /\ number' \in [Openers -> Nat]
           /\ {runtimeLock', numberLock'} \subseteq Openers \cup {Nobody}
BY DEF TypeOK, Leave, To, Serves, Pc

LEMMA ServesASession ==
    ASSUME TypeOK, LocksHeld, NEW p \in Openers, pc[p] # "idle"
    PROVE  S(p) \in Sessions
BY DEF LocksHeld, S

LEMMA AppendTypes ==
    ASSUME TypeOK, NEW s \in Sessions
    PROVE  /\ Append(creates, s) => creates' \in [Sessions -> Nat] /\ torn' \in BOOLEAN
                                    /\ garbled' \in BOOLEAN
           /\ Append(decrees, s) => decrees' \in [Sessions -> Nat] /\ torn' \in BOOLEAN
                                    /\ garbled' \in BOOLEAN
<1>1. ASSUME garbled' = (garbled \/ torn) PROVE garbled' \in BOOLEAN
  BY <1>1
<1>2. ASSUME Append(creates, s)
      PROVE  creates' \in [Sessions -> Nat] /\ torn' \in BOOLEAN /\ garbled' \in BOOLEAN
  <2>1. creates' \in [Sessions -> Nat]
    BY <1>2 DEF TypeOK, Append
  <2> QED
    BY <1>1, <1>2, <2>1 DEF Append
<1>3. ASSUME Append(decrees, s)
      PROVE  decrees' \in [Sessions -> Nat] /\ torn' \in BOOLEAN /\ garbled' \in BOOLEAN
  <2>1. decrees' \in [Sessions -> Nat]
    BY <1>3 DEF TypeOK, Append
  <2> QED
    BY <1>1, <1>3, <2>1 DEF Append
<1> QED
  BY <1>2, <1>3

\* The steps with the locks of the session numbers.
LEMMA TypeNumbers ==
    ASSUME TypeOK, LocksHeld, SomeIsHighest, NEW p \in Openers, NEW s \in Sessions,
           Issue(p, s) \/ TakeNumbers(p) \/ Reuse(p) \/ Compute(p) \/ Store(p)
    PROVE  TypeOK'
<1> USE ToTypes, LeaveTypes, ServesASession
    DEF TypeOK, Pc, index, task, log, spent, locks, Serves
<1>1. CASE Issue(p, s)
  BY <1>1 DEF Issue, To
<1>2. CASE TakeNumbers(p)
  BY <1>2 DEF TakeNumbers, To
<1>3. CASE Reuse(p)
  <2>1. S(p) \in Sessions
    BY <1>3 DEF Reuse
  <2>2. CASE runtimeLock = p
    BY <1>3, <2>1, <2>2 DEF Reuse, Numbered, To
  <2>3. CASE runtimeLock # p
    BY <1>3, <2>1, <2>3 DEF Reuse, Numbered
  <2> QED
    BY <2>2, <2>3
<1>4. CASE Compute(p)
  BY <1>4, NextIsFresh DEF Compute, To
<1>5. CASE Store(p)
  <2>1. S(p) \in Sessions
    BY <1>5 DEF Store
  <2>2. CASE runtimeLock = p
    BY <1>5, <2>1, <2>2 DEF Store, Numbered, To
  <2>3. CASE runtimeLock # p
    BY <1>5, <2>1, <2>3 DEF Store, Numbered
  <2> QED
    BY <2>2, <2>3
<1> QED
  BY <1>1, <1>2, <1>3, <1>4, <1>5

\* The steps of a creation up to the opening of its decree.
LEMMA TypeCreation ==
    ASSUME TypeOK, LocksHeld, NEW p \in Openers, NEW s \in Sessions,
           Create(p, s) \/ ReplayCreate(p, s) \/ Commit(p) \/ Read(p) \/ Open(p) \/ OpenRefused(p)
    PROVE  TypeOK'
<1> USE ToTypes, LeaveTypes, ServesASession, AppendTypes
    DEF TypeOK, Pc, index, task, log, spent, locks, Serves
<1>1. CASE Create(p, s)
  BY <1>1 DEF Create, To
<1>2. CASE ReplayCreate(p, s)
  BY <1>2 DEF ReplayCreate, To
<1>3. CASE Commit(p)
  BY <1>3 DEF Commit, To
<1>4. CASE Read(p)
  <2>1. Answer[decree[S(p)]] \in Pc
    BY <1>4, AnswerIsNew DEF Read
  <2> QED
    BY <1>4, <2>1 DEF Read, To
<1>5. CASE Open(p)
  BY <1>5 DEF Open, To, Readers
<1>6. CASE OpenRefused(p)
  BY <1>6 DEF OpenRefused, To
<1> QED
  BY <1>1, <1>2, <1>3, <1>4, <1>5, <1>6

\* The steps that tell the decree.
LEMMA TypeDecree ==
    ASSUME TypeOK, LocksHeld, NEW p \in Openers,
           \/ JournalAllocated(p) \/ Recover(p) \/ Replay(p)
           \/ EnsureEvent(p) \/ MarkCommitted(p) \/ JournalCommitted(p)
    PROVE  TypeOK'
<1> USE ToTypes, LeaveTypes, ServesASession, AppendTypes
    DEF TypeOK, Pc, index, task, log, spent, locks
<1>1. CASE JournalAllocated(p)
  BY <1>1 DEF JournalAllocated, To
<1>2. CASE Recover(p)
  BY <1>2 DEF Recover, To
<1>3. CASE Replay(p)
  BY <1>3 DEF Replay, To
<1>4. CASE EnsureEvent(p)
  BY <1>4 DEF EnsureEvent, To
<1>5. CASE MarkCommitted(p)
  BY <1>5 DEF MarkCommitted, To
<1>6. CASE JournalCommitted(p)
  BY <1>6 DEF JournalCommitted
<1> QED
  BY <1>1, <1>2, <1>3, <1>4, <1>5, <1>6

LEMMA TypeAround ==
    ASSUME TypeOK, NEW p \in Openers, NEW s \in Sessions, NEW flag \in BOOLEAN,
           Crash(p, flag) \/ Change(s, flag) \/ CloseSession(s) \/ WriteNote \/ Rebuild
    PROVE  TypeOK'
<1> USE LeaveTypes, Bounds DEF TypeOK, Pc, index, task, log, spent, locks
<1>1. CASE Crash(p, flag)
  BY <1>1 DEF Crash
<1>2. CASE Change(s, flag)
  <2>1. garbled' \in BOOLEAN /\ torn' \in BOOLEAN
    BY <1>2 DEF Change
  <2>2. charter' \in [Sessions -> 1..2]
    BY <1>2 DEF Change
  <2>3. outdated' \subseteq Openers
    BY <1>2 DEF Change, Readers
  <2> QED
    BY <1>2, <2>1, <2>2, <2>3 DEF Change
<1>3. ASSUME NEW nr \in Nat, AddRow(nr) PROVE TypeOK'
  <2>1. Max({rows + 1, top, nr}) \in {rows + 1, top, nr}
    BY <1>3 DEF Max
  <2> QED
    BY <1>3, <2>1 DEF AddRow
<1>4. CASE CloseSession(s)
  BY <1>3, <1>4 DEF CloseSession
<1>5. CASE WriteNote
  BY <1>3, <1>5 DEF WriteNote
<1>6. CASE Rebuild
  BY <1>6 DEF Rebuild
<1> QED
  BY <1>1, <1>2, <1>4, <1>5, <1>6

-----------------------------------------------------------------------------
(* Locks                                                                   *)

LEMMA LocksInit == Init => LocksHeld
BY NobodyAssumption DEF Init, LocksHeld, Numbering, Telling, Creating

LEMMA LeaveLocks ==
    ASSUME TypeOK, LocksHeld, NEW p \in Openers, Leave(p)
    PROVE  LocksHeld'
BY NobodyAssumption DEF TypeOK, LocksHeld, Leave, To, Serves, Numbering, Telling, Creating

\* Locks are taken in this order and left by their holders.
LEMMA LocksOfCreation ==
    ASSUME TypeOK, LocksHeld, NEW p \in Openers, NEW s \in Sessions,
           \/ Issue(p, s) \/ TakeNumbers(p) \/ Reuse(p) \/ Compute(p) \/ Store(p)
           \/ Create(p, s) \/ ReplayCreate(p, s) \/ Commit(p) \/ Read(p) \/ Open(p)
           \/ OpenRefused(p)
    PROVE  LocksHeld'
<1> USE LeaveLocks, NobodyAssumption
    DEF TypeOK, LocksHeld, To, Serves, Numbering, Telling, Creating, locks
<1>1. CASE Issue(p, s)
  BY <1>1 DEF Issue
<1>2. CASE TakeNumbers(p)
  BY <1>2 DEF TakeNumbers
<1>3. CASE Reuse(p)
  BY <1>3 DEF Reuse, Numbered
<1>4. CASE Compute(p)
  BY <1>4 DEF Compute
<1>5. CASE Store(p)
  BY <1>5 DEF Store, Numbered
<1>6. CASE Create(p, s)
  BY <1>6 DEF Create
<1>7. CASE ReplayCreate(p, s)
  BY <1>7 DEF ReplayCreate
<1>8. CASE Commit(p)
  BY <1>8 DEF Commit
<1>9. CASE Read(p)
  <2>1. Answer[decree[S(p)]] \in {"opening", "recovering", "replaying"}
    BY <1>9, AnswerIsNew, ServesASession DEF Read
  <2> QED
    BY <1>9, <2>1 DEF Read
<1>10. CASE Open(p)
  BY <1>10 DEF Open
<1>11. CASE OpenRefused(p)
  BY <1>11 DEF OpenRefused
<1> QED
  BY <1>1, <1>2, <1>3, <1>4, <1>5, <1>6, <1>7, <1>8, <1>9, <1>10, <1>11

\* The same for the steps of the decree and what happens around.
LEMMA LocksOfDecree ==
    ASSUME TypeOK, LocksHeld, NEW p \in Openers, NEW s \in Sessions, NEW flag \in BOOLEAN,
           \/ JournalAllocated(p) \/ Recover(p) \/ Replay(p) \/ EnsureEvent(p)
           \/ MarkCommitted(p) \/ JournalCommitted(p) \/ Crash(p, flag)
           \/ Change(s, flag) \/ CloseSession(s) \/ WriteNote \/ Rebuild
    PROVE  LocksHeld'
<1> USE LeaveLocks, NobodyAssumption
    DEF TypeOK, LocksHeld, To, Serves, Numbering, Telling, Creating, locks
<1>1. CASE JournalAllocated(p)
  BY <1>1 DEF JournalAllocated
<1>2. CASE Recover(p)
  BY <1>2 DEF Recover
<1>3. CASE Replay(p)
  BY <1>3 DEF Replay
<1>4. CASE EnsureEvent(p)
  BY <1>4 DEF EnsureEvent
<1>5. CASE MarkCommitted(p)
  BY <1>5 DEF MarkCommitted
<1>6. CASE JournalCommitted(p)
  BY <1>6 DEF JournalCommitted
<1>7. CASE Crash(p, flag)
  BY <1>7 DEF Crash
<1>8. CASE Change(s, flag)
  BY <1>8 DEF Change
<1>9. CASE CloseSession(s)
  BY <1>9 DEF CloseSession, AddRow
<1>10. CASE WriteNote
  BY <1>10 DEF WriteNote, AddRow
<1>11. CASE Rebuild
  BY <1>11 DEF Rebuild
<1> QED
  BY <1>1, <1>2, <1>3, <1>4, <1>5, <1>6, <1>7, <1>8, <1>9, <1>10, <1>11

-----------------------------------------------------------------------------
(* Numbers                                                                 *)

LEMMA NumbersInit == Init => Numbers
BY SomebodyAssumption DEF Init, Numbers, SomeIsHighest, NumbersAreFresh, SessionNumbersDistinct, CaseCarriesAllocation

\* A step that gives no number and takes none along keeps them in order.
LEMMA OthersKeepNumbers ==
    ASSUME Numbers, UNCHANGED <<allocation, code>>,
           \A q \in Openers : pc'[q] \in {"storing", "committing"} =>
               pc'[q] = pc[q] /\ number'[q] = number[q] /\ session'[q] = session[q]
    PROVE  Numbers'
BY DEF Numbers, SomeIsHighest, NumbersAreFresh, SessionNumbersDistinct, CaseCarriesAllocation, S

LEMMA NumbersOfReuse ==
    ASSUME TypeOK, LocksHeld, Numbers, NEW p \in Openers, Reuse(p)
    PROVE  Numbers'
<1>1. S(p) \in Sessions /\ UNCHANGED <<allocation, code>>
  BY ServesASession DEF Reuse, task
<1>2. CASE runtimeLock = p
  <2>1. session' = session
    BY <1>2 DEF Reuse, Numbered
  <2>2. pc' = [pc EXCEPT ![p] = "committing"] /\ number' = [number EXCEPT ![p] = allocation[S(p)]]
        /\ allocation[S(p)] # 0
    BY <1>2 DEF Reuse, Numbered, To
  <2> QED
    BY <1>1, <2>1, <2>2 DEF TypeOK, Numbers, SomeIsHighest, NumbersAreFresh,
                            SessionNumbersDistinct, CaseCarriesAllocation, S
<1>3. CASE runtimeLock # p
  BY <1>1, <1>3, OthersKeepNumbers DEF Reuse, Numbered, Leave, To, Serves, TypeOK
<1> QED
  BY <1>2, <1>3

LEMMA NumbersOfCompute ==
    ASSUME TypeOK, LocksHeld, Numbers, NEW p \in Openers, Compute(p)
    PROVE  Numbers'
<1>1. /\ pc' = [pc EXCEPT ![p] = "storing"] /\ number' = [number EXCEPT ![p] = NextSequence]
      /\ allocation[S(p)] = 0
      /\ UNCHANGED <<allocation, code, session>>
  BY DEF Compute, To, task
<1>2. \A t \in Sessions : allocation[t] < NextSequence
  BY NextIsFresh DEF Numbers
<1> QED
  BY <1>1, <1>2 DEF TypeOK, Numbers, SomeIsHighest, NumbersAreFresh,
                    SessionNumbersDistinct, CaseCarriesAllocation, S

LEMMA NumbersOfStore ==
    ASSUME TypeOK, LocksHeld, Numbers, NEW p \in Openers, Store(p)
    PROVE  Numbers'
<1>1. /\ S(p) \in Sessions /\ pc[p] = "storing"
      /\ allocation' = [allocation EXCEPT ![S(p)] = number[p]] /\ code' = code
  BY ServesASession DEF Store, task
<1>2. /\ allocation[S(p)] = 0 /\ number[p] \in Nat \ {0}
      /\ \A t \in Sessions : allocation[t] \in Nat /\ allocation[t] < number[p]
  BY <1>1 DEF Numbers, NumbersAreFresh, TypeOK
<1>3. SomeIsHighest' /\ SessionNumbersDistinct'
  <2>1. SessionNumbersDistinct'
    BY <1>1, <1>2 DEF Numbers, SessionNumbersDistinct, TypeOK
  <2>2. \A t \in Sessions : allocation'[t] <= allocation'[S(p)]
    BY <1>1, <1>2 DEF TypeOK
  <2> QED
    BY <1>1, <2>1, <2>2 DEF SomeIsHighest
<1>4. CaseCarriesAllocation'
  BY <1>1, <1>2 DEF Numbers, CaseCarriesAllocation, TypeOK
<1>5. \A q \in Openers : pc[q] = "storing" => q = p
  BY <1>1 DEF LocksHeld, Numbering
<1>6. CASE runtimeLock = p
  <2>1. /\ session' = session /\ pc' = [pc EXCEPT ![p] = "committing"]
        /\ number' = number
    BY <1>6 DEF Store, Numbered, To, TypeOK
  <2> QED
    BY <1>1, <1>2, <1>3, <1>4, <1>5, <2>1 DEF Numbers, NumbersAreFresh, TypeOK, S
<1>7. CASE runtimeLock # p
  <2>1. \A q \in Openers : pc'[q] \in {"storing", "committing"} =>
            q # p /\ pc'[q] = pc[q] /\ number'[q] = number[q] /\ session'[q] = session[q]
    BY <1>7 DEF Store, Numbered, Leave, To, Serves, TypeOK
  <2> QED
    BY <1>1, <1>2, <1>3, <1>4, <1>5, <2>1 DEF Numbers, NumbersAreFresh, TypeOK, S
<1> QED
  BY <1>6, <1>7

LEMMA NumbersOfCommit ==
    ASSUME TypeOK, LocksHeld, Numbers, NEW p \in Openers, Commit(p)
    PROVE  Numbers'
<1>1. /\ S(p) \in Sessions /\ pc[p] = "committing" /\ UNCHANGED <<allocation, session>>
      /\ code' = [code EXCEPT ![S(p)] = number[p]]
      /\ pc' = [pc EXCEPT ![p] = "reading"] /\ number' = [number EXCEPT ![p] = 0]
  BY ServesASession DEF Commit, To
<1>2. number[p] = allocation[S(p)]
  BY <1>1 DEF Numbers, NumbersAreFresh
<1> QED
  BY <1>1, <1>2 DEF TypeOK, Numbers, SomeIsHighest, NumbersAreFresh,
                    SessionNumbersDistinct, CaseCarriesAllocation, S

\* The other steps.
LEMMA NumbersOfOthers ==
    ASSUME TypeOK, LocksHeld, Numbers, NEW p \in Openers, NEW s \in Sessions, NEW flag \in BOOLEAN,
           \/ Issue(p, s) \/ TakeNumbers(p) \/ Create(p, s) \/ ReplayCreate(p, s)
           \/ Read(p) \/ Open(p) \/ OpenRefused(p) \/ JournalAllocated(p) \/ Recover(p)
           \/ Replay(p) \/ EnsureEvent(p) \/ MarkCommitted(p) \/ JournalCommitted(p)
           \/ Crash(p, flag) \/ Change(s, flag) \/ CloseSession(s) \/ WriteNote
           \/ Rebuild
    PROVE  Numbers'
<1> USE OthersKeepNumbers
    DEF TypeOK, To, Serves, Leave, locks, task, S
<1>1. CASE Issue(p, s)
  BY <1>1 DEF Issue
<1>2. CASE TakeNumbers(p)
  BY <1>2 DEF TakeNumbers
<1>3. CASE Create(p, s)
  BY <1>3 DEF Create
<1>4. CASE ReplayCreate(p, s)
  BY <1>4 DEF ReplayCreate
<1>5. CASE Read(p)
  <2>1. Answer[decree[S(p)]] \in {"opening", "recovering", "replaying"}
    BY <1>5, AnswerIsNew, ServesASession DEF Read
  <2> QED
    BY <1>5, <2>1 DEF Read
<1>6. CASE Open(p)
  BY <1>6 DEF Open
<1>7. CASE OpenRefused(p)
  BY <1>7 DEF OpenRefused
<1>8. CASE JournalAllocated(p)
  BY <1>8 DEF JournalAllocated
<1>9. CASE Recover(p)
  BY <1>9 DEF Recover
<1>10. CASE Replay(p)
  BY <1>10 DEF Replay
<1>11. CASE EnsureEvent(p)
  BY <1>11 DEF EnsureEvent
<1>12. CASE MarkCommitted(p)
  BY <1>12 DEF MarkCommitted
<1>13. CASE JournalCommitted(p)
  BY <1>13 DEF JournalCommitted
<1>14. CASE Crash(p, flag)
  BY <1>14 DEF Crash
<1>15. CASE Change(s, flag)
  BY <1>15 DEF Change
<1>16. CASE CloseSession(s)
  BY <1>16 DEF CloseSession, AddRow
<1>17. CASE WriteNote
  BY <1>17 DEF WriteNote, AddRow
<1>18. CASE Rebuild
  BY <1>18 DEF Rebuild
<1> QED
  BY <1>1, <1>2, <1>3, <1>4, <1>5, <1>6, <1>7, <1>8, <1>9, <1>10, <1>11, <1>12, <1>13, <1>14, <1>15, <1>16, <1>17, <1>18

-----------------------------------------------------------------------------
(* Decrees                                                                 *)

LEMMA DecreesInit == Init => Decrees
BY NobodyAssumption DEF Init, Decrees, EventsTold, WorkersKnow, DecreeToldOnce, Creating, Telling

\* The steps that give a number do not touch the decree.
LEMMA DecreesOfNumbers ==
    ASSUME TypeOK, LocksHeld, Numbers, Decrees, NEW p \in Openers, NEW s \in Sessions,
           Issue(p, s) \/ TakeNumbers(p) \/ Reuse(p) \/ Compute(p) \/ Store(p)
    PROVE  Decrees'
<1> USE ServesASession, NobodyAssumption
    DEF TypeOK, LocksHeld, Decrees, EventsTold, WorkersKnow, DecreeToldOnce, To, Serves, Leave, S,
        task, log, locks, Creating, Telling, Numbering
<1>1. CASE Issue(p, s)
  BY <1>1 DEF Issue
<1>2. CASE TakeNumbers(p)
  BY <1>2 DEF TakeNumbers
<1>3. CASE Reuse(p)
  BY <1>3 DEF Reuse, Numbered
<1>4. CASE Compute(p)
  BY <1>4 DEF Compute
<1>5. CASE Store(p)
  BY <1>5 DEF Store, Numbered
<1> QED
  BY <1>1, <1>2, <1>3, <1>4, <1>5

\* Nor do those that only look at it.
LEMMA DecreesOfReaders ==
    ASSUME TypeOK, LocksHeld, Numbers, Decrees, NEW p \in Openers, NEW s \in Sessions, NEW flag \in BOOLEAN,
           Create(p, s) \/ ReplayCreate(p, s) \/ OpenRefused(p) \/ Recover(p) \/ Replay(p) \/ Crash(p, flag)
    PROVE  Decrees'
<1> USE ServesASession, NobodyAssumption
    DEF TypeOK, LocksHeld, Decrees, EventsTold, WorkersKnow, DecreeToldOnce, To, Serves, Leave, S,
        task, log, locks, Creating, Telling, Numbering
<1>1. CASE Create(p, s)
  BY <1>1 DEF Create
<1>2. CASE ReplayCreate(p, s)
  BY <1>2 DEF ReplayCreate
<1>3. CASE OpenRefused(p)
  BY <1>3 DEF OpenRefused
<1>4. CASE Recover(p)
  BY <1>4 DEF Recover
<1>5. CASE Replay(p)
  BY <1>5 DEF Replay
<1>6. CASE Crash(p, flag)
  BY <1>6 DEF Crash
<1> QED
  BY <1>1, <1>2, <1>3, <1>4, <1>5, <1>6

\* The steps that write it.
LEMMA DecreesOfWriters ==
    ASSUME TypeOK, LocksHeld, Numbers, Decrees, NEW p \in Openers,
           Commit(p) \/ Read(p) \/ Open(p) \/ JournalAllocated(p) \/ EnsureEvent(p) \/ MarkCommitted(p) \/ JournalCommitted(p)
    PROVE  Decrees'
<1> USE ServesASession, NobodyAssumption
    DEF TypeOK, LocksHeld, Decrees, EventsTold, WorkersKnow, DecreeToldOnce, To, Serves, Leave, S,
        task, log, locks, Creating, Telling, Numbering
<1>1. CASE Commit(p)
  BY <1>1 DEF Commit, Append, Numbers, NumbersAreFresh
<1>2. CASE Read(p)
  BY <1>2 DEF Read, Answer
<1>3. CASE Open(p)
  BY <1>3 DEF Open
<1>4. CASE JournalAllocated(p)
  BY <1>4 DEF JournalAllocated
<1>5. CASE EnsureEvent(p)
  BY <1>5 DEF EnsureEvent, Append
<1>6. CASE MarkCommitted(p)
  BY <1>6 DEF MarkCommitted
<1>7. CASE JournalCommitted(p)
  BY <1>7 DEF JournalCommitted
<1> QED
  BY <1>1, <1>2, <1>3, <1>4, <1>5, <1>6, <1>7

\* What happens around it.
LEMMA DecreesAround ==
    ASSUME TypeOK, LocksHeld, Numbers, Decrees, NEW p \in Openers, NEW s \in Sessions, NEW flag \in BOOLEAN,
           Change(s, flag) \/ CloseSession(s) \/ WriteNote \/ Rebuild
    PROVE  Decrees'
<1> USE ServesASession, NobodyAssumption
    DEF TypeOK, LocksHeld, Decrees, EventsTold, WorkersKnow, DecreeToldOnce, To, Serves, Leave, S,
        task, log, locks, Creating, Telling, Numbering
<1>1. CASE Change(s, flag)
  BY <1>1 DEF Change
<1>2. CASE CloseSession(s)
  BY <1>2 DEF CloseSession, AddRow
<1>3. CASE WriteNote
  BY <1>3 DEF WriteNote, AddRow
<1>4. CASE Rebuild
  BY <1>4 DEF Rebuild
<1> QED
  BY <1>1, <1>2, <1>3, <1>4

-----------------------------------------------------------------------------
(* Every step                                                              *)

\* The invariant holds at first, and no step of any process breaks it.
LEMMA IInvInit == Init => IInv
BY TypeInit, LocksInit, NumbersInit, DecreesInit DEF IInv

LEMMA IInvOfProcess ==
    ASSUME IInv, NEW p \in Openers, NEW s \in Sessions, NEW flag \in BOOLEAN,
           \/ Work(p) \/ Lock(p) \/ Issue(p, s) \/ Create(p, s) \/ ReplayCreate(p, s)
           \/ Crash(p, flag)
    PROVE  IInv'
<1>1. TypeOK /\ LocksHeld /\ Numbers /\ Decrees /\ SomeIsHighest
  BY DEF IInv, Numbers
<1>2. CASE Reuse(p) \/ Compute(p) \/ Store(p) \/ TakeNumbers(p) \/ Issue(p, s)
  BY <1>1, <1>2, TypeNumbers, LocksOfCreation, NumbersOfReuse, NumbersOfCompute,
     NumbersOfStore, NumbersOfOthers, DecreesOfNumbers DEF IInv
<1>3. CASE Create(p, s) \/ ReplayCreate(p, s) \/ OpenRefused(p)
  BY <1>1, <1>3, TypeCreation, LocksOfCreation, NumbersOfOthers, DecreesOfReaders DEF IInv
<1>4. CASE Commit(p) \/ Read(p) \/ Open(p)
  BY <1>1, <1>4, TypeCreation, LocksOfCreation, NumbersOfCommit, NumbersOfOthers,
     DecreesOfWriters DEF IInv
<1>5. CASE Recover(p) \/ Replay(p)
  BY <1>1, <1>5, TypeDecree, LocksOfDecree, NumbersOfOthers, DecreesOfReaders DEF IInv
<1>6. CASE JournalAllocated(p) \/ EnsureEvent(p) \/ MarkCommitted(p) \/ JournalCommitted(p)
  BY <1>1, <1>6, TypeDecree, LocksOfDecree, NumbersOfOthers, DecreesOfWriters DEF IInv
<1>7. CASE Crash(p, flag)
  BY <1>1, <1>7, TypeAround, LocksOfDecree, NumbersOfOthers, DecreesOfReaders DEF IInv
<1> QED
  BY <1>2, <1>3, <1>4, <1>5, <1>6, <1>7 DEF Work, Lock

LEMMA IInvAround ==
    ASSUME IInv, NEW s \in Sessions, NEW flag \in BOOLEAN, NEW p \in Openers,
           Change(s, flag) \/ CloseSession(s) \/ WriteNote \/ Rebuild
    PROVE  IInv'
BY TypeAround, LocksOfDecree, NumbersOfOthers, DecreesAround DEF IInv

LEMMA IInvStep == IInv /\ [Next]_vars => IInv'
<1> SUFFICES ASSUME IInv, [Next]_vars PROVE IInv'
  OBVIOUS
<1>1. PICK t \in Sessions, q \in Openers : TRUE
  BY SomebodyAssumption
<1>2. ASSUME NEW p \in Openers, Work(p) \/ Lock(p) PROVE IInv'
  BY <1>1, <1>2, IInvOfProcess
<1>3. ASSUME NEW p \in Openers, NEW s \in Sessions, Issue(p, s) \/ Create(p, s) \/ ReplayCreate(p, s)
      PROVE  IInv'
  BY <1>3, IInvOfProcess
<1>4. ASSUME NEW p \in Openers, NEW tears \in BOOLEAN, Crash(p, tears) PROVE IInv'
  BY <1>1, <1>4, IInvOfProcess
<1>5. ASSUME NEW s \in Sessions, NEW recharters \in BOOLEAN, CloseSession(s) \/ Change(s, recharters)
      PROVE  IInv'
  BY <1>1, <1>5, IInvAround
<1>6. CASE WriteNote \/ Rebuild
  BY <1>1, <1>6, IInvAround
<1>7. CASE UNCHANGED vars
  BY <1>7 DEF IInv, TypeOK, LocksHeld, Numbers, Decrees, SomeIsHighest, NumbersAreFresh,
              SessionNumbersDistinct, CaseCarriesAllocation, EventsTold, WorkersKnow,
              DecreeToldOnce, S, vars, index, task, log, locks, spent
<1>8. ASSUME NEW s \in Sessions, CloseSession(s) PROVE IInv'
  BY <1>5, <1>8
<1> QED
  BY <1>2, <1>3, <1>4, <1>5, <1>6, <1>7, <1>8 DEF Next

LEMMA IInvHolds == Spec => []IInv
BY IInvInit, IInvStep, PTL DEF Spec

-----------------------------------------------------------------------------
(* The refinement of CaseRegister                                          *)

\* What the register is about, in terms of the files.
opened == <<allocation, code, decree, journal, decrees, garbled>>

LEMMA RegisterInit == Init => Register!Init
BY DEF Init, Register!Init

LEMMA RegisterOfNumber ==
    ASSUME IInv, NEW p \in Openers, Store(p)
    PROVE  Register!Next
<1>1. /\ S(p) \in Sessions /\ pc[p] = "storing"
      /\ allocation' = [allocation EXCEPT ![S(p)] = number[p]]
      /\ UNCHANGED <<code, decree, journal, decrees, garbled>>
  BY ServesASession DEF Store, task, log, IInv
<1>2. /\ allocation[S(p)] = 0 /\ number[p] \in Nat \ {0}
      /\ \A t \in Sessions : allocation[t] \in Nat /\ allocation[t] < number[p]
  BY <1>1 DEF IInv, Numbers, NumbersAreFresh, TypeOK
<1>3. allocation'[S(p)] = number[p] /\ \A t \in Sessions : number[p] # allocation[t]
  BY <1>1, <1>2 DEF IInv, TypeOK
<1> QED
  BY <1>1, <1>2, <1>3 DEF Register!Next, Register!Number

LEMMA RegisterOfCase ==
    ASSUME IInv, NEW p \in Openers, Commit(p)
    PROVE  Register!Next
<1>1. /\ S(p) \in Sessions /\ pc[p] = "committing"
      /\ code' = [code EXCEPT ![S(p)] = number[p]] /\ garbled' = (garbled \/ torn)
      /\ UNCHANGED <<allocation, decree, journal, decrees>>
  BY ServesASession DEF Commit, Append, IInv
<1>2. number[p] # 0 /\ number[p] = allocation[S(p)] /\ runtimeLock = p
  BY <1>1 DEF IInv, Numbers, NumbersAreFresh, LocksHeld
<1>3. code[S(p)] = 0
  BY <1>1, <1>2 DEF IInv, Decrees, WorkersKnow, Creating
<1> QED
  BY <1>1, <1>2, <1>3 DEF Register!Next, Register!Open

LEMMA RegisterOfDecree ==
    ASSUME IInv, NEW p \in Openers, Open(p) \/ JournalAllocated(p)
    PROVE  Register!Next
<1>1. CASE Open(p)
  <2>1. /\ S(p) \in Sessions /\ pc[p] = "opening" /\ decree[S(p)] = "none"
        /\ decree' = [decree EXCEPT ![S(p)] = "ALLOCATED"]
        /\ UNCHANGED <<allocation, code, journal, decrees, garbled>>
    BY <1>1, ServesASession DEF Open, log, IInv
  <2>2. code[S(p)] # 0
    BY <2>1 DEF IInv, Decrees, WorkersKnow, Creating
  <2> QED
    BY <2>1, <2>2 DEF Register!Next, Register!Decree
<1>2. CASE JournalAllocated(p)
  <2>1. /\ S(p) \in Sessions /\ pc[p] = "allocated"
        /\ journal' = [journal EXCEPT ![S(p)] = "ALLOCATED"]
        /\ UNCHANGED <<allocation, code, decree, decrees, garbled>>
    BY <1>2, ServesASession DEF JournalAllocated, task, log, IInv
  <2>2. decree[S(p)] # "none" /\ journal[S(p)] = "none"
    BY <2>1 DEF IInv, Decrees, WorkersKnow, Telling
  <2> QED
    BY <2>1, <2>2 DEF Register!Next, Register!Enter
<1> QED
  BY <1>1, <1>2

\* The event is written, or found there, or lost to a torn line.
LEMMA RegisterOfEvent ==
    ASSUME IInv, NEW p \in Openers, EnsureEvent(p)
    PROVE  Register!Next \/ UNCHANGED opened
<1>1. /\ S(p) \in Sessions /\ pc[p] = "telling"
      /\ UNCHANGED <<allocation, code, decree, journal>>
  BY ServesASession DEF EnsureEvent, task, IInv
<1>2. decree[S(p)] # "none"
  BY <1>1 DEF IInv, Decrees, WorkersKnow, Telling
<1>3. CASE decrees[S(p)] = 0 /\ torn
  <2>1. decrees' = decrees /\ garbled' = TRUE
    BY <1>3 DEF EnsureEvent, Append
  <2> QED
    BY <1>1, <2>1 DEF Register!Next, Register!Lose
<1>4. CASE decrees[S(p)] = 0 /\ ~torn
  <2>1. decrees' = [decrees EXCEPT ![S(p)] = @ + 1] /\ garbled' = (garbled \/ torn)
    BY <1>4 DEF EnsureEvent, Append
  <2>2. decrees' = [decrees EXCEPT ![S(p)] = 1]
    BY <1>4, <2>1
  <2>3. garbled' = garbled
    BY <1>4, <2>1 DEF IInv, TypeOK
  <2> QED
    BY <1>1, <1>2, <1>4, <2>2, <2>3 DEF Register!Next, Register!Tell
<1>5. CASE decrees[S(p)] # 0
  BY <1>1, <1>5 DEF EnsureEvent, opened
<1> QED
  BY <1>3, <1>4, <1>5

\* The decree is confirmed, and its journal closed, unless they were before.
LEMMA RegisterOfMarks ==
    ASSUME IInv, NEW p \in Openers, MarkCommitted(p) \/ JournalCommitted(p)
    PROVE  Register!Next \/ UNCHANGED opened
<1>1. CASE MarkCommitted(p)
  <2>1. /\ S(p) \in Sessions /\ pc[p] = "told"
        /\ decree' = [decree EXCEPT ![S(p)] = "COMMITTED"]
        /\ UNCHANGED <<allocation, code, journal, decrees, garbled>>
    BY <1>1, ServesASession DEF MarkCommitted, log, IInv
  <2>2. decree[S(p)] # "none" /\ (decrees[S(p)] = 1 \/ garbled)
    BY <2>1 DEF IInv, Decrees, WorkersKnow, Telling
  <2>3. decree[S(p)] \in {"ALLOCATED", "COMMITTED"}
    BY <2>1, <2>2 DEF IInv, TypeOK
  <2>4. CASE decree[S(p)] = "ALLOCATED"
    BY <2>1, <2>2, <2>4 DEF Register!Next, Register!Confirm
  <2>5. CASE decree[S(p)] = "COMMITTED"
    BY <2>1, <2>5 DEF IInv, TypeOK, opened
  <2> QED
    BY <2>3, <2>4, <2>5
<1>2. CASE JournalCommitted(p)
  <2>1. /\ S(p) \in Sessions /\ pc[p] = "marked"
        /\ journal' = [journal EXCEPT ![S(p)] = "COMMITTED"]
        /\ UNCHANGED <<allocation, code, decree, decrees, garbled>>
    BY <1>2, ServesASession DEF JournalCommitted, task, log, IInv
  <2>2. decree[S(p)] = "COMMITTED"
    BY <2>1 DEF IInv, Decrees, WorkersKnow
  <2>3. CASE journal[S(p)] # "COMMITTED"
    BY <2>1, <2>2, <2>3 DEF Register!Next, Register!Close
  <2>4. CASE journal[S(p)] = "COMMITTED"
    BY <2>1, <2>4 DEF IInv, TypeOK, opened
  <2> QED
    BY <2>3, <2>4
<1> QED
  BY <1>1, <1>2

\* Another command of the case may lose the event that tore before it.
LEMMA RegisterOfChange ==
    ASSUME IInv, NEW s \in Sessions, NEW flag \in BOOLEAN, Change(s, flag)
    PROVE  Register!Next \/ UNCHANGED opened
<1>1. UNCHANGED <<allocation, code, decree, journal, decrees>> /\ garbled' = (garbled \/ torn)
  BY DEF Change
<1>2. CASE torn
  BY <1>1, <1>2 DEF Register!Next, Register!Lose
<1>3. CASE ~torn
  <2>1. garbled' = garbled
    BY <1>1, <1>3 DEF IInv, TypeOK
  <2> QED
    BY <1>1, <2>1 DEF opened
<1> QED
  BY <1>2, <1>3

LEMMA RegisterStep == IInv /\ [Next]_vars => [Register!Next]_opened
<1> SUFFICES ASSUME IInv, [Next]_vars PROVE Register!Next \/ UNCHANGED opened
  OBVIOUS
<1>1. ASSUME NEW p \in Openers,
             \/ Reuse(p) \/ Compute(p) \/ Read(p) \/ OpenRefused(p)
             \/ TakeNumbers(p) \/ Recover(p) \/ Replay(p)
      PROVE  UNCHANGED opened
  BY <1>1 DEF Reuse, Compute, Read, OpenRefused, TakeNumbers, Recover, Replay, task, log, opened
<1>2. ASSUME NEW p \in Openers, Work(p) \/ Lock(p)
      PROVE  Register!Next \/ UNCHANGED opened
  BY <1>1, <1>2, RegisterOfNumber, RegisterOfCase, RegisterOfDecree, RegisterOfEvent,
     RegisterOfMarks DEF Work, Lock
<1>3. ASSUME NEW p \in Openers, NEW s \in Sessions, NEW tears \in BOOLEAN,
             Issue(p, s) \/ Create(p, s) \/ ReplayCreate(p, s) \/ Crash(p, tears)
      PROVE  UNCHANGED opened
  BY <1>3 DEF Issue, Create, ReplayCreate, Crash, task, log, opened
<1>4. ASSUME NEW nr, AddRow(nr) \/ Rebuild PROVE UNCHANGED opened
  BY <1>4 DEF AddRow, Rebuild, task, log, opened
<1>5. ASSUME NEW s \in Sessions, NEW recharters \in BOOLEAN,
             CloseSession(s) \/ Change(s, recharters) \/ WriteNote \/ Rebuild
      PROVE  Register!Next \/ UNCHANGED opened
  BY <1>4, <1>5, RegisterOfChange DEF CloseSession, WriteNote
<1>6. CASE UNCHANGED vars
  BY <1>6 DEF vars, task, log, opened
<1>7. PICK t \in Sessions : TRUE
  BY SomebodyAssumption
<1>8. ASSUME NEW s \in Sessions, CloseSession(s) PROVE Register!Next \/ UNCHANGED opened
  BY <1>5, <1>8
<1>9. CASE WriteNote \/ Rebuild
  BY <1>5, <1>7, <1>9
<1>10. ASSUME NEW p \in Openers, NEW s \in Sessions, Issue(p, s) \/ Create(p, s) \/ ReplayCreate(p, s)
       PROVE  UNCHANGED opened
  BY <1>3, <1>10
<1>11. ASSUME NEW p \in Openers, NEW tears \in BOOLEAN, Crash(p, tears)
       PROVE  UNCHANGED opened
  BY <1>3, <1>7, <1>11
<1> QED
  BY <1>2, <1>5, <1>6, <1>8, <1>9, <1>10, <1>11 DEF Next

-----------------------------------------------------------------------------
(* What follows                                                            *)

\* Every variable keeps its type, for any sessions and processes.
THEOREM TypeCorrect == Spec => []TypeOK
<1>1. IInv => TypeOK
  BY DEF IInv
<1> QED
  BY <1>1, IInvHolds, PTL

\* No two sessions of a day get one number from domain_court_code_issue: it is
\* computed and stored under one lock, above every allocation there is.
THEOREM NumbersStayDistinct == Spec => []SessionNumbersDistinct
<1>1. IInv => SessionNumbersDistinct
  BY DEF IInv, Numbers
<1> QED
  BY <1>1, IInvHolds, PTL

\* decree_open_task and its recovery tell a decree at most once, and whatever
\* tasks.json and the journal call committed is in the event log, unless a torn
\* line swallowed it.
THEOREM DecreesAreToldOnce == Spec => []DecreeToldOnce
<1>1. IInv => DecreeToldOnce
  BY DEF IInv, Decrees
<1> QED
  BY <1>1, IInvHolds, PTL

\* Opening a case implements CaseRegister: no crash, repetition or recovery
\* gives a session another number, opens its case or decree again, takes back
\* what tasks.json, the journal or the event log say of it, or says it in
\* another order.
THEOREM Refinement == Spec => OpensCaseRegister
<1>1. IInv /\ [Next]_vars => [Register!Next]_opened
  BY RegisterStep
<1> QED
  BY <1>1, RegisterInit, IInvHolds, PTL
     DEF Spec, OpensCaseRegister, Register!Spec, Register!register, opened
=============================================================================
