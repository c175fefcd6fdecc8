---------------------------- MODULE CaseOpening ----------------------------
(***************************************************************************)
(* How a standard case is opened: the session gets its court code          *)
(* (court_session_numbering), create_task makes the task that carries it,  *)
(* and the decree is opened in a second transaction under a new lock       *)
(* (_ensure_standard_case_decree, decree_open_task and its recovery),      *)
(* which writes tasks.json, the journal, the event log, tasks.json and the *)
(* journal again, without a marker.  Every create is idempotent: whoever   *)
(* repeats it replays or recovers what is there.                           *)
(*                                                                         *)
(* Data: one day; a court code is its daily sequence; a session has at     *)
(* most one case, and its decree operation is derived from both.  The      *)
(* paired write of the create event is one step (LedgerPair).              *)
(***************************************************************************)
EXTENDS Naturals, FiniteSetsExt

CONSTANTS Sessions,
          Cased,             \* those with a standard case; the others only get a number
          Openers,           \* processes that issue codes and create cases
          Nobody,
          MaxRows,           \* bound: rows added to the Shiguan index
          MaxChanges,        \* bound: other commands that touch a case
          MaxCrashes         \* bound: processes that die

ASSUME NobodyAssumption == Nobody \notin Sessions \cup Openers
ASSUME SomebodyAssumption == Sessions # {} /\ Openers # {}
ASSUME CasedAssumption == Cased \subseteq Sessions
ASSUME BoundsAssumption == {MaxRows, MaxChanges, MaxCrashes} \subseteq Nat

VARIABLES
    allocation,              \* session-numbering/<session>.json (0: none)
    rows, top,               \* rows of the day in the index, highest number or count
    code,                    \* court_code of the session's task (0: no task)
    charter,                 \* charter_revision
    decree,                  \* status of the decree_open operation
    journal,                 \* phase of its journal entry
    creates, decrees,        \* readable create and decree_open events
    torn, garbled,           \* torn last line; some event was lost to one (history)
    pc, session,             \* of each process: where, for whom
    outdated,                \* processes whose task_revision is not the task's any more
    number,                  \* court code a process was given or computed
    runtimeLock, numberLock, \* holders
    changes, crashes         \* spent of the bounds

index == <<rows, top>>
task == <<code, charter, decree>>
log == <<creates, decrees, torn, garbled>>
locks == <<runtimeLock, numberLock>>
spent == <<changes, crashes>>
vars == <<allocation, index, task, journal, log, pc, session, outdated, number, locks, spent>>

Init == /\ allocation = [s \in Sessions |-> 0]
        /\ rows = 0 /\ top = 0
        /\ code = [s \in Sessions |-> 0]
        /\ charter = [s \in Sessions |-> 1]
        /\ decree = [s \in Sessions |-> "none"]
        /\ journal = [s \in Sessions |-> "none"]
        /\ creates = [s \in Sessions |-> 0]
        /\ decrees = [s \in Sessions |-> 0]
        /\ torn = FALSE /\ garbled = FALSE
        /\ pc = [p \in Openers |-> "idle"]
        /\ session = [p \in Openers |-> Nobody]
        /\ outdated = {}
        /\ number = [p \in Openers |-> 0]
        /\ runtimeLock = Nobody /\ numberLock = Nobody
        /\ changes = 0 /\ crashes = 0

S(p) == session[p]
\* Processes that work on a task of this session and read it before.
Readers(s) == {p \in Openers : pc[p] = "opening" /\ session[p] = s}
To(p, there) == pc' = [pc EXCEPT ![p] = there]
Serves(p, s) == session' = [session EXCEPT ![p] = s]

\* The process is done, successfully or not, and holds nothing any more.
Leave(p) == /\ To(p, "idle")
            /\ Serves(p, Nobody)
            /\ outdated' = outdated \ {p}
            /\ number' = [number EXCEPT ![p] = 0]
            /\ runtimeLock' = IF runtimeLock = p THEN Nobody ELSE runtimeLock
            /\ numberLock' = IF numberLock = p THEN Nobody ELSE numberLock

\* append_event: a torn last line swallows the event.
Append(kind, s) == /\ kind' = IF torn THEN kind ELSE [kind EXCEPT ![s] = @ + 1]
                   /\ torn' = FALSE
                   /\ garbled' = (garbled \/ torn)

-----------------------------------------------------------------------------
(* The court code of a session: domain_court_code_issue                    *)

\* The `issue' command at the start of a conversation.
Issue(p, s) == /\ pc[p] = "idle"
               /\ To(p, "issuing")
               /\ Serves(p, s)
               /\ UNCHANGED <<allocation, index, task, journal, log, outdated, number, locks, spent>>

\* Mutant: read, compute and write are not serialized.
TakeNumbersUnlocked(p) == /\ pc[p] = "issuing"
                          /\ To(p, "numbering")
                          /\ UNCHANGED <<allocation, index, task, journal, log, session, outdated,
                                         number, locks, spent>>

TakeNumbers(p) == /\ pc[p] = "issuing"
                  /\ numberLock = Nobody
                  /\ numberLock' = p
                  /\ To(p, "numbering")
                  /\ UNCHANGED <<allocation, index, task, journal, log, session, outdated,
                                 number, runtimeLock, spent>>

Allocated == {allocation[s] : s \in Sessions}

\* Mutant: the next number is looked up in the index alone.
NextOfIndex == top + 1

\* _next_sequence: above the rows of the day and above its allocations.
NextSequence == Max({top} \cup Allocated) + 1

\* An issue command ends with its number, a creation goes on with it.
Numbered(p) == IF runtimeLock = p
               THEN /\ To(p, "committing")
                    /\ numberLock' = IF numberLock = p THEN Nobody ELSE numberLock
                    /\ UNCHANGED <<session, outdated, runtimeLock>>
               ELSE Leave(p)

Reuse(p) == /\ pc[p] = "numbering"
            /\ allocation[S(p)] # 0
            /\ Numbered(p)
            /\ number' = [number EXCEPT ![p] = IF runtimeLock = p THEN allocation[S(p)] ELSE 0]
            /\ UNCHANGED <<allocation, index, task, journal, log, spent>>

Compute(p) == /\ pc[p] = "numbering"
              /\ allocation[S(p)] = 0
              /\ number' = [number EXCEPT ![p] = NextSequence]
              /\ To(p, "storing")
              /\ UNCHANGED <<allocation, index, task, journal, log, session, outdated, locks, spent>>

Store(p) == /\ pc[p] = "storing"
            /\ allocation' = [allocation EXCEPT ![S(p)] = number[p]]
            /\ Numbered(p)
            /\ number' = [number EXCEPT ![p] = IF runtimeLock = p THEN @ ELSE 0]
            /\ UNCHANGED <<index, task, journal, log, spent>>

-----------------------------------------------------------------------------
(* The task: create_task under the runtime lock                            *)

Create(p, s) == /\ pc[p] = "idle"
                /\ runtimeLock = Nobody
                /\ s \in Cased /\ code[s] = 0
                /\ runtimeLock' = p
                /\ To(p, "issuing")
                /\ Serves(p, s)
                /\ UNCHANGED <<allocation, index, task, journal, log, outdated, number, numberLock,
                               spent>>

\* _case_create_replay: the same charter, and the create event is in the log.
ReplayCreate(p, s) == /\ pc[p] = "idle"
                      /\ runtimeLock = Nobody
                      /\ code[s] # 0 /\ charter[s] = 1 /\ creates[s] = 1
                      /\ To(p, "reading")
                      /\ Serves(p, s)
                      /\ UNCHANGED <<allocation, index, task, journal, log, outdated, number, locks,
                                     spent>>

Commit(p) == /\ pc[p] = "committing"
             /\ code' = [code EXCEPT ![S(p)] = number[p]]
             /\ Append(creates, S(p))
             /\ To(p, "reading")
             /\ number' = [number EXCEPT ![p] = 0]
             /\ runtimeLock' = Nobody
             /\ UNCHANGED <<allocation, index, charter, decree, journal, decrees,
                            session, outdated, numberLock, spent>>

-----------------------------------------------------------------------------
(* Its decree: _ensure_standard_case_decree, in transactions of its own    *)

\* Mutant: an allocated decree is replayed, not recovered.
ReadUnrecovered(p) == /\ pc[p] \in {"reading", "rereading"}
                      /\ outdated' = outdated \ {p}
                      /\ To(p, IF decree[S(p)] = "none" THEN "opening" ELSE "replaying")
                      /\ UNCHANGED <<allocation, index, task, journal, log, session, number,
                                     locks, spent>>

\* What is to be done about a decree of this status.
Answer == [none |-> "opening", ALLOCATED |-> "recovering", COMMITTED |-> "replaying"]

\* The task is read without the lock, once more after a refusal.
Read(p) == /\ pc[p] \in {"reading", "rereading"}
           /\ outdated' = outdated \ {p}
           /\ To(p, Answer[decree[S(p)]])
           /\ UNCHANGED <<allocation, index, task, journal, log, session, number, locks, spent>>

\* decree_open_task for an operation id nobody has used.
Open(p) == /\ pc[p] = "opening"
           /\ runtimeLock = Nobody
           /\ decree[S(p)] = "none" /\ p \notin outdated
           /\ decree' = [decree EXCEPT ![S(p)] = "ALLOCATED"]
           /\ outdated' = outdated \cup Readers(S(p))
           /\ runtimeLock' = p
           /\ To(p, "allocated")
           /\ UNCHANGED <<allocation, index, code, charter, journal, log, session, number,
                          numberLock, spent>>

\* The id is taken by now, or the task has another revision.
OpenRefused(p) == /\ pc[p] = "opening"
                  /\ runtimeLock = Nobody
                  /\ IF decree[S(p)] # "none"
                     THEN /\ To(p, "rereading")
                          /\ UNCHANGED <<session, outdated, number, locks>>
                     ELSE /\ p \in outdated
                          /\ Leave(p)
                  /\ UNCHANGED <<allocation, index, task, journal, log, spent>>

JournalAllocated(p) == /\ pc[p] = "allocated"
                       /\ journal' = [journal EXCEPT ![S(p)] = "ALLOCATED"]
                       /\ To(p, "telling")
                       /\ UNCHANGED <<allocation, index, task, log, session, outdated, number, locks,
                                      spent>>

\* recover_decree_open_operation, whatever the status is by now.
Recover(p) == /\ pc[p] = "recovering"
              /\ runtimeLock = Nobody
              /\ runtimeLock' = p
              /\ To(p, "telling")
              /\ UNCHANGED <<allocation, index, task, journal, log, session, outdated, number,
                             numberLock, spent>>

\* decree_open_task for an operation that is there; its receipt and the case
\* must be of one charter.
Replay(p) == /\ pc[p] = "replaying"
             /\ runtimeLock = Nobody
             /\ IF decree[S(p)] = "COMMITTED" /\ charter[S(p)] = 1
                THEN /\ runtimeLock' = p
                     /\ To(p, "telling")
                     /\ UNCHANGED <<session, outdated, number, numberLock>>
                ELSE Leave(p)
             /\ UNCHANGED <<allocation, index, task, journal, log, spent>>

\* Mutant: recovery appends the event without looking for it.
EnsureEventBlindly(p) == /\ pc[p] = "telling"
                         /\ Append(decrees, S(p))
                         /\ To(p, "told")
                         /\ UNCHANGED <<allocation, index, task, journal, creates, session, outdated,
                                        number, locks, spent>>

EnsureEvent(p) == /\ pc[p] = "telling"
                  /\ IF decrees[S(p)] = 0 THEN Append(decrees, S(p))
                                          ELSE UNCHANGED <<decrees, torn, garbled>>
                  /\ To(p, "told")
                  /\ UNCHANGED <<allocation, index, task, journal, creates, session, outdated, number,
                                 locks, spent>>

MarkCommitted(p) == /\ pc[p] = "told"
                    /\ decree' = [decree EXCEPT ![S(p)] = "COMMITTED"]
                    /\ To(p, "marked")
                    /\ UNCHANGED <<allocation, index, code, charter, journal, log,
                                   session, outdated, number, locks, spent>>

\* Mutant: the journal says how the operation got there.
JournalRecovered(p) == /\ pc[p] = "marked"
                       /\ journal' = [journal EXCEPT ![S(p)] = "RECOVERED"]
                       /\ Leave(p)
                       /\ UNCHANGED <<allocation, index, task, log, spent>>

JournalCommitted(p) == /\ pc[p] = "marked"
                       /\ journal' = [journal EXCEPT ![S(p)] = "COMMITTED"]
                       /\ Leave(p)
                       /\ UNCHANGED <<allocation, index, task, log, spent>>

-----------------------------------------------------------------------------
(* Around it                                                               *)

Crash(p, tears) == /\ pc[p] # "idle"
                   /\ tears => pc[p] = "telling" /\ decrees[S(p)] = 0
                   /\ crashes < MaxCrashes
                   /\ crashes' = crashes + 1
                   /\ torn' = (torn \/ tears)
                   /\ Leave(p)
                   /\ UNCHANGED <<allocation, index, task, journal, creates, decrees, garbled,
                                  changes>>

\* Another command of the case, a charter revision among them, with its event.
Change(s, recharters) == /\ runtimeLock = Nobody
                         /\ code[s] # 0
                         /\ changes < MaxChanges
                         /\ changes' = changes + 1
                         /\ IF recharters
                            THEN charter' = [charter EXCEPT ![s] = 2]
                            ELSE UNCHANGED charter
                         /\ outdated' = outdated \cup Readers(s)
                         /\ torn' = FALSE
                         /\ garbled' = (garbled \/ torn)
                         /\ UNCHANGED <<allocation, index, code, decree, journal, creates, decrees,
                                        pc, session, number, locks, crashes>>

\* A row of a closing session, which carries its allocation, or of a note.
AddRow(nr) == /\ rows < MaxRows
              /\ rows' = rows + 1
              /\ top' = Max({rows + 1, top, nr})
              /\ UNCHANGED <<allocation, task, journal, log, pc, session, outdated, number, locks, spent>>
CloseSession(s) == allocation[s] # 0 /\ AddRow(allocation[s])
WriteNote == AddRow(top + 1)

\* rebuild_index numbers the rows of the day from one.
Rebuild == /\ top' = rows
           /\ top # rows
           /\ UNCHANGED <<allocation, rows, task, journal, log, pc, session, outdated, number, locks,
                          spent>>

-----------------------------------------------------------------------------
Work(p) == \/ Reuse(p) \/ Compute(p) \/ Store(p) \/ Commit(p)
           \/ Read(p) \/ OpenRefused(p) \/ JournalAllocated(p)
           \/ EnsureEvent(p) \/ MarkCommitted(p) \/ JournalCommitted(p)
Lock(p) == TakeNumbers(p) \/ Open(p) \/ Recover(p) \/ Replay(p)

Next == \/ \E p \in Openers :
              \/ Work(p) \/ Lock(p)
              \/ \E s \in Sessions : Issue(p, s) \/ Create(p, s) \/ ReplayCreate(p, s)
              \/ \E tears \in BOOLEAN : Crash(p, tears)
        \/ \E s \in Sessions : CloseSession(s) \/ \E recharters \in BOOLEAN : Change(s, recharters)
        \/ WriteNote \/ Rebuild

\* The owner of a lock goes on, a lock is got some time by whoever waits for
\* it, and a creation that failed is repeated.
Fairness == \A p \in Openers :
               /\ WF_vars(Work(p))
               /\ SF_vars(Lock(p))
               /\ \A s \in Sessions : SF_vars(ReplayCreate(p, s))

Spec == Init /\ [][Next]_vars
FairSpec == Spec /\ Fairness

-----------------------------------------------------------------------------
(* Properties                                                              *)

Pc == {"idle", "issuing", "numbering", "storing", "committing", "reading", "rereading",
       "opening", "allocated", "recovering", "replaying", "telling", "told", "marked"}

\* Types of all variables.
TypeOK ==
    /\ allocation \in [Sessions -> Nat]
    /\ rows \in 0..MaxRows /\ top \in Nat
    /\ code \in [Sessions -> Nat]
    /\ charter \in [Sessions -> 1..2]
    /\ decree \in [Sessions -> {"none", "ALLOCATED", "COMMITTED"}]
    /\ journal \in [Sessions -> {"none", "ALLOCATED", "COMMITTED"}]
    /\ creates \in [Sessions -> Nat]
    /\ decrees \in [Sessions -> Nat]
    /\ torn \in BOOLEAN /\ garbled \in BOOLEAN
    /\ pc \in [Openers -> Pc]
    /\ session \in [Openers -> Sessions \cup {Nobody}]
    /\ outdated \subseteq Openers
    /\ number \in [Openers -> Nat]
    /\ {runtimeLock, numberLock} \subseteq Openers \cup {Nobody}
    /\ changes \in 0..MaxChanges /\ crashes \in 0..MaxCrashes

\* Two sessions of a day never get one number, whichever process issues them,
\* whatever is archived, noted or renumbered in the index meanwhile.
SessionNumbersDistinct ==
    \A s, t \in Sessions : (s # t /\ allocation[s] # 0) => allocation[s] # allocation[t]

\* A decree is told once, and every record that calls it committed is right:
\* first the event, then the task, then the journal, over any crash, replay
\* and recovery, as long as no torn line swallowed an event.
DecreeToldOnce ==
    \A s \in Sessions :
        /\ decrees[s] <= 1
        /\ journal[s] # "none" => decree[s] # "none"
        /\ journal[s] = "COMMITTED" => decree[s] = "COMMITTED"
        /\ (decree[s] = "COMMITTED" /\ ~garbled) => decrees[s] = 1 /\ creates[s] = 1

\* Whatever processes die, repeat each other's creations or wait for each
\* other's locks, opening a case is one irrevocable course: number, case under
\* that number, decree, its event, its confirmation, its journal.
Register == INSTANCE CaseRegister WITH number <- allocation, case <- code,
                                       told <- decrees, lost <- garbled
OpensCaseRegister == Register!Spec

\* A case that is created, and created again when that fails, gets its decree:
\* unless its charter was revised before, or a torn line swallowed an event.
EachCaseGetsItsDecree ==
    \A s \in Sessions :
        [](code[s] # 0 => charter[s] = 1 /\ ~garbled) => (code[s] # 0 ~> decree[s] = "COMMITTED")

=============================================================================
