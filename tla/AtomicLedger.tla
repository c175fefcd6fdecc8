---------------------------- MODULE AtomicLedger ----------------------------
(***************************************************************************)
(* What the court runtime promises about its two ledger files: the task    *)
(* document (tasks.json) and the event log (court_events.jsonl) change     *)
(* together or not at all, and a committed event is never withdrawn.       *)
(*                                                                         *)
(* A task document is identified with the sequence of mutations that       *)
(* produced it from the empty document, so "the two files agree" is        *)
(* equality of the two sequences.                                          *)
(***************************************************************************)
EXTENDS Sequences

CONSTANT Mutation            \* the changes a court command can commit

VARIABLES tasks,             \* history told by tasks.json
          events             \* history told by court_events.jsonl

ledger == <<tasks, events>>

Init == /\ tasks = <<>>
        /\ events = <<>>

\* _commit_task_event as its callers see it: one indivisible change of both.
Commit(m) == /\ tasks' = Append(tasks, m)
             /\ events' = Append(events, m)

Next == \E m \in Mutation : Commit(m)

Spec == Init /\ [][Next]_ledger
=============================================================================
