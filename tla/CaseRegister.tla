---------------------------- MODULE CaseRegister ----------------------------
(***************************************************************************)
(* What the court promises about opening cases, however often a creation   *)
(* is repeated and wherever it dies: a session gets one number of its own, *)
(* its case is opened under that number, the decree of the case is opened, *)
(* told and confirmed, and its journal follows; each once, in this order,  *)
(* and nothing of it is ever taken back.  Only an event that the log has   *)
(* lost lets a decree be confirmed that is not told.                       *)
(***************************************************************************)
EXTENDS Naturals

CONSTANT Sessions

VARIABLES number,            \* court code of each session (0: none yet)
          case,              \* court code of its case (0: no case yet)
          decree, journal,   \* status of the decree, and of its journal entry
          told,              \* decree events in the log
          lost               \* the log has lost an event

register == <<number, case, decree, journal, told, lost>>

Init == /\ number = [s \in Sessions |-> 0]
        /\ case = [s \in Sessions |-> 0]
        /\ decree = [s \in Sessions |-> "none"]
        /\ journal = [s \in Sessions |-> "none"]
        /\ told = [s \in Sessions |-> 0]
        /\ lost = FALSE

\* The session gets a number that no other session has.
Number(s) == /\ number[s] = 0
             /\ number'[s] \in Nat \ {0}
             /\ \A t \in Sessions \ {s} : number'[s] # number[t]
             /\ number' = [number EXCEPT ![s] = number'[s]]
             /\ UNCHANGED <<case, decree, journal, told, lost>>

\* The case is opened under it; its event may be the one that is lost.
Open(s) == /\ number[s] # 0 /\ case[s] = 0
           /\ case' = [case EXCEPT ![s] = number[s]]
           /\ lost => lost'
           /\ UNCHANGED <<number, decree, journal, told>>

Decree(s) == /\ case[s] # 0 /\ decree[s] = "none"
             /\ decree' = [decree EXCEPT ![s] = "ALLOCATED"]
             /\ UNCHANGED <<number, case, journal, told, lost>>

\* The journal never runs ahead of the decree.
Enter(s) == /\ decree[s] # "none" /\ journal[s] = "none"
            /\ journal' = [journal EXCEPT ![s] = "ALLOCATED"]
            /\ UNCHANGED <<number, case, decree, told, lost>>

Tell(s) == /\ decree[s] # "none" /\ told[s] = 0
           /\ told' = [told EXCEPT ![s] = 1]
           /\ UNCHANGED <<number, case, decree, journal, lost>>

Confirm(s) == /\ decree[s] = "ALLOCATED" /\ (told[s] = 1 \/ lost)
              /\ decree' = [decree EXCEPT ![s] = "COMMITTED"]
              /\ UNCHANGED <<number, case, journal, told, lost>>

Close(s) == /\ decree[s] = "COMMITTED" /\ journal[s] # "COMMITTED"
            /\ journal' = [journal EXCEPT ![s] = "COMMITTED"]
            /\ UNCHANGED <<number, case, decree, told, lost>>

Lose == /\ lost' = TRUE
        /\ UNCHANGED <<number, case, decree, journal, told>>

Next == \/ \E s \in Sessions : \/ Number(s) \/ Open(s) \/ Decree(s) \/ Enter(s)
                               \/ Tell(s) \/ Confirm(s) \/ Close(s)
        \/ Lose

Spec == Init /\ [][Next]_register
=============================================================================
