---------------------------- MODULE CaseClosure ----------------------------
(***************************************************************************)
(* What the court promises about closing a case, whatever happens to its   *)
(* task in between: the Menxia accepts the result, then Shiguan archives   *)
(* it, then Taizi closes the case, all under the charter in force; a       *)
(* revised charter starts over; a closed or abandoned case stays so.       *)
(***************************************************************************)
EXTENDS Naturals

VARIABLES charter,           \* revision of the charter in force
          stage              \* how far the case is under that charter

vars == <<charter, stage>>

Final == {"closed", "abandoned"}

Init == /\ charter = 1
        /\ stage = "open"

Accept == /\ stage = "open"
          /\ stage' = "accepted"
          /\ UNCHANGED charter

Archive == /\ stage = "accepted"
           /\ stage' = "archived"
           /\ UNCHANGED charter

Close == /\ stage = "archived"
         /\ stage' = "closed"
         /\ UNCHANGED charter

\* Acceptance and archive are withdrawn.
Reopen == /\ stage \notin Final
          /\ stage' = "open"
          /\ UNCHANGED charter

Revise == /\ stage \notin Final
          /\ stage' = "open"
          /\ charter' = charter + 1

Abandon == /\ stage \notin Final
           /\ stage' = "abandoned"
           /\ UNCHANGED charter

Next == Accept \/ Archive \/ Close \/ Reopen \/ Revise \/ Abandon

Spec == Init /\ [][Next]_vars
=============================================================================
