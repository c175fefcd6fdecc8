--------------------------- MODULE AgentLifecycle ---------------------------
(***************************************************************************)
(* The agents one task dispatches: admission of a wave with capacity and   *)
(* write claims, start, preload, heartbeats, result, quarantine, close;    *)
(* refusal by the host, reconciliation of a provider error with its        *)
(* circuit breakers; invalidation by a charter revision or a semantic      *)
(* resume; and the heartbeat watcher, which decides on a snapshot it read  *)
(* without the lock.  Every other command is one step (LedgerPair).        *)
(*                                                                         *)
(* Data: an office is one admitted instance of one wave, and the agent     *)
(* started for it carries its name.  Two paths overlap when they are equal *)
(* (or one is above the other); a checkpoint is its number.  Validation of *)
(* leases, hierarchy, deadlines, case binding and receipts can refuse any  *)
(* command and changes nothing: an action that is not taken.               *)
(***************************************************************************)
EXTENDS Integers, FiniteSets

CONSTANTS Office, Wave, Path,
          WaveOf,            \* the wave an office is requested in
          WriteSet,          \* write_set of its binding ({}: read only)
          Capacity,          \* host capacity of the agent tree, root included
          Result,            \* statuses a result can report
          MaxCheckpoint,     \* bound: semantic checkpoints
          MaxLate            \* bound: agents one pass of the watcher finds late

ASSUME OfficesAssumption == /\ WaveOf \in [Office -> Wave]
                            /\ WriteSet \in [Office -> SUBSET Path]
ASSUME ResultAssumption == Result \subseteq {"completed", "failed", "cancelled"}
ASSUME BoundsAssumption == Capacity \in Nat /\ MaxCheckpoint \in Nat /\ MaxLate \in Nat

VARIABLES
    semantic, checkpoint,    \* semantic_state, checkpoint_id of the receipt
    admission,               \* agent_admissions
    refused,                 \* failed_instances of the admissions
    agent,                   \* agents (and consumed_instances)
    blocked, circuit,        \* agent_wave_blocks, agent_circuit_breaker
    snapshot                 \* agents the watcher found stale and not yet marked

gateVars == <<semantic, checkpoint>>
breakers == <<blocked, circuit>>
vars == <<gateVars, admission, refused, agent, breakers, snapshot>>

TERMINAL_AGENT_STATUSES == {"completed", "failed", "cancelled", "closed"}

NotAdmitted == [offices |-> {}, checkpoint |-> 0, invalidated |-> FALSE]
NotStarted == [status |-> "none", final |-> "none", release |-> "none",
               preload |-> "none", quarantined |-> FALSE, invalidated |-> FALSE]

Init == /\ semantic = "REVERIFY"
        /\ checkpoint = 0
        /\ admission = [w \in Wave |-> NotAdmitted]
        /\ refused = {}
        /\ agent = [o \in Office |-> NotStarted]
        /\ blocked = {}
        /\ circuit = FALSE
        /\ snapshot = {}

-----------------------------------------------------------------------------
(* Who is at work, and who holds which paths                               *)

Started(o) == agent[o].status # "none"

\* The status alone, which is all that most of the code looks at.
Active(o) == Started(o) /\ agent[o].status \notin TERMINAL_AGENT_STATUSES

Terminal(o) == \/ agent[o].status \in TERMINAL_AGENT_STATUSES
               \/ agent[o].final \in TERMINAL_AGENT_STATUSES
               \/ agent[o].release = "closed"

\* Lifecycle events of the agent are accepted.
Alive(o) == Started(o) /\ ~Terminal(o) /\ ~agent[o].quarantined

Startable(o) == /\ o \in admission[WaveOf[o]].offices
                /\ ~admission[WaveOf[o]].invalidated
                /\ admission[WaveOf[o]].checkpoint = checkpoint

\* Mutant: only started agents are looked at.
ClaimsOfAgents(o) == Active(o) /\ ~agent[o].quarantined

\* The paths of a refused, an invalidated or a stale reservation are free again.
Claims(o) == \/ Active(o) /\ ~agent[o].quarantined
             \/ Startable(o) /\ o \notin refused /\ ~Started(o)

Overlap(o, p) == WriteSet[o] \cap WriteSet[p] # {}

Clashes(o) == \E p \in Office : Claims(p) /\ Overlap(o, p)

-----------------------------------------------------------------------------
(* The semantic gate and the charter, as far as they concern agents        *)

SemanticCheckpoint == /\ checkpoint < MaxCheckpoint
                      /\ checkpoint' = checkpoint + 1
                      /\ semantic' = "VERIFIED"
                      /\ UNCHANGED <<admission, refused, agent, breakers, snapshot>>

SemanticVerify == /\ semantic \in {"VERIFIED", "DISPATCHABLE"}
                  /\ semantic' \in {"DISPATCHABLE", "REVERIFY"}
                  /\ UNCHANGED <<checkpoint, admission, refused, agent, breakers, snapshot>>

\* Mutant: the final status is forgotten.
InvalidatedUnfinished(a) ==
    IF a.status \in TERMINAL_AGENT_STATUSES
    THEN [a EXCEPT !.invalidated = TRUE]
    ELSE [a EXCEPT !.invalidated = TRUE, !.status = "invalidated", !.release = "closed"]

Invalidated(a) ==
    IF a.status \in TERMINAL_AGENT_STATUSES
    THEN [a EXCEPT !.invalidated = TRUE]
    ELSE [a EXCEPT !.invalidated = TRUE, !.status = "invalidated",
                   !.final = "invalidated", !.release = "closed"]

InvalidateAll ==
    /\ admission' = [w \in Wave |->
           IF admission[w].offices = {} THEN NotAdmitted
           ELSE [admission[w] EXCEPT !.invalidated = TRUE]]
    /\ agent' = [o \in Office |-> IF Started(o) THEN Invalidated(agent[o]) ELSE NotStarted]
    /\ semantic' = "REVERIFY"

ReviseCharter == /\ checkpoint < MaxCheckpoint
                 /\ checkpoint' = checkpoint + 1
                 /\ InvalidateAll
                 /\ UNCHANGED <<refused, breakers, snapshot>>

SemanticResume == /\ semantic = "DISPATCHABLE"
                  /\ InvalidateAll
                  /\ UNCHANGED <<checkpoint, refused, breakers, snapshot>>

-----------------------------------------------------------------------------
(* Admission and start                                                     *)

\* Slots left: the host reports its live agents, the ledger knows its own.
Available(hostActive) ==
    LET ledger == Cardinality({o \in Office : Active(o)})
        busy == IF ledger > hostActive THEN ledger ELSE hostActive
    IN  Capacity - busy

Admit(w, selected, hostActive) ==
    /\ semantic = "DISPATCHABLE"
    /\ admission[w].offices = {}
    /\ ~circuit
    /\ w \notin blocked
    /\ selected # {}
    /\ Cardinality(selected) <= Available(hostActive)
    /\ \A o \in selected : /\ ~Clashes(o)
                           /\ \A p \in selected \ {o} : ~Overlap(o, p)
    /\ admission' = [admission EXCEPT ![w] =
           [offices |-> selected, checkpoint |-> checkpoint, invalidated |-> FALSE]]
    /\ UNCHANGED <<gateVars, refused, agent, breakers, snapshot>>

\* A refused instance is not refused here: only its role (failed_roles) is
\* looked up.  Neither is the circuit breaker of the task.
Start(o) == /\ semantic = "DISPATCHABLE"
            /\ ~Started(o)
            /\ Startable(o)
            /\ WaveOf[o] \notin blocked
            /\ agent' = [agent EXCEPT ![o] =
                   [NotStarted EXCEPT !.status = "starting", !.preload = "PENDING"]]
            /\ UNCHANGED <<gateVars, admission, refused, breakers, snapshot>>

\* Mutant: the admission is not asked for the instance.
SpawnFailedUnasked(o, errorKind) ==
    /\ ~Started(o)
    /\ o \notin refused
    /\ refused' = refused \cup {o}
    /\ blocked' = IF errorKind = "capacity" THEN blocked \cup {WaveOf[o]} ELSE blocked
    /\ UNCHANGED <<gateVars, admission, agent, circuit, snapshot>>

\* The host refused the spawn, before there was an agent.  Only a refusal for
\* capacity blocks the wave.
SpawnFailed(o, errorKind) ==
    /\ o \in admission[WaveOf[o]].offices
    /\ ~admission[WaveOf[o]].invalidated
    /\ ~Started(o)
    /\ o \notin refused
    /\ refused' = refused \cup {o}
    /\ blocked' = IF errorKind = "capacity" THEN blocked \cup {WaveOf[o]} ELSE blocked
    /\ UNCHANGED <<gateVars, admission, agent, circuit, snapshot>>

-----------------------------------------------------------------------------
(* The life of a started agent                                             *)

Failed(a) == [a EXCEPT !.status = "failed", !.final = "failed", !.release = "closed"]

PreloadAck(o, accepted) ==
    /\ Started(o)
    /\ ~Terminal(o)
    /\ agent' = [agent EXCEPT ![o] =
           IF accepted THEN [@ EXCEPT !.status = "running", !.preload = "PASSED"]
           ELSE Failed([@ EXCEPT !.preload = "FAILED"])]
    /\ UNCHANGED <<gateVars, admission, refused, breakers, snapshot>>

\* agent_heartbeat; agent_report is the same with an open gate and a passed preload.
Heartbeat(o) ==
    /\ Alive(o)
    /\ agent' = [agent EXCEPT ![o] =
           [@ EXCEPT !.status =
                IF agent[o].preload = "PASSED" THEN "running" ELSE "starting"]]
    /\ UNCHANGED <<gateVars, admission, refused, breakers, snapshot>>

\* Mutant: the quarantined result is booked all the same.
FinishBooked(o, result, bound) ==
    /\ semantic = "DISPATCHABLE"
    /\ Alive(o)
    /\ LET final == IF agent[o].preload = "PASSED" THEN result ELSE "failed"
       IN  agent' = [agent EXCEPT ![o] =
               [@ EXCEPT !.status = final, !.final = final, !.quarantined = ~bound]]
    /\ UNCHANGED <<gateVars, admission, refused, breakers, snapshot>>

\* `bound': the envelope names the dispatch this agent was started for.
Finish(o, result, bound) ==
    /\ semantic = "DISPATCHABLE"
    /\ Alive(o)
    /\ LET final == IF agent[o].preload = "PASSED" THEN result ELSE "failed"
       IN  agent' = [agent EXCEPT ![o] =
               IF bound THEN [@ EXCEPT !.status = final, !.final = final]
               ELSE Failed([@ EXCEPT !.quarantined = TRUE])]
    /\ UNCHANGED <<gateVars, admission, refused, breakers, snapshot>>

Close(o) == /\ agent[o].status # "closed"
            /\ agent[o].release # "closed"
            /\ \/ agent[o].status \in {"completed", "failed", "cancelled"}
               \/ agent[o].final \in {"completed", "failed", "cancelled"}
            /\ agent' = [agent EXCEPT ![o] =
                   [@ EXCEPT !.status = "closed", !.release = "closed"]]
            /\ UNCHANGED <<gateVars, admission, refused, breakers, snapshot>>

CancelSibling(a) == [a EXCEPT !.release = "cancel_requested"]

Reconcile(o, errorKind) ==
    /\ Started(o)
    /\ agent' = [p \in Office |->
           IF p = o THEN Failed(agent[p])
           ELSE IF WaveOf[p] = WaveOf[o] /\ Active(p) THEN CancelSibling(agent[p])
           ELSE agent[p]]
    /\ circuit' = (circuit \/ errorKind = "fatal")
    /\ blocked' = IF errorKind = "capacity" THEN blocked \cup {WaveOf[o]} ELSE blocked
    /\ UNCHANGED <<gateVars, admission, refused, snapshot>>

-----------------------------------------------------------------------------
(* The heartbeat watcher                                                   *)

\* Reads tasks.json without the lock; `late' are the agents past their deadline.
Watch(late) == /\ snapshot = {}
               /\ late # {}
               /\ Cardinality(late) <= MaxLate
               /\ \A o \in late : Active(o)
               /\ snapshot' = late
               /\ UNCHANGED <<gateVars, admission, refused, agent, breakers>>

MarkAgentStale(o) == /\ o \in snapshot
                     /\ agent' = [agent EXCEPT ![o] = [@ EXCEPT !.status = "stale"]]
                     /\ snapshot' = snapshot \ {o}
                     /\ UNCHANGED <<gateVars, admission, refused, breakers>>

-----------------------------------------------------------------------------
ErrorKind == {"capacity", "fatal", "other"}

Gate == SemanticCheckpoint \/ SemanticVerify \/ ReviseCharter \/ SemanticResume

Dispatch(o) == \/ Start(o)
               \/ \E errorKind \in ErrorKind : SpawnFailed(o, errorKind)

Life(o) == \/ \E accepted \in BOOLEAN : PreloadAck(o, accepted)
           \/ Heartbeat(o)
           \/ \E result \in Result, bound \in BOOLEAN : Finish(o, result, bound)
           \/ Close(o)
           \/ \E errorKind \in ErrorKind : Reconcile(o, errorKind)

Next == \/ Gate
        \/ \E w \in Wave : \E selected \in SUBSET {o \in Office : WaveOf[o] = w} :
              \E hostActive \in 1..Capacity : Admit(w, selected, hostActive)
        \/ \E o \in Office : Dispatch(o) \/ Life(o) \/ MarkAgentStale(o)
        \/ \E late \in SUBSET Office : Watch(late)

Spec == Init /\ [][Next]_vars

-----------------------------------------------------------------------------
(* Properties                                                              *)

Admission == [offices : SUBSET Office, checkpoint : 0..MaxCheckpoint, invalidated : BOOLEAN]
Agent == [status : {"none", "starting", "running", "stale", "invalidated"}
                       \cup TERMINAL_AGENT_STATUSES,
          final : {"none", "invalidated", "completed", "failed", "cancelled"},
          release : {"none", "cancel_requested", "closed"},
          preload : {"none", "PENDING", "PASSED", "FAILED"},
          quarantined : BOOLEAN, invalidated : BOOLEAN]

\* The agents, admissions and breakers have the shape the code gives them: an
\* admission holds offices of its wave, and only admitted offices are refused.
TypeOK == /\ semantic \in {"REVERIFY", "VERIFIED", "DISPATCHABLE"}
          /\ checkpoint \in 0..MaxCheckpoint
          /\ admission \in [Wave -> Admission]
          /\ \A w \in Wave : \A o \in admission[w].offices : WaveOf[o] = w
          /\ refused \subseteq Office
          /\ agent \in [Office -> Agent]
          /\ blocked \subseteq Wave
          /\ circuit \in BOOLEAN
          /\ snapshot \subseteq Office
          /\ \A o \in Office : (Started(o) \/ o \in refused) => o \in admission[WaveOf[o]].offices
          /\ \A o \in snapshot : Started(o)

\* Two agents at work write to the same paths only if one of them was started
\* although the host had refused it, or came back after an invalidation:
\* nothing else (stale reservations, a late watcher, partial waves, repeated
\* errors) makes two writers meet.
OverlapHasACause ==
    \A o, p \in Office :
        (o # p /\ Alive(o) /\ Alive(p) /\ Overlap(o, p)) =>
            \E q \in {o, p} : q \in refused \/ agent[q].invalidated

\* Once a result is quarantined its agent is not in the way of other writers,
\* and no later command (preload, second result, close, a reconciled sibling,
\* a resume) books a completion for it.
QuarantineHolds ==
    \A o \in Office : agent[o].quarantined =>
        /\ ~Claims(o)
        /\ agent[o].final \in {"failed", "invalidated"}

\* An agent whose life has ended comes back only when a revision or a resume
\* ended it, and these end an agent with a booked result only where the watcher,
\* late, had written `stale' over its status: no late heartbeat, second result,
\* close or reconciliation of a sibling brings back what was finished.
EndsForGood(o) ==
    /\ (Terminal(o) /\ ~Terminal(o)') => agent[o].final = "invalidated"
    /\ (agent[o].final \in TERMINAL_AGENT_STATUSES /\ agent'[o].final = "invalidated") =>
           agent[o].status = "stale"
OnlyInvalidatedReturn == [][\A o \in Office : EndsForGood(o)]_vars

\* Two agents at work never write to the same paths, whatever the host refused
\* and the commands invalidated before.
WritersAreDisjoint ==
    \A o, p \in Office : (o # p /\ Alive(o) /\ Alive(p)) => ~Overlap(o, p)

=============================================================================
