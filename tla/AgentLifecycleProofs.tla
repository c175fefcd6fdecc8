----------------------- MODULE AgentLifecycleProofs -----------------------
(***************************************************************************)
(* Proofs, for any offices, waves, paths, capacity and bounds, that only a *)
(* refused or an invalidated agent can meet another writer, that a         *)
(* quarantined result stays quarantined, and that of the agents whose life *)
(* has ended only an invalidated one returns.                              *)
(***************************************************************************)
EXTENDS AgentLifecycle, TLAPS

-----------------------------------------------------------------------------
(* The inductive invariant                                                 *)

\* How the three fields that end a life, the quarantine and the invalidation
\* of one agent record go together.
Coherent(a) == /\ a.status \in TERMINAL_AGENT_STATUSES => a.final \in TERMINAL_AGENT_STATUSES
               /\ a.final \in TERMINAL_AGENT_STATUSES =>
                      a.status \in TERMINAL_AGENT_STATUSES \cup {"stale"}
               /\ a.release = "closed" => a.final \in TERMINAL_AGENT_STATUSES \cup {"invalidated"}
               /\ a.final = "invalidated" => a.invalidated
               /\ a.quarantined => a.final \in {"failed", "invalidated"}
               /\ a.status = "none" => a = NotStarted

LivesCoherent == \A o \in Office : Coherent(agent[o])

\* No admission is ahead of the checkpoint.
AdmissionsArePast == \A w \in Wave : admission[w].checkpoint <= checkpoint

\* At work, or reserved and still startable; with no refusal and no
\* invalidation in its past.
Holds(o) == Alive(o) \/ (Startable(o) /\ ~Started(o))
Clean(o) == o \notin refused /\ ~agent[o].invalidated

\* Started agents alone are not enough: a reservation holds its paths already.
HoldersAreDisjoint ==
    \A o, p \in Office :
        (o # p /\ Clean(o) /\ Holds(o) /\ Clean(p) /\ Holds(p)) => ~Overlap(o, p)

Lives == TypeOK /\ LivesCoherent
IInv == Lives /\ AdmissionsArePast /\ HoldersAreDisjoint

-----------------------------------------------------------------------------
(* One agent record                                                        *)

LEMMA RecordTypes ==
    /\ NotStarted \in Agent
    /\ \A a \in Agent : Failed(a) \in Agent /\ Invalidated(a) \in Agent /\ CancelSibling(a) \in Agent
BY DEF Agent, NotStarted, Failed, Invalidated, CancelSibling, TERMINAL_AGENT_STATUSES

LEMMA FirstCoherent == Coherent(NotStarted)
BY DEF Coherent, NotStarted, TERMINAL_AGENT_STATUSES

LEMMA FailedCoherent == \A a \in Agent : Coherent(Failed(a))
BY DEF Agent, Coherent, Failed, NotStarted, TERMINAL_AGENT_STATUSES

LEMMA CancelCoherent ==
    \A a \in Agent : a.status # "none" /\ Coherent(a) => Coherent(CancelSibling(a))
BY DEF Agent, Coherent, CancelSibling, TERMINAL_AGENT_STATUSES

LEMMA InvalidatedCoherent ==
    \A a \in Agent : a.status # "none" /\ Coherent(a) => Coherent(Invalidated(a))
<1> SUFFICES ASSUME NEW a \in Agent, a.status # "none", Coherent(a)
             PROVE  Coherent(Invalidated(a))
  OBVIOUS
<1>1. CASE a.status \in TERMINAL_AGENT_STATUSES
  BY <1>1 DEF Agent, Coherent, Invalidated
<1>2. CASE a.status \notin TERMINAL_AGENT_STATUSES
  BY <1>2 DEF Agent, Coherent, Invalidated, TERMINAL_AGENT_STATUSES
<1> QED
  BY <1>1, <1>2

\* Alive and Terminal, of the record.
Lively(a) == /\ a.status \notin TERMINAL_AGENT_STATUSES \cup {"none"}
             /\ a.final \notin TERMINAL_AGENT_STATUSES
             /\ a.release # "closed"
             /\ ~a.quarantined
Ended(a) == \/ a.status \in TERMINAL_AGENT_STATUSES
            \/ a.final \in TERMINAL_AGENT_STATUSES
            \/ a.release = "closed"

\* What every command but the start does to the record of an agent.
Onward(a, r) == /\ Coherent(r)
                /\ r.status = "none" <=> a.status = "none"
                /\ a.invalidated => r.invalidated
                /\ Lively(r) => Lively(a) \/ r.invalidated
                /\ Ended(a) => Ended(r) \/ a.final = "invalidated"
                /\ (a.final \in TERMINAL_AGENT_STATUSES /\ r.final = "invalidated") =>
                       a.status = "stale"

LEMMA SameOnward == \A a \in Agent : Coherent(a) => Onward(a, a)
BY DEF Onward, TERMINAL_AGENT_STATUSES

LEMMA FailedOnward == \A a \in Agent : a.status # "none" => Onward(a, Failed(a))
<1> SUFFICES ASSUME NEW a \in Agent, a.status # "none"
             PROVE  Onward(a, Failed(a))
  OBVIOUS
<1>1. /\ Failed(a).status = "failed"
      /\ Failed(a).final = "failed"
      /\ Failed(a).invalidated = a.invalidated
  BY DEF Failed, Agent
<1> QED
  BY <1>1, FailedCoherent DEF Onward, Lively, Ended, TERMINAL_AGENT_STATUSES

LEMMA CancelOnward ==
    \A a \in Agent : a.status \notin TERMINAL_AGENT_STATUSES \cup {"none"} /\ Coherent(a)
                        => Onward(a, CancelSibling(a))
<1> SUFFICES ASSUME NEW a \in Agent, a.status \notin TERMINAL_AGENT_STATUSES \cup {"none"},
                    Coherent(a)
             PROVE  Onward(a, CancelSibling(a))
  OBVIOUS
<1>1. /\ CancelSibling(a).status = a.status
      /\ CancelSibling(a).final = a.final
      /\ CancelSibling(a).quarantined = a.quarantined
      /\ CancelSibling(a).invalidated = a.invalidated
  BY DEF CancelSibling, Agent
<1>2. Lively(CancelSibling(a)) => Lively(a) \/ a.invalidated
  BY <1>1 DEF Lively, Coherent
<1>3. Ended(a) => Ended(CancelSibling(a)) \/ a.final = "invalidated"
  BY <1>1 DEF Ended, Coherent
<1> QED
  BY <1>1, <1>2, <1>3, CancelCoherent DEF Onward, TERMINAL_AGENT_STATUSES

LEMMA InvalidatedOnward ==
    \A a \in Agent : a.status # "none" /\ Coherent(a) => Onward(a, Invalidated(a))
<1> SUFFICES ASSUME NEW a \in Agent, a.status # "none", Coherent(a)
             PROVE  Onward(a, Invalidated(a))
  OBVIOUS
<1>1. /\ Invalidated(a).status # "none"
      /\ Invalidated(a).invalidated
      /\ Ended(Invalidated(a))
  BY DEF Invalidated, Agent, Ended, TERMINAL_AGENT_STATUSES
<1>2. ASSUME a.final \in TERMINAL_AGENT_STATUSES, Invalidated(a).final = "invalidated"
      PROVE  a.status = "stale"
  <2>1. a.status \notin TERMINAL_AGENT_STATUSES
    BY <1>2 DEF Invalidated, Agent, TERMINAL_AGENT_STATUSES
  <2> QED
    BY <1>2, <2>1 DEF Coherent
<1> QED
  BY <1>1, <1>2, InvalidatedCoherent DEF Onward

-----------------------------------------------------------------------------
(* A step in which every agent goes onward                                 *)

LEMMA OnwardStep ==
    ASSUME IInv,
           agent' \in [Office -> Agent],
           \A p \in Office : Onward(agent[p], agent'[p]),
           \A p \in Office : Startable(p)' => Startable(p),
           refused \subseteq refused'
    PROVE  /\ LivesCoherent'
           /\ HoldersAreDisjoint'
           /\ \A p \in Office : Started(p)' <=> Started(p)
           /\ \A p \in Office : EndsForGood(p)
<1>1. LivesCoherent'
  BY DEF LivesCoherent, Onward
<1>2. \A p \in Office : Started(p)' <=> Started(p)
  BY DEF Started, Onward
<1>3. \A p \in Office : EndsForGood(p)
  <2> SUFFICES ASSUME NEW p \in Office PROVE EndsForGood(p)
    OBVIOUS
  <2>1. Onward(agent[p], agent'[p])
    OBVIOUS
  <2>2. (Terminal(p) <=> Ended(agent[p])) /\ (Terminal(p)' <=> Ended(agent'[p]))
    BY DEF Terminal, Ended
  <2> QED
    BY <2>1, <2>2 DEF Onward, EndsForGood
<1>4. ASSUME NEW p \in Office, Clean(p)', Holds(p)'
      PROVE  Clean(p) /\ Holds(p)
  <2>1. ~agent'[p].invalidated /\ p \notin refused
    BY <1>4 DEF Clean
  <2>2. Clean(p)
    BY <2>1 DEF Clean, Onward
  <2>3. Alive(p)' => Alive(p)
    <3>1. Lively(agent'[p]) => Lively(agent[p])
      BY <2>1 DEF Onward
    <3> QED
      BY <3>1 DEF Alive, Started, Terminal, Lively
  <2> QED
    BY <1>2, <1>4, <2>2, <2>3 DEF Holds
<1>5. HoldersAreDisjoint'
  BY <1>4 DEF IInv, HoldersAreDisjoint, Overlap
<1> QED
  BY <1>1, <1>2, <1>3, <1>5

\* The four conclusions of OnwardStep and the types, for one action.
Kept == /\ IInv'
        /\ \A p \in Office : EndsForGood(p)

\* One agent is rewritten, the admissions stay.
LEMMA RewriteStep ==
    ASSUME IInv, NEW o \in Office, NEW r \in Agent,
           Started(o),
           Onward(agent[o], r),
           agent' = [agent EXCEPT ![o] = r],
           UNCHANGED <<gateVars, admission, refused, breakers>>,
           snapshot' \subseteq Office,
           \A p \in snapshot' : Started(p)
    PROVE  Kept
<1>1. /\ TypeOK
      /\ \A p \in Office : agent[p] \in Agent /\ Coherent(agent[p])
  BY DEF IInv, Lives, LivesCoherent, TypeOK
<1>2. agent' \in [Office -> Agent]
  BY <1>1 DEF TypeOK
<1>3. \A p \in Office : Onward(agent[p], agent'[p])
  BY <1>1, SameOnward DEF TypeOK
<1>4. \A p \in Office : Startable(p)' => Startable(p)
  BY DEF Startable, gateVars
<1>5. /\ LivesCoherent'
      /\ HoldersAreDisjoint'
      /\ \A p \in Office : Started(p)' <=> Started(p)
      /\ \A p \in Office : EndsForGood(p)
  BY <1>2, <1>3, <1>4, OnwardStep
<1>6. \A p \in Office : (Started(p)' \/ p \in refused') => p \in admission'[WaveOf[p]].offices
  BY <1>1, <1>5 DEF TypeOK
<1>7. \A p \in snapshot' : Started(p)'
  BY <1>5
<1>8. TypeOK'
  BY <1>1, <1>2, <1>6, <1>7 DEF TypeOK, gateVars, breakers
<1>9. AdmissionsArePast'
  BY DEF IInv, AdmissionsArePast, gateVars
<1> QED
  BY <1>5, <1>8, <1>9 DEF Kept, IInv, Lives

LEMMA LifeStep ==
    ASSUME IInv, NEW o \in Office,
           \/ \E accepted \in BOOLEAN : PreloadAck(o, accepted)
           \/ Heartbeat(o)
           \/ \E result \in Result, bound \in BOOLEAN : Finish(o, result, bound)
           \/ Close(o)
           \/ MarkAgentStale(o)
    PROVE  Kept
<1>1. /\ agent \in [Office -> Agent]
      /\ agent[o] \in Agent
      /\ Coherent(agent[o])
      /\ snapshot \subseteq Office
      /\ \A p \in snapshot : Started(p)
  BY DEF IInv, Lives, LivesCoherent, TypeOK
<1>2. ASSUME NEW accepted \in BOOLEAN, PreloadAck(o, accepted)
      PROVE  Kept
  <2>1. CASE accepted
    <3> DEFINE r == [agent[o] EXCEPT !.status = "running", !.preload = "PASSED"]
    <3>1. r \in Agent
      BY <1>1 DEF Agent
    <3>2. Onward(agent[o], r)
      BY <1>1, <1>2 DEF PreloadAck, Agent, Started, Terminal, Onward, Coherent, Lively, Ended,
                        TERMINAL_AGENT_STATUSES
    <3>3. agent' = [agent EXCEPT ![o] = r]
      BY <1>1, <1>2, <2>1 DEF PreloadAck
    <3> QED
      BY <1>1, <1>2, <3>1, <3>2, <3>3, RewriteStep DEF PreloadAck
  <2>2. CASE ~accepted
    <3> DEFINE a == [agent[o] EXCEPT !.preload = "FAILED"]
    <3>1. a \in Agent /\ a.status = agent[o].status
      BY <1>1 DEF Agent
    <3>2. Failed(a) \in Agent /\ Onward(a, Failed(a))
      BY <1>2, <3>1, RecordTypes, FailedOnward DEF PreloadAck, Started
    <3>3. Onward(agent[o], Failed(a))
      BY <1>1, <3>2 DEF Onward, Lively, Ended, Agent
    <3>4. agent' = [agent EXCEPT ![o] = Failed(a)]
      BY <1>1, <1>2, <2>2 DEF PreloadAck
    <3> QED
      BY <1>1, <1>2, <3>2, <3>3, <3>4, RewriteStep DEF PreloadAck
  <2> QED
    BY <2>1, <2>2
<1>3. CASE Heartbeat(o)
  <2> DEFINE r == [agent[o] EXCEPT !.status =
                     IF agent[o].preload = "PASSED" THEN "running" ELSE "starting"]
  <2>1. r \in Agent
    BY <1>1 DEF Agent
  <2>2. Onward(agent[o], r)
    BY <1>1, <1>3 DEF Heartbeat, Alive, Agent, Started, Terminal, Onward, Coherent, Lively, Ended,
                      TERMINAL_AGENT_STATUSES
  <2>3. agent' = [agent EXCEPT ![o] = r]
    BY <1>1, <1>3 DEF Heartbeat
  <2> QED
    BY <1>1, <1>3, <2>1, <2>2, <2>3, RewriteStep DEF Heartbeat, Alive
<1>4. ASSUME NEW result \in Result, NEW bound \in BOOLEAN, Finish(o, result, bound)
      PROVE  Kept
  <2>1. CASE bound
    <3> DEFINE final == IF agent[o].preload = "PASSED" THEN result ELSE "failed"
               r == [agent[o] EXCEPT !.status = final, !.final = final]
    <3>1. final \in {"completed", "failed", "cancelled"}
      BY ResultAssumption
    <3>2. r \in Agent
      BY <1>1, <3>1 DEF Agent, TERMINAL_AGENT_STATUSES
    <3>3. Onward(agent[o], r)
      BY <1>1, <1>4, <3>1 DEF Finish, Alive, Agent, Started, Terminal, Onward, Coherent, Lively,
                              Ended, TERMINAL_AGENT_STATUSES
    <3>4. agent' = [agent EXCEPT ![o] = r]
      BY <1>1, <1>4, <2>1 DEF Finish
    <3> QED
      BY <1>1, <1>4, <3>2, <3>3, <3>4, RewriteStep DEF Finish, Alive
  <2>2. CASE ~bound
    <3> DEFINE a == [agent[o] EXCEPT !.quarantined = TRUE]
    <3>1. a \in Agent /\ a.status = agent[o].status
      BY <1>1 DEF Agent
    <3>2. Failed(a) \in Agent /\ Onward(a, Failed(a))
      BY <1>4, <3>1, RecordTypes, FailedOnward DEF Finish, Alive, Started
    <3>3. ~Lively(Failed(a)) /\ Ended(Failed(a)) /\ Failed(a).invalidated = agent[o].invalidated
      BY <1>1 DEF Failed, Lively, Ended, TERMINAL_AGENT_STATUSES, Agent
    <3>4. Onward(agent[o], Failed(a))
      BY <3>1, <3>2, <3>3 DEF Onward
    <3>5. agent' = [agent EXCEPT ![o] = Failed(a)]
      BY <1>1, <1>4, <2>2 DEF Finish
    <3> QED
      BY <1>1, <1>4, <3>2, <3>4, <3>5, RewriteStep DEF Finish, Alive
  <2> QED
    BY <2>1, <2>2
<1>5. CASE Close(o)
  <2> DEFINE r == [agent[o] EXCEPT !.status = "closed", !.release = "closed"]
  <2>1. r \in Agent
    BY <1>1 DEF Agent, TERMINAL_AGENT_STATUSES
  <2>2. Started(o)
    BY <1>1, <1>5 DEF Close, Started, Coherent, NotStarted
  <2>3. Onward(agent[o], r)
    BY <1>1, <1>5, <2>2 DEF Close, Agent, Started, Onward, Coherent, Lively, Ended,
                            TERMINAL_AGENT_STATUSES
  <2>4. agent' = [agent EXCEPT ![o] = r]
    BY <1>1, <1>5 DEF Close
  <2> QED
    BY <1>1, <1>5, <2>1, <2>2, <2>3, <2>4, RewriteStep DEF Close
<1>6. CASE MarkAgentStale(o)
  <2> DEFINE r == [agent[o] EXCEPT !.status = "stale"]
  <2>1. r \in Agent
    BY <1>1 DEF Agent
  <2>2. Started(o)
    BY <1>1, <1>6 DEF MarkAgentStale
  <2>3. Onward(agent[o], r)
    BY <1>1, <2>2 DEF Agent, Started, Onward, Coherent, Lively, Ended, TERMINAL_AGENT_STATUSES
  <2>4. agent' = [agent EXCEPT ![o] = r]
    BY <1>1, <1>6 DEF MarkAgentStale
  <2>5. /\ UNCHANGED <<gateVars, admission, refused, breakers>>
        /\ snapshot' \subseteq snapshot
    BY <1>6 DEF MarkAgentStale
  <2> QED
    BY <1>1, <2>1, <2>2, <2>3, <2>4, <2>5, RewriteStep
<1> QED
  BY <1>2, <1>3, <1>4, <1>5, <1>6

LEMMA ReconcileStep ==
    ASSUME IInv, NEW o \in Office, NEW errorKind \in ErrorKind, Reconcile(o, errorKind)
    PROVE  Kept
<1>1. /\ TypeOK
      /\ \A p \in Office : agent[p] \in Agent /\ Coherent(agent[p])
  BY DEF IInv, Lives, LivesCoherent, TypeOK
<1>2. ASSUME NEW p \in Office
      PROVE  agent'[p] \in Agent /\ Onward(agent[p], agent'[p])
  <2>1. CASE p = o
    BY <1>1, <2>1, RecordTypes, FailedOnward DEF Reconcile, Started
  <2>2. CASE p # o /\ WaveOf[p] = WaveOf[o] /\ Active(p)
    <3>1. agent'[p] = CancelSibling(agent[p])
      BY <2>2 DEF Reconcile
    <3> QED
      BY <1>1, <2>2, <3>1, RecordTypes, CancelOnward DEF Active, Started
  <2>3. CASE p # o /\ ~(WaveOf[p] = WaveOf[o] /\ Active(p))
    <3>1. agent'[p] = agent[p]
      BY <2>3 DEF Reconcile
    <3> QED
      BY <1>1, <3>1, SameOnward
  <2> QED
    BY <2>1, <2>2, <2>3
<1>3. agent' \in [Office -> Agent]
  BY <1>2 DEF Reconcile
<1>4. UNCHANGED <<semantic, checkpoint, admission, refused, snapshot>>
  BY DEF Reconcile, gateVars
<1>5. \A p \in Office : Startable(p)' => Startable(p)
  BY <1>4 DEF Startable
<1>6. /\ LivesCoherent'
      /\ HoldersAreDisjoint'
      /\ \A p \in Office : Started(p)' <=> Started(p)
      /\ \A p \in Office : EndsForGood(p)
  BY <1>2, <1>3, <1>4, <1>5, OnwardStep
<1>7. blocked' \subseteq Wave /\ circuit' \in BOOLEAN
  BY <1>1, OfficesAssumption DEF Reconcile, TypeOK
<1>8. TypeOK'
  BY <1>1, <1>3, <1>4, <1>6, <1>7 DEF TypeOK
<1>9. AdmissionsArePast'
  BY <1>4 DEF IInv, AdmissionsArePast
<1> QED
  BY <1>6, <1>8, <1>9 DEF Kept, IInv, Lives

LEMMA InvalidateStep ==
    ASSUME IInv, InvalidateAll, checkpoint' \in 0..MaxCheckpoint, checkpoint' >= checkpoint,
           UNCHANGED <<refused, breakers, snapshot>>
    PROVE  Kept
<1>1. /\ TypeOK
      /\ \A p \in Office : agent[p] \in Agent /\ Coherent(agent[p])
      /\ AdmissionsArePast
  BY DEF IInv, Lives, LivesCoherent, TypeOK
<1>2. ASSUME NEW p \in Office
      PROVE  agent'[p] \in Agent /\ Onward(agent[p], agent'[p])
  <2>1. CASE Started(p)
    <3>1. agent'[p] = Invalidated(agent[p])
      BY <2>1 DEF InvalidateAll
    <3> QED
      BY <1>1, <2>1, <3>1, RecordTypes, InvalidatedOnward DEF Started
  <2>2. CASE ~Started(p)
    <3>1. agent'[p] = agent[p]
      BY <1>1, <2>2 DEF InvalidateAll, Started, Coherent
    <3> QED
      BY <1>1, <3>1, SameOnward
  <2> QED
    BY <2>1, <2>2
<1>3. agent' \in [Office -> Agent]
  BY <1>2 DEF InvalidateAll
<1>4. ASSUME NEW w \in Wave
      PROVE  /\ admission'[w] \in Admission
             /\ admission'[w].offices = admission[w].offices
             /\ admission'[w].checkpoint <= checkpoint'
             /\ admission'[w].offices # {} => admission'[w].invalidated
  <2>1. /\ admission[w] \in Admission
        /\ checkpoint \in 0..MaxCheckpoint
        /\ admission[w].checkpoint <= checkpoint
    BY <1>1 DEF TypeOK, AdmissionsArePast
  <2>2. CASE admission[w].offices = {}
    BY <2>1, <2>2, BoundsAssumption DEF InvalidateAll, NotAdmitted, Admission
  <2>3. CASE admission[w].offices # {}
    <3>1. admission'[w] = [admission[w] EXCEPT !.invalidated = TRUE]
      BY <2>3 DEF InvalidateAll
    <3>2. /\ admission'[w] \in Admission
          /\ admission'[w].offices = admission[w].offices
          /\ admission'[w].checkpoint = admission[w].checkpoint
          /\ admission'[w].invalidated
      BY <2>1, <3>1 DEF Admission
    <3> QED
      BY <2>1, <3>2, BoundsAssumption DEF Admission
  <2> QED
    BY <2>2, <2>3
<1>5. \A p \in Office : Startable(p)' => Startable(p)
  BY <1>4, OfficesAssumption DEF Startable
<1>6. /\ LivesCoherent'
      /\ HoldersAreDisjoint'
      /\ \A p \in Office : Started(p)' <=> Started(p)
      /\ \A p \in Office : EndsForGood(p)
  BY <1>2, <1>3, <1>5, OnwardStep
<1>7. admission' \in [Wave -> Admission]
  BY <1>4 DEF InvalidateAll
<1>8. TypeOK'
  BY <1>1, <1>3, <1>4, <1>6, <1>7, OfficesAssumption DEF TypeOK, InvalidateAll, breakers
<1>9. AdmissionsArePast'
  BY <1>4 DEF AdmissionsArePast
<1> QED
  BY <1>6, <1>8, <1>9 DEF Kept, IInv, Lives

\* The agents stay as they are, and the admissions too.
LEMMA QuietStep ==
    ASSUME IInv, UNCHANGED <<agent, admission>>,
           semantic' \in {"REVERIFY", "VERIFIED", "DISPATCHABLE"},
           checkpoint' \in 0..MaxCheckpoint, checkpoint' >= checkpoint,
           refused \subseteq refused', refused' \subseteq Office,
           \A p \in refused' : p \in admission[WaveOf[p]].offices,
           blocked' \subseteq Wave, circuit' \in BOOLEAN,
           snapshot' \subseteq Office, \A p \in snapshot' : Started(p)
    PROVE  Kept
<1>1. /\ TypeOK
      /\ \A p \in Office : agent[p] \in Agent /\ Coherent(agent[p])
      /\ AdmissionsArePast
  BY DEF IInv, Lives, LivesCoherent, TypeOK
<1>2. \A p \in Office : Onward(agent[p], agent'[p])
  BY <1>1, SameOnward
<1>3. \A w \in Wave : /\ admission[w].checkpoint \in Int
                      /\ admission[w].checkpoint <= checkpoint
  BY <1>1 DEF TypeOK, Admission, AdmissionsArePast
<1>4. checkpoint \in Int /\ checkpoint' \in Int
  BY <1>1 DEF TypeOK
<1>5. ASSUME NEW p \in Office, Startable(p)'
      PROVE  Startable(p)
  <2>1. WaveOf[p] \in Wave
    BY OfficesAssumption
  <2> QED
    BY <1>3, <1>4, <1>5, <2>1 DEF Startable
<1>6. /\ LivesCoherent'
      /\ HoldersAreDisjoint'
      /\ \A p \in Office : Started(p)' <=> Started(p)
      /\ \A p \in Office : EndsForGood(p)
  BY <1>1, <1>2, <1>5, OnwardStep DEF TypeOK
<1>7. TypeOK'
  BY <1>1, <1>6 DEF TypeOK
<1>8. AdmissionsArePast'
  BY <1>3, <1>4 DEF AdmissionsArePast
<1> QED
  BY <1>6, <1>7, <1>8 DEF Kept, IInv, Lives

-----------------------------------------------------------------------------
(* Admission and start                                                     *)

\* Who holds paths with a clean past claims them, so an admission looks at it.
LEMMA HoldersClaim ==
    ASSUME Lives, NEW p \in Office, Clean(p), Holds(p)
    PROVE  Claims(p)
BY DEF Clean, Holds, Claims, Alive, Started, Terminal, Active

LEMMA AdmitStep ==
    ASSUME IInv, NEW w \in Wave, NEW selected \in SUBSET {o \in Office : WaveOf[o] = w},
           NEW hostActive \in 1..Capacity, Admit(w, selected, hostActive)
    PROVE  Kept
<1>1. /\ Lives
      /\ TypeOK
      /\ \A p \in Office : agent[p] \in Agent /\ Coherent(agent[p])
      /\ AdmissionsArePast
      /\ HoldersAreDisjoint
  BY DEF IInv, Lives, LivesCoherent, TypeOK
<1>2. /\ UNCHANGED <<semantic, checkpoint, refused, agent, blocked, circuit, snapshot>>
      /\ admission[w].offices = {}
      /\ admission' = [admission EXCEPT ![w] =
             [offices |-> selected, checkpoint |-> checkpoint, invalidated |-> FALSE]]
  BY DEF Admit, gateVars, breakers
<1>3. \A v \in Wave : admission'[v] = IF v = w THEN [offices |-> selected,
                          checkpoint |-> checkpoint, invalidated |-> FALSE] ELSE admission[v]
  BY <1>1, <1>2 DEF TypeOK
<1>4. TypeOK'
  <2>1. admission' \in [Wave -> Admission]
    BY <1>1, <1>2 DEF TypeOK, Admission
  <2>2. \A v \in Wave : \A o \in admission'[v].offices : WaveOf[o] = v
    BY <1>1, <1>3 DEF TypeOK
  <2>3. ASSUME NEW o \in Office, Started(o)' \/ o \in refused'
        PROVE  o \in admission'[WaveOf[o]].offices
    <3>1. Started(o) \/ o \in refused
      BY <1>2, <2>3 DEF Started
    <3>2. o \in admission[WaveOf[o]].offices
      BY <1>1, <3>1 DEF TypeOK
    <3> QED
      BY <1>2, <1>3, <3>2, OfficesAssumption
  <2> QED
    BY <1>1, <1>2, <2>1, <2>2, <2>3 DEF TypeOK, Started
<1>5. AdmissionsArePast'
  <2>1. checkpoint <= checkpoint
    BY <1>1 DEF TypeOK
  <2> QED
    BY <1>1, <1>2, <1>3, <2>1 DEF AdmissionsArePast
<1>6. LivesCoherent'
  BY <1>1, <1>2 DEF LivesCoherent
<1>7. ASSUME NEW p \in Office, Clean(p)', Holds(p)'
      PROVE  p \in selected \/ (Clean(p) /\ Holds(p) /\ Claims(p))
  <2>1. Clean(p) /\ (Alive(p)' <=> Alive(p)) /\ (Started(p)' <=> Started(p))
    BY <1>2, <1>7 DEF Clean, Alive, Started, Terminal
  <2>2. Startable(p)' => p \in selected \/ Startable(p)
    BY <1>2, <1>3, OfficesAssumption DEF Startable
  <2> QED
    BY <1>1, <1>7, <2>1, <2>2, HoldersClaim DEF Holds
<1>8. ASSUME NEW o \in Office, NEW p \in Office, o # p,
             Clean(o)', Holds(o)', Clean(p)', Holds(p)'
      PROVE  ~Overlap(o, p)
  <2>1. \A q \in selected : /\ \A x \in Office : Claims(x) => ~Overlap(q, x)
                            /\ \A x \in selected \ {q} : ~Overlap(q, x)
    BY DEF Admit, Clashes
  <2>2. Overlap(o, p) <=> Overlap(p, o)
    BY DEF Overlap
  <2>3. CASE o \in selected
    BY <1>7, <1>8, <2>1, <2>3
  <2>4. CASE p \in selected
    BY <1>7, <1>8, <2>1, <2>2, <2>4
  <2>5. CASE o \notin selected /\ p \notin selected
    BY <1>1, <1>7, <1>8, <2>5 DEF HoldersAreDisjoint
  <2> QED
    BY <2>3, <2>4, <2>5
<1>9. HoldersAreDisjoint'
  BY <1>8 DEF HoldersAreDisjoint, Overlap
<1>10. \A p \in Office : EndsForGood(p)
  BY <1>2 DEF Terminal, EndsForGood, TERMINAL_AGENT_STATUSES
<1> QED
  BY <1>4, <1>5, <1>6, <1>9, <1>10 DEF Kept, IInv, Lives

LEMMA StartStep ==
    ASSUME IInv, NEW o \in Office, Start(o)
    PROVE  Kept
<1>1. /\ TypeOK
      /\ \A p \in Office : agent[p] \in Agent /\ Coherent(agent[p])
      /\ AdmissionsArePast
      /\ HoldersAreDisjoint
  BY DEF IInv, Lives, LivesCoherent, TypeOK
<1> DEFINE r == [NotStarted EXCEPT !.status = "starting", !.preload = "PENDING"]
<1>2. /\ UNCHANGED <<semantic, checkpoint, admission, refused, blocked, circuit, snapshot>>
      /\ Startable(o) /\ ~Started(o)
      /\ agent[o] = NotStarted
      /\ agent' = [agent EXCEPT ![o] = r]
  BY <1>1 DEF Start, gateVars, breakers, Started, Coherent
<1>3. r \in Agent /\ Coherent(r) /\ r.status = "starting" /\ ~r.invalidated
  BY DEF NotStarted, Agent, Coherent, TERMINAL_AGENT_STATUSES
<1>4. \A p \in Office : agent'[p] = IF p = o THEN r ELSE agent[p]
  BY <1>1, <1>2 DEF TypeOK
<1>5. TypeOK'
  <2>1. agent' \in [Office -> Agent]
    BY <1>1, <1>2, <1>3 DEF TypeOK
  <2>2. \A p \in Office : (Started(p)' \/ p \in refused') => p \in admission'[WaveOf[p]].offices
    BY <1>1, <1>2, <1>4 DEF TypeOK, Started, Startable
  <2>3. \A p \in snapshot' : Started(p)'
    BY <1>1, <1>2, <1>3, <1>4 DEF TypeOK, Started
  <2> QED
    BY <1>1, <1>2, <2>1, <2>2, <2>3 DEF TypeOK
<1>6. LivesCoherent'
  BY <1>1, <1>3, <1>4 DEF LivesCoherent
<1>7. AdmissionsArePast'
  BY <1>1, <1>2 DEF AdmissionsArePast
<1>8. ASSUME NEW p \in Office, Clean(p)', Holds(p)'
      PROVE  Clean(p) /\ Holds(p)
  <2>1. CASE p = o
    BY <1>2, <1>8, <2>1 DEF Clean, Holds, NotStarted
  <2>2. CASE p # o
    BY <1>2, <1>4, <1>8, <2>2 DEF Clean, Holds, Alive, Started, Terminal, Startable
  <2> QED
    BY <2>1, <2>2
<1>9. HoldersAreDisjoint'
  BY <1>1, <1>8 DEF HoldersAreDisjoint, Overlap
<1>10. \A p \in Office : EndsForGood(p)
  <2> SUFFICES ASSUME NEW p \in Office PROVE EndsForGood(p)
    OBVIOUS
  <2>1. CASE p = o
    BY <1>2, <2>1 DEF EndsForGood, Terminal, NotStarted, TERMINAL_AGENT_STATUSES
  <2>2. CASE p # o
    BY <1>4, <2>2 DEF EndsForGood, Terminal, TERMINAL_AGENT_STATUSES
  <2> QED
    BY <2>1, <2>2
<1> QED
  BY <1>5, <1>6, <1>7, <1>9, <1>10 DEF Kept, IInv, Lives

-----------------------------------------------------------------------------
(* The specification                                                       *)

LEMMA InitIInv == Init => IInv
<1> SUFFICES ASSUME Init PROVE IInv
  OBVIOUS
<1>1. TypeOK
  <2>1. agent \in [Office -> Agent] /\ \A o \in Office : ~Started(o)
    BY RecordTypes DEF Init, Started, NotStarted
  <2>2. /\ admission \in [Wave -> Admission]
        /\ \A w \in Wave : admission[w].offices = {}
    BY BoundsAssumption DEF Init, Admission, NotAdmitted
  <2>3. checkpoint \in 0..MaxCheckpoint
    BY BoundsAssumption DEF Init
  <2> QED
    BY <2>1, <2>2, <2>3 DEF Init, TypeOK
<1>2. LivesCoherent
  BY FirstCoherent DEF Init, LivesCoherent
<1>3. AdmissionsArePast
  BY DEF Init, AdmissionsArePast, NotAdmitted
<1>4. HoldersAreDisjoint
  BY OfficesAssumption
     DEF Init, HoldersAreDisjoint, Holds, Alive, Started, Startable, NotStarted, NotAdmitted
<1> QED
  BY <1>1, <1>2, <1>3, <1>4 DEF IInv, Lives

LEMMA GateStep == ASSUME IInv, Gate PROVE Kept
<1>1. TypeOK
  BY DEF IInv, Lives
<1>2. CASE SemanticCheckpoint
  BY <1>1, <1>2, QuietStep, BoundsAssumption DEF SemanticCheckpoint, TypeOK, breakers
<1>3. CASE SemanticVerify
  BY <1>1, <1>3, QuietStep DEF SemanticVerify, TypeOK, breakers
<1>4. CASE ReviseCharter
  BY <1>1, <1>4, InvalidateStep, BoundsAssumption DEF ReviseCharter, TypeOK
<1>5. CASE SemanticResume
  BY <1>1, <1>5, InvalidateStep DEF SemanticResume, TypeOK
<1> QED
  BY <1>2, <1>3, <1>4, <1>5 DEF Gate

LEMMA SpawnFailedStep ==
    ASSUME IInv, NEW o \in Office, NEW errorKind \in ErrorKind, SpawnFailed(o, errorKind)
    PROVE  Kept
<1>1. TypeOK
  BY DEF IInv, Lives
<1>2. blocked' \subseteq Wave
  BY <1>1, OfficesAssumption DEF SpawnFailed, TypeOK
<1> QED
  BY <1>1, <1>2, QuietStep DEF SpawnFailed, TypeOK, gateVars

LEMMA StepKeeps == IInv /\ [Next]_vars => Kept
<1> SUFFICES ASSUME IInv, [Next]_vars PROVE Kept
  OBVIOUS
<1>1. TypeOK
  BY DEF IInv, Lives
<1>2. CASE Gate
  BY <1>2, GateStep
<1>3. ASSUME NEW w \in Wave, NEW selected \in SUBSET {o \in Office : WaveOf[o] = w},
             NEW hostActive \in 1..Capacity, Admit(w, selected, hostActive)
      PROVE  Kept
  BY <1>3, AdmitStep
<1>4. ASSUME NEW o \in Office, Dispatch(o)
      PROVE  Kept
  BY <1>4, StartStep, SpawnFailedStep DEF Dispatch
<1>5. ASSUME NEW o \in Office, Life(o) \/ MarkAgentStale(o)
      PROVE  Kept
  BY <1>5, LifeStep, ReconcileStep DEF Life
<1>6. ASSUME NEW late \in SUBSET Office, Watch(late)
      PROVE  Kept
  BY <1>1, <1>6, QuietStep DEF Watch, Active, TypeOK, gateVars, breakers
<1>7. CASE UNCHANGED vars
  BY <1>1, <1>7, QuietStep DEF vars, gateVars, breakers, TypeOK
<1> QED
  BY <1>2, <1>3, <1>4, <1>5, <1>6, <1>7 DEF Next

\* The inductive invariant holds in every state.
THEOREM Invariant == Spec => []IInv
<1>1. IInv /\ [Next]_vars => IInv'
  BY StepKeeps DEF Kept
<1> QED
  BY <1>1, InitIInv, PTL DEF Spec

\* Agents, admissions and breakers keep the shape the code gives them.
THEOREM TypeCorrect == Spec => []TypeOK
<1>1. IInv => TypeOK
  BY DEF IInv, Lives
<1> QED
  BY <1>1, Invariant, PTL

\* Two agents at work write to the same paths only after a refused start or an
\* invalidation, whatever the number of offices and waves.
THEOREM WritersMeetForACause == Spec => []OverlapHasACause
<1>1. ASSUME IInv PROVE OverlapHasACause
  <2> SUFFICES ASSUME NEW o \in Office, NEW p \in Office,
                      o # p, Alive(o), Alive(p), Overlap(o, p)
               PROVE  \E q \in {o, p} : q \in refused \/ agent[q].invalidated
    BY DEF OverlapHasACause
  <2>1. ~Clean(o) \/ ~Clean(p)
    <3>1. Holds(o) /\ Holds(p)
      BY DEF Holds
    <3> QED
      BY <1>1, <3>1 DEF IInv, HoldersAreDisjoint
  <2> QED
    BY <2>1 DEF Clean
<1> QED
  BY <1>1, Invariant, PTL

\* A quarantined result holds no paths and is never booked as a completion.
THEOREM QuarantineIsFinal == Spec => []QuarantineHolds
<1>1. ASSUME IInv PROVE QuarantineHolds
  <2> SUFFICES ASSUME NEW o \in Office, agent[o].quarantined
               PROVE  ~Claims(o) /\ agent[o].final \in {"failed", "invalidated"}
    BY DEF QuarantineHolds
  <2>1. Coherent(agent[o])
    BY <1>1 DEF IInv, Lives, LivesCoherent
  <2>2. agent[o].final \in {"failed", "invalidated"}
    BY <2>1 DEF Coherent
  <2>3. Started(o)
    BY <2>1, <2>2 DEF Coherent, Started, NotStarted
  <2> QED
    BY <2>2, <2>3 DEF Claims
<1> QED
  BY <1>1, Invariant, PTL

\* A finished, failed, cancelled or closed agent never works again, unless the
\* watcher overwrote its status and an invalidation came on top.
THEOREM EndedStayEnded == Spec => OnlyInvalidatedReturn
<1>1. IInv /\ [Next]_vars =>
         [\A o \in Office : EndsForGood(o)]_vars
  BY StepKeeps DEF Kept
<1> QED
  BY <1>1, Invariant, PTL DEF Spec, OnlyInvalidatedReturn

=============================================================================
