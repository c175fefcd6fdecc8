-------------------------- MODULE MemoryFederation --------------------------
(***************************************************************************)
(* The federation of the tools' own memories with the shared Shiguan       *)
(* (services/shiguan_git_federation.py).  apply_federation writes a link   *)
(* into the entry point of every memory store and commits it in the        *)
(* store's own Git repository, writes the registry of what it committed    *)
(* into the shared repository, commits that, writes a receipt, verifies.   *)
(* The preflight runs before the lock is taken, the failure receipt is     *)
(* written after it is released, and nothing is rolled back.               *)
(*                                                                         *)
(* A commit is its number in its repository.  Of a native repository the   *)
(* model keeps the entry point: the managed link and the version of what   *)
(* the tool wrote around it; of the shared one the registry.  All          *)
(* are there; a separate one may be unborn, and hides its untracked files. *)
(* Left out: roots and their creation, remotes, tracked-path allowlist.    *)
(***************************************************************************)
EXTENDS Naturals, Sequences, SequencesExt

CONSTANTS Stores,
          Unborn,            \* stores of mode `separate' without a commit yet
          Appliers,          \* processes that run apply_federation
          Ids,               \* transaction ids they are called with
          None,              \* no process, no id
          MaxApplies,        \* bound: calls
          MaxDisturbances    \* bound: operations and locks that fail, appliers that
                             \* die, edits of a memory by its own tool

ASSUME StoresAssumption == Stores # {} /\ Unborn \subseteq Stores
ASSUME NoneAssumption == None \notin Appliers \cup Ids \cup Stores
ASSUME BoundsAssumption == {MaxApplies, MaxDisturbances} \subseteq Nat

VARIABLES
    \* the native repositories
    entry, index,            \* the entry point in the worktree and in the index
    history,                 \* the entry point in every commit
    \* the shared repository
    registry,                \* memory-repositories.v1.json in the worktree
    prepared,                \* ids with a prepared.json in the worktree
    unstaged, staged,        \* memories/ differs from the index, the index from HEAD
    shared,                  \* registry of every commit
    receipt,                 \* court-runtime/memory-git/receipts/<id>.json
    \* the processes
    lock,                    \* holder of shiguan-write.lock
    pc, id, anchor, natives, store, commit,
    contested,               \* ids two calls worked for at a time, or whose link a call
                             \* and a tool wrote at a time (history)
    applies, disturbances    \* spent of the bounds

native == <<entry, index, history>>
anchorage == <<prepared, unstaged, staged, shared>>
locals == <<id, anchor, natives, store, commit>>
calls == <<contested, applies>>
vars == <<native, registry, anchorage, receipt, lock, pc, locals, calls, disturbances>>

NoLink == [id |-> None, anchor |-> 0]
NoEntry == [link |-> NoLink, text |-> 0]
NoNatives == [m \in Stores |-> 0]
NoRegistry == [id |-> None, anchor |-> 0, natives |-> NoNatives]
NoReceipt == [status |-> "none", commit |-> 0, registry |-> NoRegistry]

Init == /\ entry = [m \in Stores |-> NoEntry]
        /\ index = [m \in Stores |-> NoEntry]
        /\ history = [m \in Stores |-> IF m \in Unborn THEN <<>> ELSE <<NoEntry>>]
        /\ registry = NoRegistry
        /\ prepared = {} /\ unstaged = FALSE /\ staged = FALSE
        /\ shared = <<NoRegistry>>
        /\ receipt = [t \in Ids |-> NoReceipt]
        /\ lock = None
        /\ pc = [p \in Appliers |-> "idle"]
        /\ id = [p \in Appliers |-> None]
        /\ anchor = [p \in Appliers |-> 0]
        /\ natives = [p \in Appliers |-> NoNatives]
        /\ store = [p \in Appliers |-> None]
        /\ commit = [p \in Appliers |-> 0]
        /\ contested = {}
        /\ applies = 0 /\ disturbances = 0

At(p, here) == pc[p] = here
To(p, there) == pc' = [pc EXCEPT ![p] = there]

\* The process is done and keeps nothing.
Leave(p) == /\ To(p, "idle")
            /\ id' = [id EXCEPT ![p] = None]
            /\ anchor' = [anchor EXCEPT ![p] = 0]
            /\ natives' = [natives EXCEPT ![p] = NoNatives]
            /\ store' = [store EXCEPT ![p] = None]
            /\ commit' = [commit EXCEPT ![p] = 0]
Unlock(p) == lock' = IF lock = p THEN None ELSE lock

-----------------------------------------------------------------------------
(* What Git sees                                                           *)

Tip(m) == Len(history[m])
HasCommit(m) == history[m] # <<>>
AtHead(m) == IF HasCommit(m) THEN Last(history[m]) ELSE NoEntry

\* _preflight of a store: an unborn separate one hides its untracked files.
CleanStore(m) == index[m] = AtHead(m) /\ (HasCommit(m) => entry[m] = index[m])
Clean == ~staged /\ \A m \in Stores : CleanStore(m)

-----------------------------------------------------------------------------
(* Taking the lock                                                         *)

\* A call with the registered id only verifies; any other has its preflight
\* here, before the lock, and a refusal leaves no trace.
Apply(p, t) == /\ At(p, "idle")
               /\ applies < MaxApplies
               /\ registry.id # t
               /\ Clean
               /\ applies' = applies + 1
               /\ contested' = contested \cup (IF \E q \in Appliers : id[q] = t THEN {t} ELSE {})
               /\ id' = [id EXCEPT ![p] = t]
               /\ To(p, "locking")
               /\ UNCHANGED <<native, registry, anchorage, receipt, lock, anchor, natives, store,
                              commit, disturbances>>

Lock(p) == /\ At(p, "locking")
           /\ lock = None
           /\ lock' = p
           /\ To(p, "preparing")
           /\ UNCHANGED <<native, registry, anchorage, receipt, locals, calls, disturbances>>

-----------------------------------------------------------------------------
(* The shared anchor: _ensure_shared_anchor                                *)

Prepare(p) == /\ At(p, "preparing")
              /\ unstaged' = (unstaged \/ id[p] \notin prepared)
              /\ prepared' = prepared \cup {id[p]}
              /\ To(p, "staging")
              /\ UNCHANGED <<native, registry, staged, shared, receipt, lock, locals, calls,
                             disturbances>>

\* git add of memories/, whatever an earlier call left there included.
Stage(p, here, there) == /\ At(p, here)
                         /\ staged' = (staged \/ unstaged)
                         /\ unstaged' = FALSE
                         /\ To(p, there)
                         /\ UNCHANGED <<native, registry, prepared, shared, receipt, lock, locals,
                                        calls, disturbances>>

\* _commit_shared
CommitStaged == /\ shared' = IF staged THEN Append(shared, registry) ELSE shared
                /\ staged' = FALSE

CommitAnchor(p) == /\ At(p, "anchoring")
                   /\ CommitStaged
                   /\ anchor' = [anchor EXCEPT ![p] = Len(shared')]
                   /\ To(p, "linking")
                   /\ UNCHANGED <<native, registry, prepared, unstaged, receipt, lock, id, natives,
                                  store, commit, calls, disturbances>>

-----------------------------------------------------------------------------
(* The native commits                                                      *)

LinkOf(p) == [id |-> id[p], anchor |-> anchor[p]]
Unbound(p) == {m \in Stores : natives[p][m] = 0}

\* _upsert_link
WriteLink(p, m) == /\ At(p, "linking") /\ m \in Unbound(p)
                   /\ entry[m].link # LinkOf(p) \/ ~HasCommit(m)
                   /\ entry' = [entry EXCEPT ![m] = [link |-> LinkOf(p), text |-> entry[m].text]]
                   /\ store' = [store EXCEPT ![p] = m]
                   /\ To(p, "adding")
                   /\ UNCHANGED <<index, history, registry, anchorage, receipt, lock, id, anchor,
                                  natives, commit, calls, disturbances>>

\* Mutant: any managed link is taken for the link of this call.
FindAnyLink(p, m) == /\ At(p, "linking") /\ m \in Unbound(p)
                     /\ entry[m].link # NoLink /\ HasCommit(m)
                     /\ natives' = [natives EXCEPT ![p] = [@ EXCEPT ![m] = Tip(m)]]
                     /\ UNCHANGED <<native, registry, anchorage, receipt, lock, pc, id, anchor,
                                    store, commit, calls, disturbances>>

\* The link is there: HEAD is taken to hold it.
FindLink(p, m) == /\ At(p, "linking") /\ m \in Unbound(p)
                  /\ entry[m].link = LinkOf(p) /\ HasCommit(m)
                  /\ natives' = [natives EXCEPT ![p] = [@ EXCEPT ![m] = Tip(m)]]
                  /\ UNCHANGED <<native, registry, anchorage, receipt, lock, pc, id, anchor, store,
                                 commit, calls, disturbances>>

AddLink(p) == /\ At(p, "adding")
              /\ index' = [index EXCEPT ![store[p]] = entry[store[p]]]
              /\ To(p, "committing")
              /\ UNCHANGED <<entry, history, registry, anchorage, receipt, lock, locals, calls,
                             disturbances>>

\* A commit of the index; what was written since git add stays uncommitted.
CommitIndex(m) == history' = IF index[m] = AtHead(m) THEN history
                             ELSE [history EXCEPT ![m] = Append(@, index[m])]

\* Mutant: HEAD is read before the commit.
CommitLinkLate(p) == LET m == store[p] IN
                     /\ At(p, "committing")
                     /\ CommitIndex(m)
                     /\ natives' = [natives EXCEPT ![p] = [@ EXCEPT ![m] = Tip(m)]]
                     /\ store' = [store EXCEPT ![p] = None]
                     /\ To(p, "linking")
                     /\ UNCHANGED <<entry, index, registry, anchorage, receipt, lock, id, anchor,
                                    commit, calls, disturbances>>

\* _commit_store
CommitLink(p) == LET m == store[p] IN
                 /\ At(p, "committing")
                 /\ CommitIndex(m)
                 /\ natives' = [natives EXCEPT ![p] = [@ EXCEPT ![m] = Len(history'[m])]]
                 /\ store' = [store EXCEPT ![p] = None]
                 /\ To(p, "linking")
                 /\ UNCHANGED <<entry, index, registry, anchorage, receipt, lock, id, anchor,
                                commit, calls, disturbances>>

-----------------------------------------------------------------------------
(* The registry, its commit and its receipt                                *)

\* _write_registry
WriteRegistry(p) == /\ At(p, "linking") /\ Unbound(p) = {}
                    /\ registry' = [id |-> id[p], anchor |-> anchor[p], natives |-> natives[p]]
                    /\ unstaged' = TRUE
                    /\ To(p, "listing")
                    /\ UNCHANGED <<native, prepared, staged, shared, receipt, lock, locals,
                                   calls, disturbances>>

\* Mutant: the receipt names the anchor, not the commit of the registry.
CommitRegistryAsAnchor(p) == /\ At(p, "registering")
                             /\ CommitStaged
                             /\ commit' = [commit EXCEPT ![p] = anchor[p]]
                             /\ To(p, "receipting")
                             /\ UNCHANGED <<native, registry, prepared, unstaged, receipt, lock,
                                            id, anchor, natives, store, calls, disturbances>>

CommitRegistry(p) == /\ At(p, "registering")
                     /\ CommitStaged
                     /\ commit' = [commit EXCEPT ![p] = Len(shared')]
                     /\ To(p, "receipting")
                     /\ UNCHANGED <<native, registry, prepared, unstaged, receipt, lock, id,
                                    anchor, natives, store, calls, disturbances>>

\* _write_receipt
WriteReceipt(p) == /\ At(p, "receipting")
                   /\ receipt' = [receipt EXCEPT ![id[p]] =
                                    [status |-> "VERIFIED", commit |-> commit[p],
                                     registry |-> registry]]
                   /\ To(p, "verifying")
                   /\ UNCHANGED <<native, registry, anchorage, lock, locals, calls, disturbances>>

\* verify_federation
Verified == LET r == receipt[registry.id] IN
            /\ registry.id # None
            /\ r.status = "VERIFIED"
            /\ ~staged
            /\ r.commit = Len(shared)
            /\ \A m \in Stores : /\ CleanStore(m)
                                 /\ Tip(m) = registry.natives[m]
                                 /\ Tip(m) = r.registry.natives[m]
                                 /\ entry[m].link = [id |-> registry.id,
                                                     anchor |-> registry.anchor]

Verify(p) == /\ At(p, "verifying")
             /\ Verified
             /\ Leave(p)
             /\ Unlock(p)
             /\ UNCHANGED <<native, registry, anchorage, receipt, calls, disturbances>>

\* recall_provenance, which looks at the registry and its receipt alone.
Recalled == /\ registry.id # None
            /\ receipt[registry.id].status = "VERIFIED"
            /\ receipt[registry.id].registry = registry

-----------------------------------------------------------------------------
(* Failures and the tools                                                  *)

Disturbed == disturbances < MaxDisturbances /\ disturbances' = disturbances + 1

\* Mutant: the failure receipt is written under the lock, which stays.
FailLocked(p) == /\ pc[p] \notin {"idle", "failing", "verifying"}
                 /\ At(p, "locking") => lock # None
                 /\ Disturbed
                 /\ To(p, "failing")
                 /\ UNCHANGED <<native, registry, anchorage, receipt, lock, locals, calls>>

\* An operation fails, or somebody holds the lock for too long.
Fail(p) == /\ pc[p] \notin {"idle", "failing", "verifying"}
           /\ At(p, "locking") => lock # None
           /\ Disturbed
           /\ To(p, "failing")
           /\ Unlock(p)
           /\ UNCHANGED <<native, registry, anchorage, receipt, locals, calls>>

VerifyRefused(p) == /\ At(p, "verifying")
                    /\ ~Verified
                    /\ To(p, "failing")
                    /\ Unlock(p)
                    /\ UNCHANGED <<native, registry, anchorage, receipt, locals, calls,
                                   disturbances>>

\* _write_failure_receipt, without the lock
WriteFailure(p) == /\ At(p, "failing")
                   /\ receipt' = [receipt EXCEPT ![id[p]] = [NoReceipt EXCEPT !.status = "FAILED"]]
                   /\ Leave(p)
                   /\ UNCHANGED <<native, registry, anchorage, lock, calls, disturbances>>

Crash(p) == /\ pc[p] # "idle"
            /\ Disturbed
            /\ Leave(p)
            /\ Unlock(p)
            /\ UNCHANGED <<native, registry, anchorage, receipt, calls>>

\* Ids whose link is at stake when a tool writes this link into a store.
AtStake(m, this) ==
    IF this = entry[m].link \/ ~(\E p \in Appliers : store[p] = m) THEN {}
    ELSE ({this.id} \cup {id[p] : p \in {q \in Appliers : store[q] = m}}) \ {None}

\* The tool works on its own memory, and may drop the link or save an older
\* copy of the file over it.
EditMemory(m) == /\ Disturbed
                 /\ \E this \in {entry[m].link, AtHead(m).link, NoLink} :
                       /\ entry' = [entry EXCEPT ![m] = [link |-> this, text |-> entry[m].text + 1]]
                       /\ contested' = contested \cup AtStake(m, this)
                 /\ UNCHANGED <<index, history, registry, anchorage, receipt, lock, pc, locals,
                                applies>>

\* It commits what it has written.
CommitMemory(m) == /\ HasCommit(m) /\ entry[m].text # AtHead(m).text
                   /\ history' = [history EXCEPT ![m] = Append(@, entry[m])]
                   /\ index' = [index EXCEPT ![m] = entry[m]]
                   /\ UNCHANGED <<entry, registry, anchorage, receipt, lock, pc, locals, calls,
                                  disturbances>>

-----------------------------------------------------------------------------
Step(p) == \/ Prepare(p) \/ Stage(p, "staging", "anchoring") \/ CommitAnchor(p)
           \/ \E m \in Stores : WriteLink(p, m) \/ FindLink(p, m)
           \/ AddLink(p) \/ CommitLink(p)
           \/ WriteRegistry(p) \/ Stage(p, "listing", "registering") \/ CommitRegistry(p)
           \/ WriteReceipt(p) \/ Verify(p) \/ VerifyRefused(p) \/ WriteFailure(p)

Next == \/ \E p \in Appliers : \/ \E t \in Ids : Apply(p, t)
                               \/ Lock(p) \/ Step(p) \/ Fail(p) \/ Crash(p)
        \/ \E m \in Stores : EditMemory(m) \/ CommitMemory(m)

Spec == Init /\ [][Next]_vars

-----------------------------------------------------------------------------
(* Properties                                                              *)

Link == [id : Ids \cup {None}, anchor : Nat]
Content == [link : Link, text : Nat]
Registry == [id : Ids \cup {None}, anchor : Nat, natives : [Stores -> Nat]]
Pc == {"idle", "locking", "preparing", "staging", "anchoring", "linking", "adding", "committing",
       "listing", "registering", "receipting", "verifying", "failing"}

\* Types of all variables; the lock has its holder, who works on one store.
TypeOK ==
    /\ entry \in [Stores -> Content] /\ index \in [Stores -> Content]
    /\ history \in [Stores -> Seq(Content)]
    /\ registry \in Registry
    /\ prepared \subseteq Ids /\ unstaged \in BOOLEAN /\ staged \in BOOLEAN
    /\ shared \in Seq(Registry)
    /\ receipt \in [Ids -> [status : {"none", "VERIFIED", "FAILED"}, commit : Nat,
                            registry : Registry]]
    /\ lock \in Appliers \cup {None}
    /\ pc \in [Appliers -> Pc]
    /\ \A p \in Appliers : /\ lock = p <=> pc[p] \notin {"idle", "locking", "failing"}
                           /\ pc[p] \in {"adding", "committing"} => store[p] # None
                           /\ pc[p] # "idle" => id[p] # None
    /\ id \in [Appliers -> Ids \cup {None}]
    /\ anchor \in [Appliers -> Nat]
    /\ natives \in [Appliers -> [Stores -> Nat]]
    /\ store \in [Appliers -> Stores \cup {None}]
    /\ commit \in [Appliers -> Nat]
    /\ contested \subseteq Ids
    /\ applies \in 0..MaxApplies /\ disturbances \in 0..MaxDisturbances

\* What recall reports as verified is provable from Git: each commit the
\* registry names holds the link back to it, whatever the tools write between
\* git add and git commit.  (Two calls with one id at a time can miss it, and
\* a tool that writes another link into a store in hand: a call takes a link
\* it finds, or its own, for committed, and recall believes its receipt before
\* it is verified.)
RecallProvesLinks ==
    (Recalled /\ registry.id \notin contested) => \A m \in Stores :
                   LET n == registry.natives[m] IN
                   /\ n \in 1..Tip(m)
                   /\ history[m][n].link = [id |-> registry.id, anchor |-> registry.anchor]

\* The shared commit a receipt names holds the registry it was written for,
\* though calls that failed or died left theirs in the worktree or the index.
ReceiptHoldsRegistry ==
    \A t \in Ids : receipt[t].status = "VERIFIED" =>
        /\ receipt[t].commit \in 1..Len(shared)
        /\ shared[receipt[t].commit] = receipt[t].registry
        /\ receipt[t].registry.id = t

Undisturbed == disturbances = 0

\* Calls that overlap leave a verifiable federation and a clean preflight
\* behind when nothing else went wrong, though each was checked before the
\* other's changes.
QuietIsVerified ==
    (Undisturbed /\ \A p \in Appliers : pc[p] \in {"idle", "locking"}) =>
        Clean /\ (registry.id # None => Verified)

=============================================================================
