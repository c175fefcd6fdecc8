------------------------ MODULE MemoryFederationProofs ------------------------
(***************************************************************************)
(* Proofs, for any stores, appliers, ids and bounds, that the commit a     *)
(* receipt of the federation names holds the registry it was written for,  *)
(* and that the commits the registry names hold the links back to it.      *)
(***************************************************************************)
EXTENDS MemoryFederation, TLAPS

-----------------------------------------------------------------------------
(* The inductive invariant                                                 *)

Free == {"idle", "locking", "failing"}
ReceiptType == [status : {"none", "VERIFIED", "FAILED"}, commit : Nat, registry : Registry]

\* The types again, in groups that a step changes or leaves alone.
NativeOK == /\ entry \in [Stores -> Content] /\ index \in [Stores -> Content]
            /\ history \in [Stores -> Seq(Content)]
SharedOK == /\ registry \in Registry
            /\ prepared \subseteq Ids /\ unstaged \in BOOLEAN /\ staged \in BOOLEAN
            /\ shared \in Seq(Registry)
ReceiptOK == receipt \in [Ids -> ReceiptType]
LocksOK == /\ lock \in Appliers \cup {None}
           /\ pc \in [Appliers -> Pc]
           /\ id \in [Appliers -> Ids \cup {None}]
           /\ store \in [Appliers -> Stores \cup {None}]
           /\ \A p \in Appliers : /\ lock = p <=> pc[p] \notin Free
                                  /\ pc[p] \in {"adding", "committing"} => store[p] # None
                                  /\ pc[p] # "idle" => id[p] # None
LocalsOK == /\ anchor \in [Appliers -> Nat]
            /\ natives \in [Appliers -> [Stores -> Nat]]
            /\ commit \in [Appliers -> Nat]
SpentOK == /\ contested \subseteq Ids
           /\ applies \in 0..MaxApplies /\ disturbances \in 0..MaxDisturbances

Types == NativeOK /\ SharedOK /\ ReceiptOK /\ LocksOK /\ LocalsOK /\ SpentOK

\* The lock's owner has its registry in the worktree, then in the index, then
\* in the commit it remembers.
RegistryOnItsWay ==
    \A p \in Appliers :
        /\ pc[p] \in {"listing", "registering", "receipting"} => registry.id = id[p]
        /\ pc[p] = "listing" => unstaged
        /\ pc[p] = "registering" => staged
        /\ pc[p] = "receipting" => commit[p] \in 1..Len(shared) /\ shared[commit[p]] = registry

IInv == Types /\ RegistryOnItsWay /\ ReceiptHoldsRegistry

\* Commit n of a store holds this link.
Proves(n, m, this) == n \in 1..Tip(m) /\ history[m][n].link = this

\* Two calls with one id at a time are rivals.
RivalsAreKnown ==
    \A p, q \in Appliers : (p # q /\ id[p] = id[q] /\ id[p] # None) => id[p] \in contested

\* An applier has a store in hand only while it binds it, or failed doing so;
\* what is written over the link of that store is contested.
StoreInHand ==
    \A p \in Appliers :
        /\ pc[p] \notin {"adding", "committing", "failing"} => store[p] = None
        /\ pc[p] \in {"idle", "locking", "preparing", "staging", "anchoring"} => natives[p] = NoNatives
        /\ pc[p] \in {"adding", "committing"} =>
              /\ entry[store[p]].link.id \in contested \cup {None, id[p]}
              /\ id[p] \in contested \/ entry[store[p]].link = LinkOf(p)
        /\ pc[p] = "committing" => id[p] \in contested \/ index[store[p]].link = LinkOf(p)

\* An applier whose id is not contested finds its own link only where it is
\* committed, and has bound only what is.
OwnLinks ==
    \A p \in Appliers : (id[p] \notin contested /\ pc[p] # "idle") => \A m \in Stores :
        /\ (entry[m].link.id = id[p] /\ HasCommit(m) /\ store[p] # m) =>
              entry[m].link = Last(history[m]).link
        /\ natives[p][m] # 0 => Proves(natives[p][m], m, LinkOf(p))

RegistryProves ==
    registry.id \notin contested \cup {None} =>
        \A m \in Stores : Proves(registry.natives[m], m, [id |-> registry.id,
                                                          anchor |-> registry.anchor])

Links == RivalsAreKnown /\ StoreInHand /\ OwnLinks /\ RegistryProves

-----------------------------------------------------------------------------
(* Types                                                                   *)

LEMMA Bounds == MaxApplies \in Nat /\ MaxDisturbances \in Nat
BY BoundsAssumption

LEMMA TypesSayIt == Types => TypeOK
BY DEF Types, NativeOK, SharedOK, ReceiptOK, LocksOK, LocalsOK, SpentOK, TypeOK, ReceiptType, Free

LEMMA NothingTyped ==
    /\ NoLink \in Link /\ NoEntry \in Content /\ NoNatives \in [Stores -> Nat] /\ NoRegistry \in Registry
    /\ NoReceipt \in ReceiptType /\ [NoReceipt EXCEPT !.status = "FAILED"] \in ReceiptType
BY DEF NoLink, Link, NoEntry, Content, NoNatives, NoRegistry, Registry, NoReceipt, ReceiptType

LEMMA TypesInit == Init => Types
<1> SUFFICES ASSUME Init PROVE Types
  OBVIOUS
<1>1. NativeOK
  <2>1. <<>> \in Seq(Content) /\ <<NoEntry>> \in Seq(Content)
    BY NothingTyped
  <2> QED
    BY <2>1, NothingTyped DEF Init, NativeOK
<1>2. SharedOK
  <2>1. <<NoRegistry>> \in Seq(Registry)
    BY NothingTyped
  <2>2. unstaged \in BOOLEAN /\ staged \in BOOLEAN
    BY DEF Init
  <2> QED
    BY <2>1, <2>2, NothingTyped DEF Init, SharedOK
<1>3. ReceiptOK
  BY NothingTyped DEF Init, ReceiptOK
<1>4. LocksOK
  BY NoneAssumption DEF Init, LocksOK, Pc, Free
<1>5. LocalsOK /\ SpentOK
  BY NothingTyped, Bounds DEF Init, LocalsOK, SpentOK
<1> QED
  BY <1>1, <1>2, <1>3, <1>4, <1>5 DEF Types

\* What a step does not touch keeps its type.
LEMMA GroupsStay ==
    ASSUME Types
    PROVE  /\ UNCHANGED native => NativeOK'
           /\ UNCHANGED <<registry, prepared, unstaged, staged, shared>> => SharedOK'
           /\ UNCHANGED receipt => ReceiptOK'
           /\ UNCHANGED <<lock, pc, id, store>> => LocksOK'
           /\ UNCHANGED <<anchor, natives, commit>> => LocalsOK'
           /\ UNCHANGED <<contested, applies, disturbances>> => SpentOK'
BY DEF Types, NativeOK, SharedOK, ReceiptOK, LocksOK, LocalsOK, SpentOK, native

LEMMA ToKeepsLocks ==
    ASSUME Types, NEW p \in Appliers, NEW there \in Pc, To(p, there), UNCHANGED <<lock, id, store>>,
           pc[p] \notin Free, there \notin Free \cup {"adding", "committing"}
    PROVE  LocksOK'
BY DEF Types, LocksOK, To, Free

LEMMA LeaveTypes ==
    ASSUME Types, NEW p \in Appliers, Leave(p), Unlock(p)
    PROVE  LocksOK' /\ LocalsOK'
BY NothingTyped, NoneAssumption DEF Types, LocksOK, LocalsOK, Leave, Unlock, To, Free, Pc

LEMMA CommitTypes ==
    ASSUME Types, NEW m \in Stores, CommitIndex(m), UNCHANGED <<entry, index>>
    PROVE  NativeOK'
BY DEF Types, NativeOK, CommitIndex

LEMMA HeadTyped ==
    ASSUME Types, NEW m \in Stores
    PROVE  AtHead(m) \in Content /\ AtHead(m).link \in Link /\ NoLink \in Link
<1>1. CASE history[m] = <<>>
  BY <1>1, NothingTyped DEF AtHead, HasCommit, Content
<1>2. CASE history[m] # <<>>
  <2>1. history[m] \in Seq(Content)
    BY DEF Types, NativeOK
  <2>2. Last(history[m]) \in Content
    BY <1>2, <2>1 DEF Last
  <2> QED
    BY <1>2, <2>2, NothingTyped DEF AtHead, HasCommit, Content
<1> QED
  BY <1>1, <1>2

LEMMA StagedTypes ==
    ASSUME Types, CommitStaged, UNCHANGED <<registry, prepared, unstaged>>
    PROVE  SharedOK' /\ Len(shared') \in Nat
<1>1. shared' \in Seq(Registry)
  BY DEF Types, SharedOK, CommitStaged
<1>2. staged' \in BOOLEAN
  BY DEF CommitStaged
<1> QED
  BY <1>1, <1>2 DEF Types, SharedOK

LEMMA TypesOfCalls ==
    ASSUME Types, NEW p \in Appliers, NEW t \in Ids,
           Apply(p, t) \/ Lock(p) \/ Fail(p) \/ Crash(p) \/ Verify(p) \/ VerifyRefused(p)
           \/ WriteFailure(p)
    PROVE  Types'
<1> USE GroupsStay DEF Types, native, anchorage, locals, calls, At
<1>1. CASE Apply(p, t)
  <2>1. SpentOK'
    BY <1>1, Bounds DEF Apply, SpentOK
  <2>2. LocksOK'
    BY <1>1, NoneAssumption DEF Apply, LocksOK, To, Free, Pc
  <2> QED
    BY <1>1, <2>1, <2>2 DEF Apply
<1>2. CASE Lock(p)
  <2>1. LocksOK'
    BY <1>2, NoneAssumption DEF Lock, LocksOK, To, Free, Pc
  <2> QED
    BY <1>2, <2>1 DEF Lock
<1>3. CASE Fail(p) \/ VerifyRefused(p)
  <2>1. LocksOK'
    BY <1>3, NoneAssumption DEF Fail, VerifyRefused, LocksOK, Unlock, To, Free, Pc
  <2>2. SpentOK'
    BY <1>3, Bounds DEF Fail, VerifyRefused, Disturbed, SpentOK
  <2> QED
    BY <1>3, <2>1, <2>2 DEF Fail, VerifyRefused
<1>4. CASE Crash(p)
  <2>1. SpentOK'
    BY <1>4, Bounds DEF Crash, Disturbed, SpentOK
  <2> QED
    BY <1>4, <2>1, LeaveTypes DEF Crash
<1>5. CASE Verify(p)
  BY <1>5, LeaveTypes DEF Verify
<1>6. CASE WriteFailure(p)
  <2>1. Unlock(p)
    BY <1>6, NoneAssumption DEF WriteFailure, Unlock, LocksOK, Free
  <2>2. ReceiptOK'
    BY <1>6, NothingTyped DEF WriteFailure, ReceiptOK
  <2> QED
    BY <1>6, <2>1, <2>2, LeaveTypes DEF WriteFailure
<1> QED
  BY <1>1, <1>2, <1>3, <1>4, <1>5, <1>6

LEMMA TypesOfShared ==
    ASSUME Types, NEW p \in Appliers,
           \/ Prepare(p) \/ Stage(p, "staging", "anchoring") \/ CommitAnchor(p) \/ WriteRegistry(p)
           \/ Stage(p, "listing", "registering") \/ CommitRegistry(p) \/ WriteReceipt(p)
    PROVE  Types'
<1> USE GroupsStay, ToKeepsLocks DEF Types, native, anchorage, locals, calls, At, Pc, Free
<1>1. CASE Prepare(p)
  <2>1. unstaged' \in BOOLEAN
    BY <1>1 DEF Prepare
  <2>2. id[p] \in Ids
    BY <1>1 DEF Prepare, LocksOK
  <2>3. SharedOK'
    BY <1>1, <2>1, <2>2 DEF Prepare, SharedOK
  <2> QED
    BY <1>1, <2>3 DEF Prepare
<1>2. CASE Stage(p, "staging", "anchoring") \/ Stage(p, "listing", "registering")
  <2>1. staged' \in BOOLEAN /\ unstaged' \in BOOLEAN
    BY <1>2 DEF Stage
  <2>2. SharedOK'
    BY <1>2, <2>1 DEF Stage, SharedOK
  <2> QED
    BY <1>2, <2>2 DEF Stage
<1>3. CASE CommitAnchor(p)
  <2>1. SharedOK' /\ Len(shared') \in Nat
    BY <1>3, StagedTypes DEF CommitAnchor
  <2>2. LocalsOK'
    BY <1>3, <2>1 DEF CommitAnchor, LocalsOK
  <2> QED
    BY <1>3, <2>1, <2>2 DEF CommitAnchor
<1>4. CASE WriteRegistry(p)
  <2>1. registry' \in Registry
    BY <1>4 DEF WriteRegistry, Registry, LocksOK, LocalsOK
  <2>2. unstaged' \in BOOLEAN
    BY <1>4 DEF WriteRegistry
  <2>3. SharedOK'
    BY <1>4, <2>1, <2>2 DEF WriteRegistry, SharedOK
  <2> QED
    BY <1>4, <2>3 DEF WriteRegistry
<1>5. CASE CommitRegistry(p)
  <2>1. SharedOK' /\ Len(shared') \in Nat
    BY <1>5, StagedTypes DEF CommitRegistry
  <2>2. LocalsOK'
    BY <1>5, <2>1 DEF CommitRegistry, LocalsOK
  <2> QED
    BY <1>5, <2>1, <2>2 DEF CommitRegistry
<1>6. CASE WriteReceipt(p)
  <2>1. [status |-> "VERIFIED", commit |-> commit[p], registry |-> registry] \in ReceiptType
    BY DEF ReceiptType, LocalsOK, SharedOK
  <2>2. ReceiptOK'
    BY <1>6, <2>1 DEF WriteReceipt, ReceiptOK
  <2> QED
    BY <1>6, <2>2 DEF WriteReceipt
<1> QED
  BY <1>1, <1>2, <1>3, <1>4, <1>5, <1>6

LEMMA TypesOfLinks ==
    ASSUME Types, NEW p \in Appliers, NEW m \in Stores,
           WriteLink(p, m) \/ FindLink(p, m) \/ AddLink(p) \/ CommitLink(p)
    PROVE  Types'
<1> USE GroupsStay DEF Types, native, anchorage, locals, calls, At
<1>1. CASE WriteLink(p, m)
  <2>1. [link |-> LinkOf(p), text |-> entry[m].text] \in Content
    BY DEF LinkOf, Link, Content, LocksOK, LocalsOK, NativeOK
  <2>2. NativeOK'
    BY <1>1, <2>1 DEF WriteLink, NativeOK
  <2>3. m \in Unbound(p) /\ pc[p] = "linking" /\ id' = id /\ lock' = lock
    BY <1>1 DEF WriteLink
  <2>4. m # None
    BY NoneAssumption
  <2>5. LocksOK'
    BY <1>1, <2>3, <2>4 DEF WriteLink, LocksOK, To, Free, Pc
  <2> QED
    BY <1>1, <2>2, <2>5 DEF WriteLink
<1>2. CASE FindLink(p, m)
  <2>1. Tip(m) \in Nat
    BY DEF Tip, NativeOK
  <2>2. LocalsOK'
    BY <1>2, <2>1 DEF FindLink, LocalsOK
  <2> QED
    BY <1>2, <2>2 DEF FindLink
<1>3. CASE AddLink(p)
  <2>1. store[p] \in Stores
    BY <1>3 DEF AddLink, LocksOK
  <2>2. NativeOK'
    BY <1>3, <2>1 DEF AddLink, NativeOK
  <2>3. LocksOK'
    BY <1>3 DEF AddLink, LocksOK, To, Free, Pc
  <2> QED
    BY <1>3, <2>2, <2>3 DEF AddLink
<1>4. CASE CommitLink(p)
  <2>1. store[p] \in Stores
    BY <1>4 DEF CommitLink, LocksOK
  <2>2. NativeOK'
    BY <1>4, <2>1, CommitTypes DEF CommitLink
  <2>3. Len(history'[store[p]]) \in Nat
    BY <2>1, <2>2 DEF NativeOK
  <2>4. LocalsOK'
    BY <1>4, <2>1, <2>3 DEF CommitLink, LocalsOK
  <2>5. LocksOK'
    BY <1>4 DEF CommitLink, LocksOK, To, Free, Pc
  <2> QED
    BY <1>4, <2>2, <2>4, <2>5 DEF CommitLink
<1> QED
  BY <1>1, <1>2, <1>3, <1>4

LEMMA TypesOfTools ==
    ASSUME Types, NEW m \in Stores, EditMemory(m) \/ CommitMemory(m)
    PROVE  Types'
<1> USE GroupsStay DEF Types, native, anchorage, locals, calls
<1>1. CASE EditMemory(m)
  <2> PICK this \in {entry[m].link, AtHead(m).link, NoLink} :
          /\ entry' = [entry EXCEPT ![m] = [link |-> this, text |-> entry[m].text + 1]]
          /\ contested' = contested \cup AtStake(m, this)
    BY <1>1 DEF EditMemory
  <2>1. this \in Link /\ entry[m].text \in Nat
    BY HeadTyped DEF NativeOK, Content
  <2>2. contested' \subseteq Ids
    BY <2>1 DEF AtStake, Link, LocksOK, SpentOK
  <2>3. SpentOK'
    BY <1>1, <2>2, Bounds DEF EditMemory, Disturbed, SpentOK
  <2>4. [link |-> this, text |-> entry[m].text + 1] \in Content
    BY <2>1 DEF Content
  <2>5. NativeOK'
    BY <1>1, <2>4 DEF EditMemory, NativeOK
  <2> QED
    BY <1>1, <2>3, <2>5 DEF EditMemory
<1>2. CASE CommitMemory(m)
  <2>1. NativeOK'
    BY <1>2 DEF CommitMemory, NativeOK
  <2> QED
    BY <1>2, <2>1 DEF CommitMemory
<1> QED
  BY <1>1, <1>2

-----------------------------------------------------------------------------
(* The registry and its commit                                             *)

\* Only one applier is at work.
LEMMA OneApplier ==
    ASSUME Types, NEW p \in Appliers, NEW q \in Appliers, pc[p] \notin Free, pc[q] \notin Free
    PROVE  p = q
BY DEF Types, LocksOK

\* A receipt stays true while commits are only added.
LEMMA ReceiptsStay ==
    ASSUME Types, ReceiptHoldsRegistry, receipt' = receipt,
           shared' = shared \/ CommitStaged
    PROVE  ReceiptHoldsRegistry'
<1>1. /\ Len(shared) \in Nat /\ Len(shared') \in Nat /\ Len(shared') >= Len(shared)
      /\ \A n \in 1..Len(shared) : shared'[n] = shared[n]
  BY DEF Types, SharedOK, CommitStaged
<1>2. \A t \in Ids : receipt[t].commit \in Nat
  BY DEF Types, ReceiptOK, ReceiptType
<1> QED
  BY <1>1, <1>2 DEF ReceiptHoldsRegistry

Committed == {"listing", "registering", "receipting"}

\* Steps of others, and those before the registry is written.
LEMMA RegistryStays ==
    ASSUME RegistryOnItsWay,
           \A p \in Appliers : pc'[p] \in Committed =>
               /\ pc'[p] = pc[p] /\ id'[p] = id[p] /\ commit'[p] = commit[p]
               /\ UNCHANGED <<registry, unstaged, staged, shared>>
    PROVE  RegistryOnItsWay'
BY DEF RegistryOnItsWay, Committed

LEMMA InvOfCalls ==
    ASSUME IInv, NEW p \in Appliers, NEW t \in Ids,
           Apply(p, t) \/ Lock(p) \/ Fail(p) \/ Crash(p) \/ Verify(p) \/ VerifyRefused(p)
           \/ WriteFailure(p)
    PROVE  IInv'
<1>1. UNCHANGED <<registry, unstaged, staged, shared>>
  BY DEF Apply, Lock, Fail, Crash, Verify, VerifyRefused, WriteFailure, anchorage
<1>2. \A q \in Appliers : pc'[q] \in Committed =>
          pc'[q] = pc[q] /\ id'[q] = id[q] /\ commit'[q] = commit[q]
  BY DEF Apply, Lock, Fail, Crash, Verify, VerifyRefused, WriteFailure, Leave, To, IInv, Types,
         LocksOK, LocalsOK, locals, Committed
<1>3. ReceiptHoldsRegistry'
  <2>1. CASE WriteFailure(p)
    BY <1>1, <2>1 DEF WriteFailure, IInv, ReceiptHoldsRegistry, NoReceipt, Types, ReceiptOK
  <2>2. CASE receipt' = receipt
    BY <1>1, <2>2, ReceiptsStay DEF IInv
  <2> QED
    BY <2>1, <2>2 DEF Apply, Lock, Fail, Crash, Verify, VerifyRefused
<1> QED
  BY <1>1, <1>2, <1>3, RegistryStays, TypesOfCalls DEF IInv

LEMMA InvOfLinks ==
    ASSUME IInv, NEW p \in Appliers, NEW m \in Stores,
           \/ Prepare(p) \/ Stage(p, "staging", "anchoring") \/ CommitAnchor(p)
           \/ WriteLink(p, m) \/ FindLink(p, m) \/ AddLink(p) \/ CommitLink(p)
    PROVE  IInv'
<1>1. pc[p] \notin Free \cup Committed /\ pc'[p] \notin Committed /\ receipt' = receipt
  BY DEF Prepare, Stage, CommitAnchor, WriteLink, FindLink, AddLink, CommitLink, At, To, Free,
         Committed, IInv, Types, LocksOK
<1>2. \A q \in Appliers : q # p => pc'[q] = pc[q] /\ pc[q] \notin Committed
  BY <1>1, OneApplier DEF Prepare, Stage, CommitAnchor, WriteLink, FindLink, AddLink, CommitLink,
                          To, Free, Committed, IInv, Types, LocksOK
<1>3. shared' = shared \/ CommitStaged
  BY DEF Prepare, Stage, CommitAnchor, WriteLink, FindLink, AddLink, CommitLink, anchorage
<1>4. RegistryOnItsWay' /\ ReceiptHoldsRegistry'
  BY <1>1, <1>2, <1>3, RegistryStays, ReceiptsStay DEF IInv
<1> QED
  BY <1>4, TypesOfShared, TypesOfLinks DEF IInv

LEMMA InvOfRegistry ==
    ASSUME IInv, NEW p \in Appliers,
           \/ WriteRegistry(p) \/ Stage(p, "listing", "registering") \/ CommitRegistry(p)
           \/ WriteReceipt(p)
    PROVE  IInv'
<1> USE DEF IInv
<1>1. pc[p] \notin Free /\ id' = id
  BY DEF WriteRegistry, Stage, CommitRegistry, WriteReceipt, At, Free, locals
<1>2. \A q \in Appliers : q # p => pc'[q] = pc[q] /\ pc[q] \notin Committed
  BY <1>1, OneApplier DEF WriteRegistry, Stage, CommitRegistry, WriteReceipt, To, Free, Committed,
                          Types, LocksOK
<1>3. Types'
  BY TypesOfShared
<1>4. CASE WriteRegistry(p)
  <2>1. registry'.id = id'[p] /\ unstaged' /\ pc'[p] = "listing"
    BY <1>1, <1>4 DEF WriteRegistry, To, Types, LocksOK
  <2>2. RegistryOnItsWay'
    BY <1>2, <2>1 DEF RegistryOnItsWay, Committed
  <2> QED
    BY <1>3, <1>4, <2>2, ReceiptsStay DEF WriteRegistry
<1>5. CASE Stage(p, "listing", "registering")
  <2>1. registry' = registry /\ staged' /\ pc'[p] = "registering" /\ registry.id = id[p]
    BY <1>5 DEF Stage, At, To, Types, LocksOK, RegistryOnItsWay
  <2>2. RegistryOnItsWay'
    BY <1>1, <1>2, <2>1 DEF RegistryOnItsWay, Committed
  <2> QED
    BY <1>3, <1>5, <2>2, ReceiptsStay DEF Stage
<1>6. CASE CommitRegistry(p)
  <2>1. /\ registry' = registry /\ shared' = Append(shared, registry) /\ registry.id = id[p]
        /\ commit'[p] = Len(shared') /\ pc'[p] = "receipting"
    BY <1>6 DEF CommitRegistry, CommitStaged, At, To, Types, LocksOK, LocalsOK, RegistryOnItsWay
  <2>2. Len(shared') \in 1..Len(shared') /\ shared'[Len(shared')] = registry
    BY <2>1 DEF Types, SharedOK
  <2>3. RegistryOnItsWay'
    BY <1>1, <1>2, <2>1, <2>2 DEF RegistryOnItsWay, Committed
  <2> QED
    BY <1>3, <1>6, <2>3, ReceiptsStay DEF CommitRegistry
<1>7. CASE WriteReceipt(p)
  <2>1. pc'[p] = "verifying" /\ UNCHANGED <<registry, shared>>
    BY <1>7 DEF WriteReceipt, To, Types, LocksOK, anchorage
  <2>2. RegistryOnItsWay'
    BY <1>2, <2>1, RegistryStays DEF Committed
  <2>3. /\ commit[p] \in 1..Len(shared) /\ shared[commit[p]] = registry /\ registry.id = id[p]
        /\ id[p] \in Ids
    BY <1>7 DEF WriteReceipt, At, RegistryOnItsWay, Types, LocksOK
  <2>4. receipt' = [receipt EXCEPT ![id[p]] = [status |-> "VERIFIED", commit |-> commit[p],
                                               registry |-> registry]]
    BY <1>7 DEF WriteReceipt
  <2>5. ReceiptHoldsRegistry'
    BY <2>1, <2>3, <2>4 DEF ReceiptHoldsRegistry, Types, ReceiptOK
  <2> QED
    BY <1>3, <2>2, <2>5
<1> QED
  BY <1>4, <1>5, <1>6, <1>7

LEMMA InvOfTools ==
    ASSUME IInv, NEW m \in Stores, EditMemory(m) \/ CommitMemory(m)
    PROVE  IInv'
<1>1. UNCHANGED <<registry, unstaged, staged, shared, receipt, pc, id, commit>>
  BY DEF EditMemory, CommitMemory, anchorage, locals
<1> QED
  BY <1>1, TypesOfTools, RegistryStays, ReceiptsStay DEF IInv

LEMMA IInvInit == Init => IInv
<1> SUFFICES ASSUME Init PROVE IInv
  OBVIOUS
<1>1. RegistryOnItsWay /\ ReceiptHoldsRegistry
  BY DEF Init, RegistryOnItsWay, ReceiptHoldsRegistry, NoReceipt
<1> QED
  BY <1>1, TypesInit DEF IInv

LEMMA IInvStep == IInv /\ [Next]_vars => IInv'
<1> SUFFICES ASSUME IInv, [Next]_vars PROVE IInv'
  OBVIOUS
<1>1. ASSUME NEW p \in Appliers, NEW t \in Ids, Apply(p, t) PROVE IInv'
  BY <1>1, InvOfCalls
<1>2. ASSUME NEW p \in Appliers, Lock(p) \/ Step(p) \/ Fail(p) \/ Crash(p) PROVE IInv'
  <2>1. id[p] \in Ids
    BY <1>2 DEF Lock, Step, Fail, Crash, Prepare, Stage, CommitAnchor, WriteLink, FindLink, AddLink,
                CommitLink, WriteRegistry, CommitRegistry, WriteReceipt, Verify, VerifyRefused,
                WriteFailure, At, IInv, Types, LocksOK
  <2>2. ASSUME NEW m \in Stores, WriteLink(p, m) \/ FindLink(p, m) PROVE IInv'
    BY <2>2, InvOfLinks
  <2>3. CASE AddLink(p) \/ CommitLink(p)
    <3>1. store[p] \in Stores
      BY <2>3 DEF AddLink, CommitLink, At, IInv, Types, LocksOK
    <3> QED
      BY <2>3, <3>1, InvOfLinks
  <2>4. CASE Prepare(p) \/ Stage(p, "staging", "anchoring") \/ CommitAnchor(p)
    BY <2>4, StoresAssumption, InvOfLinks
  <2> QED
    BY <1>2, <2>1, <2>2, <2>3, <2>4, InvOfCalls, InvOfRegistry DEF Step
<1>3. ASSUME NEW m \in Stores, EditMemory(m) \/ CommitMemory(m) PROVE IInv'
  BY <1>3, InvOfTools
<1>4. CASE UNCHANGED vars
  BY <1>4, GroupsStay, RegistryStays, ReceiptsStay DEF IInv, Types, vars, native, anchorage, locals,
                                                       calls
<1> QED
  BY <1>1, <1>2, <1>3, <1>4 DEF Next

LEMMA IInvHolds == Spec => []IInv
BY IInvInit, IInvStep, PTL DEF Spec

-----------------------------------------------------------------------------
(* The links and their commits                                             *)

LEMMA LinksInit == Init => Links
BY NoneAssumption DEF Init, Links, RivalsAreKnown, StoreInHand, OwnLinks, RegistryProves, NoRegistry,
                      NoEntry, NoLink, NoNatives

\* What a commit held it holds.
LEMMA ProvesStays ==
    ASSUME Types, NEW m \in Stores, NEW n, NEW this, Proves(n, m, this),
           \/ history' = history
           \/ \E s \in Stores, c \in Content : history' = [history EXCEPT ![s] = Append(@, c)]
    PROVE  n \in 1..Len(history'[m]) /\ history'[m][n].link = this
<1>1. history[m] \in Seq(Content)
  BY DEF Types, NativeOK
<1>2. CASE history' = history
  BY <1>2 DEF Proves, Tip
<1>3. ASSUME NEW s \in Stores, NEW c \in Content, history' = [history EXCEPT ![s] = Append(@, c)]
      PROVE  n \in 1..Len(history'[m]) /\ history'[m][n].link = this
  <2>1. history'[m] = history[m] \/ history'[m] = Append(history[m], c)
    BY <1>3 DEF Types, NativeOK
  <2>2. n \in 1..Len(history[m]) /\ history[m][n].link = this
    BY <1>1 DEF Proves, Tip
  <2>3. CASE history'[m] = history[m]
    BY <2>2, <2>3
  <2>4. CASE history'[m] = Append(history[m], c)
    <3>1. Len(history'[m]) = Len(history[m]) + 1
      BY <1>1, <2>2, <2>4
    <3>2. \A i \in 1..Len(history[m]) : history'[m][i] = history[m][i]
      BY <1>1, <2>2, <2>4
    <3>3. Len(history[m]) \in Nat
      BY <1>1
    <3> QED
      BY <2>2, <3>1, <3>2, <3>3
  <2> QED
    BY <2>1, <2>3, <2>4
<1> QED
  BY <1>2, <1>3

\* The steps that touch neither links nor native histories nor the registry.
LEMMA LinksOfShared ==
    ASSUME IInv, Links, NEW p \in Appliers,
           \/ Lock(p) \/ Prepare(p) \/ Stage(p, "staging", "anchoring") \/ CommitAnchor(p)
           \/ Stage(p, "listing", "registering") \/ CommitRegistry(p) \/ WriteReceipt(p)
           \/ VerifyRefused(p) \/ Fail(p)
    PROVE  Links'
<1> USE DEF IInv, Types, LocksOK, LocalsOK
<1>1. UNCHANGED <<entry, index, history, registry, id, natives, store, contested>>
  BY DEF Lock, Prepare, Stage, CommitAnchor, CommitRegistry, WriteReceipt, VerifyRefused, Fail,
         native, locals, calls
<1>2. /\ pc[p] \notin {"idle"}
      /\ pc'[p] \notin {"idle", "adding", "committing"}
      /\ pc'[p] # "failing" => pc[p] \notin {"adding", "committing", "failing"}
      /\ pc'[p] \in {"locking", "preparing", "staging", "anchoring"} =>
            pc[p] \in {"locking", "preparing", "staging", "anchoring"}
      /\ \A q \in Appliers : q # p => pc'[q] = pc[q] /\ anchor'[q] = anchor[q]
      /\ anchor'[p] = anchor[p] \/ pc[p] = "anchoring"
  BY DEF Lock, Prepare, Stage, CommitAnchor, CommitRegistry, WriteReceipt, VerifyRefused, Fail,
         At, To, locals
<1>3. RivalsAreKnown' /\ RegistryProves'
  BY <1>1 DEF Links, RivalsAreKnown, RegistryProves, Proves, Tip
<1>4. StoreInHand'
  <2> SUFFICES ASSUME NEW q \in Appliers
               PROVE  /\ pc'[q] \notin {"adding", "committing", "failing"} => store[q] = None
                      /\ pc'[q] \in {"idle", "locking", "preparing", "staging", "anchoring"} =>
                            natives[q] = NoNatives
                      /\ pc'[q] \in {"adding", "committing"} =>
                            /\ entry[store[q]].link.id \in contested \cup {None, id[q]}
                            /\ id[q] \in contested \/ entry[store[q]].link = LinkOf(q)'
                      /\ pc'[q] = "committing" =>
                            id[q] \in contested \/ index[store[q]].link = LinkOf(q)'
    BY <1>1 DEF StoreInHand, NoNatives
  <2>1. CASE q = p
    BY <1>2, <2>1 DEF Links, StoreInHand
  <2>2. CASE q # p
    <3>1. pc'[q] = pc[q] /\ LinkOf(q)' = LinkOf(q)
      BY <1>1, <1>2, <2>2 DEF LinkOf
    <3> QED
      BY <3>1 DEF Links, StoreInHand
  <2> QED
    BY <2>1, <2>2
<1>5. OwnLinks'
  <2>1. \A q \in Appliers : LinkOf(q)' = LinkOf(q) \/ natives[q] = NoNatives
    BY <1>1, <1>2 DEF Links, StoreInHand, LinkOf
  <2>2. \A q \in Appliers : pc'[q] # "idle" => pc[q] # "idle"
    BY <1>2
  <2> QED
    BY <1>1, <2>1, <2>2 DEF Links, OwnLinks, Proves, Tip, HasCommit, NoNatives
<1> QED
  BY <1>3, <1>4, <1>5 DEF Links

LEMMA LinksOfCall ==
    ASSUME IInv, Links, NEW p \in Appliers, NEW t \in Ids, Apply(p, t)
    PROVE  Links'
<1> USE DEF IInv, Types, LocksOK, LocalsOK
<1>1. /\ UNCHANGED <<entry, index, history, registry, natives, store, anchor>>
      /\ contested \subseteq contested' /\ pc[p] = "idle"
      /\ (\E q \in Appliers : id[q] = t) => t \in contested'
      /\ id' = [id EXCEPT ![p] = t] /\ pc' = [pc EXCEPT ![p] = "locking"] /\ Clean
  BY DEF Apply, native, At, To
<1>2. \A q \in Appliers : q # p => id'[q] = id[q] /\ pc'[q] = pc[q] /\ LinkOf(q)' = LinkOf(q)
  BY <1>1 DEF LinkOf
<1>3. RivalsAreKnown'
  BY <1>1, <1>2 DEF Links, RivalsAreKnown
<1>4. StoreInHand'
  BY <1>1, <1>2 DEF Links, StoreInHand, HasCommit
<1>5. OwnLinks'
  <2>1. \A m \in Stores : HasCommit(m) => entry[m].link = Last(history[m]).link
    BY <1>1 DEF Clean, CleanStore, AtHead
  <2>2. natives[p] = NoNatives
    BY <1>1 DEF Links, StoreInHand
  <2> QED
    BY <1>1, <1>2, <2>1, <2>2 DEF Links, OwnLinks, Proves, Tip, HasCommit, NoNatives
<1>6. RegistryProves'
  BY <1>1 DEF Links, RegistryProves, Proves, Tip
<1> QED
  BY <1>3, <1>4, <1>5, <1>6 DEF Links

LEMMA LinksOfLeaving ==
    ASSUME IInv, Links, NEW p \in Appliers, Verify(p) \/ WriteFailure(p) \/ Crash(p)
    PROVE  Links'
<1> USE DEF IInv, Types, LocksOK, LocalsOK
<1>1. /\ UNCHANGED <<entry, index, history, registry, contested>>
      /\ id' = [id EXCEPT ![p] = None] /\ pc' = [pc EXCEPT ![p] = "idle"]
      /\ natives' = [natives EXCEPT ![p] = NoNatives] /\ store' = [store EXCEPT ![p] = None]
      /\ anchor' = [anchor EXCEPT ![p] = 0]
  BY DEF Verify, WriteFailure, Crash, Leave, To, native, calls
<1>2. \A q \in Appliers : q # p => /\ id'[q] = id[q] /\ pc'[q] = pc[q] /\ natives'[q] = natives[q]
                                   /\ store'[q] = store[q] /\ LinkOf(q)' = LinkOf(q)
  BY <1>1 DEF LinkOf
<1>3. RivalsAreKnown' /\ RegistryProves'
  BY <1>1, <1>2 DEF Links, RivalsAreKnown, RegistryProves, Proves, Tip
<1>4. StoreInHand'
  BY <1>1, <1>2 DEF Links, StoreInHand, HasCommit
<1>5. OwnLinks'
  BY <1>1, <1>2 DEF Links, OwnLinks, Proves, Tip, HasCommit
<1> QED
  BY <1>3, <1>4, <1>5 DEF Links

LEMMA LinksOfWriting ==
    ASSUME IInv, Links, NEW p \in Appliers, NEW m \in Stores, WriteLink(p, m)
    PROVE  Links'
<1> USE DEF IInv, Types, LocksOK, LocalsOK
<1>1. /\ UNCHANGED <<index, history, registry, id, natives, anchor, contested>>
      /\ pc[p] = "linking" /\ pc' = [pc EXCEPT ![p] = "adding"]
      /\ store' = [store EXCEPT ![p] = m] /\ entry'[m].link = LinkOf(p)
      /\ \A s \in Stores : s # m => entry'[s] = entry[s]
  BY DEF WriteLink, NativeOK, At, To, calls
<1>2. \A q \in Appliers : /\ LinkOf(q)' = LinkOf(q)
                          /\ q # p => pc'[q] = pc[q] /\ store'[q] = store[q]
  BY <1>1 DEF LinkOf
<1>3. LinkOf(p).id = id[p]
  BY DEF LinkOf
<1>4. RivalsAreKnown' /\ RegistryProves'
  BY <1>1 DEF Links, RivalsAreKnown, RegistryProves, Proves, Tip
<1>5. \A q \in Appliers : q # p => pc[q] \notin {"adding", "committing"}
  BY <1>1, OneApplier DEF Free
<1>6. StoreInHand'
  BY <1>1, <1>2, <1>3, <1>5 DEF Links, StoreInHand, HasCommit
<1>7. OwnLinks'
  <2>1. ASSUME NEW q \in Appliers, NEW s \in Stores, id[q] \notin contested, pc'[q] # "idle"
        PROVE  (entry'[s].link.id = id[q] /\ HasCommit(s) /\ store'[q] # s) =>
                   entry'[s].link = Last(history[s]).link
    <3>1. CASE q = p
      <4>1. store[p] = None /\ s # None /\ store'[p] = m
        BY <1>1, NoneAssumption DEF Links, StoreInHand
      <4>2. s # m => entry'[s] = entry[s]
        BY <1>1
      <4> QED
        BY <1>1, <2>1, <3>1, <4>1, <4>2 DEF Links, OwnLinks
    <3>2. CASE q # p
      <4>1. id[q] # id[p]
        BY <1>1, <1>2, <2>1, <3>2 DEF Links, RivalsAreKnown
      <4> QED
        BY <1>1, <1>2, <1>3, <2>1, <3>2, <4>1 DEF Links, OwnLinks
    <3> QED
      BY <3>1, <3>2
  <2>2. \A q \in Appliers : pc'[q] # "idle" => pc[q] # "idle"
    BY <1>1
  <2> QED
    BY <1>1, <1>2, <2>1, <2>2 DEF Links, OwnLinks, Proves, Tip, HasCommit
<1> QED
  BY <1>4, <1>6, <1>7 DEF Links

LEMMA LinksOfFinding ==
    ASSUME IInv, Links, NEW p \in Appliers, NEW m \in Stores, FindLink(p, m)
    PROVE  Links'
<1> USE DEF IInv, Types, LocksOK, LocalsOK
<1>1. /\ UNCHANGED <<entry, index, history, registry, pc, id, anchor, store, contested>>
      /\ pc[p] = "linking" /\ entry[m].link = LinkOf(p) /\ HasCommit(m)
      /\ natives' = [natives EXCEPT ![p] = [@ EXCEPT ![m] = Tip(m)]]
  BY DEF FindLink, native, At, calls
<1>2. RivalsAreKnown' /\ RegistryProves'
  BY <1>1 DEF Links, RivalsAreKnown, RegistryProves, Proves, Tip
<1>3. StoreInHand'
  BY <1>1 DEF Links, StoreInHand, HasCommit, LinkOf
<1>4. \A q \in Appliers, s \in Stores :
          natives'[q][s] = IF q = p /\ s = m THEN Tip(m) ELSE natives[q][s]
  BY <1>1
<1>5. id[p] \notin contested => Proves(Tip(m), m, LinkOf(p))
  <2>1. LinkOf(p).id = id[p] /\ store[p] = None /\ m # None
    BY <1>1, NoneAssumption DEF Links, StoreInHand, LinkOf
  <2>2. id[p] \notin contested => entry[m].link = Last(history[m]).link
    BY <1>1, <2>1 DEF Links, OwnLinks
  <2> QED
    BY <1>1, <2>2 DEF Proves, Tip, HasCommit, Last, NativeOK
<1>6. OwnLinks'
  BY <1>1, <1>4, <1>5 DEF Links, OwnLinks, Proves, Tip, HasCommit, LinkOf
<1> QED
  BY <1>2, <1>3, <1>6 DEF Links

LEMMA LinksOfAdding ==
    ASSUME IInv, Links, NEW p \in Appliers, AddLink(p)
    PROVE  Links'
<1> USE DEF IInv, Types, LocksOK, LocalsOK
<1>1. /\ UNCHANGED <<entry, history, registry, id, anchor, natives, store, contested>>
      /\ pc[p] = "adding" /\ pc' = [pc EXCEPT ![p] = "committing"]
      /\ index' = [index EXCEPT ![store[p]] = entry[store[p]]]
  BY DEF AddLink, At, To, locals, calls
<1>2. RivalsAreKnown' /\ RegistryProves'
  BY <1>1 DEF Links, RivalsAreKnown, RegistryProves, Proves, Tip
<1>3. \A q \in Appliers : q # p => pc'[q] = pc[q] /\ pc[q] \notin {"adding", "committing"}
  BY <1>1, OneApplier DEF Free
<1>4. store[p] \in Stores /\ index'[store[p]] = entry[store[p]]
  BY <1>1 DEF NativeOK
<1>5. pc'[p] = "committing" /\ \A q \in Appliers : LinkOf(q)' = LinkOf(q)
  BY <1>1 DEF LinkOf
<1>6. StoreInHand'
  BY <1>1, <1>3, <1>4, <1>5 DEF Links, StoreInHand
<1>7. OwnLinks'
  BY <1>1 DEF Links, OwnLinks, Proves, Tip, HasCommit, LinkOf
<1> QED
  BY <1>2, <1>6, <1>7 DEF Links

\* After a commit HEAD holds the index, unless there was nothing to commit
\* and there is no HEAD.
LEMMA CommittedIndex ==
    ASSUME Types, NEW m \in Stores, CommitIndex(m), index[m] # NoEntry
    PROVE  /\ history'[m] # <<>> /\ Last(history'[m]) = index[m] /\ Len(history'[m]) # 0
           /\ Len(history'[m]) \in 1..Len(history'[m]) /\ history'[m][Len(history'[m])] = index[m]
<1>1. history[m] \in Seq(Content) /\ index[m] \in Content
  BY DEF Types, NativeOK
<1>2. CASE index[m] = AtHead(m)
  <2>1. history[m] # <<>> /\ index[m] = Last(history[m]) /\ history' = history
    BY <1>2 DEF AtHead, HasCommit, CommitIndex
  <2> QED
    BY <1>1, <2>1 DEF Last
<1>3. CASE index[m] # AtHead(m)
  <2>1. history'[m] = Append(history[m], index[m])
    BY <1>3 DEF Types, NativeOK, CommitIndex
  <2> QED
    BY <1>1, <2>1 DEF Last
<1> QED
  BY <1>2, <1>3

LEMMA OthersStay ==
    ASSUME Types, NEW m \in Stores, CommitIndex(m)
    PROVE  /\ \A s \in Stores : s # m => history'[s] = history[s]
           /\ \/ history' = history
              \/ \E s \in Stores, c \in Content : history' = [history EXCEPT ![s] = Append(@, c)]
<1>1. index[m] \in Content
  BY DEF Types, NativeOK
<1> QED
  BY <1>1 DEF Types, NativeOK, CommitIndex

LEMMA LinksOfCommitting ==
    ASSUME IInv, Links, NEW p \in Appliers, CommitLink(p)
    PROVE  Links'
<1> USE DEF IInv, Types, LocksOK, LocalsOK
<1> DEFINE m == store[p]
<1>1. /\ UNCHANGED <<entry, index, registry, id, anchor, contested>>
      /\ pc[p] = "committing" /\ pc' = [pc EXCEPT ![p] = "linking"]
      /\ CommitIndex(m)
      /\ natives' = [natives EXCEPT ![p] = [@ EXCEPT ![m] = Len(history'[m])]]
      /\ store' = [store EXCEPT ![p] = None]
  BY DEF CommitLink, At, To, calls
<1>2. /\ m \in Stores
      /\ entry[m].link.id \in contested \cup {None, id[p]}
      /\ id[p] \in contested \/ (entry[m].link = LinkOf(p) /\ index[m].link = LinkOf(p))
  BY <1>1 DEF Links, StoreInHand
<1>3. id[p] \notin contested =>
          /\ history'[m] # <<>> /\ Last(history'[m]).link = LinkOf(p) /\ Len(history'[m]) # 0
          /\ Len(history'[m]) \in 1..Len(history'[m])
          /\ history'[m][Len(history'[m])].link = LinkOf(p)
  <2> SUFFICES ASSUME id[p] \notin contested
               PROVE  /\ history'[m] # <<>> /\ Last(history'[m]).link = LinkOf(p)
                      /\ Len(history'[m]) # 0 /\ Len(history'[m]) \in 1..Len(history'[m])
                      /\ history'[m][Len(history'[m])].link = LinkOf(p)
    OBVIOUS
  <2>1. index[m].link = LinkOf(p) /\ LinkOf(p).id # None
    BY <1>1, <1>2 DEF LinkOf
  <2>2. index[m] # NoEntry
    BY <2>1 DEF NoEntry, NoLink
  <2> QED
    BY <1>1, <1>2, <2>1, <2>2, CommittedIndex
<1>4. /\ \A s \in Stores : s # m => history'[s] = history[s]
      /\ \/ history' = history
         \/ \E s \in Stores, c \in Content : history' = [history EXCEPT ![s] = Append(@, c)]
  BY <1>1, <1>2, OthersStay
<1>5. \A q \in Appliers : LinkOf(q)' = LinkOf(q)
  BY <1>1 DEF LinkOf
<1>6. \A q \in Appliers : q # p => /\ pc'[q] = pc[q] /\ pc[q] \notin {"adding", "committing"}
                                   /\ natives'[q] = natives[q] /\ store'[q] = store[q]
  BY <1>1, OneApplier DEF Free
<1>7. \A s \in Stores : natives'[p][s] = IF s = m THEN Len(history'[m]) ELSE natives[p][s]
  BY <1>1
<1>8. RivalsAreKnown'
  BY <1>1 DEF Links, RivalsAreKnown
<1>9. RegistryProves'
  <2> SUFFICES ASSUME registry.id \notin contested \cup {None}, NEW s \in Stores
               PROVE  /\ registry.natives[s] \in 1..Len(history'[s])
                      /\ history'[s][registry.natives[s]].link =
                            [id |-> registry.id, anchor |-> registry.anchor]
    BY <1>1 DEF RegistryProves, Proves, Tip
  <2>1. Proves(registry.natives[s], s, [id |-> registry.id, anchor |-> registry.anchor])
    BY DEF Links, RegistryProves
  <2> QED
    BY <1>4, <2>1, ProvesStays
<1>10. StoreInHand'
  BY <1>1, <1>6 DEF Links, StoreInHand
<1>11. OwnLinks'
  <2> SUFFICES ASSUME NEW q \in Appliers, NEW s \in Stores, id[q] \notin contested, pc'[q] # "idle"
               PROVE  /\ (entry[s].link.id = id[q] /\ history'[s] # <<>> /\ store'[q] # s) =>
                            entry[s].link = Last(history'[s]).link
                      /\ natives'[q][s] # 0 => /\ natives'[q][s] \in 1..Len(history'[s])
                                               /\ history'[s][natives'[q][s]].link = LinkOf(q)
    BY <1>1, <1>5 DEF OwnLinks, Proves, Tip, HasCommit
  <2>1. pc[q] # "idle"
    BY <1>1, <1>6
  <2>2. natives[q][s] # 0 => Proves(natives[q][s], s, LinkOf(q))
    BY <2>1 DEF Links, OwnLinks
  <2>3. CASE s = m /\ q = p
    <3>1. natives'[q][s] = Len(history'[m]) /\ LinkOf(q) = entry[m].link
      BY <1>2, <1>7, <2>3
    <3> QED
      BY <1>3, <2>3, <3>1
  <2>5. CASE s = m /\ q # p
    <3>1. entry[s].link.id # id[q]
      BY <1>2, <2>1, <2>5 DEF Links, RivalsAreKnown
    <3> QED
      BY <1>4, <1>6, <2>2, <2>5, <3>1, ProvesStays
  <2>4. CASE s # m
    <3>1. history'[s] = history[s] /\ natives'[q][s] = natives[q][s] /\ (store'[q] # s => store[q] # s)
      BY <1>1, <1>4, <1>6, <1>7, <2>4
    <3> QED
      BY <2>1, <2>2, <3>1 DEF Links, OwnLinks, Proves, Tip, HasCommit
  <2> QED
    BY <2>3, <2>4, <2>5
<1> QED
  BY <1>8, <1>9, <1>10, <1>11 DEF Links

LEMMA LinksOfRegistry ==
    ASSUME IInv, Links, NEW p \in Appliers, WriteRegistry(p)
    PROVE  Links'
<1> USE DEF IInv, Types, LocksOK, LocalsOK
<1>1. /\ UNCHANGED <<entry, index, history, id, natives, anchor, store, contested>>
      /\ registry' = [id |-> id[p], anchor |-> anchor[p], natives |-> natives[p]]
      /\ pc[p] = "linking" /\ pc' = [pc EXCEPT ![p] = "listing"] /\ Unbound(p) = {}
  BY DEF WriteRegistry, native, locals, calls, At, To
<1>2. RivalsAreKnown'
  BY <1>1 DEF Links, RivalsAreKnown
<1>3. StoreInHand'
  BY <1>1 DEF Links, StoreInHand, HasCommit, LinkOf
<1>4. OwnLinks'
  BY <1>1 DEF Links, OwnLinks, Proves, Tip, HasCommit, LinkOf
<1>5. RegistryProves'
  <2>1. \A m \in Stores : natives[p][m] # 0
    BY <1>1 DEF Unbound
  <2> QED
    BY <1>1, <2>1 DEF Links, OwnLinks, RegistryProves, Proves, Tip, LinkOf
<1> QED
  BY <1>2, <1>3, <1>4, <1>5 DEF Links

LEMMA LinksOfEditing ==
    ASSUME IInv, Links, NEW m \in Stores, EditMemory(m)
    PROVE  Links'
<1> USE DEF IInv, Types, LocksOK, LocalsOK
<1> PICK this \in {entry[m].link, AtHead(m).link, NoLink} :
        /\ entry' = [entry EXCEPT ![m] = [link |-> this, text |-> entry[m].text + 1]]
        /\ contested' = contested \cup AtStake(m, this)
  BY DEF EditMemory
<1>1. UNCHANGED <<index, history, registry, pc, id, anchor, natives, store>>
  BY DEF EditMemory, locals
<1>2. \A q \in Appliers : LinkOf(q)' = LinkOf(q)
  BY <1>1 DEF LinkOf
<1>3. entry'[m].link = this /\ \A s \in Stores : s # m => entry'[s] = entry[s]
  BY DEF NativeOK
<1>4. RivalsAreKnown' /\ RegistryProves'
  BY <1>1 DEF Links, RivalsAreKnown, RegistryProves, Proves, Tip
<1>5. ASSUME NEW q \in Appliers, store[q] = m, pc[q] # "idle"
      PROVE  this = entry[m].link \/ (id[q] \in contested' /\ this.id \in contested' \cup {None})
  BY <1>5 DEF AtStake
<1>6. StoreInHand'
  <2> SUFFICES ASSUME NEW q \in Appliers
               PROVE  /\ pc[q] \in {"adding", "committing"} =>
                            /\ entry'[store[q]].link.id \in contested' \cup {None, id[q]}
                            /\ id[q] \in contested' \/ entry'[store[q]].link = LinkOf(q)
                      /\ pc[q] = "committing" =>
                            id[q] \in contested' \/ index[store[q]].link = LinkOf(q)
    BY <1>1, <1>2 DEF Links, StoreInHand
  <2>1. CASE store[q] = m
    BY <1>3, <1>5, <2>1 DEF Links, StoreInHand
  <2>2. CASE store[q] # m
    BY <1>3, <2>2 DEF Links, StoreInHand
  <2> QED
    BY <2>1, <2>2
<1>7. OwnLinks'
  <2> SUFFICES ASSUME NEW q \in Appliers, NEW s \in Stores, id[q] \notin contested', pc[q] # "idle"
               PROVE  /\ (entry'[s].link.id = id[q] /\ HasCommit(s) /\ store[q] # s) =>
                            entry'[s].link = Last(history[s]).link
                      /\ natives[q][s] # 0 => Proves(natives[q][s], s, LinkOf(q))
    BY <1>1, <1>2 DEF OwnLinks, Proves, Tip, HasCommit
  <2>1. /\ (entry[s].link.id = id[q] /\ HasCommit(s) /\ store[q] # s) =>
              entry[s].link = Last(history[s]).link
        /\ natives[q][s] # 0 => Proves(natives[q][s], s, LinkOf(q))
    BY DEF Links, OwnLinks
  <2>2. NoLink.id # id[q]
    BY DEF NoLink
  <2> QED
    BY <1>3, <2>1, <2>2 DEF AtHead
<1> QED
  BY <1>4, <1>6, <1>7 DEF Links

LEMMA LinksOfRecording ==
    ASSUME IInv, Links, NEW m \in Stores, CommitMemory(m)
    PROVE  Links'
<1> USE DEF IInv, Types, LocksOK, LocalsOK
<1>1. /\ UNCHANGED <<entry, registry, pc, id, anchor, natives, store, contested>>
      /\ HasCommit(m)
      /\ history' = [history EXCEPT ![m] = Append(@, entry[m])]
      /\ index' = [index EXCEPT ![m] = entry[m]]
  BY DEF CommitMemory, locals, calls
<1>2. \A q \in Appliers : LinkOf(q)' = LinkOf(q)
  BY <1>1 DEF LinkOf
<1>3. \E s \in Stores, c \in Content : history' = [history EXCEPT ![s] = Append(@, c)]
  BY <1>1 DEF NativeOK
<1>4. /\ Last(history'[m]) = entry[m] /\ index'[m] = entry[m]
      /\ \A s \in Stores : s # m => history'[s] = history[s] /\ index'[s] = index[s]
  BY <1>1 DEF NativeOK, Last
<1>5. RivalsAreKnown'
  BY <1>1 DEF Links, RivalsAreKnown
<1>6. RegistryProves'
  BY <1>1, <1>3, ProvesStays DEF Links, RegistryProves, Proves, Tip
<1>7. StoreInHand'
  BY <1>1, <1>2, <1>4 DEF Links, StoreInHand
<1>8. OwnLinks'
  <2> SUFFICES ASSUME NEW q \in Appliers, NEW s \in Stores, id[q] \notin contested, pc[q] # "idle"
               PROVE  /\ (entry[s].link.id = id[q] /\ history'[s] # <<>> /\ store[q] # s) =>
                            entry[s].link = Last(history'[s]).link
                      /\ natives[q][s] # 0 => /\ natives[q][s] \in 1..Len(history'[s])
                                              /\ history'[s][natives[q][s]].link = LinkOf(q)
    BY <1>1, <1>2 DEF OwnLinks, Proves, Tip, HasCommit
  <2>1. natives[q][s] # 0 => Proves(natives[q][s], s, LinkOf(q))
    BY DEF Links, OwnLinks
  <2>2. (entry[s].link.id = id[q] /\ history'[s] # <<>> /\ store[q] # s) =>
            entry[s].link = Last(history'[s]).link
    BY <1>4 DEF Links, OwnLinks, HasCommit
  <2> QED
    BY <1>3, <2>1, <2>2, ProvesStays
<1> QED
  BY <1>5, <1>6, <1>7, <1>8 DEF Links

LEMMA LinksStep == IInv /\ Links /\ [Next]_vars => Links'
<1> SUFFICES ASSUME IInv, Links, [Next]_vars PROVE Links'
  OBVIOUS
<1>1. ASSUME NEW p \in Appliers, NEW t \in Ids, Apply(p, t) PROVE Links'
  BY <1>1, LinksOfCall
<1>2. ASSUME NEW p \in Appliers, NEW m \in Stores, WriteLink(p, m) \/ FindLink(p, m) PROVE Links'
  BY <1>2, LinksOfWriting, LinksOfFinding
<1>3. ASSUME NEW p \in Appliers, Lock(p) \/ Step(p) \/ Fail(p) \/ Crash(p) PROVE Links'
  BY <1>2, <1>3, LinksOfShared, LinksOfLeaving, LinksOfAdding, LinksOfCommitting, LinksOfRegistry
     DEF Step
<1>4. ASSUME NEW m \in Stores, EditMemory(m) \/ CommitMemory(m) PROVE Links'
  BY <1>4, LinksOfEditing, LinksOfRecording
<1>5. CASE UNCHANGED vars
  BY <1>5 DEF vars, native, locals, calls, Links, RivalsAreKnown, StoreInHand, OwnLinks,
              RegistryProves, Proves, Tip, HasCommit, LinkOf
<1> QED
  BY <1>1, <1>3, <1>4, <1>5 DEF Next

LEMMA LinksHold == Spec => []Links
BY IInvHolds, LinksInit, LinksStep, PTL DEF Spec

-----------------------------------------------------------------------------
(* Calls that nothing disturbs                                             *)

\* A store that the owner of the lock has bound is as verify_federation wants it.
Bound(p, m) ==
    CleanStore(m) /\ HasCommit(m) /\ Tip(m) = natives[p][m] /\ entry[m].link = LinkOf(p)

\* Of the stores only the one in hand is not clean, and those bound stay as
\* they were committed.
StoresAt(p) == \A m \in Stores \ {store[p]} :
                   IF natives[p][m] = 0 THEN CleanStore(m) ELSE Bound(p, m)

\* The store in hand is not bound yet; its entry point has the link, and then
\* its index.
InHandAt(p) == /\ pc[p] \in {"adding", "committing"} =>
                      natives[p][store[p]] = 0 /\ entry[store[p]].link = LinkOf(p)
               /\ pc[p] = "committing" => index[store[p]] = entry[store[p]]

\* With the registry written, every store is bound, and the commit and the
\* receipt of the registry are made as verify_federation looks for them.
ListedAt(p) ==
    /\ pc[p] \in {"listing", "registering", "receipting", "verifying"} =>
          /\ \A m \in Stores : natives[p][m] # 0
          /\ registry = [id |-> id[p], anchor |-> anchor[p], natives |-> natives[p]]
    /\ pc[p] = "receipting" => ~staged /\ commit[p] = Len(shared)
    /\ pc[p] = "verifying" =>
          /\ ~staged
          /\ receipt[id[p]] = [status |-> "VERIFIED", commit |-> Len(shared),
                               registry |-> registry]

WorkAt(p) == StoresAt(p) /\ InHandAt(p) /\ ListedAt(p)

Settled == Clean /\ (registry.id # None => Verified)

\* No tool has written into a store.
Untouched(m) == entry[m].text = 0 /\ index[m].text = 0 /\ AtHead(m).text = 0

\* While nothing else goes wrong, the federation is settled or in the hands of
\* one call; no tool has edited a memory, and no call is about to fail.
Quiet == Undisturbed => /\ \A m \in Stores : Untouched(m)
                        /\ \A p \in Appliers : pc[p] # "failing"
                        /\ (\A p \in Appliers : pc[p] \in Free) => Settled
                        /\ \A p \in Appliers : pc[p] \notin Free => WorkAt(p)

LEMMA QuietInit == Init => Quiet
<1> SUFFICES ASSUME Init PROVE Quiet
  OBVIOUS
<1>1. registry.id = None /\ ~staged
  BY DEF Init, NoRegistry
<1>2. \A m \in Stores : AtHead(m) = NoEntry /\ entry[m] = NoEntry /\ index[m] = NoEntry
  BY DEF Init, AtHead, HasCommit, Last
<1>3. \A m \in Stores : CleanStore(m) /\ Untouched(m)
  BY <1>2 DEF CleanStore, Untouched, NoEntry
<1>4. \A p \in Appliers : pc[p] = "idle"
  BY DEF Init
<1> QED
  BY <1>1, <1>3, <1>4 DEF Quiet, Settled, Clean, Free

\* A store that a step leaves alone looks to Git as it did.
LEMMA StoreStays ==
    ASSUME NEW m, entry'[m] = entry[m], index'[m] = index[m], history'[m] = history[m]
    PROVE  /\ CleanStore(m)' = CleanStore(m) /\ HasCommit(m)' = HasCommit(m)
           /\ Tip(m)' = Tip(m) /\ AtHead(m)' = AtHead(m) /\ Untouched(m)' = Untouched(m)
BY DEF CleanStore, HasCommit, Tip, AtHead, Untouched

\* The owner of the lock is alone at work, and stays so.
LEMMA QuietOfOwner ==
    ASSUME Quiet, Undisturbed, NEW p \in Appliers, pc'[p] \notin Free, WorkAt(p)',
           \A q \in Appliers : q # p => pc'[q] = pc[q] /\ pc[q] \in Free,
           \A m \in Stores : Untouched(m)'
    PROVE  Quiet'
<1>1. \A q \in Appliers : pc'[q] # "failing"
  BY DEF Quiet, Free
<1>2. \A q \in Appliers : pc'[q] \notin Free => WorkAt(q)'
  <2> SUFFICES ASSUME NEW q \in Appliers, pc'[q] \notin Free PROVE WorkAt(q)'
    OBVIOUS
  <2>1. q = p
    OBVIOUS
  <2> QED
    BY <2>1
<1> QED
  BY <1>1, <1>2 DEF Quiet

LEMMA QuietOfCall ==
    ASSUME IInv, Quiet, Undisturbed, NEW p \in Appliers, NEW t \in Ids, Apply(p, t)
    PROVE  Quiet'
<1> USE DEF IInv, Types, LocksOK
<1>1. /\ UNCHANGED <<entry, index, history, registry, staged, shared, receipt>>
      /\ UNCHANGED <<anchor, natives, store, commit>>
      /\ pc' = [pc EXCEPT ![p] = "locking"] /\ pc[p] = "idle" /\ id' = [id EXCEPT ![p] = t]
  BY DEF Apply, native, anchorage, At, To
<1>2. (\A q \in Appliers : pc'[q] \in Free) => Settled'
  <2>1. (\A q \in Appliers : pc'[q] \in Free) => Settled
    BY <1>1 DEF Quiet, Free
  <2>2. Settled' = Settled
    BY <1>1 DEF Settled, Clean, CleanStore, AtHead, HasCommit, Verified, Tip
  <2> QED
    BY <2>1, <2>2
<1>3. ASSUME NEW q \in Appliers, pc'[q] \notin Free PROVE WorkAt(q)'
  <2>1. q # p /\ pc'[q] = pc[q] /\ id'[q] = id[q] /\ LinkOf(q)' = LinkOf(q)
    BY <1>1, <1>3 DEF Free, LinkOf
  <2>2. WorkAt(q)
    BY <1>3, <2>1 DEF Quiet
  <2> QED
    BY <1>1, <2>1, <2>2 DEF WorkAt, StoresAt, InHandAt, ListedAt, Bound, CleanStore, AtHead,
                            HasCommit, Tip
<1>4. \A m \in Stores : Untouched(m)'
  BY <1>1, StoreStays DEF Quiet
<1> QED
  BY <1>1, <1>2, <1>3, <1>4 DEF Quiet, Free

\* Whoever gets the lock finds the federation as its preflight did or better.
LEMMA QuietOfLock ==
    ASSUME IInv, Links, Quiet, Undisturbed, NEW p \in Appliers, Lock(p)
    PROVE  Quiet'
<1> USE DEF IInv, Types, LocksOK
<1>1. /\ UNCHANGED <<entry, index, history, natives, store>>
      /\ pc' = [pc EXCEPT ![p] = "preparing"] /\ pc[p] = "locking" /\ lock = None
  BY DEF Lock, native, locals, At, To
<1>2. \A q \in Appliers : pc[q] \in Free
  BY <1>1, NoneAssumption
<1>3. Settled /\ natives[p] = NoNatives
  BY <1>1, <1>2 DEF Quiet, Links, StoreInHand
<1>4. \A m \in Stores : CleanStore(m)' /\ natives'[p][m] = 0
  BY <1>1, <1>3, StoreStays DEF Settled, Clean, NoNatives
<1>5. WorkAt(p)'
  BY <1>1, <1>4 DEF WorkAt, StoresAt, InHandAt, ListedAt
<1>6. \A m \in Stores : Untouched(m)'
  BY <1>1, StoreStays DEF Quiet
<1> QED
  BY <1>1, <1>2, <1>5, <1>6, QuietOfOwner DEF Quiet, Free

\* What the owner does in the shared repository before it links.
LEMMA QuietOfAnchor ==
    ASSUME IInv, Links, Quiet, Undisturbed, NEW p \in Appliers,
           Prepare(p) \/ Stage(p, "staging", "anchoring") \/ CommitAnchor(p)
    PROVE  Quiet'
<1> USE DEF IInv, Types, LocksOK
<1>1. /\ UNCHANGED <<entry, index, history, natives, store>>
      /\ pc[p] \in {"preparing", "staging", "anchoring"}
      /\ pc'[p] \in {"staging", "anchoring", "linking"}
      /\ \A q \in Appliers : q # p => pc'[q] = pc[q]
  BY DEF Prepare, Stage, CommitAnchor, native, locals, At, To
<1>2. \A q \in Appliers : q # p => pc[q] \in Free
  BY <1>1, OneApplier DEF Free
<1>3. natives[p] = NoNatives /\ store[p] = None /\ WorkAt(p)
  BY <1>1 DEF Links, StoreInHand, Quiet, Free
<1>4. \A m \in Stores : CleanStore(m)' /\ natives'[p][m] = 0
  BY <1>1, <1>3, StoreStays, NoneAssumption DEF WorkAt, StoresAt, NoNatives
<1>5. WorkAt(p)'
  BY <1>1, <1>4 DEF WorkAt, StoresAt, InHandAt, ListedAt
<1>6. \A m \in Stores : Untouched(m)'
  BY <1>1, StoreStays DEF Quiet
<1> QED
  BY <1>1, <1>2, <1>5, <1>6, QuietOfOwner DEF Quiet, Free

LEMMA QuietOfLinking ==
    ASSUME IInv, Links, Quiet, Undisturbed, NEW p \in Appliers, NEW m \in Stores,
           WriteLink(p, m) \/ FindLink(p, m) \/ WriteRegistry(p)
    PROVE  Quiet'
<1> USE DEF IInv, Types, LocksOK
<1>1. /\ UNCHANGED <<index, history, id, anchor>> /\ pc[p] = "linking"
      /\ pc'[p] \in {"adding", "linking", "listing"}
      /\ \A q \in Appliers : q # p => pc'[q] = pc[q]
  BY DEF WriteLink, FindLink, WriteRegistry, native, locals, At, To
<1>2. \A q \in Appliers : q # p => pc[q] \in Free
  BY <1>1, OneApplier DEF Free
<1>3. store[p] = None /\ WorkAt(p) /\ LinkOf(p)' = LinkOf(p)
  BY <1>1 DEF Links, StoreInHand, Quiet, Free, LinkOf
<1>4. \A s \in Stores : IF natives[p][s] = 0 THEN CleanStore(s) ELSE Bound(p, s)
  BY <1>3, NoneAssumption DEF WorkAt, StoresAt
<1>5. ASSUME WriteLink(p, m) PROVE WorkAt(p)' /\ \A s \in Stores : Untouched(s)'
  <2>1. /\ natives' = natives /\ store'[p] = m /\ natives[p][m] = 0 /\ pc'[p] = "adding"
        /\ \A s \in Stores : s # m => entry'[s] = entry[s]
        /\ entry'[m] = [link |-> LinkOf(p), text |-> entry[m].text]
    BY <1>5 DEF WriteLink, NativeOK, To, Unbound
  <2>2. StoresAt(p)'
    BY <1>1, <1>3, <1>4, <2>1, StoreStays DEF StoresAt, Bound
  <2>3. InHandAt(p)' /\ ListedAt(p)'
    BY <1>1, <1>3, <2>1 DEF InHandAt, ListedAt
  <2>4. \A s \in Stores : Untouched(s)'
    BY <1>1, <2>1 DEF Quiet, Untouched, AtHead, HasCommit
  <2> QED
    BY <2>2, <2>3, <2>4 DEF WorkAt
<1>6. ASSUME FindLink(p, m) PROVE WorkAt(p)' /\ \A s \in Stores : Untouched(s)'
  <2>1. /\ entry' = entry /\ store' = store /\ natives[p][m] = 0 /\ pc' = pc
        /\ entry[m].link = LinkOf(p) /\ HasCommit(m)
        /\ natives'[p] = [natives[p] EXCEPT ![m] = Tip(m)]
    BY <1>6 DEF FindLink, LocalsOK, native, Unbound
  <2>2. \A s \in Stores : natives'[p][s] = IF s = m THEN Tip(m) ELSE natives[p][s]
    BY <2>1 DEF LocalsOK
  <2>3. StoresAt(p)'
    BY <1>1, <1>3, <1>4, <2>1, <2>2, StoreStays DEF StoresAt, Bound
  <2>4. InHandAt(p)' /\ ListedAt(p)'
    BY <1>1, <2>1 DEF InHandAt, ListedAt
  <2>5. \A s \in Stores : Untouched(s)'
    BY <1>1, <2>1, StoreStays DEF Quiet
  <2> QED
    BY <2>3, <2>4, <2>5 DEF WorkAt
<1>7. ASSUME WriteRegistry(p) PROVE WorkAt(p)' /\ \A s \in Stores : Untouched(s)'
  <2>1. /\ UNCHANGED <<entry, store, natives>> /\ pc'[p] = "listing"
        /\ registry' = [id |-> id[p], anchor |-> anchor[p], natives |-> natives[p]]
        /\ \A s \in Stores : natives[p][s] # 0
    BY <1>7 DEF WriteRegistry, To, native, locals, Unbound
  <2>2. StoresAt(p)'
    BY <1>1, <1>3, <1>4, <2>1, StoreStays DEF StoresAt, Bound
  <2>3. InHandAt(p)' /\ ListedAt(p)'
    BY <1>1, <2>1 DEF InHandAt, ListedAt
  <2>4. \A s \in Stores : Untouched(s)'
    BY <1>1, <2>1, StoreStays DEF Quiet
  <2> QED
    BY <2>2, <2>3, <2>4 DEF WorkAt
<1> QED
  BY <1>1, <1>2, <1>5, <1>6, <1>7, QuietOfOwner DEF Quiet, Free

LEMMA QuietOfAdding ==
    ASSUME IInv, Links, Quiet, Undisturbed, NEW p \in Appliers, AddLink(p)
    PROVE  Quiet'
<1> USE DEF IInv, Types, LocksOK
<1>1. /\ UNCHANGED <<entry, history, registry, natives, store, id, anchor>>
      /\ pc[p] = "adding" /\ pc'[p] = "committing"
      /\ \A q \in Appliers : q # p => pc'[q] = pc[q]
      /\ index' = [index EXCEPT ![store[p]] = entry[store[p]]]
  BY DEF AddLink, locals, At, To
<1>2. \A q \in Appliers : q # p => pc[q] \in Free
  BY <1>1, OneApplier DEF Free
<1>3. WorkAt(p) /\ store[p] \in Stores
  BY <1>1 DEF Quiet, Free
<1>4. /\ index'[store[p]] = entry[store[p]]
      /\ \A s \in Stores : s # store[p] => index'[s] = index[s]
  BY <1>1, <1>3 DEF NativeOK
<1>5. \A s \in Stores : Untouched(s)'
  BY <1>1, <1>4 DEF Quiet, Untouched, AtHead, HasCommit
<1>6. StoresAt(p)'
  <2>1. \A s \in Stores : s # store[p] => CleanStore(s)' = CleanStore(s)
    BY <1>1, <1>4, StoreStays
  <2> QED
    BY <1>1, <1>3, <2>1 DEF WorkAt, StoresAt, Bound, HasCommit, Tip, LinkOf
<1>7. InHandAt(p)' /\ ListedAt(p)'
  BY <1>1, <1>3, <1>4 DEF WorkAt, InHandAt, ListedAt, LinkOf
<1> QED
  BY <1>1, <1>2, <1>5, <1>6, <1>7, QuietOfOwner DEF WorkAt, Quiet, Free

\* _commit_store leaves the store bound, whether it found something to commit
\* or not: HEAD is what the index holds.
LEMMA QuietOfCommitting ==
    ASSUME IInv, Links, Quiet, Undisturbed, NEW p \in Appliers, CommitLink(p)
    PROVE  Quiet'
<1> USE DEF IInv, Types, LocksOK
<1> PICK m \in Stores : m = store[p]
  BY DEF CommitLink, At
<1>1. /\ UNCHANGED <<entry, index, registry, id, anchor>>
      /\ pc[p] = "committing" /\ pc'[p] = "linking"
      /\ \A q \in Appliers : q # p => pc'[q] = pc[q]
      /\ CommitIndex(m)
      /\ natives' = [natives EXCEPT ![p] = [@ EXCEPT ![m] = Len(history'[m])]]
      /\ store'[p] = None
  BY DEF CommitLink, At, To
<1>2. \A q \in Appliers : q # p => pc[q] \in Free
  BY <1>1, OneApplier DEF Free
<1>3. /\ WorkAt(p) /\ LinkOf(p)' = LinkOf(p)
      /\ entry[m].link = LinkOf(p) /\ index[m] = entry[m]
  BY <1>1 DEF Quiet, Free, WorkAt, InHandAt, LinkOf
<1>4. \A s \in Stores : natives'[p][s] = IF s = m THEN Len(history'[m]) ELSE natives[p][s]
  BY <1>1, <1>3 DEF LocalsOK
<1>5. /\ history'[m] # <<>> /\ Last(history'[m]) = index[m] /\ Len(history'[m]) # 0
      /\ \A s \in Stores : s # m => history'[s] = history[s]
  <2>1. index[m].link.id # None
    BY <1>1, <1>3 DEF LinkOf
  <2>2. index[m] # NoEntry
    BY <2>1 DEF NoEntry, NoLink
  <2> QED
    BY <1>1, <2>2, CommittedIndex, OthersStay
<1>6. StoresAt(p)'
  <2>1. CleanStore(m)' /\ HasCommit(m)' /\ Tip(m)' = natives'[p][m] /\ entry'[m].link = LinkOf(p)'
    BY <1>1, <1>3, <1>4, <1>5 DEF CleanStore, HasCommit, AtHead, Tip
  <2>2. ASSUME NEW s \in Stores, s # m
        PROVE  IF natives'[p][s] = 0 THEN CleanStore(s)' ELSE Bound(p, s)'
    <3>1. natives'[p][s] = natives[p][s] /\ CleanStore(s)' = CleanStore(s)
          /\ HasCommit(s)' = HasCommit(s) /\ Tip(s)' = Tip(s)
      BY <1>1, <1>4, <1>5, <2>2, StoreStays
    <3> QED
      BY <1>1, <1>3, <2>2, <3>1 DEF WorkAt, StoresAt, Bound
  <2>3. natives'[p][m] # 0
    BY <1>4, <1>5
  <2> QED
    BY <2>1, <2>2, <2>3 DEF StoresAt, Bound
<1>7. InHandAt(p)' /\ ListedAt(p)'
  BY <1>1 DEF InHandAt, ListedAt
<1>8. \A s \in Stores : Untouched(s)'
  <2>1. Untouched(m)'
    BY <1>1, <1>5 DEF Quiet, Untouched, AtHead, HasCommit
  <2>2. ASSUME NEW s \in Stores, s # m PROVE Untouched(s)'
    BY <1>1, <1>5, <2>2, StoreStays DEF Quiet
  <2> QED
    BY <2>1, <2>2
<1> QED
  BY <1>1, <1>2, <1>6, <1>7, <1>8, QuietOfOwner DEF WorkAt, Free

LEMMA QuietOfRegistry ==
    ASSUME IInv, Quiet, Undisturbed, NEW p \in Appliers,
           Stage(p, "listing", "registering") \/ CommitRegistry(p) \/ WriteReceipt(p)
    PROVE  Quiet'
<1> USE DEF IInv, Types, LocksOK
<1>1. /\ UNCHANGED <<entry, index, history, registry, natives, store, id, anchor>>
      /\ pc[p] \in {"listing", "registering", "receipting"}
      /\ pc'[p] \in {"registering", "receipting", "verifying"}
      /\ \A q \in Appliers : q # p => pc'[q] = pc[q]
  BY DEF Stage, CommitRegistry, WriteReceipt, native, anchorage, locals, At, To
<1>2. \A q \in Appliers : q # p => pc[q] \in Free
  BY <1>1, OneApplier DEF Free
<1>3. WorkAt(p)
  BY <1>1 DEF Quiet, Free
<1>4. StoresAt(p)' /\ InHandAt(p)'
  BY <1>1, <1>3 DEF WorkAt, StoresAt, InHandAt, Bound, CleanStore, AtHead, HasCommit, Tip,
                    LinkOf
<1>5. ListedAt(p)'
  <2>1. CASE Stage(p, "listing", "registering")
    BY <1>1, <1>3, <2>1 DEF WorkAt, ListedAt, Stage, At, To
  <2>2. CASE CommitRegistry(p)
    <3>1. pc'[p] = "receipting" /\ ~staged' /\ commit'[p] = Len(shared')
      BY <2>2 DEF CommitRegistry, CommitStaged, LocalsOK, To
    <3> QED
      BY <1>1, <1>3, <3>1 DEF WorkAt, ListedAt
  <2>3. CASE WriteReceipt(p)
    <3>1. /\ UNCHANGED <<staged, shared>> /\ pc[p] = "receipting" /\ pc'[p] = "verifying"
          /\ receipt'[id[p]] = [status |-> "VERIFIED", commit |-> commit[p],
                                registry |-> registry]
      BY <2>3 DEF WriteReceipt, ReceiptOK, anchorage, At, To
    <3> QED
      BY <1>1, <1>3, <3>1 DEF WorkAt, ListedAt
  <2> QED
    BY <2>1, <2>2, <2>3
<1>6. \A m \in Stores : Untouched(m)'
  BY <1>1, StoreStays DEF Quiet
<1> QED
  BY <1>1, <1>2, <1>4, <1>5, <1>6, QuietOfOwner DEF WorkAt, Quiet, Free

\* verify_federation accepts what an undisturbed call has done.
LEMMA QuietCallIsVerified ==
    ASSUME IInv, Links, Quiet, Undisturbed, NEW p \in Appliers, pc[p] = "verifying"
    PROVE  Verified /\ Clean
<1> USE DEF IInv, Types, LocksOK
<1>1. WorkAt(p) /\ store[p] = None /\ id[p] # None
  BY DEF Quiet, Free, Links, StoreInHand
<1>2. /\ registry = [id |-> id[p], anchor |-> anchor[p], natives |-> natives[p]] /\ ~staged
      /\ receipt[registry.id] = [status |-> "VERIFIED", commit |-> Len(shared),
                                 registry |-> registry]
  BY <1>1 DEF WorkAt, ListedAt
<1>3. \A m \in Stores : Bound(p, m)
  BY <1>1, NoneAssumption DEF WorkAt, ListedAt, StoresAt
<1>4. \A m \in Stores : /\ CleanStore(m) /\ Tip(m) = registry.natives[m]
                        /\ entry[m].link = [id |-> registry.id, anchor |-> registry.anchor]
  BY <1>2, <1>3 DEF Bound, LinkOf
<1> QED
  BY <1>1, <1>2, <1>4 DEF Verified, Clean

LEMMA QuietOfLeaving ==
    ASSUME IInv, Links, Quiet, Undisturbed, NEW p \in Appliers,
           Verify(p) \/ VerifyRefused(p) \/ WriteFailure(p)
    PROVE  Quiet'
<1> USE DEF IInv, Types, LocksOK
<1>1. Verify(p) /\ pc[p] = "verifying"
  BY QuietCallIsVerified DEF Verify, VerifyRefused, WriteFailure, Quiet, At
<1>2. /\ UNCHANGED <<entry, index, history, registry, staged, shared, receipt>>
      /\ pc'[p] = "idle" /\ \A q \in Appliers : q # p => pc'[q] = pc[q] /\ pc[q] \in Free
  BY <1>1, OneApplier DEF Verify, Leave, To, native, anchorage, Free
<1>3. Settled
  BY <1>1, QuietCallIsVerified DEF Settled
<1>4. Settled' = Settled
  BY <1>2 DEF Settled, Clean, CleanStore, AtHead, HasCommit, Verified, Tip
<1>5. \A m \in Stores : Untouched(m)'
  BY <1>2, StoreStays DEF Quiet
<1> QED
  BY <1>2, <1>3, <1>4, <1>5 DEF Quiet, Free

LEMMA QuietStep == IInv /\ Links /\ Quiet /\ [Next]_vars => Quiet'
<1> SUFFICES ASSUME IInv, Links, Quiet, [Next]_vars, Undisturbed' PROVE Quiet'
  BY DEF Quiet
<1>1. \/ /\ Undisturbed
         /\ \A p \in Appliers : ~Fail(p) /\ ~Crash(p)
         /\ \A m \in Stores : ~EditMemory(m)
      \/ UNCHANGED vars
  <2>1. disturbances \in Nat
    BY Bounds DEF IInv, Types, SpentOK
  <2>2. disturbances' = disturbances \/ disturbances' = disturbances + 1
    BY DEF Next, Step, Apply, Lock, Prepare, Stage, CommitAnchor, WriteLink, FindLink, AddLink,
           CommitLink, WriteRegistry, CommitRegistry, WriteReceipt, Verify, VerifyRefused,
           WriteFailure, Fail, Crash, EditMemory, CommitMemory, Disturbed, vars
  <2>3. Undisturbed
    BY <2>1, <2>2 DEF Undisturbed
  <2>4. ~Disturbed
    BY <2>1 DEF Undisturbed, Disturbed
  <2> QED
    BY <2>3, <2>4 DEF Fail, Crash, EditMemory
<1>2. CASE UNCHANGED vars
  <2>1. \A m \in Stores : Untouched(m)' = Untouched(m)
    BY <1>2 DEF vars, native, Untouched, AtHead, HasCommit
  <2>2. Settled' = Settled
    BY <1>2 DEF vars, native, anchorage, Settled, Clean, CleanStore, AtHead, HasCommit, Verified, Tip
  <2>3. \A p \in Appliers : WorkAt(p)' = WorkAt(p)
    BY <1>2 DEF vars, native, anchorage, locals, WorkAt, StoresAt, InHandAt, ListedAt, Bound,
                CleanStore, AtHead, HasCommit, Tip, LinkOf
  <2> QED
    BY <1>2, <2>1, <2>2, <2>3 DEF vars, Quiet, Undisturbed
<1>3. CASE ~(UNCHANGED vars)
  <2>1. ASSUME NEW p \in Appliers, NEW t \in Ids, Apply(p, t) PROVE Quiet'
    BY <1>1, <1>3, <2>1, QuietOfCall
  <2>2. ASSUME NEW p \in Appliers, NEW m \in Stores, WriteLink(p, m) \/ FindLink(p, m)
        PROVE  Quiet'
    BY <1>1, <1>3, <2>2, QuietOfLinking
  <2>3. ASSUME NEW p \in Appliers, WriteRegistry(p) PROVE Quiet'
    BY <1>1, <1>3, <2>3, QuietOfLinking, StoresAssumption
  <2>4. ASSUME NEW p \in Appliers, Lock(p) \/ Step(p) PROVE Quiet'
    BY <1>1, <1>3, <2>2, <2>3, <2>4, QuietOfLock, QuietOfAnchor, QuietOfAdding, QuietOfCommitting,
       QuietOfRegistry, QuietOfLeaving DEF Step
  <2>5. ASSUME NEW m \in Stores, CommitMemory(m) PROVE Quiet'
    BY <1>1, <1>3, <2>5 DEF CommitMemory, Quiet, Untouched
  <2> QED
    BY <1>1, <1>3, <2>1, <2>4, <2>5 DEF Next
<1> QED
  BY <1>2, <1>3

LEMMA QuietHolds == Spec => []Quiet
BY IInvHolds, LinksHold, QuietInit, QuietStep, PTL DEF Spec

-----------------------------------------------------------------------------
(* What follows                                                            *)

\* Every variable keeps its type; the lock has the one who works under it.
THEOREM TypeCorrect == Spec => []TypeOK
<1>1. IInv => TypeOK
  BY TypesSayIt DEF IInv
<1> QED
  BY <1>1, IInvHolds, PTL

\* apply_federation names in its receipt the commit that holds its registry,
\* though _commit_shared commits nothing when nothing is staged and the index
\* may hold what calls that failed or died have left there.
THEOREM ReceiptsNameTheirRegistry == Spec => []ReceiptHoldsRegistry
<1>1. IInv => ReceiptHoldsRegistry
  BY DEF IInv
<1> QED
  BY <1>1, IInvHolds, PTL

\* Each commit the registry of recall_provenance names holds the link back to
\* the registry, whatever failed or died and whatever a tool wrote between git
\* add and git commit, unless two calls used one id at a time or a tool wrote
\* another link into a store a call had in hand.
THEOREM RecalledCommitsHoldTheLinks == Spec => []RecallProvesLinks
<1>1. IInv /\ Links => RecallProvesLinks
  BY DEF Links, RegistryProves, RecallProvesLinks, Recalled, Proves
<1> QED
  BY <1>1, IInvHolds, LinksHold, PTL

\* apply_federation leaves a federation behind that verify_federation accepts
\* and a clean preflight, however calls overlap: the preflight is made before
\* the lock, but whoever gets the lock finds what the last holder settled.
THEOREM QuietFederationIsVerified == Spec => []QuietIsVerified
<1>1. Quiet => QuietIsVerified
  BY DEF Quiet, Settled, Free, QuietIsVerified
<1> QED
  BY <1>1, QuietHolds, PTL
=============================================================================
