-------------------------- MODULE DomainLedgerProofs --------------------------
(***************************************************************************)
(* Proofs, for any ledgers, requests, writers and bounds, that HEAD holds  *)
(* the rows whose receipts it holds, and one row for a request.            *)
(***************************************************************************)
EXTENDS DomainLedger, TLAPS

-----------------------------------------------------------------------------
(* The inductive invariant                                                 *)

Outside == {"idle", "waiting"}

\* The types again, in groups that a step changes or leaves alone.
LedgersOK == file \in Ledgers /\ index \in Ledgers /\ head \in Ledgers
IdsOK == /\ receipts \subseteq Ids /\ indexed \subseteq Ids /\ committed \subseteq Ids
         /\ foreign \in BOOLEAN
         /\ log \in Seq(SUBSET Ids)
LocksOK == /\ lock \in Writers \cup {Nobody}
           /\ pc \in [Writers -> Pc]
           /\ \A p \in Writers : lock = p <=> pc[p] \notin Outside
LocalsOK == /\ request \in [Writers -> Requests \cup {Nobody}]
            /\ tx \in [Writers -> Nat]
            /\ before \in [Writers -> Image]
            /\ outcome \in [Writers -> Outcomes]
            /\ unrestored \subseteq Kinds
SpentOK == /\ raced \subseteq {"none", "write", "rollback"}
           /\ writes \in 0..MaxWrites /\ failures \in 0..MaxFailures
           /\ crashes \in 0..MaxCrashes /\ foreigners \in 0..MaxForeign

\* A writer at work has a request and an id.
Working == \A p \in Writers : pc[p] # "idle" => request[p] \in Requests /\ tx[p] \in Ids

Types == LedgersOK /\ IdsOK /\ LocksOK /\ LocalsOK /\ SpentOK /\ Working

AllTx(ledgers) == UNION {TxOf(ledgers[k]) : k \in Kinds}

\* The ledger of the lock's owner is ahead of the index and of HEAD by its own
\* row at most, whatever others have committed since it began.
OneAhead ==
    \A p \in Writers :
        /\ pc[p] = "writing" =>
              file[K(p)] = index[K(p)] /\ TxOf(head[K(p)]) = TxOf(index[K(p)])
        /\ pc[p] \in {"receipting", "adding", "committing"} =>
              /\ TxOf(file[K(p)]) = TxOf(index[K(p)]) \cup {tx[p]}
              /\ TxOf(file[K(p)]) = TxOf(head[K(p)]) \cup {tx[p]}
        /\ pc[p] \in {"adding", "committing"} => tx[p] \in receipts

\* The index holds rows and receipts in pairs, and so does every image of it.
StagedInPairs ==
    /\ AllTx(index) = indexed
    /\ \A p \in Writers : pc[p] \notin Outside => AllTx(before[p].index) = before[p].indexed

Pairs == OneAhead /\ StagedInPairs /\ RowsHaveReceipts

Unique(rows) == \A i, j \in 1..Len(rows) : rows[i].request = rows[j].request => i = j

\* One row for a request in every copy, and none yet of the one being written.
UniqueEverywhere ==
    /\ \A k \in Kinds : Unique(file[k]) /\ Unique(index[k]) /\ Unique(head[k])
    /\ \A p \in Writers : pc[p] \notin Outside =>
          /\ Unique(before[p].file)
          /\ \A k \in Kinds : Unique(before[p].index[k])
    /\ \A p \in Writers : pc[p] = "writing" => ~Has(request[p])

IInv == Types /\ Pairs /\ UniqueEverywhere

-----------------------------------------------------------------------------
(* Rows of a ledger                                                        *)

LEMMA RangeOfAppend ==
    ASSUME NEW S, NEW rows \in Seq(S), NEW row \in S
    PROVE  Range(Append(rows, row)) = Range(rows) \cup {row}
<1>1. /\ DOMAIN rows = 1..Len(rows) /\ Len(rows) \in Nat
      /\ DOMAIN Append(rows, row) = 1..Len(rows) + 1
  OBVIOUS
<1>2. \A i \in 1..Len(rows) : Append(rows, row)[i] = rows[i]
  OBVIOUS
<1>3. Append(rows, row)[Len(rows) + 1] = row
  OBVIOUS
<1>4. \A i \in 1..Len(rows) + 1 : i \in 1..Len(rows) \/ i = Len(rows) + 1
  BY <1>1
<1>5. 1..Len(rows) \subseteq 1..Len(rows) + 1 /\ Len(rows) + 1 \in 1..Len(rows) + 1
  BY <1>1
<1> QED
  BY <1>1, <1>2, <1>3, <1>4, <1>5, Zenon DEF Range

LEMMA TxOfAppend ==
    ASSUME NEW rows \in Seq(Row), NEW row \in Row
    PROVE  TxOf(Append(rows, row)) = TxOf(rows) \cup {row.tx}
BY RangeOfAppend DEF TxOf

LEMMA UniqueAppend ==
    ASSUME NEW rows \in Seq(Row), NEW row \in Row, Unique(rows),
           \A old \in Range(rows) : old.request # row.request
    PROVE  Unique(Append(rows, row))
BY DEF Unique, Range

\* A ledger replaced changes the ids by those of its rows.
LEMMA AllTxExcept ==
    ASSUME NEW ledgers \in Ledgers, NEW k \in Kinds, NEW rows, NEW id,
           TxOf(rows) = TxOf(ledgers[k]) \cup {id}
    PROVE  AllTx([ledgers EXCEPT ![k] = rows]) = AllTx(ledgers) \cup {id}
BY DEF AllTx, Ledgers

-----------------------------------------------------------------------------
(* Types                                                                   *)

LEMMA Bounds ==
    /\ MaxWrites \in Nat /\ MaxFailures \in Nat /\ MaxCrashes \in Nat /\ MaxForeign \in Nat
    /\ Ids \subseteq Nat
BY BoundsAssumption DEF Ids

LEMMA TypesSayIt == Types => TypeOK
BY DEF Types, LedgersOK, IdsOK, LocksOK, LocalsOK, SpentOK, TypeOK, Outside

LEMMA KindOfRequest ==
    ASSUME Types, NEW p \in Writers, pc[p] # "idle"
    PROVE  K(p) \in Kinds /\ request[p] \in Requests /\ tx[p] \in Ids
BY RequestsAssumption DEF Types, Working, K, Kind

\* An image has its fields.
LEMMA ImageFields ==
    ASSUME NEW image \in Image
    PROVE  /\ image.index \in Ledgers /\ image.file \in Seq(Row)
           /\ image.indexed \subseteq Ids /\ image.foreign \in BOOLEAN
BY DEF Image

LEMMA NoImageIsImage == NoImage \in Image /\ NoRows \in Ledgers
BY DEF NoImage, Image, NoRows, Ledgers

LEMMA TypesInit == Init => Types
<1> SUFFICES ASSUME Init PROVE Types
  OBVIOUS
<1>1. LedgersOK
  BY NoImageIsImage DEF Init, LedgersOK
<1>2. IdsOK
  <2>1. <<>> \in Seq(SUBSET Ids)
    OBVIOUS
  <2>2. foreign \in BOOLEAN
    BY DEF Init
  <2> QED
    BY <2>1, <2>2 DEF Init, IdsOK
<1>3. LocksOK /\ Working
  BY NobodyAssumption DEF Init, LocksOK, Working, Pc, Outside
<1>4. LocalsOK
  BY NoImageIsImage DEF Init, LocalsOK, Outcomes
<1>5. SpentOK
  BY Bounds DEF Init, SpentOK
<1> QED
  BY <1>1, <1>2, <1>3, <1>4, <1>5 DEF Types

LEMMA PhaseType == ASSUME NEW p \in Writers PROVE Phase(p) \in {"none", "write", "rollback"}
BY DEF Phase

\* Moving on keeps the lock; returning gives it back.
LEMMA ToKeepsLocks ==
    ASSUME Types, NEW p \in Writers, NEW there \in Pc, To(p, there), lock' = lock,
           pc[p] \notin Outside, there \notin Outside, UNCHANGED <<request, tx>>
    PROVE  LocksOK' /\ Working'
BY DEF Types, LocksOK, Working, To, Outside

LEMMA ReturnTypes ==
    ASSUME Types, NEW p \in Writers, NEW said, Return(p, said),
           said \in Outcomes, tx' = tx, pc[p] # "idle"
    PROVE  LocksOK' /\ Working' /\ LocalsOK'
<1>1. LocksOK'
  BY NobodyAssumption DEF Types, LocksOK, Return, Report, To, Outside, Pc
<1>2. Working'
  BY DEF Types, LocksOK, LocalsOK, Working, Return, Report, To
<1>3. LocalsOK'
  <2>1. unrestored' \subseteq Kinds
    BY KindOfRequest DEF Types, LocalsOK, Return, Report
  <2> QED
    BY <2>1, NoImageIsImage DEF Types, LocalsOK, Return, Report
<1> QED
  BY <1>1, <1>2, <1>3

\* What a step does not touch keeps its type.
LEMMA GroupsStay ==
    ASSUME Types
    PROVE  /\ UNCHANGED <<file, index, head>> => LedgersOK'
           /\ UNCHANGED <<receipts, indexed, committed, foreign, log>> => IdsOK'
           /\ UNCHANGED <<lock, pc, request, tx>> => LocksOK' /\ Working'
           /\ UNCHANGED <<request, tx, before, outcome, unrestored>> => LocalsOK'
           /\ UNCHANGED <<raced, writes, failures, crashes, foreigners>> => SpentOK'
BY DEF Types, LedgersOK, IdsOK, LocksOK, LocalsOK, SpentOK, Working

\* git add and git commit keep the types of what they write.
LEMMA AddTypes ==
    ASSUME Types, NEW p \in Writers, pc[p] # "idle", Add(p)
    PROVE  index' \in Ledgers /\ indexed' \subseteq Ids
BY KindOfRequest DEF Types, Add, LedgersOK, IdsOK, Ledgers

LEMMA CommitTypes ==
    ASSUME Types, NEW p \in Writers, pc[p] # "idle", CommitOnly(p), UNCHANGED <<file, receipts, foreign>>
    PROVE  LedgersOK' /\ IdsOK'
<1>1. K(p) \in Kinds /\ tx[p] \in Ids
  BY KindOfRequest
<1>2. head' \in Ledgers /\ index' \in Ledgers /\ indexed' \subseteq Ids
  BY <1>1, AddTypes DEF Types, CommitOnly, LedgersOK, Ledgers
<1>3. log' \in Seq(SUBSET Ids)
  <2>1. {tx[p]} \in SUBSET Ids /\ log \in Seq(SUBSET Ids)
    BY <1>1 DEF Types, IdsOK
  <2> QED
    BY <2>1 DEF CommitOnly
<1> QED
  BY <1>1, <1>2, <1>3 DEF Types, LedgersOK, IdsOK, CommitOnly

LEMMA StepTypesOfCalls ==
    ASSUME Types, NEW p \in Writers, NEW r \in Requests,
           Call(p, r) \/ Enter(p)
    PROVE  Types'
<1> USE GroupsStay, ReturnTypes DEF Types, worktree, staging, history, locals, spent, At, Outcomes
<1>1. CASE Call(p, r)
  <2>1. /\ writes' \in 0..MaxWrites /\ writes' \in Ids
        /\ UNCHANGED <<raced, failures, crashes, foreigners>>
    BY <1>1, Bounds DEF Call, SpentOK, Ids
  <2>2. SpentOK'
    BY <2>1 DEF SpentOK
  <2>3. LocksOK' /\ Working'
    BY <1>1, <2>1 DEF Call, LocksOK, LocalsOK, Working, To, Outside, Pc
  <2>4. LocalsOK'
    BY <1>1, <2>1, Bounds DEF Call, LocalsOK
  <2> QED
    BY <1>1, <2>2, <2>3, <2>4 DEF Call
<1>2. CASE Refuse(p)
  BY <1>2 DEF Refuse
<1>3. CASE Reuse(p)
  <2> DEFINE row == CHOOSE row \in Rows(K(p)) : row.request = request[p]
  <2>1. row \in Rows(K(p))
    BY <1>3 DEF Reuse, Has, K
  <2>2. Rows(K(p)) \subseteq Row
    BY <1>3, KindOfRequest DEF Reuse, Rows, Range, LedgersOK, Ledgers
  <2>3. row.tx \in Nat
    BY <2>1, <2>2 DEF Row
  <2>4. LocksOK'
    BY <1>3, NobodyAssumption DEF Reuse, LocksOK, Return, Report, To, Outside, Pc
  <2>5. Working'
    BY <1>3 DEF Reuse, LocksOK, LocalsOK, Working, Return, Report, To
  <2>6. LocalsOK'
    <3> HIDE DEF row
    <3>1. tx' = [tx EXCEPT ![p] = row.tx]
      BY <1>3 DEF Reuse, Found, row, K
    <3>2. unrestored' = unrestored
      BY <1>3 DEF Reuse, Return, Report
    <3> QED
      BY <1>3, <2>3, <3>1, <3>2, NoImageIsImage DEF Reuse, LocalsOK, Return, Report
  <2> QED
    BY <1>3, <2>4, <2>5, <2>6 DEF Reuse
<1>4. CASE Begin(p)
  <2> DEFINE image == [head |-> Len(log), index |-> index, indexed |-> indexed,
                       foreign |-> foreign, file |-> file[K(p)]]
  <2>1. image \in Image
    BY <1>4, KindOfRequest DEF Begin, Image, LedgersOK, Ledgers, IdsOK
  <2>2. LocalsOK'
    <3> HIDE DEF image
    <3>1. before' = [before EXCEPT ![p] = image] /\ UNCHANGED <<request, tx, outcome, unrestored>>
      BY <1>4 DEF Begin, image
    <3> QED
      BY <2>1, <3>1 DEF LocalsOK
  <2>3. LocksOK' /\ Working'
    BY <1>4, NobodyAssumption DEF Begin, LocksOK, LocalsOK, Working, To, Outside, Pc
  <2> QED
    BY <1>4, <2>2, <2>3 DEF Begin
<1> QED
  BY <1>1, <1>2, <1>3, <1>4 DEF Enter

LEMMA StepTypesOfWork ==
    ASSUME Types, NEW p \in Writers, Work(p)
    PROVE  Types'
<1> USE GroupsStay, ToKeepsLocks, ReturnTypes, KindOfRequest
    DEF Types, worktree, staging, history, locals, spent, At, Pc, Outside, Outcomes
<1>1. CASE WriteLedger(p)
  <2>1. [request |-> request[p], tx |-> tx[p]] \in Row
    BY <1>1, Bounds DEF WriteLedger, Row
  <2>2. file' \in Ledgers
    BY <1>1, <2>1 DEF WriteLedger, LedgersOK, Ledgers
  <2> QED
    BY <1>1, <2>2 DEF WriteLedger, LedgersOK
<1>2. CASE WriteReceipt(p)
  BY <1>2 DEF WriteReceipt, IdsOK
<1>3. CASE AddPaths(p)
  BY <1>3, AddTypes DEF AddPaths, LedgersOK, IdsOK
<1>4. CASE Commit(p)
  BY <1>4, CommitTypes DEF Commit
<1>5. CASE Verify(p)
  BY <1>5 DEF Verify
<1>6. CASE FindHeadSame(p)
  BY <1>6 DEF FindHeadSame
<1>7. CASE FindHeadMoved(p)
  BY <1>7 DEF FindHeadMoved
<1>8. CASE RestoreFiles(p)
  <2>1. before[p].file \in Seq(Row)
    BY ImageFields DEF LocalsOK
  <2>2. file' \in Ledgers /\ receipts' \subseteq Ids
    BY <1>8, <2>1 DEF RestoreFiles, LedgersOK, IdsOK, Ledgers
  <2>3. failures' \in 0..MaxFailures /\ UNCHANGED <<raced, writes, crashes, foreigners>>
    BY <1>8, Bounds DEF RestoreFiles, SpentOK
  <2>4. LocksOK' /\ Working'
    <3>1. /\ To(p, pc'[p]) /\ pc'[p] \in {"reindexing", "leaving"} /\ lock' = lock
          /\ UNCHANGED <<request, tx>>
      BY <1>8 DEF RestoreFiles, To, LocksOK
    <3> QED
      BY <1>8, <3>1 DEF RestoreFiles
  <2> QED
    BY <1>8, <2>2, <2>3, <2>4 DEF RestoreFiles, LedgersOK, IdsOK, SpentOK
<1>9. CASE RestoreIndex(p)
  <2>1. /\ before[p].index \in Ledgers /\ before[p].indexed \subseteq Ids
        /\ before[p].foreign \in BOOLEAN
    BY ImageFields DEF LocalsOK
  <2>2. index' \in Ledgers /\ indexed' \subseteq Ids /\ foreign' \in BOOLEAN
    BY <1>9, <2>1 DEF RestoreIndex
  <2>3. LocksOK' /\ Working' /\ LocalsOK'
    BY <1>9 DEF RestoreIndex, Restored
  <2> QED
    BY <1>9, <2>2, <2>3 DEF RestoreIndex, LedgersOK, IdsOK
<1>10. CASE CommitNothing(p)
  BY <1>10 DEF CommitNothing
<1> QED
  BY <1>1, <1>2, <1>3, <1>4, <1>5, <1>6, <1>7, <1>8, <1>9, <1>10 DEF Work

LEMMA StepTypesOfTrouble ==
    ASSUME Types, NEW p \in Writers, Trouble(p)
    PROVE  Types'
<1> USE GroupsStay, ToKeepsLocks, ReturnTypes, Bounds
    DEF Types, worktree, staging, history, locals, spent, At, Pc, Outside, Outcomes
<1>1. CASE Fail(p)
  BY <1>1 DEF Fail, SpentOK
<1>2. CASE TimeOut(p)
  BY <1>2, CommitTypes DEF TimeOut, SpentOK
<1>3. CASE Crash(p)
  BY <1>3 DEF Crash, SpentOK
<1>4. CASE HeadUnreadable(p)
  BY <1>4 DEF HeadUnreadable, SpentOK
<1>5. CASE FailIndex(p)
  BY <1>5 DEF FailIndex, SpentOK
<1> QED
  BY <1>1, <1>2, <1>3, <1>4, <1>5 DEF Trouble

LEMMA TypesOfOthers ==
    ASSUME Types, StageOther \/ CommitOther
    PROVE  Types'
<1> USE GroupsStay, Bounds DEF Types, worktree, staging, history, locals, spent
<1>1. CASE StageOther
  <2>1. IdsOK' /\ SpentOK'
    BY <1>1 DEF StageOther, Foreign, SpentOK, IdsOK
  <2> QED
    BY <1>1, <2>1 DEF StageOther
<1>2. CASE CommitOther
  <2>1. SpentOK'
    <3>1. {Phase(q) : q \in Writers} \subseteq {"none", "write", "rollback"}
      BY PhaseType
    <3>2. raced' \subseteq {"none", "write", "rollback"}
      BY <1>2, <3>1 DEF CommitOther, SpentOK
    <3>3. foreigners' \in 0..MaxForeign /\ UNCHANGED <<writes, failures, crashes>>
      BY <1>2 DEF CommitOther, SpentOK, Foreign
    <3> QED
      BY <3>2, <3>3 DEF SpentOK
  <2>2. log' \in Seq(SUBSET Ids)
    <3>1. indexed \ committed \in SUBSET Ids /\ log \in Seq(SUBSET Ids)
      BY DEF IdsOK
    <3> QED
      BY <1>2, <3>1 DEF CommitOther
  <2>3. foreign' \in BOOLEAN
    BY <1>2 DEF CommitOther
  <2> QED
    BY <1>2, <2>1, <2>2, <2>3 DEF CommitOther, LedgersOK, IdsOK
<1> QED
  BY <1>1, <1>2

-----------------------------------------------------------------------------
(* Rows and receipts                                                       *)

LEMMA PairsInit == Init => Pairs
BY DEF Init, Pairs, OneAhead, StagedInPairs, RowsHaveReceipts, AllTx, TxOf, Range, NoRows, Outside

\* Only one writer is at work.
LEMMA OneWriter ==
    ASSUME Types, NEW p \in Writers, NEW q \in Writers, pc[p] \notin Outside, pc[q] \notin Outside
    PROVE  p = q
BY DEF Types, LocksOK

\* Calls and returns write nothing.
LEMMA PairsOfCalls ==
    ASSUME Types, Pairs, NEW p \in Writers, NEW r \in Requests,
           Call(p, r) \/ Refuse(p) \/ Reuse(p) \/ Verify(p) \/ FindHeadMoved(p) \/ HeadUnreadable(p)
           \/ FailIndex(p) \/ Crash(p)
    PROVE  Pairs'
<1>1. UNCHANGED <<file, receipts, index, indexed, head, committed>>
  BY DEF Call, Refuse, Reuse, Verify, FindHeadMoved, HeadUnreadable, FailIndex, Crash, worktree,
         staging, history
<1>2. \A q \in Writers : pc'[q] \notin Outside =>
          /\ pc'[q] = pc[q] /\ before'[q] = before[q] /\ tx'[q] = tx[q] /\ request'[q] = request[q]
  BY DEF Call, Refuse, Reuse, Verify, FindHeadMoved, HeadUnreadable, FailIndex, Crash, Return, Report,
         To, Types, LocksOK, LocalsOK,
         Outside, locals
<1> QED
  BY <1>1, <1>2 DEF Pairs, OneAhead, StagedInPairs, RowsHaveReceipts, AllTx, K, Outside

LEMMA PairsOfBegin ==
    ASSUME Types, Pairs, NEW p \in Writers, Begin(p)
    PROVE  Pairs'
<1>1. UNCHANGED <<file, receipts, index, indexed, head, committed, request, tx>>
  BY DEF Begin, worktree, staging, history
<1>2. /\ \A q \in Writers : pc'[q] \notin Outside => q = p
      /\ pc'[p] = "writing" /\ before'[p].index = index /\ before'[p].indexed = indexed
  BY NobodyAssumption DEF Begin, To, Types, LocksOK, LocalsOK, Outside
<1>3. file[K(p)] = index[K(p)] /\ index[K(p)] = head[K(p)]
  BY DEF Begin, CleanTarget
<1> QED
  BY <1>1, <1>2, <1>3 DEF Pairs, OneAhead, StagedInPairs, RowsHaveReceipts, AllTx, K,
                          Outside

LEMMA PairsOfFiles ==
    ASSUME Types, Pairs, NEW p \in Writers,
           \/ WriteLedger(p) \/ WriteReceipt(p) \/ Fail(p) \/ FindHeadSame(p) \/ CommitNothing(p)
           \/ RestoreFiles(p)
    PROVE  Pairs'
<1>1. /\ UNCHANGED <<index, indexed, head, committed, request, tx, before>>
      /\ pc[p] \notin Outside
  BY DEF WriteLedger, WriteReceipt, Fail, FindHeadSame, CommitNothing, RestoreFiles, staging, history,
         locals, At,
         Outside
<1>2. /\ pc'[p] \notin Outside
      /\ \A q \in Writers : pc'[q] \notin Outside => q = p
  BY <1>1, OneWriter DEF Types, LocksOK, WriteLedger, WriteReceipt, Fail, FindHeadSame, CommitNothing,
                         RestoreFiles, To, Outside
<1>3. RowsHaveReceipts'
  BY <1>1 DEF Pairs, RowsHaveReceipts
<1>4. StagedInPairs'
  BY <1>1, <1>2 DEF Pairs, StagedInPairs
<1>5. OneAhead'
  <2>1. CASE WriteLedger(p)
    <3> DEFINE row == [request |-> request[p], tx |-> tx[p]]
    <3>1. K(p) \in Kinds /\ row \in Row /\ row.tx = tx[p]
      BY <1>1, KindOfRequest, Bounds DEF Row, Outside
    <3>2. file'[K(p)] = Append(file[K(p)], row) /\ file[K(p)] \in Seq(Row) /\ K(p)' = K(p)
      BY <1>1, <2>1, <3>1 DEF WriteLedger, Types, LedgersOK, Ledgers, K
    <3>3. TxOf(file'[K(p)]) = TxOf(file[K(p)]) \cup {tx[p]}
      BY <3>1, <3>2, TxOfAppend
    <3>4. file[K(p)] = index[K(p)] /\ TxOf(head[K(p)]) = TxOf(index[K(p)])
      BY <2>1 DEF Pairs, OneAhead, WriteLedger, At
    <3>5. pc'[p] = "receipting"
      BY <2>1 DEF WriteLedger, To, Types, LocksOK
    <3> QED
      BY <1>1, <1>2, <3>2, <3>3, <3>4, <3>5 DEF OneAhead, Outside
  <2>2. CASE WriteReceipt(p)
    BY <1>1, <1>2, <2>2 DEF Pairs, OneAhead, WriteReceipt, At, To, Types, LocksOK, K,
                            Outside
  <2>3. CASE Fail(p) \/ FindHeadSame(p) \/ CommitNothing(p) \/ RestoreFiles(p)
    <3>1. pc'[p] \in {"failing", "restoring", "reindexing", "leaving"}
      BY <2>3 DEF Fail, FindHeadSame, CommitNothing, RestoreFiles, To, Types, LocksOK
    <3> QED
      BY <1>2, <3>1 DEF OneAhead, Outside
  <2> QED
    BY <2>1, <2>2, <2>3
<1> QED
  BY <1>3, <1>4, <1>5 DEF Pairs

\* The index and HEAD take the row together with its receipt.
LEMMA PairsOfGit ==
    ASSUME Types, Pairs, NEW p \in Writers, AddPaths(p) \/ Commit(p) \/ TimeOut(p)
    PROVE  Pairs'
<1>1. /\ UNCHANGED <<file, receipts, request, tx, before>> /\ Add(p)
      /\ pc[p] \in {"adding", "committing"} /\ pc'[p] \in {"committing", "verifying", "failing"}
      /\ pc' = [pc EXCEPT ![p] = pc'[p]]
  BY DEF AddPaths, Commit, TimeOut, CommitOnly, At, To, worktree, locals, Types, LocksOK
<1>2. K(p) \in Kinds /\ K(p)' = K(p)
  BY <1>1, KindOfRequest DEF K
<1>3. \A q \in Writers : pc'[q] \notin Outside => q = p
  BY <1>1, OneWriter DEF Types, LocksOK, Outside
<1>4. /\ TxOf(file[K(p)]) = TxOf(index[K(p)]) \cup {tx[p]}
      /\ TxOf(file[K(p)]) = TxOf(head[K(p)]) \cup {tx[p]}
      /\ tx[p] \in receipts
  BY <1>1 DEF Pairs, OneAhead
<1>5. AllTx(index') = AllTx(index) \cup {tx[p]} /\ indexed' = indexed \cup {tx[p]}
  <2>1. index' = [index EXCEPT ![K(p)] = file[K(p)]] /\ index \in Ledgers
    BY <1>1 DEF Add, Types, LedgersOK
  <2>2. AllTx([index EXCEPT ![K(p)] = file[K(p)]]) = AllTx(index) \cup {tx[p]}
    BY <1>2, <1>4, AllTxExcept DEF Types, LedgersOK
  <2>3. indexed' = indexed \cup {tx[p]}
    BY <1>1, <1>4 DEF Add
  <2> QED
    BY <2>1, <2>2, <2>3
<1>6. StagedInPairs'
  BY <1>1, <1>3, <1>5 DEF Pairs, StagedInPairs, Outside
<1>7. CASE AddPaths(p)
  <2>1. UNCHANGED <<head, committed>>
    BY <1>7 DEF AddPaths, history
  <2>2. index'[K(p)] = file[K(p)]
    BY <1>1, <1>2 DEF Add, Types, LedgersOK, Ledgers
  <2>3. TxOf(file[K(p)]) = TxOf(file[K(p)]) \cup {tx[p]}
    BY <1>4
  <2>4. OneAhead'
    BY <1>1, <1>2, <1>3, <1>4, <2>1, <2>2, <2>3 DEF OneAhead, Outside
  <2> QED
    BY <1>6, <2>1, <2>4 DEF Pairs, RowsHaveReceipts
<1>8. CASE Commit(p) \/ TimeOut(p)
  <2>1. head' = [head EXCEPT ![K(p)] = file[K(p)]] /\ committed' = committed \cup {tx[p]}
    BY <1>8 DEF Commit, TimeOut, CommitOnly
  <2>2. AllTx(head') = AllTx(head) \cup {tx[p]}
    <3>1. AllTx([head EXCEPT ![K(p)] = file[K(p)]]) = AllTx(head) \cup {tx[p]}
      BY <1>2, <1>4, AllTxExcept DEF Types, LedgersOK
    <3> QED
      BY <2>1, <3>1
  <2>3. RowsHaveReceipts'
    BY <2>1, <2>2 DEF Pairs, RowsHaveReceipts, AllTx
  <2>4. pc'[p] \in {"verifying", "failing"}
    BY <1>8 DEF Commit, TimeOut, To, Types, LocksOK
  <2> QED
    BY <1>3, <1>6, <2>3, <2>4 DEF Pairs, OneAhead, Outside
<1> QED
  BY <1>7, <1>8

LEMMA PairsOfRestore ==
    ASSUME Types, Pairs, NEW p \in Writers, RestoreIndex(p)
    PROVE  Pairs'
<1>1. /\ UNCHANGED <<file, receipts, head, committed>>
      /\ index' = before[p].index /\ indexed' = before[p].indexed
      /\ pc[p] \notin Outside
  BY DEF RestoreIndex, worktree, history, At, Outside
<1>2. \A q \in Writers : pc'[q] \in Outside
  BY <1>1, OneWriter DEF RestoreIndex, Return, Report, To, Types, LocksOK, Outside
<1> QED
  BY <1>1, <1>2 DEF Pairs, OneAhead, StagedInPairs, RowsHaveReceipts, AllTx, Outside

\* A commit of the index leaves HEAD as far behind as the index.
LEMMA PairsOfOthers ==
    ASSUME Types, Pairs, StageOther \/ CommitOther
    PROVE  Pairs'
<1>1. UNCHANGED <<file, receipts, index, indexed, pc, request, tx, before>>
  BY DEF StageOther, CommitOther, worktree, locals
<1>2. CASE StageOther
  BY <1>1, <1>2 DEF StageOther, history, Pairs, OneAhead, StagedInPairs, RowsHaveReceipts, AllTx, K,
                    Outside
<1>3. CASE CommitOther
  <2>1. head' = index /\ committed' = indexed
    BY <1>3 DEF CommitOther
  <2> QED
    BY <1>1, <2>1 DEF Pairs, OneAhead, StagedInPairs, RowsHaveReceipts, AllTx, K,
                      Outside
<1> QED
  BY <1>2, <1>3
-----------------------------------------------------------------------------
(* One row for a request                                                   *)

LEMMA UniqueInit == Init => UniqueEverywhere
BY DEF Init, UniqueEverywhere, Unique, NoRows, Outside

LEMMA UniqueOfCalls ==
    ASSUME Types, UniqueEverywhere, NEW p \in Writers, NEW r \in Requests,
           Call(p, r) \/ Refuse(p) \/ Reuse(p) \/ Verify(p) \/ FindHeadMoved(p) \/ HeadUnreadable(p)
           \/ FailIndex(p) \/ Crash(p)
    PROVE  UniqueEverywhere'
<1>1. UNCHANGED <<file, index, head>>
  BY DEF Call, Refuse, Reuse, Verify, FindHeadMoved, HeadUnreadable, FailIndex, Crash, worktree,
         staging, history
<1>2. \A q \in Writers : pc'[q] \notin Outside =>
          pc'[q] = pc[q] /\ before'[q] = before[q] /\ request'[q] = request[q]
  BY DEF Call, Refuse, Reuse, Verify, FindHeadMoved, HeadUnreadable, FailIndex, Crash, Return, Report,
         To, Types, LocksOK, LocalsOK,
         Outside, locals
<1> QED
  BY <1>1, <1>2 DEF UniqueEverywhere, Has, Rows, Outside

LEMMA UniqueOfBegin ==
    ASSUME Types, UniqueEverywhere, NEW p \in Writers, Begin(p)
    PROVE  UniqueEverywhere'
<1>1. UNCHANGED <<file, index, head, request>> /\ ~Has(request[p]) /\ K(p) \in Kinds
  BY KindOfRequest DEF Begin, worktree, staging, history, At
<1>2. /\ \A q \in Writers : pc'[q] \notin Outside => q = p
      /\ before'[p].index = index /\ before'[p].file = file[K(p)]
  BY NobodyAssumption DEF Begin, To, Types, LocksOK, LocalsOK, Outside
<1> QED
  BY <1>1, <1>2 DEF UniqueEverywhere, Has, Rows, Outside

LEMMA UniqueOfFiles ==
    ASSUME Types, UniqueEverywhere, NEW p \in Writers,
           \/ WriteLedger(p) \/ WriteReceipt(p) \/ Fail(p) \/ FindHeadSame(p) \/ CommitNothing(p)
           \/ RestoreFiles(p)
    PROVE  UniqueEverywhere'
<1>1. /\ UNCHANGED <<index, head, request, tx, before>>
      /\ pc[p] \notin Outside
  BY DEF WriteLedger, WriteReceipt, Fail, FindHeadSame, CommitNothing, RestoreFiles, staging, history,
         locals, At,
         Outside
<1>2. /\ pc'[p] # "writing"
      /\ \A q \in Writers : pc'[q] \notin Outside => q = p
  BY <1>1, OneWriter DEF Types, LocksOK, WriteLedger, WriteReceipt, Fail, FindHeadSame, CommitNothing,
                         RestoreFiles, To, Outside
<1>3. \A k \in Kinds : Unique(file'[k])
  <2>1. CASE WriteLedger(p)
    <3> DEFINE row == [request |-> request[p], tx |-> tx[p]]
    <3>1. K(p) \in Kinds /\ row \in Row
      BY <1>1, KindOfRequest, Bounds DEF Row, Outside
    <3>2. file' = [file EXCEPT ![K(p)] = Append(file[K(p)], row)] /\ file \in Ledgers
      BY <2>1 DEF WriteLedger, Types, LedgersOK
    <3>3. \A old \in Range(file[K(p)]) : old.request # row.request
      BY <2>1 DEF UniqueEverywhere, WriteLedger, At, Has, Rows, K
    <3>4. Unique(Append(file[K(p)], row))
      BY <3>1, <3>2, <3>3, UniqueAppend DEF UniqueEverywhere, Ledgers
    <3> QED
      BY <3>1, <3>2, <3>4 DEF UniqueEverywhere, Ledgers
  <2>2. CASE RestoreFiles(p)
    BY <1>1, <2>2 DEF UniqueEverywhere, RestoreFiles, Types, LedgersOK, Ledgers
  <2>3. CASE WriteReceipt(p) \/ Fail(p) \/ FindHeadSame(p) \/ CommitNothing(p)
    BY <2>3 DEF UniqueEverywhere, WriteReceipt, Fail, FindHeadSame, CommitNothing, worktree
  <2> QED
    BY <2>1, <2>2, <2>3
<1> QED
  BY <1>1, <1>2, <1>3 DEF UniqueEverywhere, Outside

LEMMA UniqueOfGit ==
    ASSUME Types, UniqueEverywhere, NEW p \in Writers,
           AddPaths(p) \/ Commit(p) \/ TimeOut(p)
    PROVE  UniqueEverywhere'
<1>1. /\ UNCHANGED <<file, before>> /\ Add(p) /\ pc[p] \notin Outside
      /\ pc'[p] \notin Outside \cup {"writing"}
  BY DEF AddPaths, Commit, TimeOut, CommitOnly, At, To, worktree, locals, Types, LocksOK, Outside
<1>2. \A q \in Writers : pc'[q] \notin Outside => q = p
  BY <1>1, OneWriter DEF AddPaths, Commit, TimeOut, To, Types, LocksOK, Outside
<1>3. head' = head \/ head' = [head EXCEPT ![K(p)] = file[K(p)]]
  BY DEF AddPaths, Commit, TimeOut, CommitOnly, history
<1>4. \A k \in Kinds : Unique(index'[k]) /\ Unique(head'[k])
  BY <1>1, <1>3 DEF UniqueEverywhere, Add, Types, LedgersOK, Ledgers
<1> QED
  BY <1>1, <1>2, <1>4 DEF UniqueEverywhere, Outside

LEMMA UniqueOfRestore ==
    ASSUME Types, UniqueEverywhere, NEW p \in Writers, RestoreIndex(p)
    PROVE  UniqueEverywhere'
<1>1. /\ UNCHANGED <<file, head>> /\ index' = before[p].index
      /\ pc[p] \notin Outside
  BY DEF RestoreIndex, worktree, history, At, Outside
<1>2. \A q \in Writers : pc'[q] \in Outside
  BY <1>1, OneWriter DEF RestoreIndex, Return, Report, To, Types, LocksOK, Outside
<1> QED
  BY <1>1, <1>2 DEF UniqueEverywhere, Outside

LEMMA UniqueOfOthers ==
    ASSUME UniqueEverywhere, StageOther \/ CommitOther
    PROVE  UniqueEverywhere'
<1>1. UNCHANGED <<file, index, pc, request, before>> /\ (head' = head \/ head' = index)
  BY DEF StageOther, CommitOther, worktree, locals, history
<1> QED
  BY <1>1 DEF UniqueEverywhere, Has, Rows, Outside

-----------------------------------------------------------------------------
(* Every step                                                              *)

LEMMA IInvInit == Init => IInv
BY TypesInit, PairsInit, UniqueInit DEF IInv

LEMMA IInvStep == IInv /\ [Next]_vars => IInv'
<1> SUFFICES ASSUME IInv, [Next]_vars PROVE IInv'
  OBVIOUS
<1> USE DEF IInv
<1>1. ASSUME NEW p \in Writers, NEW r \in Requests, Call(p, r) PROVE IInv'
  BY <1>1, StepTypesOfCalls, PairsOfCalls, UniqueOfCalls
<1>2. ASSUME NEW p \in Writers, Enter(p) PROVE IInv'
  <2>1. request[p] \in Requests
    BY <1>2, KindOfRequest DEF Enter, Refuse, Reuse, Begin, At
  <2> QED
    BY <1>2, <2>1, StepTypesOfCalls, PairsOfCalls, PairsOfBegin, UniqueOfCalls, UniqueOfBegin
       DEF Enter
<1>3. ASSUME NEW p \in Writers, Work(p) PROVE IInv'
  <2>1. request[p] \in Requests
    BY <1>3, KindOfRequest DEF Work, WriteLedger, WriteReceipt, AddPaths, Commit, Verify,
                               CommitNothing, FindHeadSame, FindHeadMoved, RestoreFiles,
                               RestoreIndex, At
  <2> QED
    BY <1>3, <2>1, StepTypesOfWork, PairsOfCalls, PairsOfFiles, PairsOfGit, PairsOfRestore,
       UniqueOfCalls, UniqueOfFiles, UniqueOfGit, UniqueOfRestore DEF Work
<1>4. ASSUME NEW p \in Writers, Trouble(p) PROVE IInv'
  <2>1. request[p] \in Requests
    BY <1>4, KindOfRequest DEF Trouble, Fail, TimeOut, HeadUnreadable, FailIndex, Crash, At
  <2> QED
    BY <1>4, <2>1, StepTypesOfTrouble, PairsOfCalls, PairsOfFiles, PairsOfGit, UniqueOfCalls,
       UniqueOfFiles, UniqueOfGit DEF Trouble
<1>5. CASE StageOther \/ CommitOther
  BY <1>5, TypesOfOthers, PairsOfOthers, UniqueOfOthers
<1>6. CASE UNCHANGED vars
  BY <1>6, GroupsStay DEF Types, Pairs, OneAhead, StagedInPairs, RowsHaveReceipts, UniqueEverywhere,
                          Has, Rows, K, vars, worktree, staging, history, locals, spent
<1> QED
  BY <1>1, <1>2, <1>3, <1>4, <1>5, <1>6 DEF Next

LEMMA IInvHolds == Spec => []IInv
BY IInvInit, IInvStep, PTL DEF Spec

-----------------------------------------------------------------------------
(* What a write leaves behind: invariants on top of the first one          *)

AtWork(p) == pc[p] \notin Outside
Unmoved(p) == Len(log) = before[p].head
BeforeCommit == {"writing", "receipting", "adding", "committing"}
RollingBack == {"restoring", "reindexing", "leaving"}

\* While nobody has died and others have committed only between the writes,
\* the owner of the lock is the only one to leave anything unclean, knows how to
\* undo it, and undoes it unless its commit is there or it reports that it
\* could not.
Calm == crashes = 0 /\ raced \subseteq {"none"}
Accounted(k) == CleanTarget(k) \/ k \in unrestored
CalmAt(p) ==
    /\ \A k \in Kinds \ {K(p)} : Accounted(k) /\ before[p].index[k] = index[k]
    /\ pc[p] \in BeforeCommit \cup RollingBack => Unmoved(p)
    /\ Unmoved(p) => before[p].file = head[K(p)] /\ before[p].index[K(p)] = head[K(p)]
    /\ pc[p] \in {"writing", "reindexing"} => file[K(p)] = head[K(p)]
    /\ pc[p] = "verifying" \/ (pc[p] = "failing" /\ ~Unmoved(p)) => CleanTarget(K(p))
CalmTargets ==
    Calm => /\ lock = Nobody => \A k \in Kinds : Accounted(k)
            /\ \A p \in Writers : AtWork(p) => CalmAt(p)

-----------------------------------------------------------------------------
(* A clean repository stays so                                             *)

LEMMA LockTellsWork ==
    ASSUME Types
    PROVE  /\ lock = Nobody <=> \A q \in Writers : ~AtWork(q)
           /\ \A p, q \in Writers : (AtWork(p) /\ AtWork(q)) => p = q
BY NobodyAssumption DEF Types, LocksOK, AtWork

LEMMA CalmInit == Init => CalmTargets
BY DEF Init, CalmTargets, Accounted, CleanTarget, NoRows, AtWork, Outside

\* Calls write nothing, and what a return leaves is clean.
LEMMA CalmOfCalls ==
    ASSUME Types, Types', CalmTargets, NEW p \in Writers, NEW r \in Requests,
           Call(p, r) \/ Refuse(p) \/ Reuse(p) \/ Verify(p) \/ FindHeadMoved(p) \/ HeadUnreadable(p)
           \/ FailIndex(p) \/ Crash(p)
    PROVE  CalmTargets'
<1>1. UNCHANGED <<file, index, head, log, raced>>
  BY DEF Call, Refuse, Reuse, Verify, FindHeadMoved, HeadUnreadable, FailIndex, Crash, worktree,
         staging, history
<1>2. \A q \in Writers : AtWork(q)' =>
          /\ AtWork(q) /\ pc'[q] = pc[q] /\ before'[q] = before[q] /\ request'[q] = request[q]
  BY DEF Call, Refuse, Reuse, Verify, FindHeadMoved, HeadUnreadable, FailIndex, Crash, Return, Report,
         To, Types, LocksOK, LocalsOK,
         Outside, locals, AtWork
<1>3. CASE Crash(p)
  <2>1. crashes' # 0
    BY <1>3 DEF Crash, Types, SpentOK
  <2> QED
    BY <2>1 DEF CalmTargets, Calm
<1>4. CASE ~Crash(p)
  <2>1. crashes' = crashes /\ unrestored \subseteq unrestored'
    BY <1>4 DEF Call, Refuse, Reuse, Verify, FindHeadMoved, HeadUnreadable, FailIndex, Return, Report,
                spent
  <2>2. (Calm /\ lock' = Nobody) => \A k \in Kinds : CleanTarget(k) \/ k \in unrestored'
    <3>1. CASE lock = Nobody
      BY <2>1, <3>1 DEF CalmTargets, Accounted
    <3>2. CASE lock # Nobody /\ lock' = Nobody
      <4>1. AtWork(p) /\ (Verify(p) \/ FindHeadMoved(p) \/ HeadUnreadable(p) \/ FailIndex(p))
        BY <1>4, <3>2 DEF Call, Refuse, Reuse, Verify, FindHeadMoved, HeadUnreadable, FailIndex,
                          Return, Types, LocksOK, AtWork, At, Outside
      <4>2. CASE Verify(p) \/ FindHeadMoved(p)
        <5>1. pc[p] = "verifying" \/ (pc[p] = "failing" /\ ~Unmoved(p))
          BY <4>2 DEF Verify, FindHeadMoved, At, Unmoved
        <5> QED
          BY <2>1, <4>1, <5>1 DEF CalmTargets, CalmAt, Accounted
      <4>3. CASE HeadUnreadable(p) \/ FailIndex(p)
        <5>1. K(p) \in unrestored'
          BY <4>3 DEF HeadUnreadable, FailIndex, Return, Report
        <5> QED
          BY <2>1, <4>1, <5>1 DEF CalmTargets, CalmAt, Accounted
      <4> QED
        BY <4>1, <4>2, <4>3
    <3> QED
      BY <3>1, <3>2
  <2> QED
    BY <1>1, <1>2, <2>1, <2>2 DEF CalmTargets, CalmAt, Calm, Accounted, CleanTarget, Unmoved, K
<1> QED
  BY <1>3, <1>4

LEMMA CalmOfBegin ==
    ASSUME Types, Types', CalmTargets, NEW p \in Writers, Begin(p)
    PROVE  CalmTargets'
<1>1. /\ UNCHANGED <<file, index, head, log, request, raced, crashes, unrestored>> /\ lock = Nobody
      /\ CleanTarget(K(p))
  BY DEF Begin, worktree, staging, history, spent
<1>2. /\ pc'[p] = "writing" /\ before'[p].index = index /\ before'[p].file = file[K(p)]
      /\ before'[p].head = Len(log)
      /\ AtWork(p)'
  BY DEF Begin, To, Types, LocksOK, LocalsOK, AtWork, Outside
<1>3. \A q \in Writers : AtWork(q)' => q = p
  <2>1. \A q \in Writers : q # p => pc'[q] = pc[q] /\ ~AtWork(q)
    BY <1>1, LockTellsWork DEF Begin, To, Types, LocksOK
  <2> QED
    BY <2>1 DEF AtWork
<1>4. K(p) \in Kinds /\ K(p)' = K(p) /\ lock' # Nobody
  BY <1>1, KindOfRequest, NobodyAssumption DEF Begin, At, K
<1>5. Calm => \A k \in Kinds : Accounted(k)
  BY <1>1 DEF CalmTargets
<1> QED
  BY <1>1, <1>2, <1>3, <1>4, <1>5 DEF CalmTargets, CalmAt, Calm, Accounted, CleanTarget, Unmoved,
                                      BeforeCommit, RollingBack

\* When the owner of the lock goes on, the rest of the invariant is its own.
LEMMA CalmOfOwner ==
    ASSUME Types, CalmTargets, NEW p \in Writers, AtWork(p), AtWork(p)',
           \A q \in Writers : q # p => pc'[q] = pc[q],
           UNCHANGED <<lock, crashes, raced>>, Calm /\ CalmAt(p) => CalmAt(p)'
    PROVE  CalmTargets'
<1>1. lock # Nobody /\ \A q \in Writers : AtWork(q)' => q = p
  BY LockTellsWork DEF AtWork
<1> QED
  BY <1>1 DEF CalmTargets, Calm

LEMMA CalmOfFiles ==
    ASSUME Types, CalmTargets, NEW p \in Writers,
           \/ WriteLedger(p) \/ WriteReceipt(p) \/ Fail(p) \/ FindHeadSame(p) \/ CommitNothing(p)
           \/ RestoreFiles(p)
    PROVE  CalmTargets'
<1>1. /\ UNCHANGED <<index, head, log, request, before, lock, crashes, raced, unrestored>>
      /\ AtWork(p) /\ AtWork(p)' /\ K(p)' = K(p)
      /\ \A q \in Writers : q # p => pc'[q] = pc[q]
  BY DEF WriteLedger, WriteReceipt, Fail, FindHeadSame, CommitNothing, RestoreFiles, staging, history,
         locals, At,
         Outside, AtWork, To, Types, LocksOK, K, spent
<1>2. K(p) \in Kinds
  BY <1>1, KindOfRequest DEF AtWork, Outside
<1>3. \A k \in Kinds \ {K(p)} : file'[k] = file[k]
  BY <1>2 DEF WriteLedger, WriteReceipt, Fail, FindHeadSame, CommitNothing, RestoreFiles, worktree,
              Types,
              LedgersOK, Ledgers
<1>4. ASSUME CalmAt(p) PROVE CalmAt(p)'
  <2>1. \A k \in Kinds \ {K(p)} : Accounted(k)' /\ before'[p].index[k] = index'[k]
    BY <1>1, <1>3, <1>4 DEF CalmAt, Accounted, CleanTarget
  <2>2. /\ pc'[p] \in BeforeCommit \cup RollingBack => Unmoved(p)'
        /\ pc'[p] = "failing" => pc[p] \in BeforeCommit
        /\ pc'[p] \notin {"writing", "verifying"}
    BY <1>1, <1>4 DEF CalmAt, Unmoved, BeforeCommit, RollingBack, WriteLedger, WriteReceipt, Fail,
                      FindHeadSame, CommitNothing, RestoreFiles, At, To, Types, LocksOK
  <2>3. Unmoved(p)' <=> Unmoved(p)
    BY <1>1 DEF Unmoved
  <2>4. Unmoved(p)' => before'[p].file = head'[K(p)] /\ before'[p].index[K(p)] = head'[K(p)]
    BY <1>1, <1>4, <2>3 DEF CalmAt
  <2>5. pc'[p] = "reindexing" => file'[K(p)] = head'[K(p)]
    <3>1. pc'[p] = "reindexing" => RestoreFiles(p)
      BY DEF WriteLedger, WriteReceipt, Fail, FindHeadSame, CommitNothing, To, Types, LocksOK
    <3>2. RestoreFiles(p) /\ pc'[p] = "reindexing" =>
              file'[K(p)] = before[p].file /\ pc[p] = "restoring"
      BY <1>2 DEF RestoreFiles, At, To, Types, LocksOK, LedgersOK, Ledgers
    <3> QED
      BY <1>1, <1>4, <3>1, <3>2 DEF CalmAt, RollingBack
  <2>6. pc'[p] = "failing" => Unmoved(p)'
    BY <1>4, <2>2, <2>3 DEF CalmAt
  <2> QED
    BY <1>1, <2>1, <2>2, <2>4, <2>5, <2>6 DEF CalmAt
<1> QED
  BY <1>1, <1>4, CalmOfOwner

LEMMA CalmOfGit ==
    ASSUME Types, CalmTargets, NEW p \in Writers, AddPaths(p) \/ Commit(p) \/ TimeOut(p)
    PROVE  CalmTargets'
<1>1. /\ UNCHANGED <<file, request, before, lock, crashes, raced, unrestored>> /\ Add(p)
      /\ AtWork(p) /\ AtWork(p)' /\ K(p)' = K(p)
      /\ \A q \in Writers : q # p => pc'[q] = pc[q]
  BY DEF AddPaths, Commit, TimeOut, CommitOnly, worktree, locals, spent, At, Outside, AtWork, To,
         Types, LocksOK, K
<1>2. K(p) \in Kinds
  BY <1>1, KindOfRequest DEF AtWork, Outside
<1>3. index'[K(p)] = file[K(p)] /\ \A k \in Kinds \ {K(p)} : index'[k] = index[k]
  BY <1>1, <1>2 DEF Add, Types, LedgersOK, Ledgers
<1>4. ASSUME CalmAt(p) PROVE CalmAt(p)'
  <2>1. CASE AddPaths(p)
    <3>1. UNCHANGED <<head, log>> /\ pc[p] = "adding" /\ pc'[p] = "committing"
      BY <2>1 DEF AddPaths, history, At, To, Types, LocksOK
    <3>2. Unmoved(p)' /\ Unmoved(p)
      BY <1>1, <1>4, <3>1 DEF Unmoved, CalmAt, BeforeCommit
    <3> QED
      BY <1>1, <1>3, <1>4, <3>1, <3>2 DEF CalmAt, Accounted, CleanTarget
  <2>2. CASE Commit(p) \/ TimeOut(p)
    <3>1. /\ head' = [head EXCEPT ![K(p)] = file[K(p)]] /\ log' = Append(log, {tx[p]})
          /\ pc[p] = "committing" /\ pc'[p] \in {"verifying", "failing"}
      BY <2>2 DEF Commit, TimeOut, CommitOnly, At, To, Types, LocksOK
    <3>2. head'[K(p)] = file[K(p)] /\ \A k \in Kinds \ {K(p)} : head'[k] = head[k]
      BY <1>2, <3>1 DEF Types, LedgersOK, Ledgers
    <3>3. Len(log') = Len(log) + 1 /\ Len(log) \in Nat
      <4>1. log \in Seq(SUBSET Ids) /\ {tx[p]} \in SUBSET Ids
        BY <1>1, KindOfRequest DEF Types, IdsOK, AtWork, Outside
      <4> QED
        BY <3>1, <4>1
    <3>4. ~Unmoved(p)'
      BY <1>1, <1>4, <3>1, <3>3 DEF Unmoved, CalmAt, BeforeCommit
    <3> QED
      BY <1>1, <1>3, <1>4, <3>1, <3>2, <3>4 DEF CalmAt, Accounted, CleanTarget, BeforeCommit,
                                                RollingBack
  <2> QED
    BY <2>1, <2>2
<1> QED
  BY <1>1, <1>4, CalmOfOwner

LEMMA CalmOfRestore ==
    ASSUME Types, Types', CalmTargets, NEW p \in Writers, RestoreIndex(p)
    PROVE  CalmTargets'
<1>1. /\ UNCHANGED <<file, head, raced, crashes>> /\ index' = before[p].index
      /\ pc[p] \in {"reindexing", "leaving"} /\ AtWork(p)
  BY DEF RestoreIndex, worktree, history, spent, AtWork, Outside
<1>2. \A q \in Writers : ~AtWork(q)'
  BY <1>1, LockTellsWork DEF RestoreIndex, Return, To, Types, LocksOK, AtWork, Outside
<1>3. /\ unrestored \subseteq unrestored'
      /\ pc[p] = "leaving" => K(p) \in unrestored'
  BY DEF RestoreIndex, Restored, At, Return, Report
<1>4. ASSUME Calm PROVE \A k \in Kinds : Accounted(k)'
  <2>1. CalmAt(p) /\ Unmoved(p)
    BY <1>1, <1>4 DEF CalmTargets, CalmAt, RollingBack
  <2>2. \A k \in Kinds \ {K(p)} : Accounted(k)'
    BY <1>1, <1>3, <2>1 DEF CalmAt, Accounted, CleanTarget
  <2>3. ASSUME NEW k \in Kinds, k = K(p) PROVE Accounted(k)'
    BY <1>1, <1>3, <2>1, <2>3 DEF CalmAt, Accounted, CleanTarget
  <2> QED
    BY <2>2, <2>3
<1> QED
  BY <1>1, <1>2, <1>4 DEF CalmTargets, Calm

\* A commit by others into a write ends the calm; one between writes commits
\* what is committed already.
LEMMA CalmOfOthers ==
    ASSUME Types, CalmTargets, StageOther \/ CommitOther
    PROVE  CalmTargets'
<1>1. UNCHANGED <<file, index, pc, lock, before, request, crashes, unrestored>>
  BY DEF StageOther, CommitOther, worktree, locals
<1>2. CASE StageOther
  BY <1>1, <1>2 DEF StageOther, history, CalmTargets, CalmAt, Calm, Accounted, CleanTarget, Unmoved,
                    K, AtWork
<1>3. CASE CommitOther
  <2>1. head' = index /\ raced' = raced \cup {Phase(q) : q \in Writers}
    BY <1>3 DEF CommitOther
  <2>2. ASSUME NEW q \in Writers, AtWork(q) PROVE ~Calm'
    <3>1. Phase(q) # "none"
      BY <2>2 DEF Phase, AtWork, Outside
    <3> QED
      BY <2>1, <3>1 DEF Calm
  <2>3. Calm' => Calm
    BY <1>1, <2>1 DEF Calm
  <2> QED
    BY <1>1, <2>1, <2>2, <2>3 DEF CalmTargets, Accounted, CleanTarget, AtWork
<1> QED
  BY <1>2, <1>3

-----------------------------------------------------------------------------
(* Committed rows are kept                                                 *)

\* HEAD is behind the index, and both are behind the file of a write until it
\* commits.  A rollback restores an image HEAD is behind, as long as HEAD is
\* what it was when the image was taken; a commit in its middle breaks that.
Unraced == "rollback" \notin raced
WriteIsAhead == \A p \in Writers : pc[p] \in BeforeCommit =>
                    IsPrefix(index[K(p)], file[K(p)]) /\ IsPrefix(head[K(p)], file[K(p)])
LogGrows == \A p \in Writers : AtWork(p) => Len(log) >= before[p].head
HeadIsBehind ==
    Unraced => /\ \A k \in Kinds : IsPrefix(head[k], index[k])
               /\ \A p \in Writers : AtWork(p) =>
                     /\ pc[p] \in RollingBack => Unmoved(p)
                     /\ Unmoved(p) => \A k \in Kinds : IsPrefix(head[k], before[p].index[k])
NothingLost == WriteIsAhead /\ LogGrows /\ HeadIsBehind

LEMMA PrefixMeans ==
    ASSUME NEW S, NEW s \in Seq(S), NEW t \in Seq(S)
    PROVE  IsPrefix(s, t) <=> Len(s) <= Len(t) /\ \A i \in 1..Len(s) : s[i] = t[i]
<1>1. Len(s) \in Nat /\ Len(t) \in Nat
  OBVIOUS
<1>2. SubSeq(s, 1, Len(s)) = s
  OBVIOUS
<1>3. ASSUME Len(s) <= Len(t)
      PROVE  /\ SubSeq(t, 1, Len(s)) \in Seq(S) /\ Len(SubSeq(t, 1, Len(s))) = Len(s)
             /\ \A i \in 1..Len(s) : SubSeq(t, 1, Len(s))[i] = t[i]
  BY <1>1, <1>3
<1>4. ASSUME Len(s) <= Len(t), \A i \in 1..Len(s) : s[i] = t[i]
      PROVE  s = SubSeq(t, 1, Len(s))
  BY <1>1, <1>3, <1>4
<1> QED
  BY <1>2, <1>3, <1>4 DEF IsPrefix

LEMMA PrefixSelf == ASSUME NEW S, NEW s \in Seq(S) PROVE IsPrefix(s, s)
BY DEF IsPrefix

LEMMA PrefixAppend ==
    ASSUME NEW S, NEW s \in Seq(S), NEW t \in Seq(S), NEW e \in S, IsPrefix(s, t)
    PROVE  IsPrefix(s, Append(t, e))
<1>1. Len(s) <= Len(t) /\ \A i \in 1..Len(s) : s[i] = t[i]
  BY PrefixMeans
<1>2. /\ Append(t, e) \in Seq(S) /\ Len(Append(t, e)) = Len(t) + 1
      /\ \A i \in 1..Len(t) : Append(t, e)[i] = t[i]
  OBVIOUS
<1>3. Len(s) \in Nat /\ Len(t) \in Nat
  OBVIOUS
<1>4. Len(s) <= Len(Append(t, e)) /\ \A i \in 1..Len(s) : s[i] = Append(t, e)[i]
  BY <1>1, <1>2, <1>3
<1> QED
  BY <1>2, <1>4, PrefixMeans

LEMMA PrefixTx ==
    ASSUME NEW s \in Seq(Row), NEW t \in Seq(Row), IsPrefix(s, t)
    PROVE  TxOf(s) \subseteq TxOf(t)
<1>1. Len(s) <= Len(t) /\ \A i \in 1..Len(s) : s[i] = t[i]
  BY PrefixMeans
<1>2. Len(s) \in Nat /\ Len(t) \in Nat /\ DOMAIN s = 1..Len(s) /\ DOMAIN t = 1..Len(t)
  OBVIOUS
<1>3. Range(s) \subseteq Range(t)
  BY <1>1, <1>2 DEF Range
<1> QED
  BY <1>3 DEF TxOf

LEMMA LostInit == Init => NothingLost
<1> SUFFICES ASSUME Init PROVE NothingLost
  OBVIOUS
<1>1. \A k \in Kinds : head[k] = <<>> /\ index[k] = <<>>
  BY DEF Init, NoRows
<1>2. IsPrefix(<<>>, <<>>)
  BY DEF IsPrefix
<1> QED
  BY <1>1, <1>2 DEF Init, NothingLost, WriteIsAhead, LogGrows, HeadIsBehind, AtWork, Outside,
                    BeforeCommit

LEMMA LostOfCalls ==
    ASSUME Types, NothingLost, NEW p \in Writers, NEW r \in Requests,
           Call(p, r) \/ Refuse(p) \/ Reuse(p) \/ Verify(p) \/ FindHeadMoved(p) \/ HeadUnreadable(p)
           \/ FailIndex(p) \/ Crash(p)
    PROVE  NothingLost'
<1>1. UNCHANGED <<file, index, head, log, raced>>
  BY DEF Call, Refuse, Reuse, Verify, FindHeadMoved, HeadUnreadable, FailIndex, Crash, worktree,
         staging, history
<1>2. \A q \in Writers : AtWork(q)' =>
          /\ AtWork(q) /\ pc'[q] = pc[q] /\ before'[q] = before[q] /\ request'[q] = request[q]
  BY DEF Call, Refuse, Reuse, Verify, FindHeadMoved, HeadUnreadable, FailIndex, Crash, Return, Report,
         To, Types, LocksOK, LocalsOK,
         Outside, locals, AtWork
<1>3. WriteIsAhead'
  BY <1>1, <1>2 DEF NothingLost, WriteIsAhead, K, BeforeCommit, AtWork, Outside
<1>4. LogGrows' /\ HeadIsBehind'
  BY <1>1, <1>2 DEF NothingLost, LogGrows, HeadIsBehind, Unraced, Unmoved
<1> QED
  BY <1>3, <1>4 DEF NothingLost

LEMMA LostOfBegin ==
    ASSUME Types, NothingLost, NEW p \in Writers, Begin(p)
    PROVE  NothingLost'
<1>1. UNCHANGED <<file, index, head, log, request, raced>> /\ lock = Nobody
  BY DEF Begin, worktree, staging, history
<1>2. pc'[p] = "writing" /\ before'[p].index = index /\ before'[p].head = Len(log)
  BY DEF Begin, To, Types, LocksOK, LocalsOK
<1>3. \A q \in Writers : AtWork(q)' => q = p
  <2>1. \A q \in Writers : q # p => pc'[q] = pc[q] /\ ~AtWork(q)
    BY <1>1, LockTellsWork DEF Begin, To, Types, LocksOK
  <2> QED
    BY <2>1 DEF AtWork
<1>4. K(p) \in Kinds /\ K(p)' = K(p) /\ CleanTarget(K(p))
  BY <1>1, KindOfRequest DEF Begin, At, K
<1>5. IsPrefix(file[K(p)], file[K(p)])
  BY <1>4, PrefixSelf DEF Types, LedgersOK, Ledgers
<1>6. Len(log) \in Nat
  BY DEF Types, IdsOK
<1>7. WriteIsAhead'
  BY <1>1, <1>3, <1>4, <1>5 DEF WriteIsAhead, CleanTarget, BeforeCommit, AtWork, Outside
<1>8. LogGrows' /\ HeadIsBehind'
  BY <1>1, <1>2, <1>3, <1>6 DEF NothingLost, LogGrows, HeadIsBehind, Unraced, Unmoved, RollingBack
<1> QED
  BY <1>7, <1>8 DEF NothingLost

LEMMA LostOfFiles ==
    ASSUME Types, NothingLost, NEW p \in Writers,
           \/ WriteLedger(p) \/ WriteReceipt(p) \/ Fail(p) \/ FindHeadSame(p) \/ CommitNothing(p)
           \/ RestoreFiles(p)
    PROVE  NothingLost'
<1>1. /\ UNCHANGED <<index, head, log, request, before, raced>>
      /\ AtWork(p) /\ K(p)' = K(p)
      /\ \A q \in Writers : q # p => pc'[q] = pc[q]
  BY DEF WriteLedger, WriteReceipt, Fail, FindHeadSame, CommitNothing, RestoreFiles, staging, history,
         locals, At,
         Outside, AtWork, To, Types, LocksOK, K
<1>2. \A q \in Writers : AtWork(q)' => AtWork(q) /\ q = p
  BY <1>1, LockTellsWork DEF AtWork
<1>3. K(p) \in Kinds
  BY <1>1, KindOfRequest DEF AtWork, Outside
<1>4. WriteIsAhead'
  <2>1. CASE WriteLedger(p)
    <3> DEFINE row == [request |-> request[p], tx |-> tx[p]]
    <3>1. row \in Row
      BY <1>1, KindOfRequest, Bounds DEF Row, AtWork, Outside
    <3>2. /\ file'[K(p)] = Append(file[K(p)], row) /\ file[K(p)] \in Seq(Row)
          /\ index[K(p)] \in Seq(Row) /\ head[K(p)] \in Seq(Row)
      BY <1>3, <2>1 DEF WriteLedger, Types, LedgersOK, Ledgers
    <3>3. IsPrefix(index[K(p)], file[K(p)]) /\ IsPrefix(head[K(p)], file[K(p)])
      BY <2>1 DEF WriteLedger, At, NothingLost, WriteIsAhead, BeforeCommit
    <3>4. /\ IsPrefix(index[K(p)], Append(file[K(p)], row))
          /\ IsPrefix(head[K(p)], Append(file[K(p)], row))
      BY <3>1, <3>2, <3>3, PrefixAppend
    <3> QED
      BY <1>1, <1>2, <3>2, <3>4 DEF WriteIsAhead, BeforeCommit, AtWork, Outside
  <2>2. CASE WriteReceipt(p)
    BY <1>1, <1>2, <2>2 DEF WriteReceipt, At, NothingLost, WriteIsAhead, BeforeCommit, AtWork, Outside
  <2>3. CASE Fail(p) \/ FindHeadSame(p) \/ CommitNothing(p) \/ RestoreFiles(p)
    <3>1. pc'[p] \notin BeforeCommit
      BY <2>3 DEF Fail, FindHeadSame, CommitNothing, RestoreFiles, To, Types, LocksOK, BeforeCommit
    <3> QED
      BY <1>2, <3>1 DEF WriteIsAhead, BeforeCommit, AtWork, Outside
  <2> QED
    BY <2>1, <2>2, <2>3
<1>5. pc'[p] \in RollingBack => Unmoved(p) \/ pc[p] \in RollingBack
  BY DEF WriteLedger, WriteReceipt, Fail, FindHeadSame, CommitNothing, RestoreFiles, At, To, Types,
         LocksOK,
         RollingBack, Unmoved
<1>6. LogGrows' /\ HeadIsBehind'
  BY <1>1, <1>2, <1>5 DEF NothingLost, LogGrows, HeadIsBehind, Unraced, Unmoved
<1> QED
  BY <1>4, <1>6 DEF NothingLost

LEMMA LostOfGit ==
    ASSUME Types, NothingLost, NEW p \in Writers, AddPaths(p) \/ Commit(p) \/ TimeOut(p)
    PROVE  NothingLost'
<1>1. /\ UNCHANGED <<file, request, before, raced>> /\ Add(p)
      /\ pc[p] \in {"adding", "committing"} /\ K(p)' = K(p)
      /\ pc'[p] \in {"committing", "verifying", "failing"}
      /\ \A q \in Writers : q # p => pc'[q] = pc[q]
  BY DEF AddPaths, Commit, TimeOut, CommitOnly, worktree, locals, At, To, Types, LocksOK, K
<1>2. \A q \in Writers : AtWork(q)' => AtWork(q) /\ q = p
  BY <1>1, LockTellsWork DEF AtWork, Outside
<1>3. K(p) \in Kinds /\ AtWork(p) /\ tx[p] \in Ids
  BY <1>1, KindOfRequest DEF AtWork, Outside
<1>4. index'[K(p)] = file[K(p)] /\ \A k \in Kinds \ {K(p)} : index'[k] = index[k]
  BY <1>1, <1>3 DEF Add, Types, LedgersOK, Ledgers
<1>5. IsPrefix(head[K(p)], file[K(p)]) /\ IsPrefix(file[K(p)], file[K(p)])
  BY <1>1, <1>3, PrefixSelf DEF NothingLost, WriteIsAhead, BeforeCommit, Types, LedgersOK, Ledgers
<1>6. CASE AddPaths(p)
  <2>1. UNCHANGED <<head, log>>
    BY <1>6 DEF AddPaths, history
  <2>2. WriteIsAhead'
    BY <1>1, <1>2, <1>4, <1>5, <2>1 DEF WriteIsAhead, BeforeCommit, AtWork, Outside
  <2>3. Unraced => \A k \in Kinds : IsPrefix(head[k], index'[k])
    BY <1>4, <1>5 DEF NothingLost, HeadIsBehind
  <2>4. LogGrows' /\ HeadIsBehind'
    BY <1>1, <1>2, <2>1, <2>3 DEF NothingLost, LogGrows, HeadIsBehind, Unraced, Unmoved, RollingBack
  <2> QED
    BY <2>2, <2>4 DEF NothingLost
<1>7. CASE Commit(p) \/ TimeOut(p)
  <2>1. /\ head' = [head EXCEPT ![K(p)] = file[K(p)]] /\ log' = Append(log, {tx[p]})
        /\ pc'[p] \in {"verifying", "failing"}
    BY <1>7 DEF Commit, TimeOut, CommitOnly, To, Types, LocksOK
  <2>2. head'[K(p)] = file[K(p)] /\ \A k \in Kinds \ {K(p)} : head'[k] = head[k]
    BY <1>3, <2>1 DEF Types, LedgersOK, Ledgers
  <2>3. Len(log') = Len(log) + 1 /\ Len(log) \in Nat
    <3>1. log \in Seq(SUBSET Ids) /\ {tx[p]} \in SUBSET Ids
      BY <1>3 DEF Types, IdsOK
    <3> QED
      BY <2>1, <3>1
  <2>4. before[p].head \in Nat /\ before[p].head <= Len(log)
    BY <1>3 DEF NothingLost, LogGrows, Types, LocalsOK, Image
  <2>5. Len(log') >= before[p].head /\ Len(log') # before[p].head
    BY <2>3, <2>4
  <2>6. WriteIsAhead'
    BY <1>2, <2>1 DEF WriteIsAhead, BeforeCommit, AtWork, Outside
  <2>7. LogGrows'
    BY <1>1, <1>2, <2>5 DEF LogGrows
  <2>8. Unraced => \A k \in Kinds : IsPrefix(head'[k], index'[k])
    BY <1>4, <1>5, <2>2 DEF NothingLost, HeadIsBehind
  <2>9. HeadIsBehind'
    BY <1>1, <1>2, <2>1, <2>5, <2>8 DEF HeadIsBehind, Unraced, Unmoved, RollingBack
  <2> QED
    BY <2>6, <2>7, <2>9 DEF NothingLost
<1> QED
  BY <1>6, <1>7

LEMMA LostOfRestore ==
    ASSUME Types, NothingLost, NEW p \in Writers, RestoreIndex(p)
    PROVE  NothingLost'
<1>1. UNCHANGED <<head, log, raced>> /\ index' = before[p].index /\ pc[p] \in RollingBack /\ AtWork(p)
  BY DEF RestoreIndex, history, RollingBack, AtWork, Outside
<1>2. \A q \in Writers : ~AtWork(q)'
  BY <1>1, LockTellsWork DEF RestoreIndex, Return, Report, To, Types, LocksOK, AtWork, Outside
<1>3. Unraced => \A k \in Kinds : IsPrefix(head[k], index'[k])
  BY <1>1 DEF NothingLost, HeadIsBehind, RollingBack
<1> QED
  BY <1>1, <1>2, <1>3 DEF NothingLost, WriteIsAhead, LogGrows, HeadIsBehind, Unraced, BeforeCommit,
                          AtWork, Outside

LEMMA LostOfOthers ==
    ASSUME Types, NothingLost, StageOther \/ CommitOther
    PROVE  NothingLost'
<1>1. UNCHANGED <<file, index, pc, before, request>>
  BY DEF StageOther, CommitOther, worktree, locals
<1>2. CASE StageOther
  BY <1>1, <1>2 DEF StageOther, history, NothingLost, WriteIsAhead, LogGrows, HeadIsBehind, Unraced,
                    Unmoved, K, AtWork
<1>3. CASE CommitOther
  <2>1. /\ head' = index /\ raced' = raced \cup {Phase(q) : q \in Writers}
        /\ log' = Append(log, indexed \ committed)
    BY <1>3 DEF CommitOther
  <2>2. Len(log') = Len(log) + 1 /\ Len(log) \in Nat
    <3>1. log \in Seq(SUBSET Ids) /\ indexed \ committed \in SUBSET Ids
      BY DEF Types, IdsOK
    <3> QED
      BY <2>1, <3>1
  <2>3. \A k \in Kinds : IsPrefix(index[k], index[k])
    BY PrefixSelf DEF Types, LedgersOK, Ledgers
  <2>4. \A q \in Writers : AtWork(q) => before[q].head \in Nat /\ before[q].head <= Len(log)
    BY DEF NothingLost, LogGrows, Types, LocalsOK, Image
  <2>5. \A q \in Writers : AtWork(q) => Len(log') >= before[q].head /\ Len(log') # before[q].head
    BY <2>2, <2>4
  <2>6. \A q \in Writers : pc[q] \in RollingBack => ~Unraced'
    <3>1. \A q \in Writers : pc[q] \in RollingBack => Phase(q) = "rollback"
      BY DEF Phase, RollingBack
    <3> QED
      BY <2>1, <3>1 DEF Unraced
  <2>7. WriteIsAhead'
    BY <1>1, <2>1 DEF NothingLost, WriteIsAhead, K
  <2>8. LogGrows' /\ HeadIsBehind'
    BY <1>1, <2>1, <2>3, <2>5, <2>6 DEF LogGrows, HeadIsBehind, Unmoved, AtWork
  <2> QED
    BY <2>7, <2>8 DEF NothingLost
<1> QED
  BY <1>2, <1>3

-----------------------------------------------------------------------------
(* What a call said is true                                                *)

Logged == UNION Range(log)
Trace == AllTx(file) \cup receipts \cup indexed \cup Logged
ImageTrace(p) == TxOf(before[p].file) \cup before[p].indexed

\* Ids are given out in order, no two calls share one, and none leaves a trace
\* before its call has the lock ...
Spoken == /\ Trace \subseteq 1..writes
          /\ \A p \in Writers : AtWork(p) => ImageTrace(p) \subseteq 1..writes
          /\ \A p \in Writers : tx[p] \in 0..writes
Distinct == \A p, q \in Writers : (pc[p] # "idle" /\ p # q) => tx[p] # tx[q]
Untraced == \A p \in Writers : pc[p] = "waiting" =>
                /\ tx[p] \notin Trace
                /\ \A q \in Writers : AtWork(q) => tx[p] \notin ImageTrace(q)
\* ... nor does it, at work, in what its rollback restores, or in the log
\* before HEAD has moved.
UndoneAt(p) == /\ tx[p] \notin before[p].indexed
               /\ Unmoved(p) => tx[p] \notin Logged
               /\ pc[p] = "reindexing" => tx[p] \notin receipts
Undone == \A p \in Writers : AtWork(p) => UndoneAt(p)
FreshIds == Spoken /\ Distinct /\ Untraced /\ Undone

\* What is said of a call stays true when it has returned.
Gone(p) == /\ tx[p] \notin receipts \cup indexed \cup Logged
           /\ \A q \in Writers : AtWork(q) => tx[p] \notin before[q].indexed
SaidAtTheEnd == \A p \in Writers : outcome[p] # "none" => pc[p] = "idle"
SaidTruly == Unraced => \A p \in Writers : /\ outcome[p] = "failed" => Gone(p)
                                           /\ outcome[p] = "ok" => tx[p] \in committed

LEMMA LoggedAppend ==
    ASSUME Types, NEW ids \in SUBSET Ids, log' = Append(log, ids)
    PROVE  Logged' = Logged \cup ids /\ Len(log') = Len(log) + 1 /\ Len(log) \in Nat
<1>1. log \in Seq(SUBSET Ids)
  BY DEF Types, IdsOK
<1>2. Range(log') = Range(log) \cup {ids}
  BY <1>1, RangeOfAppend
<1> QED
  BY <1>1, <1>2 DEF Logged

\* A ledger replaced leaves the ids of its new rows, and perhaps others.
LEMMA AllTxBound ==
    ASSUME NEW ledgers \in Ledgers, NEW k \in Kinds, NEW rows
    PROVE  AllTx([ledgers EXCEPT ![k] = rows]) \subseteq AllTx(ledgers) \cup TxOf(rows)
BY DEF AllTx, Ledgers

LEMMA FreshInit == Init => FreshIds /\ SaidAtTheEnd /\ SaidTruly
<1> SUFFICES ASSUME Init PROVE FreshIds /\ SaidAtTheEnd /\ SaidTruly
  OBVIOUS
<1>1. Trace = {}
  BY DEF Init, Trace, AllTx, TxOf, Range, NoRows, Logged
<1>2. \A p \in Writers : pc[p] = "idle" /\ tx[p] = 0 /\ outcome[p] = "none"
  BY DEF Init
<1>3. writes = 0
  BY DEF Init
<1>4. Spoken
  BY <1>1, <1>2, <1>3 DEF Spoken, AtWork, Outside
<1> QED
  BY <1>2, <1>4 DEF FreshIds, Distinct, Untraced, Undone, SaidAtTheEnd, SaidTruly, AtWork, Outside

\* Calls that are not at work, and those that end there.
LEMMA FreshOfCall ==
    ASSUME Types, FreshIds, NEW p \in Writers, NEW r \in Requests, Call(p, r)
    PROVE  FreshIds'
<1>1. /\ UNCHANGED <<file, receipts, indexed, log, before>> /\ writes' = writes + 1
      /\ tx' = [tx EXCEPT ![p] = writes + 1] /\ pc[p] = "idle" /\ pc' = [pc EXCEPT ![p] = "waiting"]
  BY DEF Call, worktree, staging, history, At, To
<1>2. writes \in Nat /\ \A n \in 0..writes : n # writes + 1 /\ n \in 0..writes + 1
  BY Bounds DEF Types, SpentOK
<1>3. Trace' = Trace /\ \A q \in Writers : ImageTrace(q)' = ImageTrace(q) /\ Unmoved(q)' = Unmoved(q)
  BY <1>1 DEF Trace, Logged, ImageTrace, Unmoved
<1>4. /\ tx'[p] = writes + 1 /\ pc'[p] = "waiting"
      /\ \A q \in Writers : q # p => tx'[q] = tx[q] /\ pc'[q] = pc[q]
  BY <1>1 DEF Types, LocksOK, LocalsOK
<1>5. \A q \in Writers : AtWork(q)' <=> AtWork(q)
  BY <1>1, <1>4 DEF AtWork, Outside
<1>6. Spoken'
  <2>1. 1..writes \subseteq 1..writes' /\ writes + 1 \in 0..writes' /\ 0..writes \subseteq 0..writes'
    BY <1>1, <1>2
  <2> QED
    BY <1>3, <1>4, <1>5, <2>1 DEF FreshIds, Spoken
<1>7. Distinct'
  BY <1>2, <1>4 DEF FreshIds, Distinct, Spoken
<1>8. Untraced'
  <2>1. writes + 1 \notin 1..writes
    BY <1>2
  <2>2. writes + 1 \notin Trace /\ \A q \in Writers : AtWork(q) => writes + 1 \notin ImageTrace(q)
    BY <2>1 DEF FreshIds, Spoken
  <2> QED
    BY <1>3, <1>4, <1>5, <2>2 DEF FreshIds, Untraced
<1>9. Undone'
  BY <1>1, <1>3, <1>4, <1>5 DEF FreshIds, Undone, UndoneAt, Logged, AtWork, Outside
<1> QED
  BY <1>6, <1>7, <1>8, <1>9 DEF FreshIds

\* A row found under the lock is of no call that still waits.
LEMMA FreshOfReuse ==
    ASSUME Types, FreshIds, NEW p \in Writers, Reuse(p)
    PROVE  FreshIds' /\ tx'[p] \in AllTx(file) /\ CleanTarget(K(p)) /\ tx'[p] \in TxOf(file[K(p)])
<1>1. /\ UNCHANGED <<file, receipts, indexed, log, writes>> /\ lock = Nobody /\ pc[p] = "waiting"
      /\ pc' = [pc EXCEPT ![p] = "idle"] /\ CleanTarget(K(p))
  BY DEF Reuse, worktree, staging, history, spent, At, Return, Report, To
<1>2. K(p) \in Kinds
  BY <1>1, KindOfRequest
<1> DEFINE row == CHOOSE row \in Rows(K(p)) : row.request = request[p]
<1>3. row \in Rows(K(p)) /\ tx' = [tx EXCEPT ![p] = row.tx]
  BY DEF Reuse, Has, Found, K
<1> HIDE DEF row
<1>4. tx'[p] = row.tx /\ \A q \in Writers : q # p => tx'[q] = tx[q] /\ pc'[q] = pc[q]
  BY <1>1, <1>3 DEF Types, LocksOK, LocalsOK
<1>5. tx'[p] \in TxOf(file[K(p)]) /\ tx'[p] \in AllTx(file)
  BY <1>2, <1>3, <1>4 DEF Rows, TxOf, AllTx
<1>6. \A q \in Writers : ~AtWork(q)' /\ ~AtWork(q)
  BY <1>1, <1>4, LockTellsWork DEF AtWork, Outside, Types, LocksOK
<1>7. Trace' = Trace /\ tx'[p] \in Trace
  BY <1>1, <1>5 DEF Trace, Logged
<1>8. Spoken'
  <2>1. 1..writes \subseteq 0..writes
    OBVIOUS
  <2> QED
    BY <1>1, <1>4, <1>6, <1>7, <2>1 DEF FreshIds, Spoken
<1>9. Distinct'
  <2>1. \A q \in Writers : pc'[q] # "idle" => q # p /\ pc[q] = "waiting" /\ tx'[q] = tx[q]
    BY <1>1, <1>4, <1>6 DEF AtWork, Outside, Types, LocksOK
  <2>2. \A q \in Writers : pc'[q] # "idle" => tx'[q] # tx'[p]
    BY <1>7, <2>1 DEF FreshIds, Untraced
  <2> QED
    BY <1>4, <2>1, <2>2 DEF FreshIds, Distinct
<1>10. Untraced' /\ Undone'
  BY <1>1, <1>4, <1>6, <1>7 DEF FreshIds, Untraced, Undone, Types, LocksOK
<1> QED
  BY <1>1, <1>5, <1>8, <1>9, <1>10 DEF FreshIds

LEMMA FreshOfBegin ==
    ASSUME Types, FreshIds, NEW p \in Writers, Begin(p)
    PROVE  FreshIds'
<1>1. /\ UNCHANGED <<file, receipts, indexed, log, tx, writes>> /\ lock = Nobody /\ pc[p] = "waiting"
      /\ pc' = [pc EXCEPT ![p] = "writing"] /\ K(p) \in Kinds
  BY KindOfRequest DEF Begin, worktree, staging, history, spent, At, To
<1>2. before'[p].indexed = indexed /\ before'[p].file = file[K(p)]
  BY DEF Begin, Types, LocalsOK
<1>3. \A q \in Writers : /\ q # p => pc'[q] = pc[q] /\ ~AtWork(q)'
                         /\ ~AtWork(q)
  BY <1>1, LockTellsWork DEF Types, LocksOK, AtWork, Outside
<1>4. Trace' = Trace /\ ImageTrace(p)' \subseteq Trace
  BY <1>1, <1>2 DEF Trace, Logged, ImageTrace, AllTx
<1>5. tx[p] \notin Trace /\ pc'[p] = "writing"
  BY <1>1 DEF FreshIds, Untraced, Types, LocksOK
<1>6. Spoken' /\ Distinct'
  BY <1>1, <1>3, <1>4, <1>5 DEF FreshIds, Spoken, Distinct
<1>7. Untraced'
  BY <1>1, <1>3, <1>4, <1>5 DEF FreshIds, Untraced
<1>8. Undone'
  BY <1>1, <1>2, <1>3, <1>5 DEF Undone, UndoneAt, Trace, Logged
<1> QED
  BY <1>6, <1>7, <1>8 DEF FreshIds

\* Whoever has the lock leaves traces of its own id and of its images only.
LEMMA FreshOfOwner ==
    ASSUME Types, FreshIds, NEW p \in Writers, pc[p] # "idle", UNCHANGED <<tx, writes>>,
           \A q \in Writers : q # p => pc'[q] = pc[q],
           pc'[p] # "waiting",
           \A q \in Writers : AtWork(q)' => AtWork(q) /\ before'[q] = before[q],
           Trace' \subseteq Trace \cup {tx[p]} \cup (IF AtWork(p) THEN ImageTrace(p) ELSE {}),
           \A q \in Writers : AtWork(q)' => UndoneAt(q)'
    PROVE  FreshIds'
<1>1. tx[p] \in 1..writes
  BY DEF FreshIds, Spoken, Types, Working, Ids
<1>2. \A q \in Writers : AtWork(q)' => ImageTrace(q)' = ImageTrace(q)
  BY DEF ImageTrace
<1>3. Spoken'
  BY <1>1, <1>2 DEF FreshIds, Spoken
<1>4. Distinct'
  BY DEF FreshIds, Distinct
<1>5. Untraced'
  <2> SUFFICES ASSUME NEW q \in Writers, pc'[q] = "waiting"
               PROVE  /\ tx[q] \notin Trace'
                      /\ \A s \in Writers : AtWork(s)' => tx[q] \notin ImageTrace(s)'
    BY DEF Untraced
  <2>1. q # p /\ pc[q] = "waiting" /\ tx[q] # tx[p]
    BY DEF FreshIds, Distinct
  <2> QED
    BY <1>2, <2>1 DEF FreshIds, Untraced
<1> QED
  BY <1>3, <1>4, <1>5 DEF FreshIds, Undone

LEMMA FreshOfReturns ==
    ASSUME Types, FreshIds, NEW p \in Writers,
           Refuse(p) \/ Verify(p) \/ FindHeadMoved(p) \/ HeadUnreadable(p)
           \/ FailIndex(p) \/ Crash(p) \/ RestoreIndex(p)
    PROVE  FreshIds'
<1>1. /\ UNCHANGED <<file, receipts, log, tx, writes>> /\ pc[p] # "idle"
      /\ pc' = [pc EXCEPT ![p] = "idle"]
      /\ before' = [before EXCEPT ![p] = NoImage]
      /\ indexed' = indexed \/ (AtWork(p) /\ indexed' = before[p].indexed)
  BY DEF Refuse, Verify, FindHeadMoved, HeadUnreadable, FailIndex, Crash, RestoreIndex, Return,
         Report, To, worktree, staging, history,
         spent, At, AtWork, Outside
<1>2. Trace' \subseteq Trace \cup {tx[p]} \cup (IF AtWork(p) THEN ImageTrace(p) ELSE {})
  BY <1>1 DEF Trace, Logged, ImageTrace
<1>3. /\ pc'[p] = "idle" /\ ~AtWork(p)'
      /\ \A q \in Writers : q # p => pc'[q] = pc[q] /\ before'[q] = before[q]
  BY <1>1 DEF Types, LocksOK, LocalsOK, AtWork, Outside
<1>4. \A q \in Writers : AtWork(q)' => AtWork(q) /\ before'[q] = before[q]
  BY <1>3 DEF AtWork
<1>5. \A q \in Writers : AtWork(q)' => UndoneAt(q)'
  <2>1. (\E q \in Writers : AtWork(q)') => ~AtWork(p) /\ indexed' = indexed
    BY <1>1, <1>3, <1>4, LockTellsWork
  <2> QED
    BY <1>1, <1>3, <1>4 DEF FreshIds, Undone, UndoneAt, Unmoved, Logged
<1> QED
  BY <1>1, <1>2, <1>3, <1>4, <1>5, FreshOfOwner

LEMMA FreshOfWork ==
    ASSUME Types, FreshIds, LogGrows, NEW p \in Writers,
           \/ WriteLedger(p) \/ WriteReceipt(p) \/ Fail(p) \/ FindHeadSame(p) \/ CommitNothing(p)
           \/ RestoreFiles(p)
           \/ AddPaths(p) \/ Commit(p) \/ TimeOut(p)
    PROVE  FreshIds'
<1>1. /\ UNCHANGED <<request, tx, writes, before>> /\ AtWork(p) /\ pc[p] # "idle"
      /\ pc'[p] # "waiting"
      /\ \A q \in Writers : q # p => pc'[q] = pc[q]
  BY DEF WriteLedger, WriteReceipt, Fail, FindHeadSame, CommitNothing, RestoreFiles, AddPaths, Commit,
         TimeOut,
         locals, spent, At, To, AtWork, Outside, Types, LocksOK
<1>2. \A q \in Writers : AtWork(q)' => AtWork(q) /\ q = p
  BY <1>1, LockTellsWork DEF AtWork
<1>3. K(p) \in Kinds /\ tx[p] \in Ids /\ request[p] \in Requests
  BY <1>1, KindOfRequest
<1>4. AllTx(file') \subseteq AllTx(file) \cup {tx[p]} \cup ImageTrace(p)
  <2>1. CASE WriteLedger(p)
    <3> DEFINE row == [request |-> request[p], tx |-> tx[p]]
    <3>1. row \in Row /\ row.tx = tx[p]
      BY <1>3, Bounds DEF Row
    <3>2. /\ file' = [file EXCEPT ![K(p)] = Append(file[K(p)], row)] /\ file \in Ledgers
          /\ file[K(p)] \in Seq(Row)
      BY <1>3, <2>1 DEF WriteLedger, Types, LedgersOK, Ledgers
    <3>3. TxOf(Append(file[K(p)], row)) = TxOf(file[K(p)]) \cup {tx[p]}
      BY <3>1, <3>2, TxOfAppend
    <3> DEFINE rows == Append(file[K(p)], row)
    <3> HIDE DEF row
    <3>4. rows \in Seq(Row) /\ TxOf(rows) = TxOf(file[K(p)]) \cup {tx[p]}
      BY <3>1, <3>2, <3>3
    <3> HIDE DEF rows
    <3>5. AllTx([file EXCEPT ![K(p)] = rows]) \subseteq AllTx(file) \cup {tx[p]}
      BY <1>3, <3>2, <3>4 DEF AllTx, Ledgers
    <3>6. file' = [file EXCEPT ![K(p)] = rows]
      BY <3>2 DEF rows
    <3> QED
      BY <3>5, <3>6
  <2>2. CASE RestoreFiles(p)
    <3>1. file' = file \/ file' = [file EXCEPT ![K(p)] = before[p].file]
      BY <2>2 DEF RestoreFiles
    <3>2. AllTx([file EXCEPT ![K(p)] = before[p].file]) \subseteq AllTx(file) \cup TxOf(before[p].file)
      BY <1>3, AllTxBound DEF Types, LedgersOK
    <3> QED
      BY <3>1, <3>2 DEF ImageTrace
  <2>3. CASE file' = file
    BY <2>3
  <2> QED
    BY <2>1, <2>2, <2>3 DEF WriteReceipt, Fail, FindHeadSame, CommitNothing, AddPaths, Commit,
                            TimeOut, worktree
<1>5. receipts' \cup indexed' \subseteq receipts \cup indexed \cup {tx[p]}
  BY DEF WriteLedger, WriteReceipt, Fail, FindHeadSame, CommitNothing, RestoreFiles, AddPaths, Commit,
         TimeOut,
         CommitOnly, Add, worktree, staging
<1>6. \/ log' = log
      \/ Logged' = Logged \cup {tx[p]} /\ Len(log') = Len(log) + 1 /\ Len(log) \in Nat
  <2>1. CASE Commit(p) \/ TimeOut(p)
    <3>1. log' = Append(log, {tx[p]}) /\ {tx[p]} \in SUBSET Ids
      BY <1>3, <2>1 DEF Commit, TimeOut, CommitOnly
    <3> QED
      BY <3>1, LoggedAppend
  <2>2. CASE ~(Commit(p) \/ TimeOut(p))
    BY <2>2 DEF WriteLedger, WriteReceipt, Fail, FindHeadSame, CommitNothing, RestoreFiles, AddPaths,
                history
  <2> QED
    BY <2>1, <2>2
<1>7. Trace' \subseteq Trace \cup {tx[p]} \cup ImageTrace(p)
  <2>1. AllTx(file)' = AllTx(file')
    BY DEF AllTx
  <2> QED
    BY <1>4, <1>5, <1>6, <2>1 DEF Trace, Logged
<1>8. AtWork(p)' => UndoneAt(p)'
  <2>1. UndoneAt(p)
    BY <1>1 DEF FreshIds, Undone
  <2>2. Unmoved(p)' => Unmoved(p) /\ log' = log
    <3>1. before[p].head \in Nat /\ before[p].head <= Len(log)
      BY <1>1 DEF LogGrows, Types, LocalsOK, Image
    <3> QED
      BY <1>1, <1>6, <3>1 DEF Unmoved
  <2>3. pc'[p] = "reindexing" => tx[p] \notin receipts'
    <3>1. pc'[p] = "reindexing" => RestoreFiles(p)
      BY DEF WriteLedger, WriteReceipt, Fail, FindHeadSame, CommitNothing, AddPaths, Commit, TimeOut,
             To, Types,
             LocksOK
    <3> QED
      BY <3>1 DEF RestoreFiles, To, Types, LocksOK
  <2> QED
    BY <1>1, <2>1, <2>2, <2>3 DEF UndoneAt, Logged
<1> QED
  BY <1>1, <1>2, <1>7, <1>8, FreshOfOwner

LEMMA FreshOfOthers ==
    ASSUME Types, FreshIds, LogGrows, StageOther \/ CommitOther
    PROVE  FreshIds'
<1>1. UNCHANGED <<file, receipts, indexed, pc, tx, before, writes>>
  BY DEF StageOther, CommitOther, worktree, locals
<1>2. /\ Logged' \subseteq Logged \cup indexed
      /\ log' = log \/ (Len(log') = Len(log) + 1 /\ Len(log) \in Nat)
  <2>1. CASE StageOther
    BY <2>1 DEF StageOther, history, Logged
  <2>2. CASE CommitOther
    <3>1. log' = Append(log, indexed \ committed) /\ indexed \ committed \in SUBSET Ids
      BY <2>2 DEF CommitOther, Types, IdsOK
    <3> QED
      BY <3>1, LoggedAppend
  <2> QED
    BY <2>1, <2>2
<1>3. Trace' \subseteq Trace
  BY <1>1, <1>2 DEF Trace, AllTx
<1>4. ASSUME NEW q \in Writers, AtWork(q) PROVE Unmoved(q)' => Unmoved(q) /\ log' = log
  <2>1. before[q].head \in Nat /\ before[q].head <= Len(log)
    BY <1>4 DEF LogGrows, Types, LocalsOK, Image
  <2> QED
    BY <1>1, <1>2, <2>1 DEF Unmoved
<1> QED
  BY <1>1, <1>3, <1>4 DEF FreshIds, Spoken, Distinct, Untraced, Undone, UndoneAt, AtWork, ImageTrace,
                          Logged

\* What HEAD holds is in the index, unless others commit into a rollback.
LEMMA CommittedIsIndexed ==
    ASSUME Types, Pairs, NothingLost, Unraced
    PROVE  committed \subseteq indexed
<1>1. AllTx(head) = committed /\ AllTx(index) = indexed
  BY DEF Pairs, RowsHaveReceipts, StagedInPairs, AllTx
<1>2. \A k \in Kinds : TxOf(head[k]) \subseteq TxOf(index[k])
  BY PrefixTx DEF NothingLost, HeadIsBehind, Types, LedgersOK, Ledgers
<1> QED
  BY <1>1, <1>2 DEF AllTx

LEMMA SaidAtTheEndStep ==
    ASSUME Types, SaidAtTheEnd, [Next]_vars
    PROVE  SaidAtTheEnd'
<1>1. ASSUME NEW p \in Writers, NEW r \in Requests, Call(p, r) PROVE SaidAtTheEnd'
  BY <1>1 DEF Call, To, SaidAtTheEnd, Types, LocksOK, LocalsOK
<1>2. ASSUME NEW p \in Writers,
             \/ Refuse(p) \/ Reuse(p) \/ Verify(p) \/ FindHeadMoved(p) \/ RestoreIndex(p)
             \/ HeadUnreadable(p) \/ FailIndex(p) \/ Crash(p)
      PROVE SaidAtTheEnd'
  BY <1>2 DEF Refuse, Reuse, Verify, FindHeadMoved, RestoreIndex, HeadUnreadable, FailIndex, Crash,
              Return, Report, To, SaidAtTheEnd,
              Types, LocksOK, LocalsOK
<1>3. ASSUME NEW p \in Writers,
             \/ Begin(p) \/ WriteLedger(p) \/ WriteReceipt(p) \/ AddPaths(p) \/ Commit(p)
             \/ FindHeadSame(p) \/ CommitNothing(p)
           \/ RestoreFiles(p) \/ Fail(p) \/ TimeOut(p)
      PROVE SaidAtTheEnd'
  BY <1>3 DEF Begin, WriteLedger, WriteReceipt, AddPaths, Commit, FindHeadSame, CommitNothing,
              RestoreFiles, Fail,
              TimeOut, To, At, SaidAtTheEnd, Types, LocksOK, LocalsOK
<1>4. CASE StageOther \/ CommitOther \/ UNCHANGED vars
  BY <1>4 DEF StageOther, CommitOther, vars, SaidAtTheEnd
<1> QED
  BY <1>1, <1>2, <1>3, <1>4 DEF Next, Enter, Work, Trouble

Kept == NothingLost /\ FreshIds /\ SaidAtTheEnd /\ SaidTruly

LEMMA SaidOfCalls ==
    ASSUME Types, Pairs, Kept, NEW p \in Writers, NEW r \in Requests,
           Call(p, r) \/ Refuse(p) \/ Reuse(p) \/ Verify(p) \/ FindHeadMoved(p) \/ HeadUnreadable(p)
           \/ FailIndex(p) \/ Crash(p)
    PROVE  SaidTruly'
<1>1. UNCHANGED <<receipts, indexed, log, raced, committed>>
  BY DEF Call, Refuse, Reuse, Verify, FindHeadMoved, HeadUnreadable, FailIndex, Crash, worktree,
         staging, history
<1>2. /\ \A q \in Writers : q # p => outcome'[q] = outcome[q] /\ tx'[q] = tx[q]
      /\ outcome'[p] # "failed"
      /\ outcome'[p] = "ok" => Reuse(p) \/ Verify(p)
  BY DEF Call, Refuse, Reuse, Verify, FindHeadMoved, HeadUnreadable, FailIndex, Crash, Return, Report,
         Types, LocalsOK
<1>3. \A q \in Writers : AtWork(q)' => AtWork(q) /\ before'[q] = before[q]
  BY DEF Call, Refuse, Reuse, Verify, FindHeadMoved, HeadUnreadable, FailIndex, Crash, Return, Report,
         To, Types, LocksOK, LocalsOK,
         Outside, locals, AtWork
<1>4. outcome'[p] = "ok" => tx'[p] \in committed'
  <2>1. CASE Reuse(p)
    <3>1. /\ tx'[p] \in TxOf(file[K(p)]) /\ file[K(p)] = head[K(p)] /\ K(p) \in Kinds
      BY <2>1, FreshOfReuse, KindOfRequest DEF Kept, CleanTarget, Reuse, At
    <3> QED
      BY <1>1, <3>1 DEF Pairs, RowsHaveReceipts
  <2>2. CASE Verify(p)
    <3>1. tx' = tx /\ (outcome'[p] = "ok" => tx[p] \in committed)
      BY <2>2 DEF Verify, Return, Report, Types, LocalsOK
    <3> QED
      BY <1>1, <3>1
  <2> QED
    BY <1>2, <2>1, <2>2
<1> SUFFICES ASSUME Unraced', NEW q \in Writers
             PROVE  /\ outcome'[q] = "failed" => Gone(q)'
                    /\ outcome'[q] = "ok" => tx'[q] \in committed'
  BY DEF SaidTruly
<1>5. CASE q = p
  BY <1>2, <1>4, <1>5
<1>6. CASE q # p
  BY <1>1, <1>2, <1>3, <1>6 DEF Kept, SaidTruly, Unraced, Gone, Logged
<1> QED
  BY <1>5, <1>6

LEMMA SaidOfBegin ==
    ASSUME Types, Kept, NEW p \in Writers, Begin(p)
    PROVE  SaidTruly'
<1>1. UNCHANGED <<receipts, indexed, log, raced, committed, outcome, tx>>
  BY DEF Begin, worktree, staging, history
<1>2. before'[p].indexed = indexed /\ \A q \in Writers : q # p => pc'[q] = pc[q] /\ before'[q] = before[q]
  BY DEF Begin, To, Types, LocksOK, LocalsOK
<1>3. \A q, w \in Writers : (Unraced /\ outcome[q] = "failed" /\ AtWork(w)') =>
          tx[q] \notin before'[w].indexed
  BY <1>2 DEF Kept, SaidTruly, Gone, AtWork
<1> QED
  BY <1>1, <1>3 DEF Kept, SaidTruly, Unraced, Gone, Logged

\* The id of the call at work is no other's whose outcome has been told.
LEMMA SaidOfWork ==
    ASSUME Types, Kept, NEW p \in Writers,
           \/ WriteLedger(p) \/ WriteReceipt(p) \/ Fail(p) \/ FindHeadSame(p) \/ CommitNothing(p)
           \/ RestoreFiles(p)
           \/ AddPaths(p) \/ Commit(p) \/ TimeOut(p)
    PROVE  SaidTruly'
<1>1. /\ UNCHANGED <<tx, before, outcome, raced>> /\ AtWork(p) /\ pc[p] # "idle"
      /\ \A q \in Writers : q # p => pc'[q] = pc[q]
  BY DEF WriteLedger, WriteReceipt, Fail, FindHeadSame, CommitNothing, RestoreFiles, AddPaths, Commit,
         TimeOut,
         locals, At, To, AtWork, Outside, Types, LocksOK
<1>2. /\ receipts' \cup indexed' \subseteq receipts \cup indexed \cup {tx[p]}
      /\ committed \subseteq committed'
  BY DEF WriteLedger, WriteReceipt, Fail, FindHeadSame, CommitNothing, RestoreFiles, AddPaths, Commit,
         TimeOut,
         CommitOnly, Add, worktree, staging, history
<1>3. Logged' \subseteq Logged \cup {tx[p]}
  <2>1. CASE Commit(p) \/ TimeOut(p)
    <3>1. log' = Append(log, {tx[p]}) /\ {tx[p]} \in SUBSET Ids
      BY <1>1, <2>1, KindOfRequest DEF Commit, TimeOut, CommitOnly
    <3> QED
      BY <3>1, LoggedAppend
  <2>2. CASE ~(Commit(p) \/ TimeOut(p))
    BY <2>2 DEF WriteLedger, WriteReceipt, Fail, FindHeadSame, CommitNothing, RestoreFiles, AddPaths,
                history, Logged
  <2> QED
    BY <2>1, <2>2
<1>4. outcome[p] = "none" /\ \A q \in Writers : q # p => tx[q] # tx[p]
  BY <1>1 DEF Kept, SaidAtTheEnd, FreshIds, Distinct, Types, LocalsOK
<1>5. \A w \in Writers : AtWork(w)' => AtWork(w)
  BY <1>1 DEF AtWork
<1> SUFFICES ASSUME Unraced', NEW q \in Writers, q # p
             PROVE  /\ outcome[q] = "failed" => Gone(q)'
                    /\ outcome[q] = "ok" => tx[q] \in committed'
  BY <1>1, <1>4 DEF SaidTruly
<1> QED
  BY <1>1, <1>2, <1>3, <1>4, <1>5 DEF Kept, SaidTruly, Unraced, Gone

\* A rollback that nobody disturbed has taken back all traces of its call.
LEMMA SaidOfRestore ==
    ASSUME Types, Kept, NEW p \in Writers, RestoreIndex(p)
    PROVE  SaidTruly'
<1>1. /\ UNCHANGED <<receipts, log, committed, tx, raced>> /\ indexed' = before[p].indexed
      /\ pc[p] \in {"reindexing", "leaving"} /\ AtWork(p)
      /\ \A q \in Writers : q # p => outcome'[q] = outcome[q]
      /\ outcome'[p] \in {"failed", "rollback_failed"}
      /\ outcome'[p] = "failed" => pc[p] = "reindexing"
  BY DEF RestoreIndex, Restored, worktree, history, At, AtWork, Outside, Return, Report, Types, LocalsOK
<1>2. \A q \in Writers : ~AtWork(q)'
  BY <1>1, LockTellsWork DEF RestoreIndex, Return, Report, To, Types, LocksOK, AtWork, Outside
<1>3. (Unraced /\ pc[p] = "reindexing") => tx[p] \notin receipts \cup before[p].indexed \cup Logged
  BY <1>1 DEF Kept, NothingLost, HeadIsBehind, RollingBack, FreshIds, Undone, UndoneAt
<1> SUFFICES ASSUME Unraced', NEW q \in Writers
             PROVE  /\ outcome'[q] = "failed" => tx[q] \notin receipts \cup before[p].indexed \cup Logged
                    /\ outcome'[q] = "ok" => tx[q] \in committed
  BY <1>1, <1>2 DEF SaidTruly, Gone, Logged
<1> QED
  BY <1>1, <1>3 DEF Kept, SaidTruly, Unraced, Gone

LEMMA SaidOfOthers ==
    ASSUME Types, Pairs, Kept, StageOther \/ CommitOther
    PROVE  SaidTruly'
<1>1. UNCHANGED <<receipts, indexed, pc, tx, before, outcome>>
  BY DEF StageOther, CommitOther, worktree, locals
<1>2. CASE StageOther
  BY <1>1, <1>2 DEF StageOther, history, Kept, SaidTruly, Unraced, Gone, Logged, AtWork
<1>3. CASE CommitOther
  <2>1. committed' = indexed /\ raced \subseteq raced' /\ log' = Append(log, indexed \ committed)
    BY <1>3 DEF CommitOther
  <2>2. Logged' \subseteq Logged \cup indexed
    <3>1. indexed \ committed \in SUBSET Ids
      BY DEF Types, IdsOK
    <3> QED
      BY <2>1, <3>1, LoggedAppend
  <2>3. Unraced' => Unraced /\ committed \subseteq committed'
    BY <2>1, CommittedIsIndexed DEF Kept, Unraced
  <2> QED
    BY <1>1, <2>2, <2>3 DEF Kept, SaidTruly, Gone, AtWork
<1> QED
  BY <1>2, <1>3

-----------------------------------------------------------------------------
(* Every step, again                                                       *)

Deeper == CalmTargets /\ Kept

LEMMA DeeperInit == Init => Deeper
BY CalmInit, LostInit, FreshInit DEF Deeper, Kept

LEMMA DeeperStep == IInv /\ IInv' /\ Deeper /\ [Next]_vars => Deeper'
<1> SUFFICES ASSUME IInv, IInv', Deeper, [Next]_vars PROVE Deeper'
  OBVIOUS
<1>1. Types /\ Types' /\ Pairs /\ CalmTargets /\ Kept /\ NothingLost /\ FreshIds /\ LogGrows
  BY DEF IInv, Deeper, Kept, NothingLost
<1>2. SaidAtTheEnd'
  BY <1>1, SaidAtTheEndStep DEF Kept
<1>3. ASSUME NEW p \in Writers, NEW r \in Requests,
             Call(p, r) \/ Refuse(p) \/ Reuse(p) \/ Verify(p) \/ FindHeadMoved(p) \/ HeadUnreadable(p)
           \/ FailIndex(p) \/ Crash(p)
      PROVE  Deeper'
  <2>1. FreshIds'
    BY <1>1, <1>3, FreshOfCall, FreshOfReuse, FreshOfReturns
  <2>2. NothingLost' /\ CalmTargets' /\ SaidTruly'
    BY <1>1, <1>3, LostOfCalls, CalmOfCalls, SaidOfCalls
  <2> QED
    BY <1>2, <2>1, <2>2 DEF Deeper, Kept
<1>4. ASSUME NEW p \in Writers, Begin(p) PROVE Deeper'
  BY <1>1, <1>2, <1>4, CalmOfBegin, LostOfBegin, FreshOfBegin, SaidOfBegin DEF Deeper, Kept
<1>5. ASSUME NEW p \in Writers,
             \/ WriteLedger(p) \/ WriteReceipt(p) \/ Fail(p) \/ FindHeadSame(p) \/ CommitNothing(p)
           \/ RestoreFiles(p)
      PROVE  Deeper'
  BY <1>1, <1>2, <1>5, CalmOfFiles, LostOfFiles, FreshOfWork, SaidOfWork DEF Deeper, Kept
<1>6. ASSUME NEW p \in Writers, AddPaths(p) \/ Commit(p) \/ TimeOut(p) PROVE Deeper'
  BY <1>1, <1>2, <1>6, CalmOfGit, LostOfGit, FreshOfWork, SaidOfWork DEF Deeper, Kept
<1>7. ASSUME NEW p \in Writers, RestoreIndex(p) PROVE Deeper'
  BY <1>1, <1>2, <1>7, CalmOfRestore, LostOfRestore, FreshOfReturns, SaidOfRestore DEF Deeper, Kept
<1>8. CASE StageOther \/ CommitOther
  BY <1>1, <1>2, <1>8, CalmOfOthers, LostOfOthers, FreshOfOthers, SaidOfOthers DEF Deeper, Kept
<1>9. CASE UNCHANGED vars
  <2>1. UNCHANGED <<file, receipts, index, indexed, head, committed, log, lock, pc, request, tx, before,
                    outcome, unrestored, raced, writes, crashes>>
    BY <1>9 DEF vars, worktree, staging, history, locals, spent
  <2>2. CalmTargets'
    BY <1>1, <2>1 DEF CalmTargets, CalmAt, Calm, Accounted, CleanTarget, Unmoved, K, AtWork
  <2>3. NothingLost'
    BY <1>1, <2>1 DEF NothingLost, WriteIsAhead, LogGrows, HeadIsBehind, Unraced, Unmoved, K, AtWork
  <2>4. FreshIds'
    BY <1>1, <2>1 DEF FreshIds, Spoken, Distinct, Untraced, Undone, UndoneAt, Unmoved, Trace, AllTx,
                      Logged, ImageTrace, AtWork
  <2>5. SaidTruly'
    BY <1>1, <2>1 DEF Kept, SaidTruly, Unraced, Gone, Logged, AtWork
  <2> QED
    BY <1>2, <2>2, <2>3, <2>4, <2>5 DEF Deeper, Kept
<1>10. ASSUME NEW p \in Writers, Enter(p) \/ Work(p) \/ Trouble(p) PROVE Deeper'
  <2>1. request[p] \in Requests
    BY <1>1, <1>10, KindOfRequest
       DEF Enter, Refuse, Reuse, Begin, Work, WriteLedger, WriteReceipt, AddPaths, Commit, Verify,
           CommitNothing, FindHeadSame, FindHeadMoved, RestoreFiles, RestoreIndex, Trouble, Fail, TimeOut,
           HeadUnreadable, FailIndex, Crash, At
  <2> QED
    BY <1>3, <1>4, <1>5, <1>6, <1>7, <1>10, <2>1 DEF Enter, Work, Trouble
<1> QED
  BY <1>3, <1>5, <1>6, <1>8, <1>9, <1>10 DEF Next

LEMMA DeeperHolds == Spec => []Deeper
BY IInvHolds, DeeperInit, DeeperStep, PTL DEF Spec

-----------------------------------------------------------------------------
(* What follows                                                            *)

\* Every variable keeps its type, and whoever writes has the lock.
THEOREM TypeCorrect == Spec => []TypeOK
<1>1. IInv => TypeOK
  BY TypesSayIt DEF IInv
<1> QED
  BY <1>1, IInvHolds, PTL

\* HEAD holds a row of _append_jsonl exactly when it holds the receipt written
\* beside it, whichever of the two a writer that died or was rolled back left
\* in the index for a later commit.
THEOREM RowsAndReceiptsGoTogether == Spec => []RowsHaveReceipts
<1>1. IInv => RowsHaveReceipts
  BY DEF IInv, Pairs
<1> QED
  BY <1>1, IInvHolds, PTL

\* domain_ledger_write commits one row for a request, however often it is
\* called again after failures, deaths and timeouts: it looks for the row
\* under the lock it appends under.
THEOREM RequestsGetOneRow == Spec => []OneRowPerRequest
<1>1. IInv => OneRowPerRequest
  BY DEF IInv, UniqueEverywhere, Unique, OneRowPerRequest
<1> QED
  BY <1>1, IInvHolds, PTL

\* No write of domain_ledger_write is refused by _assert_ledger_target_clean for
\* what an earlier one left behind, unless that one reported rollback_failed for
\* the ledger, as long as none died and others committed only between the
\* writes.
THEOREM QuietLedgersAreClean == Spec => []QuietIsClean
<1>1. Deeper => QuietIsClean
  BY DEF Deeper, CalmTargets, Calm, Accounted, QuietIsClean
<1> QED
  BY <1>1, DeeperHolds, PTL

\* What domain_ledger_write says of a call is so: its row is in HEAD, or it has
\* left no trace, unless others commit into a rollback.
THEOREM OutcomesAreHonest == Spec => []OutcomeIsHonest
<1>1. Deeper => OutcomeIsHonest
  BY DEF Deeper, Kept, SaidTruly, Unraced, Gone, Logged, OutcomeIsHonest
<1> QED
  BY <1>1, DeeperHolds, PTL

\* A committed row stays, through rollbacks of _rollback_transaction, writers
\* that die and commits of others, unless those fall into a rollback.
THEOREM CommittedRowsStay == Spec => CommittedRowsKept
<1>1. ASSUME IInv, Deeper, Deeper', [Next]_vars, Unraced', NEW k \in Kinds
      PROVE  IsPrefix(head[k], head'[k])
  <2>1. Types /\ NothingLost /\ head[k] \in Seq(Row)
    BY <1>1 DEF IInv, Types, LedgersOK, Ledgers, Deeper, Kept
  <2>2. CASE head' = head
    BY <2>1, <2>2, PrefixSelf
  <2>3. ASSUME NEW p \in Writers, Commit(p) \/ TimeOut(p) PROVE IsPrefix(head[k], head'[k])
    <3>1. head' = [head EXCEPT ![K(p)] = file[K(p)]] /\ pc[p] = "committing"
      BY <2>3 DEF Commit, TimeOut, CommitOnly, At
    <3>2. head'[k] = IF k = K(p) THEN file[K(p)] ELSE head[k]
      BY <2>1, <3>1 DEF Types, LedgersOK, Ledgers
    <3>3. IsPrefix(head[K(p)], file[K(p)])
      BY <2>1, <3>1 DEF NothingLost, WriteIsAhead, BeforeCommit
    <3> QED
      BY <2>1, <3>2, <3>3, PrefixSelf
  <2>4. CASE CommitOther
    <3>1. head' = index /\ raced \subseteq raced'
      BY <2>4 DEF CommitOther
    <3>2. Unraced
      BY <1>1, <3>1 DEF Unraced
    <3> QED
      BY <2>1, <3>1, <3>2 DEF NothingLost, HeadIsBehind
  <2>5. \/ head' = head \/ CommitOther
        \/ \E p \in Writers : Commit(p) \/ TimeOut(p)
    BY <1>1 DEF Next, Call, Enter, Refuse, Reuse, Begin, Work, WriteLedger, WriteReceipt, AddPaths,
                Verify, CommitNothing, FindHeadSame, FindHeadMoved, RestoreFiles, RestoreIndex, Trouble,
                Fail, HeadUnreadable, FailIndex, Crash,
                StageOther, vars, history
  <2> QED
    BY <2>2, <2>3, <2>4, <2>5
<1>2. IInv /\ Deeper /\ Deeper' /\ [Next]_vars =>
          ["rollback" \notin raced' => \A k \in Kinds : IsPrefix(head[k], head'[k])]_head
  BY <1>1 DEF Unraced
<1> QED
  BY <1>2, IInvHolds, DeeperHolds, PTL DEF Spec, CommittedRowsKept
=============================================================================
