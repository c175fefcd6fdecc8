---------------------------- MODULE DomainLedger ----------------------------
(***************************************************************************)
(* The domain ledgers (domain_ledger_api.py).  A write appends a row to    *)
(* the ledger of its kind and a receipt file beside it, and commits both   *)
(* in one path-scoped Git commit, under a lock of the repository.  What    *)
(* fails before the commit is rolled back, unless HEAD has moved or cannot *)
(* be read, as far as its restores succeed; a write that dies is not.      *)
(* Others may stage and commit other paths of the repository, without      *)
(* that lock.                                                              *)
(*                                                                         *)
(* Data: a request is a kind and a topic (with its key, for an update);    *)
(* a row is its request and its transaction id, a receipt the id, a commit *)
(* the ids it adds.  Contents, gates on the arguments and the read         *)
(* projection are left out.                                                *)
(***************************************************************************)
EXTENDS Naturals, Sequences, FiniteSets, SequencesExt

CONSTANTS Kinds,
          Requests,          \* pairs of a kind and a topic
          Writers,
          Nobody,
          MaxWrites,         \* bound: transactions
          MaxFailures,       \* bound: file and Git operations that fail
          MaxCrashes,        \* bound: writers that die
          MaxForeign         \* bound: stagings and commits by others

ASSUME NobodyAssumption == Nobody \notin Writers
ASSUME RequestsAssumption == \A r \in Requests : r[1] \in Kinds
ASSUME BoundsAssumption == {MaxWrites, MaxFailures, MaxCrashes, MaxForeign} \subseteq Nat

Kind(r) == r[1]

VARIABLES
    file, receipts,          \* worktree: rows of every ledger, ids with a receipt
    index, indexed,          \* the same in the index
    head, committed,         \* the same in HEAD
    foreign,                 \* other paths are staged
    log,                     \* ids every commit added
    lock,                    \* holder of domain-ledger.transaction.lock
    pc, request, tx,         \* of each writer: where, for what, its transaction id
    before,                  \* preimages of a writer: HEAD, index and ledger
    outcome,                 \* what its last call said
    unrestored,              \* kinds whose rollback was reported failed (history)
    raced,                   \* commits of others fell into a write, a rollback (history)
    writes, failures, crashes, foreigners \* spent of the bounds

worktree == <<file, receipts>>
staging == <<index, indexed, foreign>>
history == <<head, committed, log>>
locals == <<request, tx, before>>
spent == <<writes, failures, crashes, foreigners>>
vars == <<worktree, staging, history, lock, pc, locals, outcome, unrestored, raced, spent>>

NoRows == [k \in Kinds |-> <<>>]
NoImage == [head |-> 0, index |-> NoRows, indexed |-> {}, foreign |-> FALSE, file |-> <<>>]

Init == /\ file = NoRows /\ index = NoRows /\ head = NoRows
        /\ receipts = {} /\ indexed = {} /\ committed = {}
        /\ foreign = FALSE
        /\ log = <<>>
        /\ lock = Nobody
        /\ pc = [p \in Writers |-> "idle"]
        /\ request = [p \in Writers |-> Nobody]
        /\ tx = [p \in Writers |-> 0]
        /\ before = [p \in Writers |-> NoImage]
        /\ outcome = [p \in Writers |-> "none"]
        /\ unrestored = {} /\ raced = {}
        /\ writes = 0 /\ failures = 0 /\ crashes = 0 /\ foreigners = 0

At(p, here) == pc[p] = here
To(p, there) == pc' = [pc EXCEPT ![p] = there]
K(p) == Kind(request[p])

\* What failed in a rollback is part of the call's answer.
Report(p, said) == /\ outcome' = [outcome EXCEPT ![p] = said]
                   /\ unrestored' = IF said = "rollback_failed" THEN unrestored \cup {K(p)}
                                    ELSE unrestored

\* Mutant: a call returns with the lock.
ReturnLocked(p, said) == /\ To(p, "idle")
                         /\ Report(p, said)
                         /\ request' = [request EXCEPT ![p] = Nobody]
                         /\ before' = [before EXCEPT ![p] = NoImage]
                         /\ UNCHANGED lock

\* The call returns; the id stays for whoever judges its outcome.
Return(p, said) == /\ To(p, "idle")
                   /\ Report(p, said)
                   /\ request' = [request EXCEPT ![p] = Nobody]
                   /\ before' = [before EXCEPT ![p] = NoImage]
                   /\ lock' = IF lock = p THEN Nobody ELSE lock

-----------------------------------------------------------------------------
(* domain_ledger_write                                                     *)

Call(p, r) == /\ At(p, "idle")
              /\ writes < MaxWrites
              /\ writes' = writes + 1
              /\ request' = [request EXCEPT ![p] = r]
              /\ tx' = [tx EXCEPT ![p] = writes']
              /\ outcome' = [outcome EXCEPT ![p] = "none"]
              /\ To(p, "waiting")
              /\ UNCHANGED <<worktree, staging, history, lock, before, unrestored, raced,
                             failures, crashes, foreigners>>

\* _assert_ledger_target_clean
CleanTarget(k) == file[k] = index[k] /\ index[k] = head[k]

Refuse(p) == /\ At(p, "waiting") /\ lock = Nobody
             /\ ~CleanTarget(K(p))
             /\ Return(p, "refused")
             /\ UNCHANGED <<worktree, staging, history, tx, raced, spent>>

Rows(k) == Range(file[k])
Has(r) == \E row \in Rows(Kind(r)) : row.request = r
Found(r) == CHOOSE row \in Rows(Kind(r)) : row.request = r

\* The row is there: a create or a key is answered with it.
Reuse(p) == /\ At(p, "waiting") /\ lock = Nobody
            /\ CleanTarget(K(p))
            /\ Has(request[p])
            /\ tx' = [tx EXCEPT ![p] = Found(request[p]).tx]
            /\ Return(p, "ok")
            /\ UNCHANGED <<worktree, staging, history, raced, spent>>

\* Mutant: whether the row is there was asked before the lock.
BeginUnasked(p) == /\ At(p, "waiting") /\ lock = Nobody
                   /\ CleanTarget(K(p))
                   /\ lock' = p
                   /\ before' = [before EXCEPT ![p] =
                                   [head |-> Len(log), index |-> index, indexed |-> indexed,
                                    foreign |-> foreign, file |-> file[K(p)]]]
                   /\ To(p, "writing")
                   /\ UNCHANGED <<worktree, staging, history, request, tx, outcome,
                                  unrestored, raced, spent>>

\* The preimages: HEAD, the index file and the ledger.
Begin(p) == /\ At(p, "waiting") /\ lock = Nobody
            /\ CleanTarget(K(p))
            /\ ~Has(request[p])
            /\ lock' = p
            /\ before' = [before EXCEPT ![p] =
                            [head |-> Len(log), index |-> index, indexed |-> indexed,
                             foreign |-> foreign, file |-> file[K(p)]]]
            /\ To(p, "writing")
            /\ UNCHANGED <<worktree, staging, history, request, tx, outcome, unrestored,
                           raced, spent>>

WriteLedger(p) == /\ At(p, "writing")
                  /\ file' = [file EXCEPT ![K(p)] =
                                Append(@, [request |-> request[p], tx |-> tx[p]])]
                  /\ To(p, "receipting")
                  /\ UNCHANGED <<receipts, staging, history, lock, locals, outcome,
                                 unrestored, raced, spent>>

WriteReceipt(p) == /\ At(p, "receipting")
                   /\ receipts' = receipts \cup {tx[p]}
                   /\ To(p, "adding")
                   /\ UNCHANGED <<file, staging, history, lock, locals, outcome, unrestored,
                                  raced, spent>>

\* git add of both paths
Add(p) == /\ index' = [index EXCEPT ![K(p)] = file[K(p)]]
          /\ indexed' = indexed \cup ({tx[p]} \cap receipts)
AddPaths(p) == /\ At(p, "adding")
               /\ Add(p)
               /\ To(p, "committing")
               /\ UNCHANGED <<worktree, foreign, history, lock, locals, outcome, unrestored,
                              raced, spent>>

\* Git commits nothing when others have already committed what is staged.
Differs(p) == ~(head[K(p)] = file[K(p)] /\ tx[p] \in committed)

\* Mutant: the commit is scoped to the ledger alone.
CommitLedgerOnly(p) == /\ Differs(p)
                       /\ head' = [head EXCEPT ![K(p)] = file[K(p)]]
                       /\ log' = Append(log, {tx[p]})
                       /\ Add(p)
                       /\ UNCHANGED committed

\* git commit --only of both paths: what else is staged stays so.
CommitOnly(p) == /\ Differs(p)
                 /\ head' = [head EXCEPT ![K(p)] = file[K(p)]]
                 /\ committed' = committed \cup {tx[p]}
                 /\ log' = Append(log, {tx[p]})
                 /\ Add(p)
Commit(p) == /\ At(p, "committing")
             /\ CommitOnly(p)
             /\ To(p, "verifying")
             /\ UNCHANGED <<worktree, foreign, lock, locals, outcome, unrestored, raced,
                            spent>>

\* ... and is taken to have failed.
CommitNothing(p) == /\ At(p, "committing")
                    /\ ~Differs(p)
                    /\ To(p, "failing")
                    /\ UNCHANGED <<worktree, staging, history, lock, locals, outcome,
                                   unrestored, raced, spent>>

\* _verify_committed_receipt: HEAD, index and worktree hold the same copies.
Verify(p) == /\ At(p, "verifying")
             /\ Return(p, IF /\ CleanTarget(K(p))
                             /\ tx[p] \in receipts \cap indexed \cap committed
                          THEN "ok" ELSE "unclear")
             /\ UNCHANGED <<worktree, staging, history, tx, raced, spent>>

-----------------------------------------------------------------------------
(* Failures: _rollback_transaction                                         *)

\* An operation fails without effect, or Git is killed after its commit.
Fail(p) == /\ pc[p] \in {"writing", "receipting", "adding", "committing"}
           /\ failures < MaxFailures
           /\ failures' = failures + 1
           /\ To(p, "failing")
           /\ UNCHANGED <<worktree, staging, history, lock, locals, outcome, unrestored,
                          raced, writes, crashes, foreigners>>
TimeOut(p) == /\ At(p, "committing")
              /\ failures < MaxFailures
              /\ failures' = failures + 1
              /\ CommitOnly(p)
              /\ To(p, "failing")
              /\ UNCHANGED <<worktree, foreign, lock, locals, outcome, unrestored, raced,
                             writes, crashes, foreigners>>

\* Mutant: what Git did not report as committed is rolled back.
RollBackAnyway(p) == /\ At(p, "failing")
                   /\ To(p, "restoring")
                   /\ UNCHANGED <<worktree, staging, history, lock, locals, outcome,
                                  unrestored, raced, spent>>

FindHeadSame(p) == /\ At(p, "failing")
                   /\ Len(log) = before[p].head
                   /\ To(p, "restoring")
                   /\ UNCHANGED <<worktree, staging, history, lock, locals, outcome,
                                  unrestored, raced, spent>>

\* head_changed_during_failed_transaction
FindHeadMoved(p) == /\ At(p, "failing")
                    /\ Len(log) # before[p].head
                    /\ Return(p, "unclear")
                    /\ UNCHANGED <<worktree, staging, history, tx, raced, spent>>

\* HEAD cannot be read: nothing is restored.
HeadUnreadable(p) == /\ At(p, "failing")
                     /\ failures < MaxFailures
                     /\ failures' = failures + 1
                     /\ Return(p, "rollback_failed")
                     /\ UNCHANGED <<worktree, staging, history, tx, raced, writes, crashes,
                                    foreigners>>

\* Each file is restored for itself; one that is stuck does not stop the rest.
RestoreFiles(p) ==
    \E stuck \in SUBSET {"ledger", "receipt"} :
        /\ At(p, "restoring")
        /\ failures' = failures + (IF stuck = {} THEN 0 ELSE 1)
        /\ failures' <= MaxFailures
        /\ file' = IF "ledger" \in stuck THEN file ELSE [file EXCEPT ![K(p)] = before[p].file]
        /\ receipts' = IF "receipt" \in stuck THEN receipts ELSE receipts \ {tx[p]}
        /\ To(p, IF stuck = {} THEN "reindexing" ELSE "leaving")
        /\ UNCHANGED <<staging, history, lock, locals, outcome, unrestored, raced, writes,
                       crashes, foreigners>>

Restored(p) == IF At(p, "reindexing") THEN "failed" ELSE "rollback_failed"

\* Mutant: the files are restored, the index is not.
LeaveIndex(p) == /\ pc[p] \in {"reindexing", "leaving"}
                 /\ Return(p, Restored(p))
                 /\ UNCHANGED <<worktree, staging, history, tx, raced, spent>>

RestoreIndex(p) == /\ pc[p] \in {"reindexing", "leaving"}
                   /\ index' = before[p].index
                   /\ indexed' = before[p].indexed
                   /\ foreign' = before[p].foreign
                   /\ Return(p, Restored(p))
                   /\ UNCHANGED <<worktree, history, tx, raced, spent>>

FailIndex(p) == /\ pc[p] \in {"reindexing", "leaving"}
                /\ failures < MaxFailures
                /\ failures' = failures + 1
                /\ Return(p, "rollback_failed")
                /\ UNCHANGED <<worktree, staging, history, tx, raced, writes, crashes,
                               foreigners>>

Crash(p) == /\ pc[p] # "idle"
            /\ crashes < MaxCrashes
            /\ crashes' = crashes + 1
            /\ Return(p, "none")
            /\ UNCHANGED <<worktree, staging, history, tx, raced, writes, failures,
                           foreigners>>

-----------------------------------------------------------------------------
(* Others at work in the repository                                        *)

Foreign == foreigners < MaxForeign /\ foreigners' = foreigners + 1

StageOther == /\ Foreign
              /\ foreign' = TRUE
              /\ UNCHANGED <<worktree, index, indexed, history, lock, pc, locals, outcome,
                             unrestored, raced, writes, failures, crashes>>

Phase(p) == CASE pc[p] \in {"idle", "waiting"} -> "none"
              [] pc[p] \in {"restoring", "reindexing", "leaving"} -> "rollback"
              [] OTHER -> "write"

\* A plain git commit takes whatever is in the index.
CommitOther == /\ Foreign
               /\ foreign
               /\ head' = index
               /\ committed' = indexed
               /\ log' = Append(log, indexed \ committed)
               /\ foreign' = FALSE
               /\ raced' = raced \cup {Phase(p) : p \in Writers}
               /\ UNCHANGED <<worktree, index, indexed, lock, pc, locals, outcome,
                              unrestored, writes, failures, crashes>>

-----------------------------------------------------------------------------
Work(p) == \/ WriteLedger(p) \/ WriteReceipt(p) \/ AddPaths(p) \/ Commit(p) \/ Verify(p)
           \/ CommitNothing(p) \/ FindHeadSame(p) \/ FindHeadMoved(p) \/ RestoreFiles(p)
           \/ RestoreIndex(p)
Trouble(p) == Fail(p) \/ TimeOut(p) \/ HeadUnreadable(p) \/ FailIndex(p) \/ Crash(p)
Enter(p) == Refuse(p) \/ Reuse(p) \/ Begin(p)

Next == \/ \E p \in Writers : \/ \E r \in Requests : Call(p, r)
                              \/ Enter(p) \/ Work(p)
                              \/ Trouble(p)
        \/ StageOther \/ CommitOther

Spec == Init /\ [][Next]_vars

-----------------------------------------------------------------------------
(* Properties                                                              *)

Row == [request : Requests, tx : Nat]
Ledgers == [Kinds -> Seq(Row)]
Ids == 1..MaxWrites
Image == [head : Nat, index : Ledgers, indexed : SUBSET Ids, foreign : BOOLEAN,
          file : Seq(Row)]
Pc == {"idle", "waiting", "writing", "receipting", "adding", "committing", "verifying",
       "failing", "restoring", "reindexing", "leaving"}
Outcomes == {"none", "ok", "failed", "unclear", "refused", "rollback_failed"}

\* Types of all variables; the lock has its holder.
TypeOK ==
    /\ file \in Ledgers /\ index \in Ledgers /\ head \in Ledgers
    /\ receipts \cup indexed \cup committed \subseteq Ids
    /\ foreign \in BOOLEAN
    /\ log \in Seq(SUBSET Ids)
    /\ lock \in Writers \cup {Nobody}
    /\ pc \in [Writers -> Pc]
    /\ request \in [Writers -> Requests \cup {Nobody}]
    /\ tx \in [Writers -> Nat]
    /\ before \in [Writers -> Image]
    /\ outcome \in [Writers -> Outcomes]
    /\ \A p \in Writers : lock = p <=> pc[p] \notin {"idle", "waiting"}
    /\ unrestored \subseteq Kinds /\ raced \subseteq {"none", "write", "rollback"}
    /\ writes \in 0..MaxWrites /\ failures \in 0..MaxFailures
    /\ crashes \in 0..MaxCrashes /\ foreigners \in 0..MaxForeign

TxOf(rows) == {row.tx : row \in Range(rows)}

\* A request has one row at most, over retries, dead writers and timeouts.
OneRowPerRequest ==
    \A k \in Kinds : \A i, j \in 1..Len(head[k]) :
        head[k][i].request = head[k][j].request => i = j

\* HEAD holds a row exactly when it holds its receipt, whoever commits what a
\* dead or failing writer left in the index.
RowsHaveReceipts == UNION {TxOf(head[k]) : k \in Kinds} = committed

\* What a call said is true: a reported success is in HEAD, and what is said
\* to have failed was committed by nobody and is gone from the worktree --
\* unless others committed in the middle of the rollback.  (A call that could
\* not tell, or could not restore, says so and promises neither.)
OutcomeIsHonest ==
    \A p \in Writers :
        /\ (outcome[p] = "ok" /\ "rollback" \notin raced) => tx[p] \in committed
        /\ (outcome[p] = "failed" /\ "rollback" \notin raced) =>
              tx[p] \notin receipts \cup indexed \cup UNION Range(log)

\* No write is refused for what an earlier one left behind, unless that one
\* said that it could not roll back, a writer died or others committed in
\* the middle of a write.
QuietIsClean ==
    (lock = Nobody /\ crashes = 0 /\ raced \subseteq {"none"}) =>
        \A k \in Kinds : CleanTarget(k) \/ k \in unrestored

\* A committed row is never lost again, unless others commit in the middle of
\* a rollback: the index it restores takes the row out of their next commit.
CommittedRowsKept ==
    []["rollback" \notin raced' => \A k \in Kinds : IsPrefix(head[k], head'[k])]_head

=============================================================================
