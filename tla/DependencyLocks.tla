-------------------------- MODULE DependencyLocks --------------------------
(***************************************************************************)
(* The mutexes of the dependency graph (src/tx_dependency.rs).  TxDependency *)
(* takes every operation as one step; here it is one step per lock, per    *)
(* dependent that remove visits and per access to a cursor, and the calls  *)
(* of any number of workers and of the commit thread overlap.              *)
(***************************************************************************)
EXTENDS Integers, Sequences

CONSTANTS
  N,         \* num_txs
  Workers,   \* threads that call next, remove, key_tx and add
  None

\* The commit thread is none of the workers.
ASSUME LocksAssumption ==
  /\ N \in Nat
  /\ None \notin 0 .. N /\ None \notin Workers /\ None # "committer"
  /\ "committer" \notin Workers

VARIABLES
  onboard, dependency,   \* dependent_state
  affect_txs,
  index,
  commit_idx,            \* the published commit cursor
  held,                  \* [mutex -> its holder or None]
  call                   \* [thread -> the operation in progress]

lockVars == <<onboard, dependency, affect_txs, index, commit_idx, held, call>>

Txs == 0 .. N - 1
Committer == "committer"
Threads == Workers \cup {Committer}
Mutexes == {"affect", "state"} \X Txs

Idle == [op |-> "idle", tx |-> 0, dep |-> None, want |-> <<>>, todo |-> {}, seen |-> 0]
Op(op, t, dep, want) == [op |-> op, tx |-> t, dep |-> dep, want |-> want, todo |-> {}, seen |-> 0]

LocksInit ==
  /\ onboard = [t \in Txs |-> TRUE] /\ dependency = [t \in Txs |-> None]
  /\ affect_txs = [t \in Txs |-> {}]
  /\ index = 0 /\ commit_idx = 0
  /\ held = [m \in Mutexes |-> None]
  /\ call = [w \in Threads |-> Idle]

graph == <<onboard, dependency, affect_txs, index>>

fetch_min(t) == index' = IF t < index THEN t ELSE index

\* A thread waits for the mutexes of its operation one after the other.
Lock(w) ==
  LET m == Head(call[w].want) IN
  /\ call[w].want # <<>>
  /\ held[m] = None
  /\ held' = [held EXCEPT ![m] = w]
  /\ call' = [call EXCEPT ![w].want = Tail(@)]
  /\ UNCHANGED <<graph, commit_idx>>

At(w, op) == call[w].op = op /\ call[w].want = <<>>

Free(w) == [m \in Mutexes |-> IF held[m] = w THEN None ELSE held[m]]

\* The guards are dropped and the call returns.
EndCall(w) == held' = Free(w) /\ call' = [call EXCEPT ![w] = Idle]

Begin(w, c) ==
  /\ call[w].op = "idle"
  /\ call' = [call EXCEPT ![w] = c]

-----------------------------------------------------------------------------
\* next: the claim, then the state of the claimed transaction.
CallNext(w) ==
  /\ index < N
  /\ Begin(w, Op("next?", 0, None, <<>>))
  /\ UNCHANGED <<graph, commit_idx, held>>

Claim(w) ==
  /\ At(w, "next?")
  /\ index' = index + 1
  /\ call' = [call EXCEPT ![w] = IF index < N THEN Op("next", index, None, << <<"state", index>> >>)
                                 ELSE Idle]
  /\ UNCHANGED <<onboard, dependency, affect_txs, commit_idx, held>>

NextBody(w) ==
  LET t == call[w].tx IN
  /\ At(w, "next")
  /\ onboard' = [onboard EXCEPT ![t] = @ /\ dependency[t] # None]
  /\ EndCall(w)
  /\ UNCHANGED <<dependency, affect_txs, index, commit_idx>>

-----------------------------------------------------------------------------
\* remove holds the reverse edges while it visits the dependents.
CallRemove(w, t) ==
  /\ Begin(w, Op("remove", t, None, << <<"affect", t>> >>))
  /\ UNCHANGED <<graph, commit_idx, held>>

RemoveLoop(w) ==
  /\ At(w, "remove")
  /\ IF affect_txs[call[w].tx] = {} THEN EndCall(w)
     ELSE call' = [call EXCEPT ![w].op = "visit", ![w].todo = affect_txs[call[w].tx]]
          /\ UNCHANGED held
  /\ UNCHANGED <<graph, commit_idx>>

Visit(w, t) ==
  /\ At(w, "visit") /\ t \in call[w].todo
  /\ call' = [call EXCEPT ![w].op = "release", ![w].dep = t, ![w].want = << <<"state", t>> >>]
  /\ UNCHANGED <<graph, commit_idx, held>>

\* A dependent that waits for another transaction by now is left alone; the
\* immediate successor may be handed to the caller.
Release(w, pop_next) ==
  LET t == call[w].dep
      released == dependency[t] = call[w].tx
      handed == released /\ onboard[t] /\ pop_next /\ t = call[w].tx + 1 /\ index > t IN
  /\ At(w, "release")
  /\ dependency' = [dependency EXCEPT ![t] = IF released THEN None ELSE @]
  /\ onboard' = [onboard EXCEPT ![t] = @ /\ ~handed]
  /\ IF released /\ onboard[t] /\ ~handed THEN fetch_min(t) ELSE UNCHANGED index
  /\ held' = [held EXCEPT ![<<"state", t>>] = None]
  /\ call' = [call EXCEPT ![w].op = "visit", ![w].todo = @ \ {t}]
  /\ UNCHANGED <<affect_txs, commit_idx>>

RemoveEnd(w) ==
  /\ At(w, "visit") /\ call[w].todo = {}
  /\ affect_txs' = [affect_txs EXCEPT ![call[w].tx] = {}]
  /\ EndCall(w)
  /\ UNCHANGED <<onboard, dependency, index, commit_idx>>

-----------------------------------------------------------------------------
\* The commit thread publishes the boundary, then releases the successor.
CallCommit ==
  /\ commit_idx < N
  /\ commit_idx' = commit_idx + 1
  /\ IF commit_idx + 1 < N
     THEN Begin(Committer, Op("commit", commit_idx + 1, None, << <<"state", commit_idx + 1>> >>))
     ELSE call[Committer].op = "idle" /\ UNCHANGED call
  /\ UNCHANGED <<graph, held>>

CommitBody ==
  LET t == call[Committer].tx IN
  /\ At(Committer, "commit")
  /\ dependency' = [dependency EXCEPT ![t] = IF onboard[t] THEN None ELSE @]
  /\ IF onboard[t] THEN fetch_min(t) ELSE UNCHANGED index
  /\ EndCall(Committer)
  /\ UNCHANGED <<onboard, affect_txs, commit_idx>>

\* Faulty variant: key_tx looks at the boundary before it takes the lock.
ReadCommitFirst(w) ==
  /\ call[w].op = "key_tx"
  /\ call' = [call EXCEPT ![w].op = "key_tx set", ![w].seen = commit_idx]
  /\ UNCHANGED <<graph, commit_idx, held>>

\* key_tx: the boundary is read under the lock.
CallKeyTx(w, t) ==
  /\ Begin(w, Op("key_tx", t, None, << <<"state", t>> >>))
  /\ UNCHANGED <<graph, commit_idx, held>>

ReadCommit(w) ==
  /\ At(w, "key_tx")
  /\ call' = [call EXCEPT ![w].op = "key_tx set", ![w].seen = commit_idx]
  /\ UNCHANGED <<graph, commit_idx, held>>

KeyTxBody(w) ==
  LET t == call[w].tx IN
  /\ At(w, "key_tx set")
  /\ dependency' = [dependency EXCEPT ![t] = IF t > call[w].seen THEN t ELSE @]
  /\ onboard' = [onboard EXCEPT ![t] = TRUE]
  /\ IF dependency'[t] = None THEN fetch_min(t) ELSE UNCHANGED index
  /\ EndCall(w)
  /\ UNCHANGED <<affect_txs, commit_idx>>

-----------------------------------------------------------------------------
\* Faulty variant: the states are locked before the reverse edges.
StatesFirst(t, d) == << <<"state", d>>, <<"state", t>>, <<"affect", d>> >>

\* add: the global lock order.
AddLocks(t, d) == << <<"affect", d>>, <<"state", d>>, <<"state", t>> >>

CallAdd(w, t, d) ==
  /\ d < t
  /\ Begin(w, Op("add", t, d, AddLocks(t, d)))
  /\ UNCHANGED <<graph, commit_idx, held>>

AddBody(w) ==
  LET t == call[w].tx  d == call[w].dep IN
  /\ At(w, "add")
  /\ dependency' = [dependency EXCEPT ![t] = d]
  /\ affect_txs' = [affect_txs EXCEPT ![d] = @ \cup {t}]
  /\ onboard' = [onboard EXCEPT ![t] = TRUE, ![d] = TRUE]
  /\ IF dependency[d] = None THEN fetch_min(d) ELSE UNCHANGED index
  /\ EndCall(w)
  /\ UNCHANGED commit_idx

\* add without a predecessor.
CallAddNone(w, t) ==
  /\ Begin(w, Op("add none", t, None, << <<"state", t>> >>))
  /\ UNCHANGED <<graph, commit_idx, held>>

AddNoneBody(w) ==
  LET t == call[w].tx IN
  /\ At(w, "add none")
  /\ onboard' = [onboard EXCEPT ![t] = TRUE]
  /\ dependency' = [dependency EXCEPT ![t] = IF onboard[t] THEN @ ELSE None]
  /\ IF onboard[t] THEN UNCHANGED index ELSE fetch_min(t)
  /\ EndCall(w)
  /\ UNCHANGED <<affect_txs, commit_idx>>

-----------------------------------------------------------------------------
LocksNext ==
  \/ \E w \in Threads : Lock(w)
  \/ CallCommit \/ CommitBody
  \/ \E w \in Workers :
       \/ CallNext(w) \/ Claim(w) \/ NextBody(w)
       \/ RemoveLoop(w) \/ RemoveEnd(w)
       \/ \E pop_next \in BOOLEAN : Release(w, pop_next)
       \/ ReadCommit(w) \/ KeyTxBody(w) \/ AddBody(w) \/ AddNoneBody(w)
       \/ \E t \in Txs :
            \/ CallRemove(w, t) \/ Visit(w, t) \/ CallKeyTx(w, t) \/ CallAddNone(w, t)
            \/ \E d \in Txs : CallAdd(w, t, d)

LocksSpec == LocksInit /\ [][LocksNext]_lockVars

-----------------------------------------------------------------------------
Waiting(w) == call[w].want # <<>>

\* add, remove: the lock order leaves no circle of threads that wait for each
\* other.
NoLockCycle ==
  \A S \in (SUBSET Threads) \ {{}} :
    ~ \A w \in S : Waiting(w) /\ held[Head(call[w].want)] \in S

\* add, remove: a blocked transaction is known to its blocker, however add and
\* the steps of remove interleave, so that a later remove of the blocker finds it.
BlockerKnows ==
  \A t \in Txs : \A d \in 0 .. t - 1 :
    dependency[t] = d => t \in affect_txs[d]

\* next, remove, commit, add: a transaction that may be claimed is in front of
\* the cursor, or a thread that moved the cursor past it is about to look.
RunnableIsClaimable ==
  \A t \in Txs : onboard[t] /\ dependency[t] = None =>
    index <= t \/ \E w \in Threads : call[w].op = "next" /\ call[w].tx = t

\* key_tx, commit: a transaction held at its own commit boundary is released,
\* because the boundary is still ahead or the commit is about to release it.
BarrierIsLifted ==
  \A t \in Txs : dependency[t] = t =>
    commit_idx < t \/ (call[Committer].op = "commit" /\ call[Committer].tx = t)

\* next, remove, add, key_tx, commit, one mutex at a time: no transaction is left
\* without someone who claims or releases it.
NothingStranded == BlockerKnows /\ RunnableIsClaimable /\ BarrierIsLifted
=============================================================================
