---------------------------- MODULE TxDependency ----------------------------
(***************************************************************************)
(* The scheduling graph (src/tx_dependency.rs): one optional blocker per   *)
(* transaction, the reverse edges of each blocker, and a claim cursor.     *)
(* Its edges are hints: they decide when a transaction is retried.         *)
(* An operation is one atomic step, taken under the mutexes of the         *)
(* transactions it touches; next() is two.                                 *)
(***************************************************************************)
EXTENDS Transactions

VARIABLES
  onboard,     \* onboard[t]: t may be claimed for execution
  blocker,     \* blocker[t]: DependentState::dependency of t
  affect_txs,  \* affect_txs[p]: the transactions recorded as waiting for p
  index        \* the claim cursor; N stands for every value beyond the block

depVars == <<onboard, blocker, affect_txs, index>>

DepInit ==
  /\ onboard = [t \in Tx |-> TRUE]
  /\ blocker = [t \in Tx |-> NoTx]
  /\ affect_txs = [t \in Tx |-> {}]
  /\ index = 0

DepTypeOK ==
  /\ onboard \in [Tx -> BOOLEAN]
  /\ blocker \in [Tx -> Tx \cup {NoTx}]
  /\ affect_txs \in [Tx -> SUBSET Tx]
  /\ index \in 0 .. N

\* next() advances the cursor and looks at the transaction it passed under
\* that transaction's mutex, in two steps.
AdvanceIndex ==
  /\ index' = IF index < N THEN index + 1 ELSE index
  /\ UNCHANGED <<onboard, blocker, affect_txs>>

Claimable(t) == onboard[t] /\ blocker[t] = NoTx

Claim(t) ==
  /\ onboard' = [onboard EXCEPT ![t] = @ /\ ~Claimable(t)]
  /\ UNCHANGED <<blocker, affect_txs, index>>

\* The transactions remove(t) unblocks: a replaced blocker leaves a stale
\* reverse edge, so the current blocker is rechecked.
Released(t) == {x \in affect_txs[t] : blocker[x] = t}

\* What remove(t, pop_next) returns: the immediate successor, when it waits
\* and the cursor has already passed it.
Handed(t, pop_next) ==
  IF pop_next /\ t + 1 \in Released(t) /\ onboard[t + 1] /\ index > t + 1
  THEN t + 1 ELSE NoTx

Remove(t, pop_next) ==
  LET back == {index} \cup {x \in Released(t) : onboard[x] /\ x # Handed(t, pop_next)}
  IN  /\ blocker' = [x \in Tx |-> IF x \in Released(t) THEN NoTx ELSE blocker[x]]
      /\ onboard' = [x \in Tx |-> onboard[x] /\ x # Handed(t, pop_next)]
      /\ affect_txs' = [affect_txs EXCEPT ![t] = {}]
      /\ index' \in back
      /\ \A x \in back : index' <= x

\* commit(t): the successor of a committed transaction has nothing left to
\* wait for.
Commit(t) ==
  /\ IF t + 1 < N /\ onboard[t + 1]
     THEN /\ blocker' = [blocker EXCEPT ![t + 1] = NoTx]
          /\ index' = Min(index, t + 1)
     ELSE UNCHANGED <<blocker, index>>
  /\ UNCHANGED <<onboard, affect_txs>>

\* Faulty variant: the barrier ignores the committed prefix.
KeyTxAlways(t, commit_idx) ==
  /\ blocker' = [blocker EXCEPT ![t] = t]
  /\ onboard' = [onboard EXCEPT ![t] = TRUE]
  /\ UNCHANGED <<affect_txs, index>>

\* key_tx(t): after an EVM error, t waits for the commit of t - 1.
KeyTx(t, commit_idx) ==
  /\ blocker' = IF t > commit_idx THEN [blocker EXCEPT ![t] = t] ELSE blocker
  /\ onboard' = [onboard EXCEPT ![t] = TRUE]
  /\ index' = IF blocker'[t] = NoTx THEN Min(index, t) ELSE index
  /\ UNCHANGED affect_txs

\* add(t, Some(p)): t waits for p, and p is offered again so that an edge
\* recorded after p finished is still cleared.
AddEdge(t, p) ==
  /\ blocker' = [blocker EXCEPT ![t] = p]
  /\ onboard' = [onboard EXCEPT ![t] = TRUE, ![p] = TRUE]
  /\ affect_txs' = [affect_txs EXCEPT ![p] = @ \cup {t}]
  /\ index' = IF blocker[p] = NoTx THEN Min(index, p) ELSE index

\* add(t, None): t is offered again.
AddFree(t) ==
  /\ IF onboard[t]
     THEN UNCHANGED <<onboard, blocker, index>>
     ELSE /\ onboard' = [onboard EXCEPT ![t] = TRUE]
          /\ blocker' = [blocker EXCEPT ![t] = NoTx]
          /\ index' = Min(index, t)
  /\ UNCHANGED affect_txs

Add(t, dep) == IF dep = NoTx THEN AddFree(t) ELSE AddEdge(t, dep)

=============================================================================
