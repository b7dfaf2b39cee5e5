--------------------------- MODULE SequentialBlock --------------------------
(***************************************************************************)
(* What the engine promises: the transactions of the block take effect     *)
(* one after the other, in block order, each on the state its predecessors *)
(* left.  An invalid transaction is skipped without effect, and an error   *)
(* ends the block with the completed prefix in place.                      *)
(***************************************************************************)
EXTENDS Transactions, Sequences

CONSTANT DbFail   \* transactions whose nonce lookup the database may fail

VARIABLES
  store,     \* the committed state
  outcomes,  \* the outcomes of the completed prefix, in block order
  error      \* the transaction an error was returned for, NoTx when none

blockVars == <<store, outcomes, error>>

Executed(vals) == [kind |-> "Executed", vals |-> vals]
Skipped == [kind |-> "Skipped", vals |-> Nothing]

\* What becomes of transaction t when it runs alone on the current state;
\* vals are the values it reads.
RunsOk(t, vals) == NonceOk(t, store) /\ Run(t, store, vals) /\ Evm(t, vals).op = "ok"
IsInvalid(t) ==
  \/ ~NonceOk(t, store)
  \/ \E vals \in Readings : Run(t, store, vals) /\ Evm(t, vals).op = "invalid"
IsFatal(t) ==
  /\ NonceOk(t, store)
  /\ \E vals \in Readings : Run(t, store, vals) /\ Evm(t, vals).op = "fatal"

ExecuteNext(t) ==
  LET vals == outcomes'[t + 1].vals
  IN  /\ Len(outcomes') = t + 1
      /\ outcomes' = Append(outcomes, Executed(vals))
      /\ UNCHANGED error
      /\ RunsOk(t, vals)
      /\ store' = Apply(store, Changes(t, vals), DeferredReward(t, vals))

SkipNext(t) ==
  /\ outcomes' = Append(outcomes, Skipped)
  /\ UNCHANGED <<store, error>>
  /\ IsInvalid(t)

FailNext(t) ==
  /\ error' = t
  /\ UNCHANGED <<store, outcomes>>
  /\ IsFatal(t) \/ t \in DbFail

BlockInit ==
  /\ store = InitStore
  /\ outcomes = <<>>
  /\ error = NoTx

BlockNext ==
  LET t == Len(outcomes)
  IN  /\ t < N
      /\ error = NoTx
      /\ ExecuteNext(t) \/ SkipNext(t) \/ FailNext(t)

BlockSpec == BlockInit /\ [][BlockNext]_blockVars

=============================================================================
