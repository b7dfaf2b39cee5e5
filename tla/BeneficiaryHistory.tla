------------------------- MODULE BeneficiaryHistory -------------------------
(***************************************************************************)
(* The multi-version history of the beneficiary's account                  *)
(* (src/beneficiary/history.rs): one preallocated entry per transaction,   *)
(* an estimate until an execution records its exact effect.  A reader      *)
(* walks the entries backwards, one lock at a time, to a snapshot or to    *)
(* the immutable block-start anchor.                                       *)
(***************************************************************************)
EXTENDS Transactions, Sequences

VARIABLE history   \* history[t]: the entry of transaction t

Estimate == [kind |-> "Estimate", amount |-> 0]
Unchanged == [kind |-> "Unchanged", amount |-> 0]
Reward(r) == [kind |-> "Reward", amount |-> r]
Snapshot(v) == [kind |-> "Snapshot", amount |-> v]

Effects == [kind : {"Estimate", "Unchanged", "Reward", "Snapshot"}, amount : Val]

HistoryInit == history = [t \in Tx |-> [incarnation |-> 0, value |-> Estimate]]

HistoryTypeOK == history \in [Tx -> [incarnation : Nat, value : Effects]]

\* BeneficiaryEffect::from_execution: what a successful execution that read
\* vals does to the beneficiary's account.
EffectOf(t, vals) ==
  IF DeferredReward(t, vals) > 0 THEN Reward(DeferredReward(t, vals))
  ELSE IF Ben \in DOMAIN Changes(t, vals) THEN Snapshot(Changes(t, vals)[Ben])
  ELSE Unchanged

\* HistoryEntry::record refuses an incarnation that is not newer.
Recordable(t, incarnation) == incarnation > history[t].incarnation

RecordEntry(t, incarnation, value) ==
  history' = [history EXCEPT ![t] = [incarnation |-> incarnation, value |-> value]]

\* HistoryEntry::invalidate refuses any other incarnation.
Invalidatable(t, incarnation) == history[t].incarnation = incarnation

\* Faulty variant: the effect of an invalid incarnation stays exact.
KeepEntry(t) == UNCHANGED history

InvalidateEntry(t) == history' = [history EXCEPT ![t].value = Estimate]

\* A scan in progress is the chain of the entries met so far, newest first.
Link(t) == [tx |-> t, incarnation |-> history[t].incarnation, value |-> history[t].value]

Origins(chain) == [i \in DOMAIN chain |-> <<chain[i].tx, chain[i].incarnation>>]

\* Faulty variant: the newest reward ends the scan.
ScanEndsEarly(writer) == writer = 0 \/ history[writer].value.kind \in {"Reward", "Snapshot"}

\* The scan from writer downwards is over once it has met this entry.
ScanEndsAt(writer) == writer = 0 \/ history[writer].value.kind = "Snapshot"

\* One entry of the chain applied to a balance.
Effected(balance, value) ==
  CASE value.kind = "Reward" -> Credit(balance, value.amount)
    [] value.kind = "Snapshot" -> value.amount
    [] OTHER -> balance

\* HistoryScan::resolve: the rewards are credited in transaction order to
\* the snapshot that ends the chain, or to the block-start anchor.
\* balances[k] is the balance after the k oldest entries.
Resolves(chain, balances) ==
  LET n == Len(chain)
  IN  /\ balances \in [0 .. n -> Val]
      /\ balances[0] = InitStore[Ben]
      /\ \A k \in 1 .. n : balances[k] = Effected(balances[k - 1], chain[n + 1 - k].value)

=============================================================================
