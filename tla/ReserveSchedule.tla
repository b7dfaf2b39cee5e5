-------------------------- MODULE ReserveSchedule ---------------------------
(***************************************************************************)
(* What an account still has to pay in a block: the suffix sums of the     *)
(* reserve planner (src/delegated_safety/reserve.rs).  Transactions are    *)
(* numbered from 1; amounts are U256 and saturate at MaxU256.              *)
(***************************************************************************)
EXTENDS Integers, Sequences, SequencesExt, FiniteSetsExt

CONSTANT MaxU256   \* U256::MAX

\* U256::saturating_add and saturating_sub.
SaturatingAdd(x, y) == IF x + y > MaxU256 THEN MaxU256 ELSE x + y
SaturatingSub(x, y) == IF y > x THEN 0 ELSE x - y

\* max_balance_spending().unwrap_or(U256::MAX): a cost that overflows counts
\* as the largest amount.
CostOf(tx) == IF tx.cost > MaxU256 THEN MaxU256 ELSE tx.cost

\* sender_index: the transactions of every caller, in block order.
SenderIndex(block) ==
  [a \in {block[i].caller : i \in DOMAIN block} |->
     SelectSeq([i \in DOMAIN block |-> i], LAMBDA i : block[i].caller = a)]

\* slice::partition_point for "the candidate is not after txid".
PartitionPoint(txids, txid) == Cardinality({k \in DOMAIN txids : txids[k] <= txid})

\* build_schedule: one pass from the last transaction to the first.
BuildSchedule(block, txids) ==
  LET suffix[k \in 1 .. Len(txids) + 1] ==
        IF k > Len(txids) THEN 0
        ELSE SaturatingAdd(suffix[k + 1], CostOf(block[txids[k]]))
  IN [txids |-> txids, cost_from |-> [k \in DOMAIN txids |-> suffix[k]]]

\* Faulty variant: the transaction under execution is counted as well.
ScheduleIncludingSelf(schedule, txid) ==
  LET k == PartitionPoint(schedule.txids, txid - 1) + 1 IN
  IF k <= Len(schedule.cost_from) THEN schedule.cost_from[k] ELSE 0

\* AccountReserveSchedule::required_after.
ScheduleRequiredAfter(schedule, txid) ==
  LET k == PartitionPoint(schedule.txids, txid) + 1 IN
  IF k <= Len(schedule.cost_from) THEN schedule.cost_from[k] ELSE 0

\* ReservePlanner::required_after, as one call sees it: no transaction of
\* the account, or none after txid, means nothing to reserve.
RequiredAfter(block, txid, address) ==
  LET index == SenderIndex(block) IN
  IF address \notin DOMAIN index THEN 0
  ELSE ScheduleRequiredAfter(BuildSchedule(block, index[address]), txid)

\* What is asked for: the costs of the account's later transactions.
Later(block, txid, address) == {i \in DOMAIN block : i > txid /\ block[i].caller = address}
CostAfter(block, txid, address) ==
  Min({MaxU256, MapThenSumSet(LAMBDA i : CostOf(block[i]), Later(block, txid, address))})
=============================================================================
