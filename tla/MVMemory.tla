------------------------------ MODULE MVMemory ------------------------------
(***************************************************************************)
(* Multi-version memory (MVMemory of src/model.rs): for every location the *)
(* versions written by the transactions of the block.  Readers of t see    *)
(* the latest entry of a preceding transaction (src/incarnation_db.rs).    *)
(***************************************************************************)
EXTENDS Transactions

VARIABLE mv_memory   \* mv_memory[l][t]: t's entry at l

\* No entry: incarnations count from 1.
Absent == [incarnation |-> 0, data |-> 0, estimate |-> FALSE]

Entries == [incarnation : Nat, data : Val, estimate : BOOLEAN]

MemoryInit == mv_memory = [l \in Loc |-> [t \in Tx |-> Absent]]

MemoryTypeOK == mv_memory \in [Loc -> [Tx -> Entries]]

Writers(l, t) == {i \in Tx : i < t /\ mv_memory[l][i].incarnation > 0}

\* range(..t).next_back(): the latest preceding writer of l.
LatestWriter(l, t) ==
  IF Writers(l, t) = {} THEN NoTx
  ELSE CHOOSE i \in Writers(l, t) : \A j \in Writers(l, t) : j <= i

SetEntry(l, t, entry) == mv_memory' = [mv_memory EXCEPT ![l][t] = entry]

PublishValue(l, t, incarnation, value, estimate) ==
  SetEntry(l, t, [incarnation |-> incarnation, data |-> value, estimate |-> estimate])

RemoveValue(l, t) == SetEntry(l, t, Absent)

\* mark_mv_estimate at one location.
MarkEstimate(l, t) ==
  mv_memory' = [mv_memory EXCEPT
    ![l][t] = IF @.incarnation = 0 THEN @ ELSE [@ EXCEPT !.estimate = TRUE]]

\* publish_writes publishes an account or slot only when it differs from
\* what this execution read; the beneficiary's account has its history.
Published(t, vals) ==
  LET changes == Changes(t, vals)
  IN  {l \in DOMAIN changes \ {Ben} : l \in DOMAIN vals => changes[l] # vals[l]}

=============================================================================
