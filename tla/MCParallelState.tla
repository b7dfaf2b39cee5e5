--------------------------- MODULE MCParallelState --------------------------
(***************************************************************************)
(* A small database for the cache: a contract with a slot in use and an    *)
(* address without an account.                                             *)
(***************************************************************************)
EXTENDS ParallelState, TLC

contract == "contract"
fresh == "fresh"
slot == "slot"

ContractAndFresh == {contract, fresh}
OneSlot == {slot}

MCDbInfo ==
  [a \in Addr |-> CASE a = contract -> [balance |-> 1, has |-> "code"]
                    [] OTHER -> None]
MCDbStorage == [a \in Addr |-> [s \in Slot |-> IF a = contract THEN 1 ELSE 0]]

\* Of a read that is over, only whether it returned a current value matters.
ReadView ==
  <<accounts, storage, commitVars,
    [r \in Readers |-> IF reader[r].pc # "idle" THEN reader[r]
                       ELSE [ok |-> reader[r].value \in reader[r].seen]]>>

Symmetric == Permutations(Readers)
=============================================================================
