------------------------- MODULE ParallelPrecompile -------------------------
(***************************************************************************)
(* Custom precompiles under speculative execution (src/precompile.rs): an  *)
(* implementation runs any operations of the state facade, may ignore      *)
(* their errors and may return anything; the adapter decides what the EVM  *)
(* gets to see.  A load fails when the database does, for instance because *)
(* it meets an estimate.                                                   *)
(***************************************************************************)
EXTENDS Naturals

CONSTANTS
  Addr, Key, Val,
  Zero,      \* the initial value of every balance and slot
  NoFault,   \* fault: None
  MaxOps     \* bound on the operations of one call

ASSUME PrecompileAssumption ==
  Zero \in Val /\ MaxOps \in Nat /\ NoFault \notin {"halt", "fatal"}

VARIABLES
  balance, slots,   \* the journal's state
  loaded,           \* the accounts the journal has loaded
  saved,            \* the state at the checkpoint of the call's frame
  pc,               \* "evm" outside a call
  is_static, fault,
  first_error,      \* the first error the call's implementation was given
  ops,
  result            \* what the adapter returned

state == <<balance, slots>>
vars == <<balance, slots, loaded, saved, pc, is_static, fault, first_error, ops, result>>

Faults == {"halt", "fatal"}

NoBalance == [a \in Addr |-> Zero]

NoSlots == [a \in Addr |-> [k \in Key |-> Zero]]

Init ==
  /\ balance = NoBalance /\ slots = NoSlots
  /\ loaded = {}
  /\ saved = [balance |-> NoBalance, slots |-> NoSlots]
  /\ pc = "evm" /\ is_static = FALSE /\ fault = NoFault /\ first_error = NoFault /\ ops = 0
  /\ result = "ok"

\* The EVM calls the precompile in a new frame; from_alloy starts without a
\* fault.
Call(static) ==
  /\ pc = "evm"
  /\ saved' = [balance |-> balance, slots |-> slots]
  /\ pc' = "call" /\ is_static' = static /\ fault' = NoFault /\ first_error' = NoFault /\ ops' = 0
  /\ UNCHANGED <<balance, slots, loaded, result>>

-----------------------------------------------------------------------------
(* The facade of one call                                                  *)

\* record_fault: get_or_insert.
record_fault(kind) ==
  /\ fault' = IF fault = NoFault THEN kind ELSE fault
  /\ first_error' = IF first_error = NoFault THEN fault' ELSE first_error

ensure_healthy == fault = NoFault

ensure_mutable == ensure_healthy /\ ~is_static

Enter == pc = "call" /\ ops < MaxOps /\ ops' = ops + 1

\* An operation of a facade that already has a fault returns it.
Refused ==
  /\ Enter
  /\ ~ensure_healthy
  /\ UNCHANGED <<balance, slots, loaded, saved, pc, is_static, fault, first_error, result>>

\* set_balance and sstore in a static call.
RefusedStatic ==
  /\ Enter
  /\ ensure_healthy /\ ~ensure_mutable
  /\ record_fault("halt")
  /\ UNCHANGED <<balance, slots, loaded, saved, pc, is_static, result>>

\* The load of the account, or of the slot after it, fails.
LoadFails(a) ==
  /\ Enter
  /\ ensure_healthy
  /\ loaded' \in {loaded, loaded \cup {a}}
  /\ record_fault("fatal")
  /\ UNCHANGED <<balance, slots, saved, pc, is_static, result>>

\* balance and sload.
Load(a) ==
  /\ Enter
  /\ ensure_healthy
  /\ loaded' = loaded \cup {a}
  /\ UNCHANGED <<balance, slots, saved, pc, is_static, fault, first_error, result>>

set_balance(a, v) ==
  /\ Enter
  /\ ensure_mutable
  /\ loaded' = loaded \cup {a}
  /\ balance' = [balance EXCEPT ![a] = v]
  /\ UNCHANGED <<slots, saved, pc, is_static, fault, first_error, result>>

sstore(a, k, v) ==
  /\ Enter
  /\ ensure_mutable
  /\ loaded' = loaded \cup {a}
  /\ slots' = [slots EXCEPT ![a][k] = v]
  /\ UNCHANGED <<balance, saved, pc, is_static, fault, first_error, result>>

-----------------------------------------------------------------------------
(* The adapter, and what revm makes of its answer                          *)

\* Faulty variant: the implementation's own result is returned.
to_alloy_result_only(returned) == returned

\* to_alloy: a fault replaces whatever the implementation returned.
to_alloy_result(returned) == IF fault = NoFault THEN returned ELSE fault

\* The implementation returns.  revm keeps the state of a successful call and
\* reverts the frame of a halted one.
Finish(returned) ==
  LET r == to_alloy_result(returned) IN
  /\ pc = "call"
  /\ r # "fatal"
  /\ pc' = "evm"
  /\ result' = r
  /\ balance' = IF r = "ok" THEN balance ELSE saved.balance
  /\ slots' = IF r = "ok" THEN slots ELSE saved.slots
  /\ UNCHANGED <<loaded, saved, is_static, fault, first_error, ops>>

\* After a fatal error the whole attempt is discarded and the transaction
\* starts again on a new journal.
Discard(returned) ==
  /\ pc = "call"
  /\ to_alloy_result(returned) = "fatal"
  /\ pc' = "evm"
  /\ result' = "fatal"
  /\ balance' = NoBalance /\ slots' = NoSlots
  /\ saved' = [balance |-> NoBalance, slots |-> NoSlots]
  /\ loaded' = {}
  /\ UNCHANGED <<is_static, fault, first_error, ops>>

Next ==
  \/ \E static \in BOOLEAN : Call(static)
  \/ Refused \/ RefusedStatic
  \/ \E a \in Addr :
       \/ Load(a) \/ LoadFails(a)
       \/ \E v \in Val : set_balance(a, v) \/ \E k \in Key : sstore(a, k, v)
  \/ \E returned \in Faults \cup {"ok"} : Finish(returned) \/ Discard(returned)

Spec == Init /\ [][Next]_vars

-----------------------------------------------------------------------------
TypeOK ==
  /\ balance \in [Addr -> Val] /\ slots \in [Addr -> [Key -> Val]]
  /\ loaded \subseteq Addr
  /\ saved \in [balance : [Addr -> Val], slots : [Addr -> [Key -> Val]]]
  /\ pc \in {"evm", "call"} /\ is_static \in BOOLEAN
  /\ fault \in Faults \cup {NoFault} /\ first_error \in Faults \cup {NoFault}
  /\ ops \in Nat /\ result \in Faults \cup {"ok"}

\* to_alloy and record_fault: an implementation that swallows an error cannot
\* turn it into a result; the call ends as the first error said.
FirstFaultDecides == pc = "evm" /\ first_error # NoFault => result = first_error

\* ensure_healthy: after the first error an implementation can neither load
\* nor change anything.
NothingAfterFault ==
  [][fault # NoFault /\ pc = "call" /\ pc' = "call" => UNCHANGED <<state, loaded, fault>>]_vars

\* ensure_mutable: whatever the implementation tries, a static call leaves the
\* state as it was.
StaticKeepsState ==
  is_static => balance = saved.balance /\ slots = saved.slots
=============================================================================
