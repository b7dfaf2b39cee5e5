--------------------------- MODULE ReservePlanner ---------------------------
(***************************************************************************)
(* The reserve planner shared by the workers: the sender index and the     *)
(* schedule of every account are built by the first worker that asks, in a *)
(* OnceLock, while the others that ask for the same one block.             *)
(***************************************************************************)
EXTENDS ReserveSchedule, TLC

CONSTANTS Workers, Accounts, Blocks,
          Nobody      \* no worker is building

VARIABLES
  block,         \* txs
  sender_index,  \* OnceLock of the index
  schedules,     \* DashMap of one OnceLock per account
  builds,        \* the schedules built so far, per account
  query          \* what every worker asks, and what it was answered

vars == <<block, sender_index, schedules, builds, query>>

\* OnceLock: unset, being initialised by one thread, or set.
Unset == [state |-> "unset", by |-> Nobody, value |-> <<>>]
Building(w) == [state |-> "building", by |-> w, value |-> <<>>]
Set(v) == [state |-> "set", by |-> Nobody, value |-> v]

Absent == [state |-> "absent", by |-> Nobody, value |-> <<>>]

Init ==
  /\ block \in Blocks
  /\ sender_index = Unset
  /\ schedules = [a \in Accounts |-> Absent]
  /\ builds = [a \in Accounts |-> 0]
  /\ query = [w \in Workers |-> [pc |-> "idle", txid |-> 0, address |-> Nobody, answer |-> 0]]

Answer(w, v) == query' = [query EXCEPT ![w].pc = "idle", ![w].answer = v]
Goto(w, pc) == query' = [query EXCEPT ![w].pc = pc]

\* has_reserve_violation asks for one delegated debit.
Ask(w, txid, a) ==
  /\ query[w].pc = "idle"
  /\ query' = [query EXCEPT ![w] = [pc |-> "index", txid |-> txid, address |-> a, answer |-> 0]]
  /\ UNCHANGED <<block, sender_index, schedules, builds>>

\* sender_index(): get_or_init, the initialisation itself being a second step.
EnterIndex(w) ==
  /\ query[w].pc = "index"
  /\ \/ sender_index.state = "unset" /\ sender_index' = Building(w) /\ Goto(w, "build index")
     \/ sender_index.state = "set" /\ Goto(w, "lookup") /\ UNCHANGED sender_index
  /\ UNCHANGED <<block, schedules, builds>>

BuildIndex(w) ==
  /\ query[w].pc = "build index"
  /\ sender_index' = Set(SenderIndex(block))
  /\ Goto(w, "lookup")
  /\ UNCHANGED <<block, schedules, builds>>

\* The early returns, and the account's cell in the map.
Lookup(w) ==
  LET a == query[w].address
      txids == sender_index.value[a]
  IN
  /\ query[w].pc = "lookup"
  /\ IF a \in DOMAIN sender_index.value /\ PartitionPoint(txids, query[w].txid) < Len(txids)
     THEN /\ Goto(w, "schedule")
          /\ schedules' = [schedules EXCEPT ![a] = IF @ = Absent THEN Unset ELSE @]
     ELSE Answer(w, 0) /\ UNCHANGED schedules
  /\ UNCHANGED <<block, sender_index, builds>>

\* cell.get_or_init and the answer.
EnterSchedule(w) ==
  LET a == query[w].address IN
  /\ query[w].pc = "schedule"
  /\ \/ /\ schedules[a].state = "unset"
        /\ schedules' = [schedules EXCEPT ![a] = Building(w)]
        /\ Goto(w, "build schedule")
     \/ /\ schedules[a].state = "set"
        /\ Answer(w, ScheduleRequiredAfter(schedules[a].value, query[w].txid))
        /\ UNCHANGED schedules
  /\ UNCHANGED <<block, sender_index, builds>>

FinishSchedule(w) ==
  LET a == query[w].address
      schedule == BuildSchedule(block, sender_index.value[a])
  IN
  /\ query[w].pc = "build schedule"
  /\ schedules' = [schedules EXCEPT ![a] = Set(schedule)]
  /\ builds' = [builds EXCEPT ![a] = @ + 1]
  /\ Answer(w, ScheduleRequiredAfter(schedule, query[w].txid))
  /\ UNCHANGED <<block, sender_index>>

Step(w) == \/ EnterIndex(w) \/ BuildIndex(w) \/ Lookup(w)
           \/ EnterSchedule(w) \/ FinishSchedule(w)

Next == \E w \in Workers :
  \/ Step(w)
  \/ \E txid \in DOMAIN block, a \in Accounts : Ask(w, txid, a)

Spec == Init /\ [][Next]_vars

-----------------------------------------------------------------------------
\* required_after: whichever worker builds what, and however the sums
\* saturate, an answer is the cost of the account's transactions strictly
\* after the asking one, and no schedule is built twice, although its cell is
\* found and entered in separate steps.
AnswerIsLaterCost ==
  /\ \A w \in Workers :
       query[w].pc = "idle" /\ query[w].address # Nobody =>
         query[w].answer = CostAfter(block, query[w].txid, query[w].address)
  /\ \A a \in Accounts : builds[a] <= 1

=============================================================================
