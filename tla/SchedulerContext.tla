-------------------------- MODULE SchedulerContext --------------------------
(***************************************************************************)
(* The cursors and logical timestamps of the scheduling state machine      *)
(* (src/scheduler/context.rs, src/scheduler/cursor.rs).  validation is the *)
(* next validation claim and may be rewound; finality and committed are    *)
(* the ends of the validated and of the committed prefix.                  *)
(***************************************************************************)
EXTENDS Transactions

VARIABLES
  validation,              \* RewindableCursor
  finality,                \* PublishedCursor
  committed,               \* PublishedCursor
  executed,                \* executed[t]: t has completed an execution
  logical_clock,
  lower_timestamps,        \* the latest rewind to each transaction
  unconfirmed_timestamps   \* the latest successful validation of each

ctxVars == <<validation, finality, committed, executed, logical_clock,
             lower_timestamps, unconfirmed_timestamps>>

CtxInit ==
  /\ validation = 0
  /\ finality = 0
  /\ committed = 0
  /\ executed = [t \in Tx |-> FALSE]
  /\ logical_clock = 1
  /\ lower_timestamps = [t \in Tx |-> 0]
  /\ unconfirmed_timestamps = [t \in Tx |-> 0]

CtxTypeOK ==
  /\ validation \in 0 .. N
  /\ finality \in 0 .. N
  /\ committed \in 0 .. N
  /\ executed \in [Tx -> BOOLEAN]
  /\ logical_clock \in Nat \ {0}
  /\ lower_timestamps \in [Tx -> Nat]
  /\ unconfirmed_timestamps \in [Tx -> Nat]

\* ExecutionFrontier: i is below the first transaction without a completed
\* execution.  Readers help a delayed publisher, so this is what
\* current() answers at any time.
BelowFrontier(i) == i < N /\ \A j \in 0 .. i : executed[j]

\* next_validation_idx finds a claim: the cursor is below the execution
\* cursor and below the frontier.
ValidationClaimable(executing_idx) ==
  validation < executing_idx /\ BelowFrontier(validation)

\* rewind_validation_to(i), in the order of the code: the invalidation is
\* stamped first and the index made claimable afterwards.
StampRewind(i) ==
  IF i < N
  THEN /\ logical_clock' = logical_clock + 1
       /\ lower_timestamps' =
            [lower_timestamps EXCEPT ![i] = Max(@, logical_clock)]
  ELSE UNCHANGED <<logical_clock, lower_timestamps>>

RewindCursor(i) == validation' = IF i < N THEN Min(validation, i) ELSE validation

\* unconfirmed(t, ts)
Unconfirm(t, ts) ==
  unconfirmed_timestamps' = [unconfirmed_timestamps EXCEPT ![t] = Max(@, ts)]

=============================================================================
