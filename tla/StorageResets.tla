--------------------------- MODULE StorageResets ---------------------------
(***************************************************************************)
(* One contract account in multi-version memory (src/incarnation_db.rs):   *)
(* its existence, its code, the reset that hides the slots of an earlier   *)
(* life, and the slots.  An incarnation reads and publishes these          *)
(* locations one at a time while other transactions do the same.  What the *)
(* scheduler adds is reduced to its promise: an incarnation may be         *)
(* invalidated at any time, and becomes final only after its predecessors, *)
(* with every recorded version still the current one.                      *)
(***************************************************************************)
EXTENDS Naturals, FiniteSets, FiniteSetsExt, Sequences, SequencesExt

CONSTANTS
  Slots,
  s1,              \* the slot the transactions write
  Blocks,          \* the blocks: sequences of "destroy", "create", "store", "probe"
  OwnCodeOnly,     \* slots are read by the account's own code only, no raw sload
  MaxIncarnation   \* bound on the incarnations of a transaction

VARIABLES
  block,
  mv,         \* [location -> [transaction -> entry]]
  status,     \* [transaction -> "conflict", "executing", "publishing", "executed", "final"]
  db,         \* [transaction -> its IncarnationDb]
  write_set   \* [transaction -> the locations of its last result]

vars == <<block, mv, status, db, write_set>>

Txs == DOMAIN block

Locations == {"basic", "code", "reset"} \cup Slots

\* Transaction 0 stands for the database: no entry, ReadVersion::Storage.
Nothing == [incarnation |-> 0, value |-> 0, estimate |-> FALSE]

Database == [loc \in Locations |-> IF loc = "basic" THEN 1 ELSE IF loc = "reset" THEN 0 ELSE 5]

NewDb(incarnation) ==
  [incarnation |-> incarnation,
   read_set    |-> [loc \in {} |-> <<0, 0>>],
   got         |-> [loc \in {} |-> 0],   \* the values the execution was given
   reset_txid  |-> 0,
   half        |-> "none",               \* the slot of a storage call between its two lookups
   blocked     |-> FALSE,
   changes     |-> <<>>]                 \* what publish_writes still has to insert

Init ==
  /\ block \in Blocks
  /\ mv = [loc \in Locations |-> [t \in {} |-> Nothing]]
  /\ status = [t \in Txs |-> "conflict"]
  /\ db = [t \in Txs |-> NewDb(0)]
  /\ write_set = [t \in Txs |-> {}]

-----------------------------------------------------------------------------
(* Reads                                                                   *)

\* The latest entry below t, as its transaction; 0 if there is none.
Latest(loc, t) == Max({0} \cup {u \in DOMAIN mv[loc] : u < t})

Version(loc, t) ==
  LET u == Latest(loc, t) IN <<u, IF u = 0 THEN 0 ELSE mv[loc][u].incarnation>>

Estimated(loc, t) == Latest(loc, t) # 0 /\ mv[loc][Latest(loc, t)].estimate

Put(f, x, y) == [z \in DOMAIN f \cup {x} |-> IF z = x THEN y ELSE f[z]]

\* The bookkeeping of every lookup: a later lookup of a location replaces the
\* version recorded for it.
Looked(t, loc) ==
  [db[t] EXCEPT !.read_set = Put(@, loc, Version(loc, t)),
                !.blocked = @ \/ Estimated(loc, t)]

ValueAt(loc, t) == IF Latest(loc, t) = 0 THEN Database[loc] ELSE mv[loc][Latest(loc, t)].value

Has(t, loc) == loc \in DOMAIN db[t].got

\* begin_incarnation.
Begin(t) ==
  /\ status[t] = "conflict"
  /\ db[t].incarnation < MaxIncarnation
  /\ status' = [status EXCEPT ![t] = "executing"]
  /\ db' = [db EXCEPT ![t] = NewDb(@.incarnation + 1)]
  /\ UNCHANGED <<block, mv, write_set>>

\* basic.
ReadBasic(t) ==
  /\ status[t] = "executing" /\ ~Has(t, "basic")
  /\ db' = [db EXCEPT ![t] =
              [Looked(t, "basic") EXCEPT !.got = Put(@, "basic", ValueAt("basic", t))]]
  /\ UNCHANGED <<block, mv, status, write_set>>

\* code_by_address, called for an account that has code.  The database serves
\* code by the hash in the account, so it is the code of that account.
ReadCode(t) ==
  /\ status[t] = "executing" /\ Has(t, "basic") /\ ~Has(t, "code")
  /\ db[t].got["basic"] # 0
  /\ db' = [db EXCEPT ![t] =
              [Looked(t, "code") EXCEPT !.got = Put(@, "code", ValueAt("code", t))]]
  /\ UNCHANGED <<block, mv, status, write_set>>

Alive(got) == "basic" \in DOMAIN got /\ got["basic"] # 0

\* What transaction t still reads, in any order.
Wanted(t) ==
  {s \in Slots : /\ ~Has(t, s)
                 /\ Has(t, "basic")
                 /\ Alive(db[t].got) => Has(t, "code")
                 /\ block[t] = "probe" \/ (block[t] = "store" /\ s = s1)
                 /\ Alive(db[t].got) \/ (~OwnCodeOnly /\ block[t] = "probe")}

\* storage, first lookup.
ReadReset(t, s) ==
  /\ status[t] = "executing" /\ db[t].half = "none" /\ s \in Wanted(t)
  /\ db' = [db EXCEPT ![t] = [Looked(t, "reset") EXCEPT !.reset_txid = Latest("reset", t),
                                                        !.half = s]]
  /\ UNCHANGED <<block, mv, status, write_set>>

\* storage: a slot write counts unless a later transaction reset the account.
SlotValue(t, s, reset_txid) ==
  IF Latest(s, t) # 0 /\ Latest(s, t) >= reset_txid THEN mv[s][Latest(s, t)].value
  ELSE IF reset_txid # 0 THEN 0 ELSE Database[s]

\* storage, second lookup.
ReadSlot(t, s) ==
  /\ status[t] = "executing" /\ db[t].half = s
  /\ db' = [db EXCEPT ![t] =
              [Looked(t, s) EXCEPT !.got = Put(@, s, SlotValue(t, s, db[t].reset_txid)),
                                   !.half = "none"]]
  /\ UNCHANGED <<block, mv, status, write_set>>

-----------------------------------------------------------------------------
(* Writes                                                                  *)

\* Faulty variant: a new account becomes visible before its storage is reset.
PublishCreatedFirst(kind, t, got) ==
  CASE kind = "destroy" /\ Alive(got) -> << <<"basic", 0>>, <<"reset", 0>> >>
    [] kind = "create" /\ ~Alive(got) ->
         << <<"code", 5 + t>>, <<"basic", 1 + t>>, <<s1, 7>>, <<"reset", 0>> >>
    [] kind = "store" /\ Alive(got) -> << <<s1, got[s1] + 1>> >>
    [] OTHER -> <<>>

\* The transactions of a block: SELFDESTRUCT, CREATE2, an SSTORE that depends
\* on the slot, and reads only.  FinalizedAccount and the order in which
\* publish_writes inserts the locations.
publish_writes(kind, t, got) ==
  CASE kind = "destroy" /\ Alive(got) -> << <<"basic", 0>>, <<"reset", 0>> >>
    [] kind = "create" /\ ~Alive(got) ->
         << <<"reset", 0>>, <<"code", 5 + t>>, <<"basic", 1 + t>>, <<s1, 7>> >>
    [] kind = "store" /\ Alive(got) -> << <<s1, got[s1] + 1>> >>
    [] OTHER -> <<>>

\* The EVM is done: all its reads are made.
Execute(t) ==
  /\ status[t] = "executing" /\ Has(t, "basic") /\ db[t].half = "none"
  /\ Alive(db[t].got) => Has(t, "code")
  /\ Wanted(t) = {}
  /\ status' = [status EXCEPT ![t] = "publishing"]
  /\ db' = [db EXCEPT ![t].changes = publish_writes(block[t], t, db[t].got)]
  /\ UNCHANGED <<block, mv, write_set>>

\* publish_value, one location at a time; finish_incarnation publishes the
\* writes of a blocked incarnation as estimates.
PublishValue(t) ==
  LET change == Head(db[t].changes) IN
  /\ status[t] = "publishing" /\ db[t].changes # <<>>
  /\ mv' = [mv EXCEPT ![change[1]] =
              Put(@, t, [incarnation |-> db[t].incarnation, value |-> change[2],
                         estimate |-> db[t].blocked])]
  /\ db' = [db EXCEPT ![t].changes = Tail(@)]
  /\ UNCHANGED <<block, status, write_set>>

Written(t) == ToSet([i \in DOMAIN publish_writes(block[t], t, db[t].got) |->
                       publish_writes(block[t], t, db[t].got)[i][1]])

\* execute_task removes what the previous incarnation wrote and this one did
\* not.
RemoveStale(t) ==
  [loc \in Locations |->
     IF loc \in write_set[t] \ Written(t)
     THEN [u \in DOMAIN mv[loc] \ {t} |-> mv[loc][u]] ELSE mv[loc]]

Executed(t) ==
  /\ status[t] = "publishing" /\ db[t].changes = <<>>
  /\ mv' = RemoveStale(t)
  /\ write_set' = [write_set EXCEPT ![t] = Written(t)]
  /\ status' = [status EXCEPT ![t] = IF db[t].blocked THEN "conflict" ELSE "executed"]
  /\ UNCHANGED <<block, db>>

\* validate: every recorded version is the latest one and no estimate.
ReadsAreCurrent(t) ==
  \A loc \in DOMAIN db[t].read_set :
    ~Estimated(loc, t) /\ db[t].read_set[loc] = Version(loc, t)

\* validate finds a conflict: mark_mv_estimate.
Invalidate(t) ==
  /\ status[t] = "executed"
  /\ ~ReadsAreCurrent(t)
  /\ mv' = [loc \in Locations |->
              IF loc \in write_set[t] THEN [mv[loc] EXCEPT ![t].estimate = TRUE] ELSE mv[loc]]
  /\ status' = [status EXCEPT ![t] = "conflict"]
  /\ UNCHANGED <<block, db, write_set>>

\* The finality loop, after a successful validation that nothing invalidated.
Finalize(t) ==
  /\ status[t] = "executed"
  /\ \A u \in Txs : u < t => status[u] = "final"
  /\ ReadsAreCurrent(t)
  /\ status' = [status EXCEPT ![t] = "final"]
  /\ UNCHANGED <<block, mv, db, write_set>>

Next ==
  \E t \in Txs :
    \/ Begin(t) \/ ReadBasic(t) \/ ReadCode(t)
    \/ \E s \in Slots : ReadReset(t, s) \/ ReadSlot(t, s)
    \/ Execute(t) \/ PublishValue(t) \/ Executed(t) \/ Invalidate(t) \/ Finalize(t)

Spec == Init /\ [][Next]_vars

-----------------------------------------------------------------------------
(* Sequential execution of the block, the reference                        *)

\* The account before transaction t.  A deleted or created account starts with
\* empty storage.
Before ==
  LET Apply(st, kind, t) ==
        CASE kind = "destroy" /\ Alive(st) ->
               [loc \in Locations |-> IF loc = "code" THEN st["code"] ELSE 0]
          [] kind = "create" /\ ~Alive(st) ->
               [loc \in Locations |-> CASE loc = "basic" -> 1 + t [] loc = "code" -> 5 + t
                                        [] loc = s1 -> 7 [] OTHER -> 0]
          [] kind = "store" /\ Alive(st) -> [st EXCEPT ![s1] = @ + 1]
          [] OTHER -> st
      before[t \in 1 .. Len(block) + 1] ==
        IF t = 1 THEN Database ELSE Apply(before[t - 1], block[t - 1], t - 1)
  IN before

\* storage, publish_writes: everything a final incarnation was given is what
\* sequential execution would have read, whatever lives of the account its
\* lookups fell into.
FinalReadsSequential ==
  \A t \in Txs : status[t] = "final" =>
    \A loc \in DOMAIN db[t].got : db[t].got[loc] = Before[t][loc]

\* storage, execute_task: once everything is final, the entries that are left
\* resolve to the state after the block.
FinalStateSequential ==
  (\A t \in Txs : status[t] = "final") =>
    LET n == Len(block) + 1 IN
    /\ ValueAt("basic", n) = Before[n]["basic"]
    /\ \A s \in Slots : SlotValue(n, s, Latest("reset", n)) = Before[n][s]

\* IncarnationDb, publish_writes: neither what final incarnations read nor what
\* they leave differs from sequential execution.
LivesAreSequential == FinalReadsSequential /\ FinalStateSequential
=============================================================================
