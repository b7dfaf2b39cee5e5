--------------------------- MODULE ParallelState ----------------------------
(***************************************************************************)
(* The account and storage cache over the backing database: workers read   *)
(* through it while the commit thread applies finalized transactions to it *)
(* and collects the transitions of the block.                              *)
(***************************************************************************)
EXTENDS Naturals

CONSTANTS
  Addr, Slot,
  MaxVal,       \* the largest balance and slot value
  DbInfo,       \* the accounts of the database
  DbStorage,    \* its slots
  Readers,      \* the worker threads
  None,         \* Rust's None, and no entry in a map
  Cancun,       \* whether SELFDESTRUCT spares older contracts (EIP-6780)
                \* and delegations exist (EIP-7702)
  MaxCommits    \* bound on the changes of the committed state

VARIABLES
  accounts,          \* ParallelCacheState::accounts
  storage,           \* ParallelCacheState::storage
  transition_state,
  pending,           \* the transitions apply_evm_state_inner collects
  applied,           \* the accounts of this EVM state it is done with
  current,           \* where apply_account_state stands
  committed,         \* the state before the transaction being committed
  target,            \* the state after what was applied of it
  commits,
  reader             \* what every worker's read is doing

commitVars == <<transition_state, pending, applied, current, committed, target, commits>>
vars == <<accounts, storage, commitVars, reader>>

Val == 0 .. MaxVal

\* AccountInfo: the balance, and whether it has code, a nonce only, or neither.
Info == [balance : Val, has : {"code", "nonce", "neither"}]
Default == [balance |-> 0, has |-> "neither"]
HasCode(info) == info # None /\ info.has = "code"
HasNoCodeAndNonce(info) == info # None /\ info.has = "neither"
Zeros == [s \in Slot |-> 0]
Nowhere == [s \in Slot |-> None]
AddrMap(v) == [a \in Addr |-> v]

\* revm's AccountStatus, and CacheAccountInfo.
Destroyed == {"Destroyed", "DestroyedChanged", "DestroyedAgain"}
Statuses == Destroyed \cup {"LoadedNotExisting", "Loaded", "LoadedEmptyEIP161",
                            "InMemoryChange", "Changed"}
CacheEntry == [account : Info \cup {None}, status : Statuses]

ASSUME DatabaseAssumption ==
  /\ DbInfo \in [Addr -> Info \cup {None}]
  /\ DbStorage \in [Addr -> [Slot -> Val]]
  /\ \A a \in Addr : ~HasCode(DbInfo[a]) => DbStorage[a] = Zeros
  /\ None \notin Val \cup Info \cup CacheEntry
  /\ Cancun \in BOOLEAN /\ MaxVal \in Nat /\ MaxCommits \in Nat

-----------------------------------------------------------------------------
(* revm: AccountStatus and TransitionAccount                               *)

IsStorageKnown(status) ==
  status \in Destroyed \cup {"LoadedNotExisting", "InMemoryChange"}

OnChanged(status, no_code_and_nonce) ==
  CASE status \in Destroyed -> "DestroyedChanged"
    [] status = "Changed" \/ (status = "Loaded" /\ ~no_code_and_nonce) -> "Changed"
    [] OTHER -> "InMemoryChange"

OnCreated(status) == IF status \in Destroyed THEN "DestroyedChanged" ELSE "InMemoryChange"

OnSelfdestructed(status) ==
  CASE status \in Destroyed -> "DestroyedAgain"
    [] status = "LoadedNotExisting" -> "LoadedNotExisting"
    [] OTHER -> "Destroyed"

OnTouchedEmpty(status) ==
  CASE status \in {"DestroyedChanged", "DestroyedAgain"} -> "DestroyedAgain"
    [] status = "LoadedNotExisting" -> "LoadedNotExisting"
    [] OTHER -> "Destroyed"

\* TransitionAccount::update, as TransitionState::add_transitions applies it:
\* a slot back at the value it had before the first transition is dropped.
Updated(old, new) ==
  LET slot(s) ==
        IF new.slots[s] = None THEN old.slots[s]
        ELSE IF old.slots[s] = None THEN new.slots[s]
        ELSE IF old.slots[s].original = new.slots[s].present THEN None
        ELSE [old.slots[s] EXCEPT !.present = new.slots[s].present]
  IN  [new EXCEPT !.slots = IF new.status \in {"Destroyed", "DestroyedAgain"} THEN @
                            ELSE [s \in Slot |-> slot(s)]]

AddTransitions(state, new) ==
  [a \in Addr |-> IF new[a] = None THEN state[a]
                  ELSE IF state[a] = None THEN new[a]
                  ELSE Updated(state[a], new[a])]

-----------------------------------------------------------------------------
(* CacheAccountInfo: each operation gives the new entry and its transition *)

Entry(account, status) == [account |-> account, status |-> status]
Changing(entry, slots) ==
  [entry |-> entry,
   transition |-> [info |-> entry.account, status |-> entry.status, slots |-> slots]]
Quietly(entry) == [entry |-> entry, transition |-> None]

\* The entry for what the database holds; an empty account is normalised.
Loaded(a) ==
  CASE DbInfo[a] = None -> Entry(None, "LoadedNotExisting")
    [] DbInfo[a] = Default -> Entry(Default, "LoadedEmptyEIP161")
    [] OTHER -> Entry(DbInfo[a], "Loaded")

Change(old, info, slots) ==
  Changing(Entry(info, OnChanged(old.status, HasNoCodeAndNonce(old.account))), slots)

NewlyCreated(old, info, slots) == Changing(Entry(info, OnCreated(old.status)), slots)

Selfdestruct(old) ==
  LET entry == Entry(None, OnSelfdestructed(old.status))
  IN  IF old.status = "LoadedNotExisting" THEN Quietly(entry) ELSE Changing(entry, Nowhere)

TouchEmpty(old) ==
  LET entry == Entry(None, OnTouchedEmpty(old.status))
  IN  IF old.status \in {"LoadedNotExisting", "Destroyed", "DestroyedAgain"}
      THEN Quietly(entry) ELSE Changing(entry, Nowhere)

-----------------------------------------------------------------------------
(* The EVM state of a transaction, as revm finalizes it                    *)

\* The touched accounts a transaction may leave behind at a.  Only code
\* changes slots; CREATE finds neither nonce nor code; an existing account
\* gets code from an EIP-7702 delegation only; SELFDESTRUCT deletes what the
\* transaction created or, before Cancun, any contract.
EvmAccounts(a) ==
  LET old == target.info[a]
      vacant == old = None \/ HasNoCodeAndNonce(old)
      slots(info) ==
        {f \in [Slot -> [original : Val, present : Val] \cup {None}] :
           \A s \in Slot : f[s] # None =>
             /\ info.has = "code"
             /\ f[s].original = target.slots[a][s]
             /\ f[s].present # f[s].original}
      kept == {info \in Info :
                 IF vacant THEN info.has = "code" => Cancun
                 ELSE info.has = old.has \/ (info.has = "code" /\ Cancun)}
      touched(created, infos) ==
        UNION {{[destructed |-> FALSE, created |-> created, info |-> info, slots |-> f] :
                  f \in slots(info)} : info \in infos}
      deleted == [destructed |-> TRUE, created |-> vacant, info |-> Default, slots |-> Nowhere]
  IN  touched(FALSE, kept)
      \cup (IF vacant THEN touched(TRUE, Info) ELSE {})
      \cup (IF vacant \/ (HasCode(old) /\ ~Cancun) THEN {deleted} ELSE {})

\* The branches of apply_account_state.
Clears(c) == ~c.created /\ c.info = Default
Deletes(c) == c.destructed \/ Clears(c)
Wipes(c) == Deletes(c) \/ c.created

Present(base, slots) ==
  [s \in Slot |-> IF slots[s] = None THEN base[s] ELSE slots[s].present]

\* What the account and its slots are after the transaction.
InfoAfter(c) == IF Deletes(c) THEN None ELSE c.info
SlotsAfter(c, slots) == IF Deletes(c) THEN Zeros
                        ELSE Present(IF c.created THEN Zeros ELSE slots, c.slots)

-----------------------------------------------------------------------------
(* Reads through ParallelStateView                                         *)

Idle == [pc |-> "idle", addr |-> None, slot |-> None, value |-> None, seen |-> {None}]

\* The values an account or a slot has had since the read began.
Recent(a, s) ==
  IF s = None THEN {committed.info[a], target.info[a]}
  ELSE {committed.slots[a][s], target.slots[a][s]}

Begin(r, pc, a, s, value) ==
  reader' = [reader EXCEPT ![r] = [pc |-> pc, addr |-> a, slot |-> s, value |-> value,
                                   seen |-> Recent(a, s)]]
Return(r, value) == reader' = [reader EXCEPT ![r].pc = "idle", ![r].value = value]

\* db_basic up to the lookup; the database does not change, so that its
\* answer may be taken any time before the insertion.
ReadBasic(r, a) ==
  /\ reader[r].pc = "idle"
  /\ IF accounts[a] = None THEN Begin(r, "basic", a, None, None)
     ELSE Begin(r, "idle", a, None, accounts[a].account)
  /\ UNCHANGED <<accounts, storage, commitVars>>

\* Faulty variant: the loaded account replaces one that was cached meanwhile.
InsertBasicReplaces(r) ==
  LET a == reader[r].addr
  IN  /\ reader[r].pc = "basic"
      /\ accounts' = [accounts EXCEPT ![a] = Loaded(a)]
      /\ Return(r, Loaded(a).account)
      /\ UNCHANGED <<storage, commitVars>>

\* The insertion of the loaded account, unless another thread was first.
InsertBasic(r) ==
  LET a == reader[r].addr
      entry == IF accounts[a] = None THEN Loaded(a) ELSE accounts[a]
  IN  /\ reader[r].pc = "basic"
      /\ accounts' = [accounts EXCEPT ![a] = entry]
      /\ Return(r, entry.account)
      /\ UNCHANGED <<storage, commitVars>>

\* db_storage: the lookup of the slot.
ReadSlot(r, a, s) ==
  /\ reader[r].pc = "idle"
  /\ IF storage[a][s] = None THEN Begin(r, "status", a, s, None)
     ELSE Begin(r, "idle", a, s, storage[a][s])
  /\ UNCHANGED <<accounts, storage, commitVars>>

StorageKnown(a) ==
  accounts[a] # None /\ (IsStorageKnown(accounts[a].status) \/ accounts[a].account = None)

\* Faulty variant: the slots of an account that is not cached are taken for zero.
CheckStatusUncached(r) ==
  LET a == reader[r].addr
      value == IF accounts[a] = None \/ StorageKnown(a) THEN 0 ELSE DbStorage[a][reader[r].slot]
  IN  /\ reader[r].pc = "status"
      /\ reader' = [reader EXCEPT ![r].pc = "slot", ![r].value = value]
      /\ UNCHANGED <<accounts, storage, commitVars>>

\* The account decides whether the database is asked.
CheckStatus(r) ==
  LET a == reader[r].addr
      value == IF StorageKnown(a) THEN 0 ELSE DbStorage[a][reader[r].slot]
  IN  /\ reader[r].pc = "status"
      /\ reader' = [reader EXCEPT ![r].pc = "slot", ![r].value = value]
      /\ UNCHANGED <<accounts, storage, commitVars>>

\* or_insert: a slot that is cached by now wins.
InsertSlot(r) ==
  LET a == reader[r].addr
      s == reader[r].slot
      value == IF storage[a][s] = None THEN reader[r].value ELSE storage[a][s]
  IN  /\ reader[r].pc = "slot"
      /\ storage' = [storage EXCEPT ![a][s] = value]
      /\ Return(r, value)
      /\ UNCHANGED <<accounts, commitVars>>

\* The database fails: the read returns the error and caches nothing.
FailRead(r) ==
  /\ reader[r].pc = "basic" \/ (reader[r].pc = "status" /\ ~StorageKnown(reader[r].addr))
  /\ reader' = [reader EXCEPT ![r] = Idle]
  /\ UNCHANGED <<accounts, storage, commitVars>>

-----------------------------------------------------------------------------
(* Ordered commit                                                          *)

Between == [pc |-> "between", addr |-> None, evm |-> None]

\* No EVM state is being applied.
Quiet == current.pc = "between" /\ applied = {}

\* A read in progress sees the change of a begin.
Witnessed(a, after) ==
  [r \in Readers |->
     IF reader[r].pc # "idle" /\ reader[r].addr = a
     THEN [reader[r] EXCEPT !.seen = @ \cup
             {IF reader[r].slot = None THEN after.info[a] ELSE after.slots[a][reader[r].slot]}]
     ELSE reader[r]]

\* apply_evm_state_inner takes the next touched account of the EVM state.  The
\* execution read the account, so that it is cached.
TakeAccount(a) ==
  /\ current.pc = "between" /\ a \notin applied /\ accounts[a] # None
  /\ commits < MaxCommits
  /\ \E c \in EvmAccounts(a) :
       LET after == [info |-> [target.info EXCEPT ![a] = InfoAfter(c)],
                     slots |-> [target.slots EXCEPT ![a] = SlotsAfter(c, @)]]
       IN  /\ current' = [addr |-> a, evm |-> c,
                          pc |-> IF Wipes(c) THEN "wipe" ELSE "account"]
           /\ target' = after
           /\ reader' = Witnessed(a, after)
  /\ commits' = commits + 1
  /\ UNCHANGED <<accounts, storage, transition_state, pending, applied, committed>>

\* self.storage.remove: deletion and creation drop the cached slots first.
RemoveStorage ==
  /\ current.pc = "wipe"
  /\ storage' = [storage EXCEPT ![current.addr] = Nowhere]
  /\ current' = [current EXCEPT !.pc = "account"]
  /\ UNCHANGED <<accounts, transition_state, pending, applied, committed, target, commits,
                 reader>>

\* selfdestruct, newly_created, touch_empty_eip161 or change on the entry.
ApplyAccount ==
  /\ current.pc = "account"
  /\ LET a == current.addr
         c == current.evm
         result == CASE c.destructed -> Selfdestruct(accounts[a])
                     [] c.created /\ ~c.destructed ->
                          NewlyCreated(accounts[a], c.info, c.slots)
                     [] Clears(c) /\ ~c.destructed -> TouchEmpty(accounts[a])
                     [] OTHER -> Change(accounts[a], c.info, c.slots)
         more == ~Deletes(c) /\ c.slots # Nowhere
     IN  /\ accounts' = [accounts EXCEPT ![a] = result.entry]
         /\ pending' = [pending EXCEPT ![a] = result.transition]
         /\ current' = IF more THEN [current EXCEPT !.pc = "slots"] ELSE Between
         /\ applied' = IF more THEN applied ELSE applied \cup {a}
  /\ UNCHANGED <<storage, transition_state, committed, target, commits, reader>>

\* update_storage_slot.
UpdateSlots ==
  /\ current.pc = "slots"
  /\ storage' = [storage EXCEPT ![current.addr] = Present(@, current.evm.slots)]
  /\ applied' = applied \cup {current.addr}
  /\ current' = Between
  /\ UNCHANGED <<accounts, transition_state, pending, committed, target, commits, reader>>

\* Faulty variant: a transition replaces the earlier one of the account.
FinishCommitReplaces ==
  /\ current.pc = "between" /\ applied # {}
  /\ transition_state' = [a \in Addr |-> IF pending[a] = None THEN transition_state[a]
                                        ELSE pending[a]]
  /\ pending' = AddrMap(None)
  /\ applied' = {}
  /\ committed' = target
  /\ UNCHANGED <<accounts, storage, current, target, commits, reader>>

\* ParallelStateCommit::commit adds the collected transitions.
FinishCommit ==
  /\ current.pc = "between" /\ applied # {}
  /\ transition_state' = AddTransitions(transition_state, pending)
  /\ pending' = AddrMap(None)
  /\ applied' = {}
  /\ committed' = target
  /\ UNCHANGED <<accounts, storage, current, target, commits, reader>>

-----------------------------------------------------------------------------
(* Balance changes between blocks, with the state borrowed exclusively     *)

\* account_info_change on the loaded account.
ChangeBalance(a, balance) ==
  LET old == IF accounts[a] = None THEN Loaded(a) ELSE accounts[a]
      base == IF old.account = None THEN Default ELSE old.account
      result == Change(old, [base EXCEPT !.balance = balance[@]], Nowhere)
      after == [info |-> [target.info EXCEPT ![a] = result.entry.account],
                slots |-> target.slots]
  IN  /\ Quiet /\ \A r \in Readers : reader[r].pc = "idle"
      /\ commits < MaxCommits
      /\ accounts' = [accounts EXCEPT ![a] = result.entry]
      /\ transition_state' =
           AddTransitions(transition_state, [AddrMap(None) EXCEPT ![a] = result.transition])
      /\ committed' = after /\ target' = after
      /\ commits' = commits + 1
      /\ UNCHANGED <<storage, pending, applied, current, reader>>

IncrementBalance(a, amount) ==
  ChangeBalance(a, [v \in Val |-> IF v + amount > MaxVal THEN MaxVal ELSE v + amount])

DrainBalance(a) == ChangeBalance(a, [v \in Val |-> 0])

-----------------------------------------------------------------------------

Init ==
  /\ accounts = AddrMap(None)
  /\ storage = AddrMap(Nowhere)
  /\ transition_state = AddrMap(None) /\ pending = AddrMap(None)
  /\ applied = {} /\ current = Between
  /\ committed = [info |-> DbInfo, slots |-> DbStorage]
  /\ target = committed
  /\ commits = 0
  /\ reader = [r \in Readers |-> Idle]

CommitStep ==
  \/ \E a \in Addr : TakeAccount(a)
  \/ RemoveStorage \/ ApplyAccount \/ UpdateSlots \/ FinishCommit

ReadStep(r) ==
  \/ \E a \in Addr : ReadBasic(r, a) \/ \E s \in Slot : ReadSlot(r, a, s)
  \/ InsertBasic(r) \/ CheckStatus(r) \/ InsertSlot(r) \/ FailRead(r)

BalanceStep ==
  \E a \in Addr : DrainBalance(a) \/ \E amount \in 1 .. MaxVal : IncrementBalance(a, amount)

Next == CommitStep \/ BalanceStep \/ \E r \in Readers : ReadStep(r)

Spec == Init /\ [][Next]_vars

-----------------------------------------------------------------------------

ChangedSlots == [Slot -> [original : Val, present : Val] \cup {None}]
Transition == [info : Info \cup {None}, status : Statuses, slots : ChangedSlots]
StateAt == [info : [Addr -> Info \cup {None}], slots : [Addr -> [Slot -> Val]]]

\* The entries, slots and transitions have the types of the code; balances
\* never leave their range (saturating_add in increment_balance).
TypeOK ==
  /\ accounts \in [Addr -> CacheEntry \cup {None}]
  /\ storage \in [Addr -> [Slot -> Val \cup {None}]]
  /\ transition_state \in [Addr -> Transition \cup {None}]
  /\ pending \in [Addr -> Transition \cup {None}]
  /\ committed \in StateAt /\ target \in StateAt

\* A read of the view returns a value the account or the slot had at some
\* moment of the read: what the scheduler takes a backing read to be
\* (db_basic and db_storage against apply_account_state).
ReadIsCurrent ==
  \A r \in Readers : reader[r].pc = "idle" => reader[r].value \in reader[r].seen

\* What a read that runs alone returns.
AccountServed(a) == IF accounts[a] = None THEN Loaded(a).account ELSE accounts[a].account
SlotServed(a, s) ==
  IF storage[a][s] # None THEN storage[a][s]
  ELSE IF StorageKnown(a) THEN 0 ELSE DbStorage[a][s]

\* Between commits, an account read now has its committed value, whatever the
\* workers were loading meanwhile (db_basic, apply_account_state).
AccountsServePrefix == Quiet => \A a \in Addr : AccountServed(a) = committed.info[a]

\* Between commits, a slot read now has its committed value: what the cache,
\* the account status and the database say together (db_storage,
\* apply_account_state, update_storage_slot).
SlotsServePrefix ==
  Quiet => \A a \in Addr, s \in Slot : SlotServed(a, s) = committed.slots[a][s]

\* A live contract never shows a slot of its predecessor at the same address:
\* deletion and re-creation clear what was cached (tests/eip-7702.rs:
\* "a fresh contract whose old storage is gone"; apply_account_state).
RecreatedIsCleared ==
  Quiet => \A a \in Addr, s \in Slot : HasCode(committed.info[a]) =>
             SlotServed(a, s) = committed.slots[a][s]

\* The state a consumer of the transitions rebuilds from the database: the
\* status tells whether the old slots are gone.
Rebuilt ==
  [info |-> [a \in Addr |-> IF transition_state[a] = None THEN DbInfo[a]
                            ELSE transition_state[a].info],
   slots |-> [a \in Addr |->
      IF transition_state[a] = None THEN DbStorage[a]
      ELSE Present(IF transition_state[a].status \in Destroyed THEN Zeros ELSE DbStorage[a],
                   transition_state[a].slots)]]

\* The transitions of the block lead from the database to the committed
\* state, through deletions, re-creations and balance changes in any order
\* (apply_account_state, increment_balances, drain_balances).
TransitionsRebuild == Quiet => Rebuilt = committed

=============================================================================
