--------------------------- MODULE ComponentProofs --------------------------
(***************************************************************************)
(* Proofs about the parts around the scheduler: the account cache and the  *)
(* execution frontier its threads share, the life of one call from the     *)
(* election to the return, and the wait slot of the commit thread; each    *)
(* for every value of its constants.                                       *)
(***************************************************************************)
EXTENDS ParallelState, ExecutionFrontier, Lifecycle, CoordinatorWait, TLAPS

-----------------------------------------------------------------------------
(* The accounts of the cache: every database, every number of workers and   *)
(* every sequence of commits.                                               *)

MaybeInfo == Info \cup {None}

\* The commit thread has taken account a and not yet changed its entry.
Unapplied(a) == current.addr = a /\ current.pc \in {"wipe", "account"}

\* Outside the account being applied, the cache serves the state the commit
\* thread has reached; that account's own change is the one it will make.
AccountInv ==
  /\ accounts \in [Addr -> CacheEntry \cup {None}]
  /\ target.info \in [Addr -> MaybeInfo]
  /\ current.pc # "between" => current.addr \in Addr /\ current.evm.info \in Info
  /\ {"pc", "addr", "evm"} \subseteq DOMAIN current
  /\ \A a \in Addr : ~Unapplied(a) => AccountServed(a) = target.info[a]
  /\ \A a \in Addr : Unapplied(a) => target.info[a] = InfoAfter(current.evm)
  /\ Quiet => target = committed

\* The entry for a database account is well-formed and holds what the database
\* holds (load_mut_cache_account, db_basic).
LEMMA LoadedServes ==
  ASSUME NEW a \in Addr
  PROVE  Loaded(a) \in CacheEntry /\ Loaded(a).account = DbInfo[a]
<1>1. DbInfo[a] \in MaybeInfo /\ Default \in Info
  BY DatabaseAssumption DEF MaybeInfo, Default, Info, Val
<1> QED
  BY ZenonT(60), <1>1 DEF Loaded, Entry, CacheEntry, Statuses, MaybeInfo

\* Every operation of CacheAccountInfo leaves a well-formed entry with the
\* account it was given (change, newly_created, selfdestruct,
\* touch_empty_eip161).
LEMMA EntryOf ==
  ASSUME NEW old, NEW info \in Info, NEW slots
  PROVE  /\ Change(old, info, slots).entry \in CacheEntry
         /\ Change(old, info, slots).entry.account = info
         /\ NewlyCreated(old, info, slots).entry \in CacheEntry
         /\ NewlyCreated(old, info, slots).entry.account = info
         /\ Selfdestruct(old).entry \in CacheEntry
         /\ Selfdestruct(old).entry.account = None
         /\ TouchEmpty(old).entry \in CacheEntry
         /\ TouchEmpty(old).entry.account = None
<1>1. \A b : /\ OnChanged(old.status, b) \in Statuses
             /\ OnCreated(old.status) \in Statuses
             /\ OnSelfdestructed(old.status) \in Statuses
             /\ OnTouchedEmpty(old.status) \in Statuses
  BY ZenonT(60) DEF OnChanged, OnCreated, OnSelfdestructed, OnTouchedEmpty, Statuses, Destroyed
<1>2. \A account \in MaybeInfo, status \in Statuses :
        Entry(account, status) \in CacheEntry /\ Entry(account, status).account = account
  BY ZenonT(60) DEF Entry, CacheEntry, MaybeInfo
<1>3. info \in MaybeInfo /\ None \in MaybeInfo
  BY ZenonT(60) DEF MaybeInfo
<1>4. \A entry, s : Changing(entry, s).entry = entry /\ Quietly(entry).entry = entry
  BY ZenonT(60) DEF Changing, Quietly
<1> QED
  BY <1>1, <1>2, <1>3, <1>4 DEF Change, NewlyCreated, Selfdestruct, TouchEmpty

\* The accounts a transaction leaves behind carry a well-formed info (revm's
\* finalized state).
LEMMA EvmInfo ==
  ASSUME NEW a, NEW c \in EvmAccounts(a)
  PROVE  c.info \in Info
<1>1. Default \in Info
  BY DatabaseAssumption DEF Default, Info, Val
<1> QED
  BY <1>1 DEF EvmAccounts

\* A step that leaves the entries, the commit thread and the committed state
\* alone preserves the invariant (the steps of a read up to its insertion).
LEMMA ReadKeeps ==
  ASSUME AccountInv, UNCHANGED <<accounts, current, applied, target, committed>>
  PROVE  AccountInv'
BY ZenonT(60) DEF AccountInv, Unapplied, AccountServed, Quiet, Loaded, Entry, InfoAfter, Deletes,
   Clears

\* An entry inserted by a read serves what the database was serving
\* (db_basic against the insertion of another thread).
LEMMA InsertKeeps ==
  ASSUME AccountInv, NEW r, InsertBasic(r)
  PROVE  AccountInv'
<1> DEFINE a == reader[r].addr
           entry == IF accounts[a] = None THEN Loaded(a) ELSE accounts[a]
<1>1. /\ accounts' = [accounts EXCEPT ![a] = entry]
      /\ UNCHANGED <<current, applied, target, committed>>
  BY ZenonT(60) DEF InsertBasic, commitVars
<1>2. CASE a \notin Addr
  <2>1. accounts' = accounts
    BY ZenonT(60), <1>1, <1>2 DEF AccountInv
  <2> QED
    BY ZenonT(60), <1>1, <2>1, ReadKeeps
<1>3. CASE a \in Addr
  <2>1. entry \in CacheEntry /\ entry # None /\ entry.account = AccountServed(a)
    BY ZenonT(60), <1>3, LoadedServes, DatabaseAssumption DEF AccountInv, AccountServed
  <2>2. accounts' \in [Addr -> CacheEntry \cup {None}]
    BY ZenonT(60), <1>1, <2>1 DEF AccountInv
  <2>3. \A b \in Addr : AccountServed(b)' = AccountServed(b)
    <3> HIDE DEF entry
    <3>1. TAKE b \in Addr
    <3>2. accounts'[b] = IF b = a THEN entry ELSE accounts[b]
      BY ZenonT(60), <1>1 DEF AccountInv
    <3> QED
      BY ZenonT(60), <2>1, <3>2 DEF AccountServed, Loaded, Entry
  <2> QED
    BY ZenonT(60), <1>1, <2>2, <2>3 DEF AccountInv, Unapplied, Quiet, InfoAfter, Deletes, Clears
<1> QED
  BY ZenonT(60), <1>2, <1>3

\* Taking an account sets the state to reach to what its change will make of
\* the entry (apply_evm_state_inner).
LEMMA TakeKeeps ==
  ASSUME AccountInv, NEW a \in Addr, TakeAccount(a)
  PROVE  AccountInv'
<1>1. PICK c \in EvmAccounts(a) :
        /\ current' = [addr |-> a, evm |-> c, pc |-> IF Wipes(c) THEN "wipe" ELSE "account"]
        /\ target' = [info |-> [target.info EXCEPT ![a] = InfoAfter(c)],
                      slots |-> [target.slots EXCEPT ![a] = SlotsAfter(c, @)]]
  BY ZenonT(60) DEF TakeAccount
<1>2. UNCHANGED <<accounts, applied, committed>> /\ current.pc = "between"
  BY ZenonT(60) DEF TakeAccount
<1>3. c.info \in Info /\ InfoAfter(c) \in MaybeInfo
  BY ZenonT(60), EvmInfo DEF InfoAfter, MaybeInfo
<1>4. /\ current'.addr = a /\ current'.evm = c /\ current'.pc \in {"wipe", "account"}
      /\ {"pc", "addr", "evm"} \subseteq DOMAIN current'
  BY ZenonT(60), <1>1
<1>5. target'.info = [target.info EXCEPT ![a] = InfoAfter(c)]
  BY ZenonT(60), <1>1
<1>6. /\ target'.info \in [Addr -> MaybeInfo] /\ target'.info[a] = InfoAfter(c)
      /\ \A b \in Addr \ {a} : target'.info[b] = target.info[b]
  BY ZenonT(60), <1>3, <1>5 DEF AccountInv
<1>7. \A b \in Addr : AccountServed(b)' = AccountServed(b)
  BY ZenonT(60), <1>2 DEF AccountServed, Loaded, Entry
<1>8. \A b \in Addr : ~Unapplied(b)
  BY ZenonT(60), <1>2 DEF Unapplied
<1>9. \A b \in Addr : ~Unapplied(b)' => AccountServed(b)' = target'.info[b]
  BY ZenonT(60), <1>4, <1>6, <1>7, <1>8 DEF AccountInv, Unapplied
<1>10. \A b \in Addr : Unapplied(b)' => target'.info[b] = InfoAfter(current'.evm)
  BY ZenonT(60), <1>4, <1>6 DEF Unapplied
<1>11. ~Quiet'
  BY ZenonT(60), <1>4 DEF Quiet
<1> QED
  BY ZenonT(60), <1>2, <1>3, <1>4, <1>6, <1>9, <1>10, <1>11
     DEF AccountInv, InfoAfter, Deletes, Clears

\* Dropping the cached slots leaves the account to be applied.
LEMMA RemoveKeeps ==
  ASSUME AccountInv, RemoveStorage
  PROVE  AccountInv'
<1>1. /\ current.pc = "wipe" /\ current' = [current EXCEPT !.pc = "account"]
      /\ UNCHANGED <<accounts, applied, target, committed>>
  BY ZenonT(60) DEF RemoveStorage
<1>2. /\ current'.pc = "account" /\ current'.addr = current.addr /\ current'.evm = current.evm
      /\ {"pc", "addr", "evm"} \subseteq DOMAIN current'
  BY ZenonT(60), <1>1 DEF AccountInv
<1>3. \A a \in Addr : (Unapplied(a)' <=> Unapplied(a)) /\ AccountServed(a)' = AccountServed(a)
  BY ZenonT(60), <1>1, <1>2 DEF Unapplied, AccountServed, Loaded, Entry
<1>4. ~Quiet'
  BY ZenonT(60), <1>2 DEF Quiet
<1> QED
  BY ZenonT(60), <1>1, <1>2, <1>3, <1>4 DEF AccountInv, InfoAfter, Deletes, Clears

\* Changing the entry makes it serve the state reached, whichever branch of
\* apply_account_state is taken.
LEMMA ApplyKeeps ==
  ASSUME AccountInv, ApplyAccount
  PROVE  AccountInv'
<1> DEFINE a == current.addr
           c == current.evm
           result == CASE c.destructed -> Selfdestruct(accounts[a])
                       [] c.created /\ ~c.destructed ->
                            NewlyCreated(accounts[a], c.info, c.slots)
                       [] Clears(c) /\ ~c.destructed -> TouchEmpty(accounts[a])
                       [] OTHER -> Change(accounts[a], c.info, c.slots)
           more == ~Deletes(c) /\ c.slots # Nowhere
<1>1. /\ current.pc = "account" /\ UNCHANGED <<target, committed>>
      /\ accounts' = [accounts EXCEPT ![a] = result.entry]
      /\ current' = IF more THEN [current EXCEPT !.pc = "slots"] ELSE Between
      /\ applied' = IF more THEN applied ELSE applied \cup {a}
  BY ZenonT(60) DEF ApplyAccount
<1>2. a \in Addr /\ c.info \in Info /\ target.info[a] = InfoAfter(c)
  BY ZenonT(60), <1>1 DEF AccountInv, Unapplied
<1>3. result.entry \in CacheEntry /\ result.entry.account = InfoAfter(c)
  <2>1. CASE c.destructed
    BY ZenonT(60), <1>2, <2>1, EntryOf DEF InfoAfter, Deletes
  <2>2. CASE c.created /\ ~c.destructed
    BY SMTT(60), <1>2, <2>2, EntryOf DEF InfoAfter, Deletes, Clears
  <2>3. CASE Clears(c) /\ ~c.destructed
    <3>1. ~c.created
      BY ZenonT(60), <2>3 DEF Clears
    <3> QED
      BY ZenonT(60), <1>2, <2>3, <3>1, EntryOf DEF InfoAfter, Deletes
  <2>4. CASE ~c.destructed /\ ~c.created /\ ~Clears(c)
    <3>1. result = Change(accounts[a], c.info, c.slots) /\ InfoAfter(c) = c.info
      BY ZenonT(60), <2>4 DEF InfoAfter, Deletes
    <3> HIDE DEF result
    <3> QED
      BY SMTT(60), <1>2, <3>1, EntryOf
  <2> QED
    BY ZenonT(60), <2>1, <2>2, <2>3, <2>4
<1> HIDE DEF result
<1>4. result.entry # None
  BY ZenonT(60), <1>3, DatabaseAssumption
<1>5. /\ accounts' \in [Addr -> CacheEntry \cup {None}]
      /\ \A b \in Addr : accounts'[b] = IF b = a THEN result.entry ELSE accounts[b]
  BY ZenonT(60), <1>1, <1>3 DEF AccountInv
<1>6. /\ current'.pc \in {"between", "slots"}
      /\ current'.pc # "between" => current'.addr = a /\ current'.evm = c
      /\ {"pc", "addr", "evm"} \subseteq DOMAIN current'
  BY ZenonT(60), <1>1 DEF AccountInv, Between
<1>7. \A b \in Addr : ~Unapplied(b)'
  BY ZenonT(60), <1>6 DEF Unapplied
<1>8. \A b \in Addr : AccountServed(b)' = target'.info[b]
  <2>1. TAKE b \in Addr
  <2>2. CASE b = a
    BY ZenonT(60), <1>1, <1>2, <1>3, <1>4, <1>5, <2>2 DEF AccountServed
  <2>3. CASE b # a
    <3>1. AccountServed(b)' = AccountServed(b)
      BY ZenonT(60), <1>5, <2>3 DEF AccountServed, Loaded, Entry
    <3>2. ~Unapplied(b)
      BY ZenonT(60), <2>3 DEF Unapplied
    <3> QED
      BY ZenonT(60), <1>1, <3>1, <3>2 DEF AccountInv
  <2> QED
    BY ZenonT(60), <2>2, <2>3
<1>9. ~Quiet'
  <2>1. CASE more
    <3>1. current'.pc = "slots"
      BY ZenonT(60), <1>1, <2>1 DEF AccountInv
    <3> QED
      BY ZenonT(60), <3>1 DEF Quiet
  <2>2. CASE ~more
    <3>1. applied' # {}
      BY ZenonT(60), <1>1, <2>2
    <3> QED
      BY ZenonT(60), <3>1 DEF Quiet
  <2> QED
    BY ZenonT(60), <2>1, <2>2
<1> QED
  BY ZenonT(60), <1>1, <1>2, <1>5, <1>6, <1>7, <1>8, <1>9 DEF AccountInv

\* Writing the slots and adding the transitions end the application of an
\* account and of a transaction, without touching the entries.
LEMMA EndKeeps ==
  ASSUME AccountInv, UpdateSlots \/ FinishCommit
  PROVE  AccountInv'
<1>1. UNCHANGED <<accounts, target>> /\ current'.pc = "between"
        /\ {"pc", "addr", "evm"} \subseteq DOMAIN current'
  BY DEF UpdateSlots, FinishCommit, Between, AccountInv
<1>2. \A a \in Addr : ~Unapplied(a) /\ ~Unapplied(a)'
  BY ZenonT(60), <1>1 DEF Unapplied, UpdateSlots, FinishCommit
<1>3. \A a \in Addr : AccountServed(a)' = AccountServed(a)
  BY ZenonT(60), <1>1 DEF AccountServed, Loaded, Entry
<1>4. Quiet' => target' = committed'
  BY ZenonT(60) DEF UpdateSlots, FinishCommit, Quiet
<1> QED
  BY ZenonT(60), <1>1, <1>2, <1>3, <1>4 DEF AccountInv

\* A balance changed between blocks is served from then on
\* (account_info_change on a loaded account).
LEMMA BalanceKeeps ==
  ASSUME AccountInv, NEW a \in Addr, NEW balance \in [Val -> Val],
         ChangeBalance(a, balance)
  PROVE  AccountInv'
<1> DEFINE old == IF accounts[a] = None THEN Loaded(a) ELSE accounts[a]
           base == IF old.account = None THEN Default ELSE old.account
           info == [base EXCEPT !.balance = balance[@]]
           entry == Change(old, info, Nowhere).entry
<1>1. /\ Quiet /\ accounts' = [accounts EXCEPT ![a] = entry]
      /\ target' = [info |-> [target.info EXCEPT ![a] = entry.account],
                    slots |-> target.slots]
      /\ committed' = target' /\ UNCHANGED <<applied, current>>
  BY ZenonT(60) DEF ChangeBalance
<1>2. base \in Info
  <2>1. Default \in Info
    BY DatabaseAssumption DEF Default, Info, Val
  <2>2. old \in CacheEntry
    BY ZenonT(60), LoadedServes DEF AccountInv
  <2> QED
    BY ZenonT(60), <2>1, <2>2 DEF CacheEntry
<1>3. info \in Info
  <2> HIDE DEF base
  <2> QED BY <1>2 DEF Info
<1>4. entry \in CacheEntry /\ entry.account = info /\ entry # None
  <2> HIDE DEF info, old
  <2>1. entry \in CacheEntry /\ entry.account = info
    BY ZenonT(60), <1>3, EntryOf
  <2> HIDE DEF entry
  <2> QED
    BY ZenonT(60), <2>1, DatabaseAssumption
<1> HIDE DEF entry, info
<1>5. /\ accounts' \in [Addr -> CacheEntry \cup {None}]
      /\ \A b \in Addr : accounts'[b] = IF b = a THEN entry ELSE accounts[b]
  BY ZenonT(60), <1>1, <1>4 DEF AccountInv
<1>6. /\ target'.info \in [Addr -> MaybeInfo]
      /\ \A b \in Addr : target'.info[b] = IF b = a THEN info ELSE target.info[b]
  BY ZenonT(60), <1>1, <1>3, <1>4 DEF AccountInv, MaybeInfo
<1>7. \A b \in Addr : ~Unapplied(b) /\ ~Unapplied(b)'
  BY ZenonT(60), <1>1 DEF Unapplied, Quiet
<1>8. \A b \in Addr : AccountServed(b)' = target'.info[b]
  <2>1. TAKE b \in Addr
  <2>2. CASE b = a
    BY ZenonT(60), <1>4, <1>5, <1>6, <2>2 DEF AccountServed
  <2>3. CASE b # a
    <3>1. AccountServed(b)' = AccountServed(b)
      BY ZenonT(60), <1>5, <2>3 DEF AccountServed, Loaded, Entry
    <3> QED
      BY ZenonT(60), <1>6, <1>7, <2>3, <3>1 DEF AccountInv
  <2> QED
    BY ZenonT(60), <2>2, <2>3
<1> QED
  BY ZenonT(60), <1>1, <1>5, <1>6, <1>7, <1>8 DEF AccountInv, Quiet

\* The invariant holds of the cache in every execution.
LEMMA AccountInvHolds == Spec => []AccountInv
<1>1. Init => AccountInv
  <2> SUFFICES ASSUME Init PROVE AccountInv
    BY ZenonT(60)
  <2>1. accounts = AddrMap(None) /\ current = Between /\ target.info = DbInfo
          /\ target = committed
    BY ZenonT(60) DEF Init
  <2>2. \A a \in Addr : AccountServed(a) = DbInfo[a]
    BY ZenonT(60), <2>1, LoadedServes DEF AccountServed, AddrMap
  <2>3. accounts \in [Addr -> CacheEntry \cup {None}]
    BY ZenonT(60), <2>1 DEF AddrMap
  <2>4. DbInfo \in [Addr -> MaybeInfo]
    BY ZenonT(60), DatabaseAssumption DEF MaybeInfo
  <2>5. \A a \in Addr : ~Unapplied(a)
    BY ZenonT(60), <2>1 DEF Unapplied, Between
  <2> QED
    BY ZenonT(60), <2>1, <2>2, <2>3, <2>4, <2>5 DEF AccountInv, Between
<1>2. AccountInv /\ [Next]_vars => AccountInv'
  <2> SUFFICES ASSUME AccountInv, [Next]_vars PROVE AccountInv'
    BY ZenonT(60)
  <2>1. CASE CommitStep
    BY ZenonT(60), <2>1, TakeKeeps, RemoveKeeps, ApplyKeeps, EndKeeps DEF CommitStep
  <2>2. ASSUME NEW a \in Addr, DrainBalance(a) PROVE AccountInv'
    <3>1. [v \in Val |-> 0] \in [Val -> Val]
      BY DatabaseAssumption DEF Val
    <3> QED
      BY ZenonT(60), <2>2, <3>1, BalanceKeeps DEF DrainBalance
  <2>3. ASSUME NEW a \in Addr, NEW amount \in 1 .. MaxVal, IncrementBalance(a, amount)
        PROVE  AccountInv'
    <3> DEFINE incremented == [v \in Val |-> IF v + amount > MaxVal THEN MaxVal ELSE v + amount]
    <3>1. \A v \in Val : (IF v + amount > MaxVal THEN MaxVal ELSE v + amount) \in Val
      BY DatabaseAssumption DEF Val
    <3>2. incremented \in [Val -> Val]
      BY ZenonT(60), <3>1
    <3>3. ChangeBalance(a, incremented)
      BY ZenonT(60), <2>3 DEF IncrementBalance
    <3> HIDE DEF incremented
    <3> QED
      BY ZenonT(60), <3>2, <3>3, BalanceKeeps
  <2>4. ASSUME NEW r \in Readers, ReadStep(r) PROVE AccountInv'
    <3>1. CASE InsertBasic(r)
      BY ZenonT(60), <3>1, InsertKeeps
    <3>2. CASE ~InsertBasic(r)
      <4>1. UNCHANGED <<accounts, current, applied, target, committed>>
        BY ZenonT(60), <2>4, <3>2 DEF ReadStep, ReadBasic, ReadSlot, CheckStatus, InsertSlot,
           FailRead, commitVars
      <4> QED
        BY ZenonT(60), <4>1, ReadKeeps
    <3> QED
      BY ZenonT(60), <3>1, <3>2
  <2>5. CASE UNCHANGED vars
    BY ZenonT(60), <2>5, ReadKeeps DEF vars, commitVars
  <2> QED
    BY ZenonT(60), <2>1, <2>2, <2>3, <2>4, <2>5 DEF Next, BalanceStep
<1> QED
  BY <1>1, <1>2, PTL DEF Spec

\* Between commits the cache serves every account's committed value, for any
\* database, any number of concurrently loading workers and any sequence of
\* commits and balance changes (db_basic, apply_account_state).
THEOREM AccountsServed == Spec => []AccountsServePrefix
<1>1. AccountInv => AccountsServePrefix
  BY ZenonT(60) DEF AccountInv, AccountsServePrefix, Quiet, Unapplied
<1> QED
  BY <1>1, AccountInvHolds, PTL

-----------------------------------------------------------------------------
(* The execution frontier is sound, its readers are never answered less     *)
(* than there was to see, and it never moves back: any number of            *)
(* transactions and of workers, with and without store buffers.             *)

\* What a call has read so far and may rely on.  A scan has started at or
\* below the frontier and everything before its end is visible to the
\* scanning worker; a reader about to answer knows that the frontier covers
\* what there was when it was called.
CallInv(w) ==
  /\ \A i \in 0 .. call[w].asked - 1 : executed[i]
  /\ call[w].pc \in {"store", "reload"} => call[w].op = "publish"
  /\ call[w].pc \in {"test", "answer"} => call[w].op = "current"
  /\ call[w].op = "publish" /\ call[w].pc # "idle" => call[w].index \in Index
  /\ call[w].pc = "test" =>
       /\ call[w].start <= frontier
       /\ call[w].result = call[w].start /\ call[w].end = call[w].start
  /\ call[w].pc \in {"scan", "max"} =>
       /\ call[w].start <= frontier
       /\ call[w].start <= call[w].end
       /\ \A i \in 0 .. call[w].end - 1 : Sees(w, i)
  /\ call[w].pc = "answer" => call[w].asked <= frontier
  /\ call[w].pc = "idle" /\ call[w].op = "current" =>
       call[w].asked <= call[w].result /\ call[w].result <= frontier

FrontierInv == FrontierTypeOK /\ FrontierSound /\ \A w \in Workers : CallInv(w)

\* The calls of other workers are not disturbed by a step that only adds
\* executed flags and moves the frontier forward.
LEMMA OthersKeep ==
  ASSUME FrontierInv,
         executed' \in [Index -> BOOLEAN], frontier' \in End,
         frontier' >= frontier,
         \A i \in Index : executed[i] => executed'[i],
         NEW v \in Workers, call'[v] = call[v],
         \A i \in Index : Sees(v, i) => Sees(v, i)'
  PROVE  CallInv(v)'
<1>1. /\ call[v] \in Calls /\ frontier \in End /\ N \in Nat
  BY ZenonT(60), FrontierAssumption DEF FrontierInv, FrontierTypeOK
<1>2. CallInv(v)
  BY ZenonT(60) DEF FrontierInv
<1>3. \A i \in 0 .. call[v].asked - 1 : i \in Index
  BY SMTT(60), <1>1 DEF Calls, End, Index
<1>4. \A i \in 0 .. call[v].end - 1 : i \in Index
  BY SMTT(60), <1>1 DEF Calls, End, Index
<1>5. \A i \in 0 .. call'[v].asked - 1 : executed'[i]
  BY ZenonT(60), <1>2, <1>3 DEF CallInv
<1>6. call[v].pc \in {"scan", "max"} => \A i \in 0 .. call'[v].end - 1 : Sees(v, i)'
  BY ZenonT(60), <1>2, <1>4 DEF CallInv
<1>7. /\ call[v].start \in Nat /\ call[v].asked \in Nat /\ call[v].result \in Nat
      /\ frontier \in Nat /\ frontier' \in Nat
  BY <1>1 DEF Calls, End
<1> QED
  BY <1>2, <1>5, <1>6, <1>7 DEF CallInv

\* Every step keeps the invariant.
LEMMA StepKeeps ==
  FrontierInv /\ [FrontierNext]_frontierVars => FrontierInv' /\ frontier' >= frontier
<1> SUFFICES ASSUME FrontierInv, [FrontierNext]_frontierVars
             PROVE  FrontierInv' /\ frontier' >= frontier
  BY ZenonT(60)
<1>n. N \in Nat /\ StoreBuffer \in BOOLEAN
  BY ZenonT(60), FrontierAssumption
<1>t. /\ executed \in [Index -> BOOLEAN] /\ buffered \in [Workers -> SUBSET Index]
      /\ frontier \in End /\ call \in [Workers -> Calls] /\ FrontierSound
  BY ZenonT(60) DEF FrontierInv, FrontierTypeOK
<1>f. frontier \in Nat
  BY <1>n, <1>t DEF End
<1>o. ASSUME NEW w \in Workers, NEW c \in Calls, call' = [call EXCEPT ![w] = c],
             UNCHANGED <<executed, buffered, frontier>>, CallInv(w)'
      PROVE  FrontierInv' /\ frontier' >= frontier
  <2>1. FrontierTypeOK'
    BY ZenonT(60), <1>t, <1>o DEF FrontierTypeOK
  <2>2. FrontierSound'
    BY ZenonT(60), <1>t, <1>o DEF FrontierSound
  <2>3. ASSUME NEW v \in Workers PROVE CallInv(v)'
    <3>1. CASE v = w
      BY ZenonT(60), <3>1, <1>o
    <3>2. CASE v # w
      <4>1. call'[v] = call[v]
        BY ZenonT(60), <3>2, <1>t, <1>o
      <4>2. \A i \in Index : Sees(v, i) => Sees(v, i)'
        BY ZenonT(60), <1>o DEF Sees
      <4>3. executed' \in [Index -> BOOLEAN] /\ frontier' \in End /\ frontier' >= frontier
            /\ \A i \in Index : executed[i] => executed'[i]
        BY <1>t, <1>f, <1>o
      <4> QED
        BY ZenonT(60), <4>1, <4>2, <4>3, OthersKeep
    <3> QED
      BY ZenonT(60), <3>1, <3>2
  <2> QED
    BY <1>f, <1>o, <2>1, <2>2, <2>3 DEF FrontierInv
<1>1. ASSUME NEW w \in Workers, Flush(w) PROVE FrontierInv' /\ frontier' >= frontier
  <2>1. /\ executed' \in [Index -> BOOLEAN] /\ frontier' = frontier /\ call' = call
        /\ buffered' \in [Workers -> SUBSET Index]
        /\ \A i \in Index : executed'[i] = Sees(w, i)
    BY ZenonT(60), <1>1, <1>t DEF Flush, Sees
  <2>2. \A i \in Index : executed[i] => executed'[i]
    BY ZenonT(60), <2>1 DEF Sees
  <2>3. ASSUME NEW v \in Workers PROVE CallInv(v)'
    <3>1. \A i \in Index : Sees(v, i) => Sees(v, i)'
      BY ZenonT(60), <1>1, <1>t, <2>1, <2>2 DEF Flush, Sees
    <3> QED
      BY <1>t, <1>f, <2>1, <2>2, <3>1, OthersKeep
  <2>4. FrontierSound'
    <3>1. \A i \in 0 .. frontier - 1 : i \in Index
      BY <1>n, <1>t DEF End, Index
    <3> QED
      BY ZenonT(60), <1>t, <2>1, <2>2, <3>1 DEF FrontierSound
  <2> QED
    BY <1>t, <1>f, <2>1, <2>3, <2>4 DEF FrontierInv, FrontierTypeOK
<1>2. ASSUME NEW w \in Workers, NEW i \in Index, CallPublish(w, i)
      PROVE  FrontierInv' /\ frontier' >= frontier
  <2> DEFINE c == NewCall("publish", "load", i, 0)
  <2>1. c \in Calls /\ c.asked = 0 /\ c.op = "publish" /\ c.pc = "load" /\ c.index = i
    BY <1>n DEF Calls, NewCall, End, Index
  <2>2. call' = [call EXCEPT ![w] = c] /\ UNCHANGED <<executed, buffered, frontier>>
    BY ZenonT(60), <1>2 DEF CallPublish
  <2>3. call'[w] = c
    BY ZenonT(60), <1>t, <2>2
  <2> HIDE DEF c
  <2>4. CallInv(w)'
    BY <2>1, <2>3 DEF CallInv
  <2> QED
    BY ZenonT(60), <2>1, <2>2, <2>4, <1>o
<1>3. ASSUME NEW w \in Workers, CallCurrent(w) PROVE FrontierInv' /\ frontier' >= frontier
  <2>1. PICK g \in End : IsGap(g) /\ call' = [call EXCEPT ![w] = NewCall("current", "load", 0, g)]
    BY ZenonT(60), <1>3 DEF CallCurrent
  <2> DEFINE c == NewCall("current", "load", 0, g)
  <2>2. c \in Calls /\ c.asked = g /\ c.op = "current" /\ c.pc = "load"
    BY <1>n DEF Calls, NewCall, End, Index
  <2>3. call' = [call EXCEPT ![w] = c] /\ UNCHANGED <<executed, buffered, frontier>>
    BY ZenonT(60), <1>3, <2>1 DEF CallCurrent
  <2>4. call'[w] = c
    BY ZenonT(60), <1>t, <2>3
  <2> HIDE DEF c
  <2>5. CallInv(w)'
    BY ZenonT(60), <2>1, <2>2, <2>3, <2>4 DEF CallInv, IsGap
  <2> QED
    BY ZenonT(60), <2>2, <2>3, <2>5, <1>o
<1>r. ASSUME NEW w \in Workers
      PROVE  /\ call[w] \in Calls /\ CallInv(w)
             /\ call[w].index \in Nat /\ call[w].start \in Nat /\ call[w].end \in Nat
             /\ call[w].asked \in Nat /\ call[w].result \in Nat
             /\ call[w].start <= N /\ call[w].end <= N /\ call[w].asked <= N
             /\ call[w].op \in {"publish", "current"}
  BY <1>n, <1>t DEF FrontierInv, Calls, End
\* Steps that only move the control of the call.
<1>p. ASSUME NEW w \in Workers,
             NEW pc \in {"idle", "store", "scan", "max", "answer"}, Goto(w, pc),
             UNCHANGED <<executed, buffered, frontier>>,
             pc = "idle" => call[w].op = "publish" \/
                             (call[w].asked <= call[w].result /\ call[w].result <= frontier),
             pc = "store" => call[w].op = "publish" /\ call[w].pc = "load",
             pc = "scan" => call[w].start <= frontier /\ call[w].start <= call[w].end
                             /\ \A i \in 0 .. call[w].end - 1 : Sees(w, i),
             pc = "max" => call[w].pc = "scan",
             pc = "answer" => call[w].op = "current" /\ call[w].asked <= frontier,
             call[w].pc # "idle"
      PROVE  FrontierInv' /\ frontier' >= frontier
  <2> DEFINE c == [call[w] EXCEPT !.pc = pc]
  <2>1. /\ c \in Calls /\ c.pc = pc /\ c.op = call[w].op /\ c.index = call[w].index
        /\ c.start = call[w].start /\ c.end = call[w].end
        /\ c.asked = call[w].asked /\ c.result = call[w].result
    BY ZenonT(60), <1>r DEF Calls
  <2>2. call' = [call EXCEPT ![w] = c]
    BY ZenonT(60), <1>p DEF Goto
  <2>3. call'[w] = c
    BY ZenonT(60), <1>t, <2>2
  <2> HIDE DEF c
  <2>4. \A i : Sees(w, i)' = Sees(w, i)
    BY ZenonT(60), <1>p DEF Sees
  <2>5. CallInv(w)
    BY ZenonT(60), <1>r
  <2>6. CallInv(w)'
    BY ZenonT(60), <1>p, <2>1, <2>3, <2>4, <2>5 DEF CallInv
  <2> QED
    BY ZenonT(60), <2>1, <2>2, <2>6, <1>o, <1>p
<1>4. ASSUME NEW w \in Workers, PublishLoad(w) PROVE FrontierInv' /\ frontier' >= frontier
  BY ZenonT(60), <1>4, <1>p DEF PublishLoad
<1>5. ASSUME NEW w \in Workers, CurrentTest(w) PROVE FrontierInv' /\ frontier' >= frontier
  <2>1. /\ call[w].pc = "test" /\ UNCHANGED <<executed, buffered, frontier>>
        /\ call[w].start <= frontier /\ call[w].result = call[w].start
        /\ call[w].op = "current" /\ call[w].end = call[w].start
        /\ \A i \in 0 .. call[w].asked - 1 : executed[i]
    BY ZenonT(60), <1>5, <1>r DEF CurrentTest, CallInv
  <2>2. CASE call[w].start < N /\ Sees(w, call[w].start)
    <3>1. Goto(w, "scan")
      BY ZenonT(60), <1>5, <2>2 DEF CurrentTest
    <3>2. \A i \in 0 .. call[w].end - 1 : Sees(w, i)
      BY <1>t, <1>f, <1>r, <2>1 DEF FrontierSound, Sees
    <3> QED
      BY <1>p, <1>r, <2>1, <3>1, <3>2
  <2>3. CASE ~(call[w].start < N /\ Sees(w, call[w].start))
    <3>1. Goto(w, "idle")
      BY ZenonT(60), <1>5, <2>3 DEF CurrentTest
    <3>2. call[w].asked <= call[w].start
      BY <1>n, <1>r, <2>1, <2>3 DEF Sees
    <3> QED
      BY ZenonT(60), <1>p, <1>r, <1>f, <2>1, <3>1, <3>2
  <2> QED
    BY ZenonT(60), <2>2, <2>3
<1>6. ASSUME NEW w \in Workers, Scan(w) PROVE FrontierInv' /\ frontier' >= frontier
  <2>1. /\ call[w].pc = "scan" /\ UNCHANGED <<executed, buffered, frontier>>
        /\ call[w].start <= frontier /\ call[w].start <= call[w].end
        /\ \A i \in 0 .. call[w].end - 1 : Sees(w, i)
        /\ \A i \in 0 .. call[w].asked - 1 : executed[i]
        /\ call[w].op = "publish" => call[w].index \in Index
    BY ZenonT(60), <1>6, <1>r DEF Scan, CallInv
  <2>2. CASE /\ call[w].end < N /\ Sees(w, call[w].end)
             /\ call' = [call EXCEPT ![w].end = call[w].end + 1]
    <3> DEFINE c == [call[w] EXCEPT !.end = call[w].end + 1]
    <3>1. /\ c \in Calls /\ c.pc = "scan" /\ c.op = call[w].op /\ c.index = call[w].index
          /\ c.start = call[w].start /\ c.end = call[w].end + 1
          /\ c.asked = call[w].asked
      BY <1>n, <1>r, <2>1, <2>2 DEF Calls, End
    <3>2. call' = [call EXCEPT ![w] = c]
      BY ZenonT(60), <2>2
    <3>3. call'[w] = c
      BY ZenonT(60), <1>t, <3>2
    <3> HIDE DEF c
    <3>4. \A i \in 0 .. c.end - 1 : Sees(w, i)'
      BY <1>r, <2>1, <2>2, <3>1 DEF Sees
    <3>5. CallInv(w)'
      BY <1>r, <2>1, <3>1, <3>3, <3>4 DEF CallInv
    <3> QED
      BY ZenonT(60), <2>1, <3>1, <3>2, <3>5, <1>o
  <2>3. CASE /\ ~(call[w].end < N /\ Sees(w, call[w].end))
             /\ Goto(w, IF call[w].end # call[w].start THEN "max"
                        ELSE IF call[w].op = "current" THEN "answer" ELSE "idle")
    <3>1. call[w].asked <= call[w].end
      BY <1>n, <1>r, <2>1, <2>3 DEF Sees
    <3>2. CASE call[w].end # call[w].start
      <4>1. Goto(w, "max")
        BY ZenonT(60), <2>3, <3>2
      <4> QED
        BY ZenonT(60), <4>1, <2>1, <1>p
    <3>3. CASE call[w].end = call[w].start /\ call[w].op = "current"
      <4>1. Goto(w, "answer")
        BY ZenonT(60), <2>3, <3>3
      <4>2. call[w].asked <= frontier
        BY <1>r, <1>f, <2>1, <3>1, <3>3
      <4> QED
        BY ZenonT(60), <4>1, <4>2, <2>1, <3>3, <1>p
    <3>4. CASE call[w].end = call[w].start /\ call[w].op = "publish"
      <4>1. Goto(w, "idle")
        BY ZenonT(60), <2>3, <3>4
      <4> QED
        BY ZenonT(60), <4>1, <2>1, <3>4, <1>p
    <3> QED
      BY ZenonT(60), <1>r, <3>2, <3>3, <3>4
  <2> QED
    BY ZenonT(60), <1>6, <2>2, <2>3 DEF Scan
<1>7. ASSUME NEW w \in Workers, PublishReload(w) PROVE FrontierInv' /\ frontier' >= frontier
  <2> DEFINE p == IF call[w].index = frontier THEN "scan" ELSE "idle"
             c == [call[w] EXCEPT !.pc = p, !.start = frontier, !.end = frontier]
  <2>1. /\ c \in Calls /\ c.pc \in {"scan", "idle"} /\ c.op = call[w].op
        /\ c.index = call[w].index /\ c.start = frontier /\ c.end = frontier
        /\ c.asked = call[w].asked
    BY ZenonT(60), <1>t, <1>r DEF Calls
  <2>2. call' = [call EXCEPT ![w] = c] /\ UNCHANGED <<executed, buffered, frontier>>
    BY ZenonT(60), <1>7 DEF PublishReload
  <2>3. call'[w] = c
    BY ZenonT(60), <1>t, <2>2
  <2> HIDE DEF c
  <2>4. call[w].op = "publish" /\ call[w].index \in Index
    BY ZenonT(60), <1>7, <1>r DEF PublishReload, CallInv
  <2>5. \A i \in 0 .. frontier - 1 : Sees(w, i)'
    BY ZenonT(60), <1>t, <2>2 DEF FrontierSound, Sees
  <2>6. CallInv(w)'
    BY <1>r, <1>f, <2>1, <2>2, <2>3, <2>4, <2>5 DEF CallInv
  <2> QED
    BY ZenonT(60), <2>1, <2>2, <2>6, <1>o
<1>8. ASSUME NEW w \in Workers, CurrentLoad(w) PROVE FrontierInv' /\ frontier' >= frontier
  <2> DEFINE c == [call[w] EXCEPT !.pc = "test", !.start = frontier, !.end = frontier,
                                  !.result = frontier]
  <2>1. /\ c \in Calls /\ c.pc = "test" /\ c.op = call[w].op
        /\ c.index = call[w].index /\ c.start = frontier /\ c.end = frontier
        /\ c.asked = call[w].asked /\ c.result = frontier
    BY ZenonT(60), <1>t, <1>r DEF Calls
  <2>2. call' = [call EXCEPT ![w] = c] /\ UNCHANGED <<executed, buffered, frontier>>
    BY ZenonT(60), <1>8 DEF CurrentLoad
  <2>3. call'[w] = c /\ call[w].op = "current"
    BY ZenonT(60), <1>8, <1>t, <2>2 DEF CurrentLoad
  <2> HIDE DEF c
  <2>4. CallInv(w)'
    BY <1>r, <1>f, <2>1, <2>2, <2>3 DEF CallInv
  <2> QED
    BY ZenonT(60), <2>1, <2>2, <2>4, <1>o
<1>9. ASSUME NEW w \in Workers, CurrentAnswer(w) PROVE FrontierInv' /\ frontier' >= frontier
  <2> DEFINE c == [call[w] EXCEPT !.pc = "idle", !.result = frontier]
  <2>1. /\ c \in Calls /\ c.pc = "idle" /\ c.op = call[w].op /\ c.index = call[w].index
        /\ c.asked = call[w].asked /\ c.result = frontier
    BY ZenonT(60), <1>t, <1>r DEF Calls
  <2>2. call' = [call EXCEPT ![w] = c] /\ UNCHANGED <<executed, buffered, frontier>>
    BY ZenonT(60), <1>9 DEF CurrentAnswer
  <2>3. call'[w] = c /\ call[w].op = "current" /\ call[w].asked <= frontier
    BY ZenonT(60), <1>9, <1>t, <1>r, <2>2 DEF CurrentAnswer, CallInv
  <2> HIDE DEF c
  <2>4. CallInv(w)'
    BY <1>r, <1>f, <2>1, <2>2, <2>3 DEF CallInv
  <2> QED
    BY ZenonT(60), <2>1, <2>2, <2>4, <1>o
\* Steps that change the shared state: the others keep what they know.
<1>q. ASSUME NEW w \in Workers, NEW c \in Calls, call' = [call EXCEPT ![w] = c],
             executed' \in [Index -> BOOLEAN], buffered' \in [Workers -> SUBSET Index],
             frontier' \in End, frontier' >= frontier,
             \A i \in Index : executed[i] => executed'[i],
             \A v \in Workers \ {w} : buffered'[v] = buffered[v],
             FrontierSound', CallInv(w)'
      PROVE  FrontierInv' /\ frontier' >= frontier
  <2>1. ASSUME NEW v \in Workers, v # w PROVE CallInv(v)'
    <3>1. call'[v] = call[v] /\ buffered'[v] = buffered[v]
      BY ZenonT(60), <1>q, <1>t, <2>1
    <3>2. \A i \in Index : Sees(v, i) => Sees(v, i)'
      BY ZenonT(60), <1>q, <3>1 DEF Sees
    <3> QED
      BY ZenonT(60), <1>q, <3>1, <3>2, OthersKeep
  <2>2. FrontierTypeOK'
    BY ZenonT(60), <1>t, <1>q DEF FrontierTypeOK
  <2> QED
    BY ZenonT(60), <1>q, <2>1, <2>2 DEF FrontierInv
<1>10. ASSUME NEW w \in Workers, PublishStore(w) PROVE FrontierInv' /\ frontier' >= frontier
  <2> DEFINE c == [call[w] EXCEPT !.pc = "reload"]
  <2>1. /\ c \in Calls /\ c.pc = "reload" /\ c.op = call[w].op
        /\ c.index = call[w].index /\ c.asked = call[w].asked
    BY ZenonT(60), <1>r DEF Calls
  <2>2. call' = [call EXCEPT ![w] = c] /\ frontier' = frontier
    BY ZenonT(60), <1>10 DEF PublishStore, Goto
  <2>3. call'[w] = c /\ call[w].op = "publish" /\ call[w].index \in Index
    BY ZenonT(60), <1>10, <1>t, <1>r, <2>2 DEF PublishStore, CallInv
  <2> HIDE DEF c
  <2>4. /\ executed' \in [Index -> BOOLEAN] /\ buffered' \in [Workers -> SUBSET Index]
        /\ \A i \in Index : executed[i] => executed'[i]
        /\ \A v \in Workers \ {w} : buffered'[v] = buffered[v]
    BY ZenonT(60), <1>10, <1>t, <2>3 DEF PublishStore
  <2>5. \A i \in 0 .. call[w].asked - 1 : i \in Index /\ executed[i]
    BY <1>n, <1>r DEF CallInv, Index
  <2>6. CallInv(w)'
    BY ZenonT(60), <2>1, <2>3, <2>4, <2>5 DEF CallInv
  <2>7. FrontierSound'
    <3>1. \A i \in 0 .. frontier - 1 : i \in Index /\ executed[i]
      BY <1>n, <1>t DEF End, Index, FrontierSound
    <3> QED
      BY ZenonT(60), <2>2, <2>4, <3>1 DEF FrontierSound
  <2>8. frontier' \in End /\ frontier' >= frontier
    BY <1>t, <1>f, <2>2
  <2> QED
    BY ZenonT(60), <2>1, <2>2, <2>4, <2>6, <2>7, <2>8, <1>q
<1>11. ASSUME NEW w \in Workers, FetchMax(w) PROVE FrontierInv' /\ frontier' >= frontier
  <2> DEFINE f == IF call[w].end > frontier THEN call[w].end ELSE frontier
             c == [call[w] EXCEPT !.pc = "scan", !.start = f, !.end = f]
  <2>1. f \in End /\ f >= frontier /\ f >= call[w].end /\ f \in {call[w].end, frontier}
    BY <1>n, <1>t, <1>f, <1>r DEF End
  <2>2. frontier' = f /\ call' = [call EXCEPT ![w] = c]
    BY ZenonT(60), <1>11 DEF FetchMax
  <2> HIDE DEF f
  <2>3. /\ c \in Calls /\ c.pc = "scan" /\ c.op = call[w].op
        /\ c.index = call[w].index /\ c.asked = call[w].asked /\ c.start = f /\ c.end = f
    BY ZenonT(60), <1>r, <2>1 DEF Calls
  <2>4. /\ executed' \in [Index -> BOOLEAN] /\ buffered' \in [Workers -> SUBSET Index]
        /\ \A i \in Index : executed'[i] = Sees(w, i)
        /\ \A v \in Workers \ {w} : buffered'[v] = buffered[v]
    BY ZenonT(60), <1>11, <1>t DEF FetchMax, Sees
  <2>5. \A i \in Index : executed[i] => executed'[i]
    BY ZenonT(60), <2>4 DEF Sees
  <2>6. call'[w] = c
    BY ZenonT(60), <1>t, <2>2
  <2> HIDE DEF c
  <2>7. /\ call[w].pc = "max" /\ \A i \in 0 .. call[w].end - 1 : Sees(w, i)
        /\ call[w].op = "publish" => call[w].index \in Index
        /\ \A i \in 0 .. call[w].asked - 1 : executed[i]
    BY ZenonT(60), <1>11, <1>r DEF FetchMax, CallInv
  <2>8. \A i \in 0 .. f - 1 : i \in Index /\ executed'[i]
    <3>1. ASSUME NEW i \in 0 .. f - 1 PROVE i \in Index /\ executed'[i]
      <4>1. i \in Index
        BY <1>n, <2>1 DEF End, Index
      <4>2. CASE f = call[w].end
        BY ZenonT(60), <1>r, <2>4, <2>7, <4>1, <4>2
      <4>3. CASE f = frontier
        BY ZenonT(60), <1>t, <2>5, <4>1, <4>3 DEF FrontierSound
      <4> QED
        BY ZenonT(60), <2>1, <4>1, <4>2, <4>3
    <3> QED
      BY ZenonT(60), <3>1
  <2>9. FrontierSound'
    BY ZenonT(60), <2>2, <2>8 DEF FrontierSound
  <2>10. \A i \in 0 .. call[w].asked - 1 : i \in Index
    BY <1>n, <1>r DEF Index
  <2>11. \A i \in 0 .. f - 1 : Sees(w, i)'
    BY ZenonT(60), <2>8 DEF Sees
  <2>12. f \in Nat
    BY <1>n, <2>1 DEF End
  <2>13. CallInv(w)'
    BY <2>2, <2>3, <2>5, <2>6, <2>7, <2>10, <2>11, <2>12 DEF CallInv
  <2> QED
    BY ZenonT(60), <2>1, <2>2, <2>3, <2>4, <2>5, <2>9, <2>13, <1>q
<1>12. CASE UNCHANGED frontierVars
  <2>1. FrontierTypeOK' /\ FrontierSound'
    BY ZenonT(60), <1>12, <1>t DEF frontierVars, FrontierTypeOK, FrontierSound
  <2>2. ASSUME NEW v \in Workers PROVE CallInv(v)'
    <3>1. CallInv(v)
      BY ZenonT(60), <1>r
    <3> QED
      BY ZenonT(60), <1>12, <3>1 DEF frontierVars, CallInv, Sees
  <2> QED
    BY <1>12, <1>f, <2>1, <2>2 DEF FrontierInv, frontierVars
<1> QED
  BY ZenonT(60), <1>1, <1>2, <1>3, <1>4, <1>5, <1>6, <1>7, <1>8, <1>9, <1>10, <1>11, <1>12
  DEF FrontierNext, Step

\* The invariant holds of every behaviour of the frontier.
LEMMA InvHolds == FrontierSpec => []FrontierInv
<1>1. FrontierInit => FrontierInv
  <2> SUFFICES ASSUME FrontierInit PROVE FrontierInv
    BY ZenonT(60)
  <2> DEFINE c == NewCall("current", "idle", 0, 0)
  <2>1. N \in Nat
    BY ZenonT(60), FrontierAssumption
  <2>2. c \in Calls /\ c.pc = "idle" /\ c.asked = 0 /\ c.result = 0 /\ c.op = "current"
    BY <2>1 DEF NewCall, Calls, End
  <2>3. call = [w \in Workers |-> c] /\ frontier = 0
    BY ZenonT(60) DEF FrontierInit
  <2> HIDE DEF c
  <2>4. FrontierTypeOK
    BY <2>1, <2>2, <2>3 DEF FrontierInit, FrontierTypeOK, End
  <2>5. \A w \in Workers : CallInv(w)
    BY <2>2, <2>3 DEF CallInv
  <2> QED
    BY <2>3, <2>4, <2>5 DEF FrontierInv, FrontierSound
<1> QED
  BY <1>1, StepKeeps, PTL DEF FrontierSpec

\* ExecutionFrontier::advance: whatever workers race to publish and to help,
\* every transaction below the frontier has executed and is seen by all.
THEOREM FrontierIsSound == FrontierSpec => []FrontierSound
<1>1. FrontierInv => FrontierSound
  BY ZenonT(60) DEF FrontierInv
<1> QED
  BY <1>1, InvHolds, PTL

\* ExecutionFrontier::current: an answer covers every gap that was closed
\* when the question was asked, with any delay of the publishers.
THEOREM AnswersAreCurrent == FrontierSpec => []AnswerIsCurrent
<1>1. FrontierInv => AnswerIsCurrent
  BY ZenonT(60) DEF FrontierInv, CallInv, AnswerIsCurrent
<1> QED
  BY <1>1, InvHolds, PTL

\* ExecutionFrontier::advance: fetch_max never moves the frontier back.
THEOREM NeverMovesBack == FrontierSpec => FrontierMonotone
<1>1. FrontierInv /\ [FrontierNext]_frontierVars => [frontier' >= frontier]_frontierVars
  BY ZenonT(60), StepKeeps
<1> QED
  BY <1>1, InvHolds, PTL DEF FrontierSpec, FrontierMonotone

-----------------------------------------------------------------------------
(* The life of a scheduler: any number of callers, workers and panics.      *)

LifeTypeOK ==
  /\ started \in BOOLEAN /\ aborted \in BOOLEAN
  /\ phase \in {"none", "setup", "spawn", "unwind", "join", "post", "replay", "returned"}
  /\ answer \in [Callers -> {"none", "executing", "refused", "ok", "error", "panic"}]
  /\ role \in [Roles -> {"unspawned", "running", "done", "panicked"}]
  /\ joined \in 0 .. Len(JoinOrder)
  /\ committed_idx \in Nat /\ state_end \in Nat /\ outcomes \in Nat /\ results \in Nat
  /\ commit \in [pc : {"loop", "push", "publish"}, outcomes : Nat, error : BOOLEAN]

\* One caller executes, and it has no answer before it returns.
CallerInv ==
  /\ phase = "none" <=> ~started
  /\ phase \notin {"none", "returned"} => \E c \in Callers : answer[c] = "executing"
  /\ phase # "returned" => \A c \in Callers : answer[c] # "ok"

\* Threads run between the first spawn and the last join only, and the panic
\* kept so far is the first one among the joined threads.
JoinInv ==
  /\ phase \in {"none", "setup"} => \A r \in Roles : role[r] = "unspawned"
  /\ phase \in {"post", "replay", "returned"} => \A r \in Roles : role[r] # "running"
  /\ phase \in {"post", "replay"} => payload = "none" /\ \A r \in Roles : role[r] # "panicked"
  /\ phase \in {"none", "setup", "spawn"} => payload = "none" /\ joined = 0
  /\ phase = "unwind" => payload = "caller"
  /\ \A i \in 1 .. joined : role[JoinOrder[i]] \in {"done", "panicked"}
  /\ payload = "none" => \A i \in 1 .. joined : role[JoinOrder[i]] = "done"
  /\ payload \notin {"none", "caller"} =>
       \E i \in 1 .. joined :
         /\ payload = JoinOrder[i] /\ role[JoinOrder[i]] = "panicked"
         /\ \A k \in 1 .. i - 1 : role[JoinOrder[k]] = "done"
  /\ phase = "returned" /\ (\E r \in Roles : role[r] = "panicked") =>
       payload # "none" /\ \E c \in Callers : answer[c] = "panic"

\* An abort without a reason comes from a panic.
ReasonInv ==
  /\ phase \in {"none", "setup"} => ~aborted
  /\ aborted /\ reason = "none" => payload = "caller" \/ \E r \in Roles : role[r] = "panicked"

\* What is applied to the state is in the commit loop's outcomes, up to the one
\* in flight, then in the installed ones and those of the replay.
CountInv ==
  /\ phase \in {"none", "setup"} => commit.outcomes = 0 /\ commit.pc = "loop"
  /\ phase \notin {"replay", "returned"} =>
       state_end = commit.outcomes + (IF commit.pc = "push" THEN 1 ELSE 0)
  /\ phase \notin {"post", "replay", "returned"} => results = 0
  /\ phase \notin {"replay", "returned"} => outcomes = 0
  /\ commit.pc # "publish" => committed_idx = commit.outcomes
  /\ role["commit"] = "done" => commit.pc = "loop" /\ (aborted \/ commit.outcomes = block_size)
  /\ phase = "post" => results = commit.outcomes /\ role["commit"] = "done"
  /\ phase = "replay" => state_end = results + outcomes
  /\ phase = "returned" /\ payload = "none" =>
       results = state_end /\ ((\E c \in Callers : answer[c] = "ok") => results = block_size)

LifeInv == LifeTypeOK /\ CallerInv /\ JoinInv /\ ReasonInv /\ CountInv

\* The commit thread is joined first; every thread is spawned once and joined
\* once (parallel_execute_inner).
LEMMA OrderFacts ==
  /\ Len(JoinOrder) \in Nat /\ Len(JoinOrder) >= 2 /\ DOMAIN JoinOrder = 1 .. Len(JoinOrder)
  /\ JoinOrder[1] = "commit"
  /\ \A i \in 1 .. Len(JoinOrder) : JoinOrder[i] \in Roles
  /\ \A r \in Roles : \E i \in 1 .. Len(JoinOrder) : JoinOrder[i] = r
  /\ Len(SpawnOrder) \in Nat /\ DOMAIN SpawnOrder = 1 .. Len(SpawnOrder)
  /\ \A i \in 1 .. Len(SpawnOrder) : SpawnOrder[i] \in Roles
<1>1. /\ Len(WorkerNames) \in Nat /\ DOMAIN WorkerNames = 1 .. Len(WorkerNames)
      /\ \A i \in 1 .. Len(WorkerNames) : WorkerNames[i] \notin {"finality", "commit"}
  <2>1. Len(WorkerNames) \in Nat /\ DOMAIN WorkerNames = 1 .. Len(WorkerNames)
    BY LifecycleAssumption
  <2>2. \A i \in DOMAIN WorkerNames : WorkerNames[i] \in Range(WorkerNames)
    BY ZenonT(60) DEF Range
  <2>3. {"finality", "commit", "caller", "none"} \cap Range(WorkerNames) = {}
    BY ZenonT(60), LifecycleAssumption
  <2> QED
    BY ZenonT(60), <2>1, <2>2, <2>3
<1>2. /\ Len(JoinOrder) = 2 + Len(WorkerNames) /\ DOMAIN JoinOrder = 1 .. 2 + Len(WorkerNames)
      /\ JoinOrder[1] = "commit" /\ JoinOrder[2] = "finality"
      /\ \A i \in 3 .. 2 + Len(WorkerNames) : JoinOrder[i] = WorkerNames[i - 2]
  BY <1>1, LifecycleAssumption DEF JoinOrder
<1>3. /\ Len(SpawnOrder) = 2 + Len(WorkerNames) /\ DOMAIN SpawnOrder = 1 .. 2 + Len(WorkerNames)
      /\ SpawnOrder[1] = "finality" /\ SpawnOrder[2] = "commit"
      /\ \A i \in 3 .. 2 + Len(WorkerNames) : SpawnOrder[i] = WorkerNames[i - 2]
  BY <1>1, LifecycleAssumption DEF SpawnOrder
<1>4. \A i \in 1 .. Len(JoinOrder) : JoinOrder[i] \in Roles
  BY ZenonT(60), <1>2 DEF Roles, Range
<1>5. \A r \in Roles : \E i \in 1 .. Len(JoinOrder) : JoinOrder[i] = r
  BY ZenonT(60), <1>2 DEF Roles, Range
<1>6. ASSUME NEW i \in 1 .. Len(SpawnOrder) PROVE SpawnOrder[i] \in Roles
  <2>1. CASE i = 1
    BY <1>1, <1>2, <1>3, <1>4, <2>1
  <2>2. CASE i = 2
    BY <1>1, <1>2, <1>3, <1>4, <2>2
  <2>3. CASE i \in 3 .. 2 + Len(WorkerNames)
    BY ZenonT(60), <1>1, <1>2, <1>3, <1>4, <2>3
  <2> QED
    BY <1>1, <1>3, <2>1, <2>2, <2>3
<1> QED
  BY <1>1, <1>2, <1>3, <1>4, <1>5, <1>6

\* The names of the threads are not those of the caller, and the workers are
\* none of the coordinators.
LEMMA RoleFacts ==
  /\ "commit" \in Roles /\ "finality" \in Roles
  /\ "none" \notin Roles /\ "caller" \notin Roles
  /\ \A w \in Range(WorkerNames) : w \in Roles /\ w # "commit"
<1>1. /\ Len(WorkerNames) \in Nat /\ DOMAIN WorkerNames = 1 .. Len(WorkerNames)
      /\ \A i \in 1 .. Len(WorkerNames) :
           WorkerNames[i] \notin {"finality", "commit", "caller", "none"}
  <2>1. Len(WorkerNames) \in Nat /\ DOMAIN WorkerNames = 1 .. Len(WorkerNames)
    BY LifecycleAssumption
  <2>2. \A i \in 1 .. Len(WorkerNames) : WorkerNames[i] \in Range(WorkerNames)
    BY ZenonT(60), <2>1 DEF Range
  <2>3. \A w \in Range(WorkerNames) : w \notin {"finality", "commit", "caller", "none"}
    BY ZenonT(60), LifecycleAssumption
  <2> QED
    BY ZenonT(60), <2>1, <2>2, <2>3
<1>2. /\ DOMAIN JoinOrder = 1 .. 2 + Len(WorkerNames)
      /\ JoinOrder[1] = "commit" /\ JoinOrder[2] = "finality"
      /\ \A i \in 3 .. 2 + Len(WorkerNames) : JoinOrder[i] = WorkerNames[i - 2]
      /\ \A i \in 1 .. Len(WorkerNames) : JoinOrder[i + 2] = WorkerNames[i]
  BY <1>1, LifecycleAssumption DEF JoinOrder
<1>3. "commit" \in Roles /\ "finality" \in Roles
  BY <1>1, <1>2 DEF Roles, Range
<1>4. \A r \in Roles : r \notin {"none", "caller"}
  BY <1>1, <1>2 DEF Roles, Range
<1>5. \A w \in Range(WorkerNames) : w \in Roles /\ w # "commit"
  BY <1>1, <1>2 DEF Roles, Range
<1> QED
  BY ZenonT(60), <1>3, <1>4, <1>5

\* The end or the panic of a running thread does not change what was joined.
LEMMA EndsJoin ==
  ASSUME LifeTypeOK, JoinInv, NEW r \in Roles, role[r] = "running",
         NEW s \in {"done", "panicked"}, role' = [role EXCEPT ![r] = s],
         UNCHANGED <<phase, payload, joined, answer>>
  PROVE  JoinInv'
<1>1. phase \notin {"none", "setup", "post", "replay", "returned"}
  BY ZenonT(60) DEF JoinInv, LifeTypeOK
<1>2. \A i \in 1 .. joined : role[JoinOrder[i]] # "running" =>
                              role'[JoinOrder[i]] = role[JoinOrder[i]]
  BY OrderFacts DEF LifeTypeOK
<1>3. payload = "none" => \A i \in 1 .. joined : role'[JoinOrder[i]] = "done"
  BY ZenonT(60), <1>2 DEF JoinInv
<1>4. ASSUME payload \notin {"none", "caller"}
      PROVE  \E i \in 1 .. joined :
               /\ payload = JoinOrder[i] /\ role'[JoinOrder[i]] = "panicked"
               /\ \A k \in 1 .. i - 1 : role'[JoinOrder[k]] = "done"
  <2>1. PICK i \in 1 .. joined :
          /\ payload = JoinOrder[i] /\ role[JoinOrder[i]] = "panicked"
          /\ \A k \in 1 .. i - 1 : role[JoinOrder[k]] = "done"
    BY ZenonT(60), <1>4 DEF JoinInv
  <2>2. \A k \in 1 .. i - 1 : k \in 1 .. joined
    BY DEF LifeTypeOK
  <2> QED
    BY ZenonT(60), <1>2, <2>1, <2>2
<1>5. \A i \in 1 .. joined : role'[JoinOrder[i]] \in {"done", "panicked"}
  BY ZenonT(60), <1>2 DEF JoinInv
<1> QED
  BY ZenonT(60), <1>1, <1>3, <1>4, <1>5 DEF JoinInv

\* Every step of a thread keeps the invariant: a task, a commit, an abort, the
\* end of a loop or a panic (run_worker, run_finality_loop, run_commit_loop,
\* CancelOnPanic).
LEMMA ThreadKeeps ==
  ASSUME LifeInv,
         \/ \E r \in Roles : Panic(r)
         \/ \E w \in Range(WorkerNames) : WorkerStep(w) \/ WorkerAborts(w)
         \/ FinalityLoopStep \/ CommitLoopStep \/ CommitGivesUp
  PROVE  LifeInv'
<1> USE DEF LifeInv, run, progress
<1>t. LifeTypeOK
  BY ZenonT(60)
<1>1. ASSUME NEW r \in Roles, Panic(r) PROVE LifeInv'
  <2>1. LifeTypeOK'
    BY ZenonT(60), <1>1, <1>t DEF Panic, CancelOnPanic, LifeTypeOK
  <2>2. CallerInv'
    BY ZenonT(60), <1>1, <1>t DEF Panic, CancelOnPanic, CallerInv
  <2>4. JoinInv'
    BY ZenonT(60), <1>1, <1>t, EndsJoin DEF Panic, CancelOnPanic, LifeTypeOK
  <2>5. ReasonInv'
    BY ZenonT(60), <1>1, <1>t DEF Panic, CancelOnPanic, ReasonInv, JoinInv, LifeTypeOK
  <2>6. CountInv'
    BY SMTT(30), <1>1, <1>t DEF Panic, CancelOnPanic, CountInv, LifeTypeOK
  <2> QED
    BY ZenonT(60), <2>1, <2>2, <2>4, <2>5, <2>6
<1>2. ASSUME NEW w \in Range(WorkerNames), WorkerTask(w) PROVE LifeInv'
  <2>1. LifeTypeOK'
    BY ZenonT(60), <1>2, <1>t DEF WorkerTask, LifeTypeOK
  <2>2. CallerInv'
    BY ZenonT(60), <1>2, <1>t DEF WorkerTask, CallerInv
  <2>4. JoinInv'
    BY ZenonT(60), <1>2, <1>t DEF WorkerTask, JoinInv
  <2>5. ReasonInv'
    BY ZenonT(60), <1>2, <1>t DEF WorkerTask, ReasonInv, LifeTypeOK
  <2>6. CountInv'
    BY ZenonT(60), <1>2, <1>t DEF WorkerTask, CountInv, LifeTypeOK
  <2> QED
    BY ZenonT(60), <2>1, <2>2, <2>4, <2>5, <2>6
<1>3. ASSUME NEW w \in Range(WorkerNames), WorkerAborts(w) PROVE LifeInv'
  <2>1. LifeTypeOK'
    BY ZenonT(60), <1>3, <1>t DEF WorkerAborts, Abort, LifeTypeOK
  <2>2. CallerInv'
    BY ZenonT(60), <1>3, <1>t DEF WorkerAborts, Abort, CallerInv
  <2>4. JoinInv'
    BY ZenonT(60), <1>3, <1>t DEF WorkerAborts, Abort, JoinInv
  <2>5. ReasonInv'
    BY ZenonT(60), <1>3, <1>t, RoleFacts DEF WorkerAborts, Abort, ReasonInv, JoinInv, LifeTypeOK
  <2>6. CountInv'
    BY ZenonT(60), <1>3, <1>t DEF WorkerAborts, Abort, CountInv, LifeTypeOK
  <2> QED
    BY ZenonT(60), <2>1, <2>2, <2>4, <2>5, <2>6
<1>4. ASSUME NEW w \in Range(WorkerNames), WorkerEnds(w) PROVE LifeInv'
  <2>1. LifeTypeOK'
    BY ZenonT(60), <1>4, <1>t DEF WorkerEnds, Ends, LifeTypeOK
  <2>2. CallerInv'
    BY ZenonT(60), <1>4, <1>t DEF WorkerEnds, Ends, CallerInv
  <2>4. JoinInv'
    BY ZenonT(60), <1>4, <1>t, EndsJoin, RoleFacts DEF WorkerEnds, Ends, LifeTypeOK
  <2>5. ReasonInv'
    BY ZenonT(60), <1>4, <1>t DEF WorkerEnds, Ends, ReasonInv, LifeTypeOK
  <2>6. CountInv'
    BY ZenonT(60), <1>4, <1>t, RoleFacts DEF WorkerEnds, Ends, CountInv, LifeTypeOK
  <2> QED
    BY ZenonT(60), <2>1, <2>2, <2>4, <2>5, <2>6
<1>5. CASE Finalize
  <2>1. LifeTypeOK'
    BY ZenonT(60), <1>5, <1>t DEF Finalize, LifeTypeOK
  <2>2. CallerInv'
    BY ZenonT(60), <1>5, <1>t DEF Finalize, CallerInv
  <2>4. JoinInv'
    BY ZenonT(60), <1>5, <1>t DEF Finalize, JoinInv
  <2>5. ReasonInv'
    BY ZenonT(60), <1>5, <1>t DEF Finalize, ReasonInv, LifeTypeOK
  <2>6. CountInv'
    BY ZenonT(60), <1>5, <1>t DEF Finalize, CountInv, LifeTypeOK
  <2> QED
    BY ZenonT(60), <2>1, <2>2, <2>4, <2>5, <2>6
<1>6. CASE FinalityEnds
  <2>1. LifeTypeOK'
    BY ZenonT(60), <1>6, <1>t DEF FinalityEnds, Ends, LifeTypeOK
  <2>2. CallerInv'
    BY ZenonT(60), <1>6, <1>t DEF FinalityEnds, Ends, CallerInv
  <2>4. JoinInv'
    BY ZenonT(60), <1>6, <1>t, EndsJoin, RoleFacts DEF FinalityEnds, Ends, LifeTypeOK
  <2>5. ReasonInv'
    BY ZenonT(60), <1>6, <1>t DEF FinalityEnds, Ends, ReasonInv, LifeTypeOK
  <2>6. CountInv'
    BY <1>6, <1>t DEF FinalityEnds, Ends, CountInv, LifeTypeOK
  <2> QED
    BY ZenonT(60), <2>1, <2>2, <2>4, <2>5, <2>6
<1>7. CASE CommitApply
  <2>c. commit' \in [pc : {"loop", "push", "publish"}, outcomes : Nat, error : BOOLEAN]
    BY ZenonT(60), <1>7 DEF CommitApply, CommitAt, LifeTypeOK
  <2>1. LifeTypeOK'
    BY <1>7, <1>t, <2>c DEF CommitApply, CommitAt, LifeTypeOK
  <2>2. CallerInv'
    BY ZenonT(60), <1>7, <1>t DEF CommitApply, CommitAt, CallerInv
  <2>4. JoinInv'
    BY ZenonT(60), <1>7, <1>t DEF CommitApply, CommitAt, JoinInv
  <2>5. ReasonInv'
    BY ZenonT(60), <1>7, <1>t DEF CommitApply, CommitAt, ReasonInv, LifeTypeOK
  <2>6. CountInv'
    BY <1>7, <1>t, RoleFacts DEF CommitApply, CommitAt, CountInv, JoinInv, LifeTypeOK
  <2> QED
    BY ZenonT(60), <2>1, <2>2, <2>4, <2>5, <2>6
<1>8. CASE CommitPush
  <2>c. commit' \in [pc : {"loop", "push", "publish"}, outcomes : Nat, error : BOOLEAN]
    <3>1. commit' = [pc |-> "publish", outcomes |-> commit.outcomes + 1, error |-> commit.error]
      BY ZenonT(60), <1>8, <1>t DEF CommitPush, LifeTypeOK
    <3>2. commit.outcomes + 1 \in Nat /\ commit.error \in BOOLEAN
      BY <1>t DEF LifeTypeOK
    <3> QED
      BY ZenonT(60), <3>1, <3>2
  <2>1. LifeTypeOK'
    BY ZenonT(60), <1>8, <1>t, <2>c DEF CommitPush, CommitAt, LifeTypeOK
  <2>2. CallerInv'
    BY ZenonT(60), <1>8, <1>t DEF CommitPush, CommitAt, CallerInv
  <2>4. JoinInv'
    BY ZenonT(60), <1>8, <1>t DEF CommitPush, CommitAt, JoinInv
  <2>5. ReasonInv'
    BY ZenonT(60), <1>8, <1>t DEF CommitPush, CommitAt, ReasonInv, LifeTypeOK
  <2>6. CountInv'
    BY <1>8, <1>t DEF CommitPush, CommitAt, CountInv, LifeTypeOK
  <2> QED
    BY ZenonT(60), <2>1, <2>2, <2>4, <2>5, <2>6
<1>9. CASE CommitPublish
  <2>c. commit' \in [pc : {"loop", "push", "publish"}, outcomes : Nat, error : BOOLEAN]
    BY ZenonT(60), <1>9 DEF CommitPublish, CommitAt, LifeTypeOK
  <2>1. LifeTypeOK'
    BY ZenonT(60), <1>9, <1>t, <2>c DEF CommitPublish, CommitAt, LifeTypeOK
  <2>2. CallerInv'
    BY ZenonT(60), <1>9, <1>t DEF CommitPublish, CommitAt, CallerInv
  <2>4. JoinInv'
    BY ZenonT(60), <1>9, <1>t DEF CommitPublish, CommitAt, JoinInv
  <2>5. ReasonInv'
    BY ZenonT(60), <1>9, <1>t DEF CommitPublish, CommitAt, ReasonInv, LifeTypeOK
  <2>6. CountInv'
    BY ZenonT(60), <1>9, <1>t DEF CommitPublish, CommitAt, CountInv, LifeTypeOK
  <2> QED
    BY ZenonT(60), <2>1, <2>2, <2>4, <2>5, <2>6
<1>10. CASE CommitGivesUp
  <2>c. commit' \in [pc : {"loop", "push", "publish"}, outcomes : Nat, error : BOOLEAN]
    BY ZenonT(60), <1>10 DEF CommitGivesUp, CommitAt, Abort, Ends, LifeTypeOK
  <2>1. LifeTypeOK'
    BY ZenonT(60), <1>10, <1>t, <2>c DEF CommitGivesUp, CommitAt, Abort, Ends, LifeTypeOK
  <2>2. CallerInv'
    BY ZenonT(60), <1>10, <1>t DEF CommitGivesUp, CommitAt, Abort, Ends, CallerInv
  <2>4. JoinInv'
    BY ZenonT(60), <1>10, <1>t, EndsJoin, RoleFacts DEF CommitGivesUp, CommitAt, Abort, Ends,
       LifeTypeOK
  <2>5. ReasonInv'
    BY ZenonT(60), <1>10, <1>t, RoleFacts DEF CommitGivesUp, CommitAt, Abort, Ends, ReasonInv,
       JoinInv, LifeTypeOK
  <2>6. CountInv'
    BY ZenonT(60), <1>10, <1>t DEF CommitGivesUp, CommitAt, Abort, Ends, CountInv, LifeTypeOK
  <2> QED
    BY ZenonT(60), <2>1, <2>2, <2>4, <2>5, <2>6
<1>11. CASE CommitEnds
  <2>1. LifeTypeOK'
    BY ZenonT(60), <1>11, <1>t DEF CommitEnds, CommitAt, Ends, LifeTypeOK
  <2>2. CallerInv'
    BY ZenonT(60), <1>11, <1>t DEF CommitEnds, CommitAt, Ends, CallerInv
  <2>4. JoinInv'
    BY ZenonT(60), <1>11, <1>t, EndsJoin, RoleFacts DEF CommitEnds, CommitAt, Ends, LifeTypeOK
  <2>5. ReasonInv'
    BY ZenonT(60), <1>11, <1>t DEF CommitEnds, CommitAt, Ends, ReasonInv, LifeTypeOK
  <2>6. CountInv'
    BY ZenonT(60), <1>11, <1>t DEF CommitEnds, CommitAt, Ends, CountInv, LifeTypeOK
  <2> QED
    BY ZenonT(60), <2>1, <2>2, <2>4, <2>5, <2>6
<1> QED
  BY ZenonT(60), <1>1, <1>2, <1>3, <1>4, <1>5, <1>6, <1>7, <1>8, <1>9, <1>10, <1>11 DEF
     WorkerStep, FinalityLoopStep, CommitLoopStep

\* Every step of the callers that spawns no thread keeps the invariant: the
\* election, the joins, the installed outcomes, the replay and every return
\* (run_once, parallel_execute_inner, post_execute, replay_uncommitted_suffix).
LEMMA CallerKeeps ==
  ASSUME LifeInv,
         \/ \E c \in Callers : Elect(c) \/ Refuse(c)
         \/ Setup \/ SpawnFails \/ Unwind \/ Join \/ ResumeUnwind \/ Install \/ PostExecute
         \/ ReplayTx \/ ReplayEnds \/ ReplayPanics
  PROVE  LifeInv'
<1> USE DEF LifeInv, run, progress
<1>t. LifeTypeOK
  BY ZenonT(60)
<1>1. ASSUME NEW c \in Callers, Elect(c) PROVE LifeInv'
  <2>1. LifeTypeOK'
    BY ZenonT(60), <1>1, <1>t DEF Elect, LifeTypeOK
  <2>2. CallerInv'
    BY ZenonT(60), <1>1, <1>t DEF Elect, CallerInv, LifeTypeOK
  <2>4. JoinInv'
    BY ZenonT(60), <1>1, <1>t DEF Elect, JoinInv, CallerInv, LifeTypeOK
  <2>5. ReasonInv'
    BY ZenonT(60), <1>1, <1>t DEF Elect, ReasonInv, CallerInv, LifeTypeOK
  <2>6. CountInv'
    <3>1. phase = "none" /\ phase' \in {"setup", "replay"}
      BY ZenonT(60), <1>1 DEF Elect, CallerInv
    <3>2. /\ commit' = commit /\ state_end' = state_end /\ outcomes' = outcomes
          /\ results' = results /\ committed_idx' = committed_idx /\ role' = role
      BY ZenonT(60), <1>1 DEF Elect
    <3>3. /\ commit.outcomes = 0 /\ commit.pc = "loop" /\ state_end = 0 /\ results = 0
          /\ outcomes = 0 /\ committed_idx = 0 /\ role["commit"] = "unspawned"
      BY <3>1, RoleFacts DEF CountInv, JoinInv
    <3> QED
      BY ZenonT(60), <3>1, <3>2, <3>3 DEF CountInv
  <2> QED
    BY ZenonT(60), <2>1, <2>2, <2>4, <2>5, <2>6
<1>2. ASSUME NEW c \in Callers, Refuse(c) PROVE LifeInv'
  <2>1. LifeTypeOK'
    BY ZenonT(60), <1>2, <1>t DEF Refuse, LifeTypeOK
  <2>2. CallerInv'
    BY ZenonT(60), <1>2, <1>t DEF Refuse, CallerInv, LifeTypeOK
  <2>4. JoinInv'
    BY ZenonT(60), <1>2, <1>t DEF Refuse, JoinInv, LifeTypeOK
  <2>5. ReasonInv'
    BY ZenonT(60), <1>2, <1>t DEF Refuse, ReasonInv, LifeTypeOK
  <2>6. CountInv'
    BY ZenonT(60), <1>2, <1>t DEF Refuse, CountInv, LifeTypeOK
  <2> QED
    BY ZenonT(60), <2>1, <2>2, <2>4, <2>5, <2>6
<1>3. CASE Setup
  <2>1. LifeTypeOK'
    BY ZenonT(60), <1>3, <1>t DEF Setup, ReturnWith, LifeTypeOK
  <2>2. CallerInv'
    BY ZenonT(60), <1>3, <1>t DEF Setup, ReturnWith, CallerInv, LifeTypeOK
  <2>4. JoinInv'
    BY ZenonT(60), <1>3, <1>t DEF Setup, ReturnWith, JoinInv, LifeTypeOK
  <2>5. ReasonInv'
    BY ZenonT(60), <1>3, <1>t DEF Setup, ReturnWith, ReasonInv, LifeTypeOK
  <2>6. CountInv'
    <3>1. /\ phase' \in {"spawn", "returned"}
          /\ UNCHANGED <<role, payload, progress, outcomes, results>>
      BY ZenonT(60), <1>3 DEF Setup, ReturnWith
    <3>2. results = 0 /\ outcomes = 0 /\ state_end = 0 /\ commit.outcomes = 0 /\ commit.pc = "loop"
      BY <1>3, <1>t DEF Setup, CountInv, LifeTypeOK
    <3>3. role["commit"] # "done"
      BY ZenonT(60), <1>3, RoleFacts DEF Setup, JoinInv
    <3>4. \A c \in Callers : answer'[c] # "ok"
      BY ZenonT(60), <1>3 DEF Setup, ReturnWith, CallerInv
    <3> QED
      BY <3>1, <3>2, <3>3, <3>4 DEF CountInv
  <2> QED
    BY ZenonT(60), <2>1, <2>2, <2>4, <2>5, <2>6
<1>4. CASE SpawnFails
  <2>1. LifeTypeOK'
    BY ZenonT(60), <1>4, <1>t DEF SpawnFails, LifeTypeOK
  <2>2. CallerInv'
    BY ZenonT(60), <1>4, <1>t DEF SpawnFails, CallerInv, LifeTypeOK
  <2>4. JoinInv'
    BY ZenonT(60), <1>4, <1>t DEF SpawnFails, JoinInv, LifeTypeOK
  <2>5. ReasonInv'
    BY ZenonT(60), <1>4, <1>t DEF SpawnFails, ReasonInv, LifeTypeOK
  <2>6. CountInv'
    BY ZenonT(60), <1>4, <1>t DEF SpawnFails, CountInv, LifeTypeOK
  <2> QED
    BY ZenonT(60), <2>1, <2>2, <2>4, <2>5, <2>6
<1>5. CASE Unwind
  <2>1. LifeTypeOK'
    BY ZenonT(60), <1>5, <1>t DEF Unwind, ReturnWith, LifeTypeOK
  <2>2. CallerInv'
    BY ZenonT(60), <1>5, <1>t DEF Unwind, ReturnWith, CallerInv, LifeTypeOK
  <2>4. JoinInv'
    BY ZenonT(60), <1>5, <1>t DEF Unwind, ReturnWith, JoinInv, CallerInv, LifeTypeOK
  <2>5. ReasonInv'
    BY ZenonT(60), <1>5, <1>t DEF Unwind, ReturnWith, ReasonInv, LifeTypeOK
  <2>6. CountInv'
    BY ZenonT(60), <1>5, <1>t DEF Unwind, ReturnWith, CountInv, JoinInv, LifeTypeOK
  <2> QED
    BY ZenonT(60), <2>1, <2>2, <2>4, <2>5, <2>6
<1>6. CASE Join
  <2>1. LifeTypeOK'
    BY <1>6, <1>t DEF Join, LifeTypeOK
  <2>2. CallerInv'
    BY ZenonT(60), <1>6, <1>t DEF Join, CallerInv, LifeTypeOK
  <2>4. JoinInv'
    <3>1. /\ phase = "join" /\ UNCHANGED <<phase, role, answer>>
          /\ joined + 1 \in 1 .. Len(JoinOrder) /\ joined' = joined + 1
          /\ role[JoinOrder[joined + 1]] \in {"done", "panicked"}
          /\ payload' = IF role[JoinOrder[joined + 1]] = "panicked" /\ payload = "none"
                        THEN JoinOrder[joined + 1] ELSE payload
      BY <1>6, <1>t DEF Join, LifeTypeOK
    <3>2. JoinOrder[joined + 1] \notin {"none", "caller"}
      BY ZenonT(60), <3>1, OrderFacts, RoleFacts
    <3>3. \A i \in 1 .. joined' : i \in 1 .. joined \/ i = joined + 1
      BY <1>t, <3>1 DEF LifeTypeOK
    <3>4. \A i \in 1 .. joined' : role'[JoinOrder[i]] \in {"done", "panicked"}
      BY ZenonT(60), <3>1, <3>3 DEF JoinInv
    <3>5. payload' = "none" => \A i \in 1 .. joined' : role'[JoinOrder[i]] = "done"
      BY ZenonT(60), <3>1, <3>2, <3>3 DEF JoinInv
    <3>6. ASSUME payload' \notin {"none", "caller"}
          PROVE  \E i \in 1 .. joined' :
                   /\ payload' = JoinOrder[i] /\ role'[JoinOrder[i]] = "panicked"
                   /\ \A k \in 1 .. i - 1 : role'[JoinOrder[k]] = "done"
      <4>1. CASE payload = "none"
        <5>1. \A k \in 1 .. joined : role[JoinOrder[k]] = "done"
          BY ZenonT(60), <4>1 DEF JoinInv
        <5> QED
          BY <1>t, <3>1, <3>6, <4>1, <5>1 DEF LifeTypeOK
      <4>2. CASE payload # "none"
        <5>1. PICK i \in 1 .. joined :
                /\ payload = JoinOrder[i] /\ role[JoinOrder[i]] = "panicked"
                /\ \A k \in 1 .. i - 1 : role[JoinOrder[k]] = "done"
          BY ZenonT(60), <3>1, <3>6, <4>2 DEF JoinInv
        <5> QED
          BY <1>t, <3>1, <4>2, <5>1 DEF LifeTypeOK
      <4> QED
        BY ZenonT(60), <4>1, <4>2
    <3> QED
      BY ZenonT(60), <3>1, <3>4, <3>5, <3>6 DEF JoinInv
  <2>5. ReasonInv'
    BY ZenonT(60), <1>6, <1>t DEF Join, ReasonInv, LifeTypeOK
  <2>6. CountInv'
    BY ZenonT(60), <1>6, <1>t DEF Join, CountInv, LifeTypeOK
  <2> QED
    BY ZenonT(60), <2>1, <2>2, <2>4, <2>5, <2>6
<1>7. CASE ResumeUnwind
  <2>1. LifeTypeOK'
    BY ZenonT(60), <1>7, <1>t DEF ResumeUnwind, ReturnWith, LifeTypeOK
  <2>2. CallerInv'
    BY ZenonT(60), <1>7, <1>t DEF ResumeUnwind, ReturnWith, CallerInv, LifeTypeOK
  <2>4. JoinInv'
    <3>1. \A r \in Roles : role[r] # "running"
      BY ZenonT(60), <1>7, OrderFacts DEF ResumeUnwind, JoinInv
    <3>2. \E c \in Callers : answer'[c] = "panic"
      BY ZenonT(60), <1>7 DEF ResumeUnwind, ReturnWith, CallerInv
    <3> QED
      BY ZenonT(60), <1>7, <3>1, <3>2 DEF ResumeUnwind, ReturnWith, JoinInv
  <2>5. ReasonInv'
    BY ZenonT(60), <1>7, <1>t DEF ResumeUnwind, ReturnWith, ReasonInv, LifeTypeOK
  <2>6. CountInv'
    BY ZenonT(60), <1>7, <1>t DEF ResumeUnwind, ReturnWith, CountInv, LifeTypeOK
  <2> QED
    BY ZenonT(60), <2>1, <2>2, <2>4, <2>5, <2>6
<1>8. CASE Install
  <2>1. LifeTypeOK'
    BY <1>8, <1>t DEF Install, ReturnWith, LifeTypeOK
  <2>2. CallerInv'
    BY ZenonT(60), <1>8, <1>t DEF Install, ReturnWith, CallerInv, LifeTypeOK
  <2>4. JoinInv'
    BY SMTT(30), <1>8, <1>t, OrderFacts DEF Install, ReturnWith, JoinInv, LifeTypeOK
  <2>5. ReasonInv'
    BY ZenonT(60), <1>8, <1>t DEF Install, ReturnWith, ReasonInv, LifeTypeOK
  <2>6. CountInv'
    BY SMTT(30), <1>8, <1>t, OrderFacts DEF Install, ReturnWith, CountInv, CallerInv,
       JoinInv, LifeTypeOK
  <2> QED
    BY ZenonT(60), <2>1, <2>2, <2>4, <2>5, <2>6
<1>9. CASE PostExecute
  <2>1. LifeTypeOK'
    BY ZenonT(60), <1>9, <1>t DEF PostExecute, ReturnWith, LifeTypeOK
  <2>2. CallerInv'
    BY ZenonT(60), <1>9, <1>t DEF PostExecute, ReturnWith, CallerInv, LifeTypeOK
  <2>4. JoinInv'
    BY ZenonT(60), <1>9, <1>t DEF PostExecute, ReturnWith, JoinInv, LifeTypeOK
  <2>5. ReasonInv'
    BY ZenonT(60), <1>9, <1>t DEF PostExecute, ReturnWith, ReasonInv, LifeTypeOK
  <2>6. CountInv'
    BY <1>9, <1>t DEF PostExecute, ReturnWith, CountInv, CallerInv, LifeTypeOK
  <2> QED
    BY ZenonT(60), <2>1, <2>2, <2>4, <2>5, <2>6
<1>10. CASE ReplayTx
  <2>1. LifeTypeOK'
    BY <1>10, <1>t DEF ReplayTx, LifeTypeOK
  <2>2. CallerInv'
    BY ZenonT(60), <1>10, <1>t DEF ReplayTx, CallerInv, LifeTypeOK
  <2>4. JoinInv'
    BY ZenonT(60), <1>10, <1>t DEF ReplayTx, JoinInv, LifeTypeOK
  <2>5. ReasonInv'
    BY ZenonT(60), <1>10, <1>t DEF ReplayTx, ReasonInv, LifeTypeOK
  <2>6. CountInv'
    BY SMTT(30), <1>10, <1>t DEF ReplayTx, CountInv, LifeTypeOK
  <2> QED
    BY ZenonT(60), <2>1, <2>2, <2>4, <2>5, <2>6
<1>11. CASE ReplayEnds
  <2>1. LifeTypeOK'
    BY SMTT(30), <1>11, <1>t DEF ReplayEnds, ReturnWith, LifeTypeOK
  <2>2. CallerInv'
    BY ZenonT(60), <1>11, <1>t DEF ReplayEnds, ReturnWith, CallerInv, LifeTypeOK
  <2>4. JoinInv'
    BY ZenonT(60), <1>11, <1>t DEF ReplayEnds, ReturnWith, JoinInv, LifeTypeOK
  <2>5. ReasonInv'
    BY ZenonT(60), <1>11, <1>t DEF ReplayEnds, ReturnWith, ReasonInv, LifeTypeOK
  <2>6. CountInv'
    BY ZenonT(60), <1>11, <1>t DEF ReplayEnds, ReturnWith, CountInv, CallerInv, LifeTypeOK
  <2> QED
    BY ZenonT(60), <2>1, <2>2, <2>4, <2>5, <2>6
<1>12. CASE ReplayPanics
  <2>1. LifeTypeOK'
    BY ZenonT(60), <1>12, <1>t DEF ReplayPanics, ReturnWith, LifeTypeOK
  <2>2. CallerInv'
    BY ZenonT(60), <1>12, <1>t DEF ReplayPanics, ReturnWith, CallerInv, LifeTypeOK
  <2>4. JoinInv'
    BY ZenonT(60), <1>12, <1>t DEF ReplayPanics, ReturnWith, JoinInv, LifeTypeOK
  <2>5. ReasonInv'
    BY ZenonT(60), <1>12, <1>t DEF ReplayPanics, ReturnWith, ReasonInv, LifeTypeOK
  <2>6. CountInv'
    BY ZenonT(60), <1>12, <1>t DEF ReplayPanics, ReturnWith, CountInv, LifeTypeOK
  <2> QED
    BY ZenonT(60), <2>1, <2>2, <2>4, <2>5, <2>6
<1> QED
  BY ZenonT(60), <1>1, <1>2, <1>3, <1>4, <1>5, <1>6, <1>7, <1>8, <1>9, <1>10, <1>11, <1>12

\* What the caller is left with follows from the invariant.
LEMMA LifeInvSound == LifeInv => ReturnIsSound
<1> SUFFICES ASSUME LifeInv PROVE ReturnIsSound
  BY ZenonT(60)
<1>1. PrefixesAgree
  BY ZenonT(60) DEF LifeInv, CountInv, PrefixesAgree
<1>2. PanicReachesCaller
  <2> DEFINE panicked == {i \in DOMAIN JoinOrder : role[JoinOrder[i]] = "panicked"}
  <2> SUFFICES ASSUME phase = "returned", panicked # {}
               PROVE  /\ \E c \in Callers : answer[c] = "panic"
                      /\ payload \in {"caller"} \cup {JoinOrder[i] : i \in {j \in panicked :
                                                        \A k \in panicked : j <= k}}
    BY ZenonT(60) DEF PanicReachesCaller
  <2>1. \E r \in Roles : role[r] = "panicked"
    BY ZenonT(60), OrderFacts
  <2>2. payload # "none" /\ \E c \in Callers : answer[c] = "panic"
    BY ZenonT(60), <2>1 DEF LifeInv, JoinInv
  <2>3. CASE payload # "caller"
    <3>1. PICK i \in 1 .. joined :
            /\ payload = JoinOrder[i] /\ role[JoinOrder[i]] = "panicked"
            /\ \A k \in 1 .. i - 1 : role[JoinOrder[k]] = "done"
      BY ZenonT(60), <2>2, <2>3 DEF LifeInv, JoinInv
    <3>2. joined \in 0 .. Len(JoinOrder)
      BY ZenonT(60) DEF LifeInv, LifeTypeOK
    <3>3. i \in panicked
      BY <3>1, <3>2
    <3>4. ASSUME NEW k \in panicked PROVE i <= k
      BY <3>1, <3>2, <3>4
    <3> QED
      BY ZenonT(60), <3>1, <3>3, <3>4, <2>2
  <2> QED
    BY ZenonT(60), <2>2, <2>3
<1>3. InstallIsSound
  <2>1. ASSUME phase = "join", joined = Len(JoinOrder), payload = "none"
        PROVE  commit.outcomes = committed_idx /\ results = 0
    <3>1. role["commit"] = "done"
      BY <2>1, OrderFacts DEF LifeInv, JoinInv
    <3> QED
      BY ZenonT(60), <2>1, <3>1 DEF LifeInv, CountInv
  <2>2. phase = "post" /\ aborted => reason # "none"
    BY ZenonT(60) DEF LifeInv, JoinInv, ReasonInv
  <2> QED
    BY ZenonT(60), <2>1, <2>2 DEF InstallIsSound
<1> QED
  BY ZenonT(60), <1>1, <1>2, <1>3 DEF ReturnIsSound

\* Spawning the next thread keeps the invariant (parallel_execute_inner).
LEMMA SpawnKeeps == LifeInv /\ Spawn => LifeInv'
<1> SUFFICES ASSUME LifeInv, Spawn PROVE LifeInv'
  BY ZenonT(60)
<1>t. LifeTypeOK /\ CallerInv /\ JoinInv /\ ReasonInv /\ CountInv
  BY ZenonT(60) DEF LifeInv
<1> USE DEF progress
<1>1. ASSUME NEW i \in DOMAIN SpawnOrder, Unspawned(i), UNCHANGED phase,
             role' = [role EXCEPT ![SpawnOrder[i]] = "running"]
      PROVE  LifeInv'
  <2> DEFINE next == SpawnOrder[i]
  <2>1. next \in Roles /\ role[next] = "unspawned" /\ phase = "spawn" /\ phase' = "spawn"
    BY ZenonT(60), <1>1, OrderFacts DEF Spawn, Unspawned
  <2>2. \A r \in Roles : role'[r] = IF r = next THEN "running" ELSE role[r]
    BY ZenonT(60), <1>t, <1>1, <2>1 DEF LifeTypeOK
  <2> HIDE DEF next
  <2>3. LifeTypeOK'
    BY ZenonT(60), <1>t, <1>1, <2>1 DEF Spawn, LifeTypeOK, next
  <2>4. CallerInv'
    BY ZenonT(60), <1>t, <2>1 DEF Spawn, CallerInv
  <2>5. JoinInv'
    BY SMTT(30), <1>t, <2>1 DEF Spawn, JoinInv, LifeTypeOK
  <2>6. ReasonInv'
    BY ZenonT(60), <1>t, <2>1, <2>2 DEF Spawn, ReasonInv
  <2>7. CountInv'
    BY ZenonT(60), <1>t, <2>1, <2>2, RoleFacts DEF Spawn, CountInv
  <2> QED
    BY ZenonT(60), <2>3, <2>4, <2>5, <2>6, <2>7 DEF LifeInv
<1>2. CASE phase' = "join" /\ UNCHANGED role
  <2>1. LifeTypeOK' /\ CallerInv' /\ JoinInv' /\ ReasonInv' /\ CountInv'
    BY ZenonT(60), <1>2, <1>t DEF Spawn, LifeTypeOK, CallerInv, JoinInv, ReasonInv, CountInv
  <2> QED
    BY ZenonT(60), <2>1 DEF LifeInv
<1> QED
  BY ZenonT(60), <1>1, <1>2 DEF Spawn

\* A new scheduler satisfies it (SchedulerControl::new).
LEMMA LifeInitially == LifeInit => LifeInv
<1> SUFFICES ASSUME LifeInit PROVE LifeInv
  BY ZenonT(60)
<1>1. \A r \in Roles : role[r] = "unspawned"
  BY ZenonT(60) DEF LifeInit
<1>2. LifeTypeOK
  <2>1. commit \in [pc : {"loop", "push", "publish"}, outcomes : Nat, error : BOOLEAN]
    BY ZenonT(60) DEF LifeInit
  <2>2. joined \in 0 .. Len(JoinOrder)
    BY OrderFacts DEF LifeInit
  <2>3. started \in BOOLEAN /\ aborted \in BOOLEAN
    BY ZenonT(60) DEF LifeInit
  <2> QED
    BY ZenonT(60), <2>1, <2>2, <2>3 DEF LifeInit, LifeTypeOK
<1>4. CallerInv
  BY ZenonT(60) DEF LifeInit, CallerInv
<1>5. JoinInv
  BY SMTT(30), <1>1 DEF LifeInit, JoinInv
<1>6. ReasonInv
  BY ZenonT(60) DEF LifeInit, ReasonInv
<1>7. CountInv
  BY <1>1, RoleFacts DEF LifeInit, CountInv
<1> QED
  BY ZenonT(60), <1>2, <1>4, <1>5, <1>6, <1>7 DEF LifeInv

\* take_result_and_state, CancelOnPanic, the joins: for any number of callers,
\* workers and panics, at whatever points they happen, a panic is never turned
\* into a result, the outcomes are installed once and name the published
\* prefix, and a regular return leaves state and outcomes of the same prefix.
THEOREM EveryReturnIsSound == LifeSpec => []ReturnIsSound
<1>1. LifeInv /\ [LifeNext]_lifeVars => LifeInv'
  <2> SUFFICES ASSUME LifeInv, [LifeNext]_lifeVars PROVE LifeInv'
    BY ZenonT(60)
  <2>1. CASE UNCHANGED lifeVars
    <3>1. LifeTypeOK' /\ CallerInv' /\ JoinInv' /\ ReasonInv' /\ CountInv'
      BY <2>1 DEF lifeVars, run, progress, LifeInv, LifeTypeOK, CallerInv, JoinInv, ReasonInv,
                  CountInv
    <3> QED
      BY ZenonT(60), <3>1 DEF LifeInv
  <2> QED
    BY ZenonT(60), <2>1, ThreadKeeps, CallerKeeps, SpawnKeeps DEF LifeNext, CallerStep, Poll,
       Returned
<1> QED
  BY <1>1, LifeInitially, LifeInvSound, PTL DEF LifeSpec

-----------------------------------------------------------------------------
(* The wait slot: any block size, with a cancel() at any time.              *)

\* A notification is there or on its way: the batch is not closed, or its first
\* transaction is still to be announced.
FinalityAnnounced == token \/ finalizer = "notify" \/ published > batch + 1

\* From its check of the abort flag to the park, whatever the commit thread can
\* no longer see is announced: a cancel() after the check of the flag, a final
\* transaction after the check of the cursor.
WaitInv ==
  /\ published \in Nat /\ batch \in Nat /\ commit_idx \in Nat /\ finality \in Nat
  /\ registered \in BOOLEAN /\ token \in BOOLEAN /\ abort \in BOOLEAN /\ ordered \in BOOLEAN
  /\ batch <= published
  /\ finality <= published
  /\ committer # "register" => registered
  /\ ordered => finality = published /\ abort = (canceller # "no")
  /\ ordered /\ committer \in {"finality?", "parked"} /\ abort => token \/ canceller = "notify"
  /\ ordered /\ committer = "parked" /\ commit_idx < finality => FinalityAnnounced

\* The threads of a new block satisfy it (CoordinatorWait::new).
LEMMA WaitInitially == WaitInit => WaitInv
<1> SUFFICES ASSUME WaitInit PROVE WaitInv
  BY ZenonT(60)
<1>1. abort = (canceller # "no") /\ abort \in BOOLEAN /\ token \in BOOLEAN /\ registered \in BOOLEAN
  BY ZenonT(60) DEF WaitInit
<1>2. published = 0 /\ batch = 0 /\ commit_idx = 0 /\ finality = 0
  BY ZenonT(60) DEF WaitInit
<1>3. batch <= published /\ finality <= published /\ ~(commit_idx < finality)
  BY <1>2
<1>4. committer = "register" /\ ordered \in BOOLEAN
  BY ZenonT(60) DEF WaitInit
<1> QED
  BY ZenonT(60), <1>1, <1>2, <1>3, <1>4 DEF WaitInv

\* Every step of the commit thread keeps it (run_commit_loop, wait_while).
LEMMA CommitThreadKeeps == WaitInv /\ Commit => WaitInv'
<1> SUFFICES ASSUME WaitInv, Commit PROVE WaitInv'
  BY ZenonT(60)
<1> USE DEF WaitInv, FinalityAnnounced, finalizerVars, committerVars
<1>1. CASE register_current_thread
  BY ZenonT(60), <1>1 DEF register_current_thread
<1>2. CASE CommitLoopHead
  BY ZenonT(60), <1>2 DEF CommitLoopHead
<1>3. CASE CommitNext
  BY SMTT(30), <1>3 DEF CommitNext
<1>4. CASE CheckAbort
  BY ZenonT(60), <1>4 DEF CheckAbort
<1>5. CASE CheckFinality
  BY ZenonT(60), <1>5 DEF CheckFinality
<1>6. CASE Unparked
  BY ZenonT(60), <1>6 DEF Unparked
<1>7. CASE TimedOut
  BY ZenonT(60), <1>7 DEF TimedOut
<1> QED
  BY ZenonT(60), <1>1, <1>2, <1>3, <1>4, <1>5, <1>6, <1>7 DEF Commit

\* So does every step of the others (run_finality_loop, cancel, notify) and of
\* their store buffers.
LEMMA OtherThreadsKeep ==
  WaitInv /\ (Finality \/ StoreAbort \/ NotifyAbort \/ FlushStores) => WaitInv'
<1> SUFFICES ASSUME WaitInv, Finality \/ StoreAbort \/ NotifyAbort \/ FlushStores PROVE WaitInv'
  BY ZenonT(60)
<1> USE DEF WaitInv, FinalityAnnounced, finalizerVars, committerVars, Notify, Announce
<1>1. CASE PublishFinality
  BY <1>1 DEF PublishFinality
<1>2. CASE AnnounceFirst
  BY SMTT(30), <1>2 DEF AnnounceFirst
<1>3. CASE EndBatch
  BY SMTT(30), <1>3 DEF EndBatch
<1>4. CASE StoreAbort
  BY ZenonT(60), <1>4 DEF StoreAbort
<1>5. CASE NotifyAbort
  BY ZenonT(60), <1>5 DEF NotifyAbort
<1>6. CASE FlushStores
  BY <1>6 DEF FlushStores
<1> QED
  BY ZenonT(60), <1>1, <1>2, <1>3, <1>4, <1>5, <1>6 DEF Finality

\* wait_while, notify: with ordered stores no interleaving of registration,
\* checks, park, batches and cancel() lets the commit thread sleep on work
\* without a token or a notification under way.
THEOREM CommitNeverSleepsOnWork == WaitSpec => []NeverSleepsOnWork
<1>1. WaitInv /\ [WaitNext]_waitVars => WaitInv'
  <2> SUFFICES ASSUME WaitInv, [WaitNext]_waitVars PROVE WaitInv'
    BY ZenonT(60)
  <2>1. CASE UNCHANGED waitVars
    BY ZenonT(60), <2>1 DEF waitVars, finalizerVars, committerVars, WaitInv, FinalityAnnounced
  <2> QED
    BY ZenonT(60), <2>1, CommitThreadKeeps, OtherThreadsKeep DEF WaitNext, Finished
<1>2. WaitInv => NeverSleepsOnWork
  BY ZenonT(60) DEF WaitInv, FinalityAnnounced, NeverSleepsOnWork
<1> QED
  BY <1>1, <1>2, WaitInitially, PTL DEF WaitSpec
=============================================================================
