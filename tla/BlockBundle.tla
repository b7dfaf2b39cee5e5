---------------------------- MODULE BlockBundle ----------------------------
(***************************************************************************)
(* From committed changes to the bundle of a block: the transitions a      *)
(* ParallelState collects (parallel_state.rs), their merge into the bundle *)
(* with its reverts and sizes (bundle.rs), and the lists of balance        *)
(* changes that may stop half way.  The state outlives the block: a caller *)
(* may merge or take at every block end, and commit on.                    *)
(*                                                                         *)
(* revm's canonical merge is external; what is in an account matters only  *)
(* as far as its change, its code and its size go.                         *)
(***************************************************************************)
EXTENDS Naturals, Sequences, FiniteSets, FiniteSetsExt

CONSTANTS
  Addr, Hash, NoCode,
  MaxBalance, MaxOps   \* bounds

VARIABLES
  cached,            \* the accounts in the cache
  info,              \* what the cache serves, and the database for the others
  transition_state,  \* [Addr -> transition]
  bundle_state,
  canonical,         \* the bundle revm's merge alone would have built
  written,           \* the caller's database, which takes every bundle
  marks,             \* the state before each merge into the bundle
  reverting,         \* every merge of the bundle kept its reverts
  taken,             \* the last bundle given to the caller
  failed,            \* accounts changed by a list of balance changes that stopped half way
  ops

vars ==
  <<cached, info, transition_state, bundle_state, canonical, written, marks, reverting, taken,
    failed, ops>>

Infos == [balance : 0 .. MaxBalance, code : Hash \cup {NoCode}]
Unchanged == [changed |-> FALSE]
NoTransitions == [a \in Addr |-> Unchanged]
Transition(previous, present) == [changed |-> TRUE, previous |-> previous, present |-> present]

NoBundle == [state |-> [a \in {} |-> Unchanged], contracts |-> {}, reverts |-> <<>>,
             state_size |-> 0, reverts_size |-> 0]

Init ==
  /\ info \in [Addr -> [balance : {0, 1}, code : {NoCode}]]
  /\ cached = {} /\ transition_state = NoTransitions
  /\ bundle_state = NoBundle /\ canonical = NoBundle
  /\ written = info /\ marks = <<>> /\ reverting = TRUE /\ taken = NoBundle
  /\ failed = {} /\ ops = 0

-----------------------------------------------------------------------------
(* revm: transitions and the canonical merge                               *)

\* TransitionState::add_transitions: what was there first stays the previous one.
Added(ts, a, previous, present) ==
  [ts EXCEPT ![a] = Transition(IF ts[a].changed THEN ts[a].previous ELSE previous, present)]

\* has_new_contract, and create_revert: a change that was taken back has neither.
NewCode(t) == t.changed /\ t.present.code # NoCode /\ t.present.code # t.previous.code
HasRevert(t) == t.changed /\ t.present # t.previous

\* size_hint of an account and of a revert.
SizeOf(account) == IF account.code = NoCode THEN 1 ELSE 2

\* extend / insert into a map.
Put(f, g) == [x \in DOMAIN f \cup DOMAIN g |-> IF x \in DOMAIN g THEN g[x] ELSE f[x]]

\* apply_transitions_and_create_reverts, entry by entry.
Canonical(b, ts, reverts) ==
  LET changed == {a \in Addr : ts[a].changed}
      old == DOMAIN b.state
      before(a) == IF a \in old THEN b.state[a].info ELSE ts[a].previous
      reverted == {a \in changed : ts[a].present # before(a)}
      state == Put(b.state, [a \in (changed \cap old) \cup reverted |->
                 [original |-> IF a \in old THEN b.state[a].original ELSE ts[a].previous,
                  info |-> ts[a].present]])
      kept == IF reverts THEN reverted ELSE {} IN
  [state |-> state,
   contracts |-> b.contracts \cup {ts[a].present.code : a \in {c \in changed : NewCode(ts[c])}},
   reverts |-> Append(b.reverts, [a \in kept |-> before(a)]),
   state_size |-> MapThenSumSet(LAMBDA a : SizeOf(state[a].info), DOMAIN state),
   reverts_size |-> b.reverts_size + MapThenSumSet(LAMBDA a : SizeOf(before(a)), kept)]

-----------------------------------------------------------------------------
(* bundle.rs                                                               *)

\* Faulty variant: reverts are recorded and not counted.
ProcessedUncounted(t, reverts) ==
  [contracts |-> IF NewCode(t) THEN {t.present.code} ELSE {},
   account |-> HasRevert(t),
   present |-> [original |-> t.previous, info |-> t.present],
   revert |-> HasRevert(t) /\ reverts,
   state_size |-> SizeOf(t.present),
   revert_size |-> 0]

\* Faulty variant: an account that gets code has no revert.
ProcessedNoCreation(t, reverts) ==
  [contracts |-> IF NewCode(t) THEN {t.present.code} ELSE {},
   account |-> HasRevert(t),
   present |-> [original |-> t.previous, info |-> t.present],
   revert |-> HasRevert(t) /\ reverts /\ ~NewCode(t),
   state_size |-> SizeOf(t.present),
   revert_size |-> IF reverts THEN SizeOf(t.previous) ELSE 0]

\* The first phase: every transition on its own.
Processed(t, reverts) ==
  [contracts |-> IF NewCode(t) THEN {t.present.code} ELSE {},
   account |-> HasRevert(t),
   present |-> [original |-> t.previous, info |-> t.present],
   revert |-> HasRevert(t) /\ reverts,
   state_size |-> SizeOf(t.present),
   revert_size |-> IF reverts THEN SizeOf(t.previous) ELSE 0]

\* The second phase: the results go into the bundle.
Parallel(b, ts, reverts) ==
  LET changed == {a \in Addr : ts[a].changed}
      processed == [a \in changed |-> Processed(ts[a], reverts)]
      accounts == {a \in changed : processed[a].account}
      reverted == {a \in changed : processed[a].revert} IN
  [state |-> Put(b.state, [a \in accounts |-> processed[a].present]),
   contracts |-> b.contracts \cup UNION {processed[a].contracts : a \in changed},
   reverts |-> Append(b.reverts, [a \in reverted |-> ts[a].previous]),
   state_size |-> b.state_size + MapThenSumSet(LAMBDA a : processed[a].state_size, accounts),
   reverts_size |-> b.reverts_size + MapThenSumSet(LAMBDA a : processed[a].revert_size, accounts)]

\* parallel_apply_transitions_and_create_reverts.
Apply(b, ts, reverts) ==
  IF b.state # NoBundle.state \/ b.contracts # {} \/ b.reverts # <<>>
  THEN Canonical(b, ts, reverts)
  ELSE Parallel(b, ts, reverts)

-----------------------------------------------------------------------------
(* ParallelState                                                           *)

\* The state the caller has, or has been given in the bundle.
Merged == [a \in Addr |-> IF a \in DOMAIN bundle_state.state THEN bundle_state.state[a].info
                          ELSE written[a]]

Step == ops < MaxOps /\ ops' = ops + 1
bundles == <<bundle_state, canonical, written, marks, reverting, taken>>

\* A transaction changes an account; apply_transition.
Commit(a, after) ==
  /\ Step /\ after # info[a]
  /\ info[a].code # NoCode => after.code = info[a].code
  /\ cached' = cached \cup {a} /\ info' = [info EXCEPT ![a] = after]
  /\ transition_state' = Added(transition_state, a, info[a], after)
  /\ UNCHANGED <<bundles, failed>>

\* Faulty variant: an account that is loaded for the list gets no transition.
ChangedUntracked(acc, a, balance) ==
  LET after == [acc.info[a] EXCEPT !.balance = balance] IN
  [info |-> [acc.info EXCEPT ![a] = after],
   cached |-> acc.cached \cup {a},
   collected |-> IF a \in acc.cached THEN Added(acc.collected, a, acc.info[a], after)
                 ELSE acc.collected]

\* One entry of a list: the account is loaded and changed in the cache.
\* `collected` are the transitions for the accounts of the list so far.
Changed(acc, a, balance) ==
  LET after == [acc.info[a] EXCEPT !.balance = balance] IN
  [info |-> [acc.info EXCEPT ![a] = after],
   cached |-> acc.cached \cup {a},
   collected |-> Added(acc.collected, a, acc.info[a], after)]

\* increment_balance saturates; entries of zero are passed over.
Increment(acc, entry) ==
  IF entry.amount = 0 THEN acc
  ELSE Changed(acc, entry.addr, Min({acc.info[entry.addr].balance + entry.amount, MaxBalance}))

Drain(acc, a) == Changed(acc, a, 0)

Start == [info |-> info, cached |-> cached, collected |-> NoTransitions]

\* The transitions of a whole list, in order.
AddedAll(ts, new) ==
  [a \in Addr |-> IF ~new[a].changed THEN ts[a]
                  ELSE Added(ts, a, new[a].previous, new[a].present)[a]]

\* The list holds one or two entries: `one` and `two` are what they come to.  The
\* load of the second account, a, may fail, after the first was changed.
Balances(one, two, a) ==
  /\ Step
  /\ \/ /\ info' = two.info /\ cached' = two.cached
        /\ transition_state' = AddedAll(transition_state, two.collected)
        /\ UNCHANGED failed
     \/ /\ two # one /\ a \notin one.cached
        /\ info' = one.info /\ cached' = one.cached
        /\ failed' = failed \cup {x \in Addr : one.collected[x].changed}
        /\ UNCHANGED transition_state
  /\ UNCHANGED bundles

increment_balances(first, second) ==
  LET one == Increment(Start, first) IN Balances(one, Increment(one, second), second.addr)

drain_balances(a, b) == LET one == Drain(Start, a) IN Balances(one, Drain(one, b), b)

\* A new bundle begins.
Fresh == bundle_state = NoBundle

\* merge_transitions: revm's merge at the end of a block.
merge_transitions(reverts) ==
  /\ Step
  /\ bundle_state' = Canonical(bundle_state, transition_state, reverts)
  /\ canonical' = Canonical(IF Fresh THEN NoBundle ELSE canonical, transition_state, reverts)
  /\ marks' = Append(IF Fresh THEN <<>> ELSE marks, Merged)
  /\ reverting' = (reverts /\ (Fresh \/ reverting))
  /\ transition_state' = NoTransitions
  /\ UNCHANGED <<cached, info, written, taken, failed>>

\* The caller gets the bundle and writes it to the database.
Give(bundle) ==
  /\ taken' = bundle
  /\ written' = Put(written, [a \in DOMAIN bundle.state |-> bundle.state[a].info])
  /\ bundle_state' = NoBundle

\* Pending transitions are merged first.
parallel_take_bundle(reverts) ==
  /\ Step /\ transition_state' = NoTransitions
  /\ Give(Apply(bundle_state, transition_state, reverts))
  /\ canonical' = Canonical(IF Fresh THEN NoBundle ELSE canonical, transition_state, reverts)
  /\ marks' = Append(IF Fresh THEN <<>> ELSE marks, Merged)
  /\ reverting' = (reverts /\ (Fresh \/ reverting))
  /\ UNCHANGED <<cached, info, failed>>

take_bundle ==
  /\ Step /\ bundle_state # NoBundle
  /\ Give(bundle_state)
  /\ UNCHANGED <<cached, info, transition_state, canonical, marks, reverting, failed>>

AtBound == ops = MaxOps /\ UNCHANGED vars

Entries == [addr : Addr, amount : {0, 1}]

Next ==
  \/ \E a \in Addr, after \in Infos : Commit(a, after)
  \/ \E first, second \in Entries : increment_balances(first, second)
  \/ \E a, b \in Addr : drain_balances(a, b)
  \/ \E reverts \in BOOLEAN : merge_transitions(reverts) \/ parallel_take_bundle(reverts)
  \/ take_bundle \/ AtBound

Spec == Init /\ [][Next]_vars

-----------------------------------------------------------------------------
\* The bundle in the making, or the one just given away.
Current == IF Fresh THEN taken ELSE bundle_state

\* increment_balances ("Update will create transitions for all accounts that are
\* updated"), apply_transition and parallel_take_bundle: every change of the
\* cached state is in a pending transition, in the bundle or in the caller's
\* database.  A list of balance changes that stops half way drops the transitions
\* of the accounts it had changed by then, and of no other account, whatever is
\* committed, merged or taken afterwards.
ChangesAreTracked ==
  \A a \in Addr \ failed :
    info[a] = IF transition_state[a].changed THEN transition_state[a].present ELSE Merged[a]

\* parallel_apply_transitions_and_create_reverts: whatever was merged before and
\* with whichever retention, the bundle is the one revm's merge gives, its reverts
\* and cached sizes included.
MatchesCanonical == Current = canonical

\* create_revert: the reverts of each merge lead from the state after it to the
\* state before it, over all blocks of the bundle.
RevertsUndo ==
  reverting /\ failed = {} =>
    /\ Len(Current.reverts) = Len(marks)
    /\ \A i \in DOMAIN marks :
         Put(IF i = Len(marks) THEN Merged ELSE marks[i + 1], Current.reverts[i]) = marks[i]
=============================================================================
