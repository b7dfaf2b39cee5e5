-------------------------- MODULE TransactionProofs -------------------------
(***************************************************************************)
(* What surrounds the execution of a transaction: the facade and the       *)
(* adapter of custom precompiles, for every implementation, any number of  *)
(* operations and any addresses, keys and values; and the mutexes of the   *)
(* dependency graph, for every block and every number of workers.          *)
(***************************************************************************)
EXTENDS ParallelPrecompile, DependencyLocks, TLAPS

LOCAL INSTANCE WellFoundedInduction

-----------------------------------------------------------------------------
(* Precompiles: what the facade answers and what the adapter returns.       *)

\* The facade's fault is the first error the implementation was given, and a
\* static call has changed nothing.
FacadeInv ==
  /\ TypeOK
  /\ fault = first_error
  /\ FirstFaultDecides
  /\ StaticKeepsState

\* Init: a new journal satisfies the invariant.
LEMMA InitFacade == Init => FacadeInv
<1> SUFFICES ASSUME Init PROVE FacadeInv
  BY ZenonT(60)
<1>1. NoBalance \in [Addr -> Val] /\ NoSlots \in [Addr -> [Key -> Val]]
  BY ZenonT(60), PrecompileAssumption DEF NoBalance, NoSlots
<1>2. saved \in [balance : [Addr -> Val], slots : [Addr -> [Key -> Val]]]
  BY ZenonT(60), <1>1 DEF Init
<1> QED
  BY ZenonT(60), <1>1, <1>2 DEF Init, FacadeInv, TypeOK, FirstFaultDecides, StaticKeepsState, Faults

\* Every operation of the facade, and the adapter's answer, keep the invariant.
LEMMA StepFacade == FacadeInv /\ [Next]_vars => FacadeInv'
<1> SUFFICES ASSUME FacadeInv, [Next]_vars PROVE FacadeInv'
  BY ZenonT(60)
<1> USE PrecompileAssumption DEF FacadeInv, TypeOK, Faults
<1>1. ASSUME NEW static \in BOOLEAN, Call(static) PROVE FacadeInv'
  BY ZenonT(60), <1>1 DEF Call, FirstFaultDecides, StaticKeepsState
<1>2. CASE Refused
  BY <1>2 DEF Refused, Enter, FirstFaultDecides, StaticKeepsState
<1>3. CASE RefusedStatic
  BY <1>3 DEF RefusedStatic, Enter, record_fault, FirstFaultDecides, StaticKeepsState
<1>4. ASSUME NEW a \in Addr, Load(a) PROVE FacadeInv'
  BY <1>4 DEF Load, Enter, FirstFaultDecides, StaticKeepsState
<1>5. ASSUME NEW a \in Addr, LoadFails(a) PROVE FacadeInv'
  BY <1>5 DEF LoadFails, Enter, record_fault, FirstFaultDecides, StaticKeepsState
<1>6. ASSUME NEW a \in Addr, NEW v \in Val, set_balance(a, v) PROVE FacadeInv'
  BY <1>6 DEF set_balance, Enter, ensure_mutable, FirstFaultDecides, StaticKeepsState
<1>7. ASSUME NEW a \in Addr, NEW k \in Key, NEW v \in Val, sstore(a, k, v) PROVE FacadeInv'
  BY <1>7 DEF sstore, Enter, ensure_mutable, FirstFaultDecides, StaticKeepsState
<1>8. ASSUME NEW r \in Faults \cup {"ok"}, Finish(r) PROVE FacadeInv'
  BY ZenonT(60), <1>8 DEF Finish, to_alloy_result, FirstFaultDecides, StaticKeepsState
<1>9. ASSUME NEW r \in Faults \cup {"ok"}, Discard(r) PROVE FacadeInv'
  BY ZenonT(60), <1>9 DEF Discard, to_alloy_result, FirstFaultDecides, StaticKeepsState,
     NoBalance, NoSlots
<1>10. CASE UNCHANGED vars
  BY ZenonT(60), <1>10 DEF vars, FirstFaultDecides, StaticKeepsState
<1> QED
  BY ZenonT(60), <1>1, <1>2, <1>3, <1>4, <1>5, <1>6, <1>7, <1>8, <1>9, <1>10 DEF Next

\* to_alloy, record_fault: no implementation can turn an error it was given
\* into another answer.
THEOREM FirstFaultAlwaysDecides == Spec => []FirstFaultDecides
<1>1. FacadeInv => FirstFaultDecides
  BY ZenonT(60) DEF FacadeInv
<1> QED
  BY <1>1, InitFacade, StepFacade, PTL DEF Spec

\* ensure_mutable: no implementation changes the state in a static call.
THEOREM StaticNeverWrites == Spec => []StaticKeepsState
<1>1. FacadeInv => StaticKeepsState
  BY ZenonT(60) DEF FacadeInv
<1> QED
  BY <1>1, InitFacade, StepFacade, PTL DEF Spec

\* ensure_healthy: after its first error an implementation can neither load
\* nor change anything.
THEOREM FaultIsSticky == Spec => NothingAfterFault
<1>1. [Next]_vars =>
        [fault # NoFault /\ pc = "call" /\ pc' = "call" => UNCHANGED <<state, loaded, fault>>]_vars
  BY ZenonT(60) DEF Next, vars, state, Call, Refused, RefusedStatic, Load, LoadFails, set_balance,
     sstore,
         Finish, Discard, Enter, ensure_healthy, ensure_mutable
<1> QED
  BY <1>1, PTL DEF Spec, NothingAfterFault

-----------------------------------------------------------------------------
(* The mutexes of the dependency graph: no circle of threads waits for each *)
(* other, and no transaction is stranded however the steps of next, remove, *)
(* add, key_tx and commit interleave.                                       *)

StateLock(t) == <<"state", t>>
AffectLock(t) == <<"affect", t>>

\* What a thread holds.
HoldsOnly(w, M) == \A m \in Mutexes : held[m] = w <=> m \in M

\* A thread waits for the last mutex, or holds it.
WaitsOrHolds(w, M, m) ==
  \/ call[w].want = << m >> /\ HoldsOnly(w, M)
  \/ call[w].want = <<>> /\ HoldsOnly(w, M \cup {m})

\* How far a call is: which mutexes it holds and which it still wants.
IdleStage(w) ==
  call[w].op \in {"idle", "next?"} /\ call[w].want = <<>> /\ HoldsOnly(w, {})

StateStage(w) ==
  /\ call[w].op \in {"next", "commit", "key_tx", "key_tx set", "add none"}
  /\ call[w].tx \in Txs
  /\ WaitsOrHolds(w, {}, StateLock(call[w].tx))
  /\ call[w].op = "key_tx set" => call[w].want = <<>>

RemoveStage(w) ==
  /\ call[w].op = "remove" /\ call[w].tx \in Txs
  /\ WaitsOrHolds(w, {}, AffectLock(call[w].tx))

VisitStage(w) ==
  /\ call[w].op = "visit" /\ call[w].tx \in Txs
  /\ call[w].want = <<>> /\ HoldsOnly(w, {AffectLock(call[w].tx)})

ReleaseStage(w) ==
  /\ call[w].op = "release" /\ call[w].tx \in Txs /\ call[w].dep \in Txs
  /\ WaitsOrHolds(w, {AffectLock(call[w].tx)}, StateLock(call[w].dep))

AddStage(w) ==
  LET t == call[w].tx  d == call[w].dep IN
  /\ call[w].op = "add" /\ t \in Txs /\ d \in Txs /\ d < t
  /\ \/ call[w].want = << AffectLock(d), StateLock(d), StateLock(t) >> /\ HoldsOnly(w, {})
     \/ call[w].want = << StateLock(d), StateLock(t) >> /\ HoldsOnly(w, {AffectLock(d)})
     \/ WaitsOrHolds(w, {AffectLock(d), StateLock(d)}, StateLock(t))

Stage(w) ==
  \/ IdleStage(w) \/ StateStage(w) \/ RemoveStage(w) \/ VisitStage(w) \/ ReleaseStage(w)
  \/ AddStage(w)

Ops ==
  {"idle", "next?", "next", "commit", "key_tx", "key_tx set", "add none", "remove", "visit",
   "release", "add"}

Calls ==
  [op : Ops, tx : Nat, dep : Txs \cup {None}, want : Seq(Mutexes), todo : SUBSET Txs,
   seen : Nat]

LocksTypeOK ==
  /\ onboard \in [Txs -> BOOLEAN] /\ dependency \in [Txs -> Txs \cup {None}]
  /\ affect_txs \in [Txs -> SUBSET Txs]
  /\ index \in Nat /\ commit_idx \in Nat
  /\ held \in [Mutexes -> Threads \cup {None}]
  /\ call \in [Threads -> Calls]

StageInv == LocksTypeOK /\ \A w \in Threads : Stage(w)

-----------------------------------------------------------------------------
\* The dependents of a transaction that remove has still to visit.
RemovalKnows(w) ==
  call[w].op \in {"visit", "release"} =>
    \A t \in Txs : call[w].tx < t /\ dependency[t] = call[w].tx => t \in call[w].todo

\* The boundary key_tx has read is still the last one before its transaction, or
\* the commit waits for the lock.
BoundaryHolds(w) ==
  call[w].op = "key_tx set" =>
    \/ call[w].tx <= call[w].seen
    \/ commit_idx < call[w].tx
    \/ call[Committer].op = "commit" /\ call[Committer].tx = call[w].tx

\* Only the commit thread commits, and it is at the published boundary.
CommitterInv ==
  /\ call[Committer].op \in {"idle", "commit"}
  /\ call[Committer].op = "commit" => call[Committer].tx = commit_idx
  /\ \A w \in Workers : call[w].op # "commit"

\* What is blocked is scheduled.
BlockedIsOnboard == \A t \in Txs : dependency[t] # None => onboard[t]

GraphInv ==
  /\ NothingStranded /\ BlockedIsOnboard /\ CommitterInv
  /\ \A w \in Threads : RemovalKnows(w) /\ BoundaryHolds(w)

LocksInv == StageInv /\ GraphInv

-----------------------------------------------------------------------------
(* The mutexes                                                             *)

\* The threads are told apart.
LEMMA ThreadFacts ==
  /\ N \in Nat /\ Committer \in Threads /\ Workers \subseteq Threads
  /\ None \notin Threads /\ None \notin Txs /\ Committer \notin Workers
BY LocksAssumption DEF Threads, Committer, Txs

\* dependent_state[t] and affect_txs[t] are mutexes, all of them different.
LEMMA LockFacts ==
  ASSUME NEW t \in Txs, NEW d \in Txs
  PROVE  /\ StateLock(t) \in Mutexes /\ AffectLock(t) \in Mutexes
         /\ StateLock(t) # AffectLock(d)
         /\ StateLock(t) = StateLock(d) => t = d
         /\ AffectLock(t) = AffectLock(d) => t = d
BY ZenonT(60) DEF StateLock, AffectLock, Mutexes

\* A thread that does not move and holds what it held is where it was.
LEMMA OthersKeep ==
  ASSUME NEW v \in Threads, Stage(v), call'[v] = call[v],
         \A m \in Mutexes : held'[m] = v <=> held[m] = v
  PROVE  Stage(v)'
<1>1. ASSUME NEW M PROVE HoldsOnly(v, M)' = HoldsOnly(v, M)
  BY ZenonT(60) DEF HoldsOnly
<1>2. ASSUME NEW M, NEW m PROVE WaitsOrHolds(v, M, m)' = WaitsOrHolds(v, M, m)
  BY ZenonT(60), <1>1 DEF WaitsOrHolds, HoldsOnly
<1> QED
  BY ZenonT(60), <1>1, <1>2 DEF Stage, IdleStage, StateStage, RemoveStage, VisitStage,
     ReleaseStage, AddStage

\* A step that changes neither calls nor mutexes keeps the lock discipline.
LEMMA SameStages ==
  ASSUME StageInv, LocksTypeOK', call' = call, held' = held
  PROVE  StageInv'
BY ZenonT(60), OthersKeep DEF StageInv

\* A step of one thread keeps the lock discipline when that thread's new stage is
\* one.
LEMMA KeepStages ==
  ASSUME StageInv, NEW w \in Threads, LocksTypeOK', Stage(w)',
         \A v \in Threads \ {w} : call'[v] = call[v],
         \A m \in Mutexes : held'[m] = held[m] \/ {held[m], held'[m]} \subseteq {w, None}
  PROVE  StageInv'
<1>1. ASSUME NEW v \in Threads PROVE Stage(v)'
  <2>1. CASE v = w
    BY ZenonT(60), <2>1
  <2>2. CASE v # w
    <3>1. \A m \in Mutexes : held'[m] = v <=> held[m] = v
      BY ZenonT(60), <2>2, ThreadFacts
    <3> QED
      BY ZenonT(60), <2>2, <3>1, OthersKeep DEF StageInv
  <2> QED
    BY ZenonT(60), <2>1, <2>2
<1> QED
  BY ZenonT(60), <1>1 DEF StageInv

\* A call begins, or an idle one claims: nothing is held yet.
LEMMA BeginStages ==
  ASSUME StageInv, NEW w \in Threads, NEW c \in Calls,
         call[w].op \in {"idle", "next?"}, call' = [call EXCEPT ![w] = c], held' = held,
         onboard' = onboard, dependency' = dependency, affect_txs' = affect_txs,
         index' \in Nat, commit_idx' \in Nat,
         HoldsOnly(w, {})' => Stage(w)'
  PROVE  StageInv'
<1>1. Stage(w) /\ call \in [Threads -> Calls]
  BY ZenonT(60) DEF StageInv, LocksTypeOK
<1>2. HoldsOnly(w, {})
  BY ZenonT(60), <1>1 DEF Stage, IdleStage, StateStage, RemoveStage, VisitStage, ReleaseStage,
     AddStage
<1>3. HoldsOnly(w, {})'
  BY ZenonT(60), <1>2 DEF HoldsOnly
<1>4. LocksTypeOK'
  BY ZenonT(60), <1>1 DEF StageInv, LocksTypeOK
<1>5. \A v \in Threads \ {w} : call'[v] = call[v]
  BY ZenonT(60), <1>1
<1> QED
  BY ZenonT(60), <1>3, <1>4, <1>5, KeepStages

\* A call returns: its guards are dropped.
LEMMA EndStages ==
  ASSUME StageInv, NEW w \in Threads, EndCall(w),
         onboard' \in [Txs -> BOOLEAN], dependency' \in [Txs -> Txs \cup {None}],
         affect_txs' \in [Txs -> SUBSET Txs], index' \in Nat, commit_idx' \in Nat
  PROVE  StageInv'
<1>1. /\ call \in [Threads -> Calls] /\ held \in [Mutexes -> Threads \cup {None}]
      /\ call' = [call EXCEPT ![w] = Idle]
      /\ held' = [m \in Mutexes |-> IF held[m] = w THEN None ELSE held[m]]
  BY ZenonT(60) DEF StageInv, LocksTypeOK, EndCall, Free
<1>2. Idle \in Calls /\ Idle.op = "idle" /\ Idle.want = <<>>
  BY DEF Idle, Calls, Ops
<1>3. call' \in [Threads -> Calls] /\ call'[w] = Idle
      /\ \A v \in Threads \ {w} : call'[v] = call[v]
  BY ZenonT(60), <1>1, <1>2
<1>4. held' \in [Mutexes -> Threads \cup {None}] /\ HoldsOnly(w, {})'
  BY ZenonT(60), <1>1, ThreadFacts DEF HoldsOnly
<1>5. Stage(w)'
  BY ZenonT(60), <1>2, <1>3, <1>4 DEF Stage, IdleStage
<1>6. \A m \in Mutexes : held'[m] = held[m] \/ {held[m], held'[m]} \subseteq {w, None}
  BY ZenonT(60), <1>1
<1>7. LocksTypeOK'
  BY ZenonT(60), <1>3, <1>4 DEF LocksTypeOK
<1> QED
  BY ZenonT(60), <1>3, <1>5, <1>6, <1>7, KeepStages

\* The wanted mutexes one after the other.
LEMMA WantFacts ==
  /\ \A a : << a >> # <<>> /\ Head(<< a >>) = a /\ Tail(<< a >>) = <<>>
  /\ \A a, b : << a, b >> # <<>> /\ Head(<< a, b >>) = a /\ Tail(<< a, b >>) = << b >>
  /\ \A a, b, c : /\ << a, b, c >> # <<>> /\ Head(<< a, b, c >>) = a
                  /\ Tail(<< a, b, c >>) = << b, c >>
OBVIOUS

\* The next mutex of a call is taken.
LEMMA LockStages ==
  ASSUME StageInv, NEW w \in Threads, Lock(w)
  PROVE  StageInv'
<1>0. PICK m : m = Head(call[w].want)
  BY ZenonT(60)
<1>1. /\ call \in [Threads -> Calls] /\ held \in [Mutexes -> Threads \cup {None}] /\ Stage(w)
      /\ call[w].want # <<>> /\ held[m] = None
      /\ held' = [held EXCEPT ![m] = w]
      /\ call' = [call EXCEPT ![w].want = Tail(@)]
  BY ZenonT(60), <1>0 DEF StageInv, LocksTypeOK, Lock
<1>2. call[w] \in Calls
  BY ZenonT(60), <1>1
<1>3. m \in Mutexes /\ Tail(call[w].want) \in Seq(Mutexes)
  <2>1. call[w].want \in Seq(Mutexes)
    BY ZenonT(60), <1>2 DEF Calls
  <2> QED
    BY <1>0, <1>1, <2>1
<1>4. /\ call' \in [Threads -> Calls]
      /\ call'[w] = [call[w] EXCEPT !.want = Tail(@)]
      /\ \A v \in Threads \ {w} : call'[v] = call[v]
  BY ZenonT(60), <1>1, <1>2, <1>3 DEF Calls
<1>5. /\ call'[w].op = call[w].op /\ call'[w].tx = call[w].tx /\ call'[w].dep = call[w].dep
      /\ call'[w].want = Tail(call[w].want)
  BY ZenonT(60), <1>2, <1>4 DEF Calls
<1>6. /\ held' \in [Mutexes -> Threads \cup {None}] /\ held'[m] = w
      /\ \A k \in Mutexes \ {m} : held'[k] = held[k]
  BY ZenonT(60), <1>1, <1>3
<1>7. ASSUME NEW M, HoldsOnly(w, M) PROVE HoldsOnly(w, M \cup {m})'
  BY <1>6, <1>7 DEF HoldsOnly
<1>8. ASSUME NEW M, NEW k, WaitsOrHolds(w, M, k)
      PROVE  WaitsOrHolds(w, M, k)' /\ call'[w].want = <<>>
  <2>1. call[w].want = << k >> /\ HoldsOnly(w, M)
    BY ZenonT(60), <1>1, <1>8 DEF WaitsOrHolds
  <2>2. k = m /\ call'[w].want = <<>>
    BY ZenonT(60), <1>0, <1>5, <2>1, WantFacts
  <2>3. HoldsOnly(w, M \cup {m})'
    BY ZenonT(60), <1>7, <2>1
  <2> QED
    BY ZenonT(60), <2>2, <2>3 DEF WaitsOrHolds
<1>9. Stage(w)'
  <2>1. CASE IdleStage(w)
    BY ZenonT(60), <1>1, <2>1 DEF IdleStage
  <2>2. CASE StateStage(w)
    BY ZenonT(60), <1>1, <1>5, <1>8, <2>2 DEF StateStage, Stage
  <2>3. CASE RemoveStage(w)
    BY ZenonT(60), <1>5, <1>8, <2>3 DEF RemoveStage, Stage
  <2>4. CASE VisitStage(w)
    BY ZenonT(60), <1>1, <2>4 DEF VisitStage
  <2>5. CASE ReleaseStage(w)
    BY ZenonT(60), <1>5, <1>8, <2>5 DEF ReleaseStage, Stage
  <2>6. CASE AddStage(w)
    <3>0. PICK t \in Txs, d \in Txs :
             t = call[w].tx /\ d = call[w].dep /\ call[w].op = "add" /\ d < t
      BY ZenonT(60), <2>6 DEF AddStage
    <3>1. CASE call[w].want = << AffectLock(d), StateLock(d), StateLock(t) >> /\ HoldsOnly(w, {})
      <4>1. m = AffectLock(d) /\ call'[w].want = << StateLock(d), StateLock(t) >>
        BY <1>0, <1>5, <3>1, WantFacts
      <4>2. HoldsOnly(w, {AffectLock(d)})'
        <5>1. HoldsOnly(w, {} \cup {m})'
          BY ZenonT(60), <1>7, <3>1
        <5> QED
          BY ZenonT(60), <4>1, <5>1 DEF HoldsOnly
      <4> QED
        BY ZenonT(60), <1>5, <3>0, <4>1, <4>2 DEF AddStage, Stage
    <3>2. CASE call[w].want = << StateLock(d), StateLock(t) >> /\ HoldsOnly(w, {AffectLock(d)})
      <4>1. m = StateLock(d) /\ call'[w].want = << StateLock(t) >>
        BY ZenonT(60), <1>0, <1>5, <3>2, WantFacts
      <4>2. HoldsOnly(w, {AffectLock(d), StateLock(d)})'
        <5>1. HoldsOnly(w, {AffectLock(d)} \cup {m})'
          BY ZenonT(60), <1>7, <3>2
        <5> QED
          BY ZenonT(60), <4>1, <5>1 DEF HoldsOnly
      <4> QED
        BY ZenonT(60), <1>5, <3>0, <4>1, <4>2 DEF AddStage, Stage, WaitsOrHolds
    <3>3. CASE WaitsOrHolds(w, {AffectLock(d), StateLock(d)}, StateLock(t))
      BY ZenonT(60), <1>5, <1>8, <3>0, <3>3 DEF AddStage, Stage
    <3> QED
      BY ZenonT(60), <2>6, <3>0, <3>1, <3>2, <3>3 DEF AddStage
  <2> QED
    BY ZenonT(60), <1>1, <2>1, <2>2, <2>3, <2>4, <2>5, <2>6 DEF Stage
<1>10. \A k \in Mutexes : held'[k] = held[k] \/ {held[k], held'[k]} \subseteq {w, None}
  BY ZenonT(60), <1>1, <1>6
<1>11. LocksTypeOK'
  BY ZenonT(60), <1>4, <1>6 DEF Lock, StageInv, LocksTypeOK, graph
<1> QED
  BY ZenonT(60), <1>4, <1>9, <1>10, <1>11, KeepStages

\* A new call has the fields it was made of.
LEMMA OpFacts ==
  ASSUME NEW op \in Ops, NEW t \in Nat, NEW d \in Txs \cup {None}, NEW want \in Seq(Mutexes)
  PROVE  /\ Op(op, t, d, want) \in Calls
         /\ Op(op, t, d, want).op = op /\ Op(op, t, d, want).tx = t
         /\ Op(op, t, d, want).dep = d /\ Op(op, t, d, want).want = want
         /\ Op(op, t, d, want).todo = {} /\ Op(op, t, d, want).seen = 0
BY ZenonT(60) DEF Op, Calls

\* A call of one of next, remove, commit, key_tx and add starts: it holds nothing.
LEMMA CallStages ==
  ASSUME StageInv, NEW w \in Threads, NEW op \in Ops, NEW t \in Nat, NEW d \in Txs \cup {None},
         NEW want \in Seq(Mutexes), call[w].op \in {"idle", "next?"},
         call' = [call EXCEPT ![w] = Op(op, t, d, want)],
         UNCHANGED <<onboard, dependency, affect_txs, held>>, index' \in Nat, commit_idx' \in Nat,
         \/ op \in {"idle", "next?"} /\ want = <<>>
         \/ op \in {"next", "commit", "key_tx", "add none"} /\ t \in Txs /\ want = << StateLock(t) >>
         \/ op = "remove" /\ t \in Txs /\ want = << AffectLock(t) >>
         \/ /\ op = "add" /\ t \in Txs /\ d \in Txs /\ d < t
            /\ want = << AffectLock(d), StateLock(d), StateLock(t) >>
  PROVE  StageInv'
<1> DEFINE c == Op(op, t, d, want)
<1>1. c \in Calls /\ c.op = op /\ c.tx = t /\ c.dep = d /\ c.want = want
  BY ZenonT(60) DEF Op, Calls
<1>2. call'[w] = c
  BY ZenonT(60) DEF StageInv, LocksTypeOK
<1> HIDE DEF c
<1>3. ASSUME HoldsOnly(w, {})' PROVE Stage(w)'
  <2>1. CASE op \in {"idle", "next?"}
    BY ZenonT(60), <1>1, <1>2, <1>3, <2>1 DEF Stage, IdleStage
  <2>2. CASE op \in {"next", "commit", "key_tx", "add none"}
    BY ZenonT(60), <1>1, <1>2, <1>3, <2>2 DEF Stage, StateStage, WaitsOrHolds
  <2>3. CASE op = "remove"
    BY ZenonT(60), <1>1, <1>2, <1>3, <2>3 DEF Stage, RemoveStage, WaitsOrHolds
  <2>4. CASE op = "add"
    BY ZenonT(60), <1>1, <1>2, <1>3, <2>4 DEF Stage, AddStage
  <2> QED
    BY ZenonT(60), <2>1, <2>2, <2>3, <2>4
<1> QED
  BY ZenonT(60), <1>1, <1>3, BeginStages DEF c

\* In the body of a call its mutexes are held.
LEMMA BodyFacts ==
  ASSUME StageInv, NEW w \in Threads, call[w].want = <<>>
  PROVE  /\ call[w] \in Calls
         /\ call[w].op \in {"next", "commit", "key_tx", "key_tx set", "add none"} =>
              call[w].tx \in Txs /\ HoldsOnly(w, {StateLock(call[w].tx)})
         /\ call[w].op \in {"remove", "visit"} =>
              call[w].tx \in Txs /\ HoldsOnly(w, {AffectLock(call[w].tx)})
         /\ call[w].op = "release" =>
              /\ call[w].tx \in Txs /\ call[w].dep \in Txs
              /\ HoldsOnly(w, {AffectLock(call[w].tx), StateLock(call[w].dep)})
         /\ call[w].op = "add" =>
              /\ call[w].tx \in Txs /\ call[w].dep \in Txs /\ call[w].dep < call[w].tx
              /\ HoldsOnly(w, {AffectLock(call[w].dep), StateLock(call[w].dep),
                               StateLock(call[w].tx)})
<1>1. Stage(w) /\ call[w] \in Calls
  BY ZenonT(60) DEF StageInv, LocksTypeOK
<1>2. ASSUME NEW M, NEW m, WaitsOrHolds(w, M, m) PROVE HoldsOnly(w, M \cup {m})
  BY ZenonT(60), <1>2, WantFacts DEF WaitsOrHolds
<1>3. CASE IdleStage(w)
  BY ZenonT(60), <1>1, <1>3 DEF IdleStage
<1>4. CASE StateStage(w)
  <2>1. HoldsOnly(w, {} \cup {StateLock(call[w].tx)})
    BY ZenonT(60), <1>2, <1>4 DEF StateStage
  <2> QED
    BY ZenonT(60), <1>1, <1>4, <2>1 DEF StateStage, HoldsOnly
<1>5. CASE RemoveStage(w)
  <2>1. HoldsOnly(w, {} \cup {AffectLock(call[w].tx)})
    BY ZenonT(60), <1>2, <1>5 DEF RemoveStage
  <2> QED
    BY ZenonT(60), <1>1, <1>5, <2>1 DEF RemoveStage, HoldsOnly
<1>6. CASE VisitStage(w)
  BY ZenonT(60), <1>1, <1>6 DEF VisitStage
<1>7. CASE ReleaseStage(w)
  <2>1. HoldsOnly(w, {AffectLock(call[w].tx)} \cup {StateLock(call[w].dep)})
    BY ZenonT(60), <1>2, <1>7 DEF ReleaseStage
  <2> QED
    BY ZenonT(60), <1>1, <1>7, <2>1 DEF ReleaseStage, HoldsOnly
<1>8. CASE AddStage(w)
  <2>1. WaitsOrHolds(w, {AffectLock(call[w].dep), StateLock(call[w].dep)}, StateLock(call[w].tx))
    BY ZenonT(60), <1>8, WantFacts DEF AddStage
  <2>2. HoldsOnly(w, {AffectLock(call[w].dep), StateLock(call[w].dep)} \cup {StateLock(call[w].tx)})
    BY ZenonT(60), <1>2, <2>1
  <2> QED
    BY ZenonT(60), <1>1, <1>8, <2>2 DEF AddStage, HoldsOnly
<1> QED
  BY ZenonT(60), <1>1, <1>3, <1>4, <1>5, <1>6, <1>7, <1>8 DEF Stage

\* A step inside a call: the thread moves on with what it holds.
LEMMA InnerStages ==
  ASSUME StageInv, NEW w \in Threads, NEW c \in Calls, call' = [call EXCEPT ![w] = c],
         Stage(w)',
         \/ held' = held
         \/ \E m \in Mutexes : held[m] = w /\ held' = [held EXCEPT ![m] = None],
         onboard' \in [Txs -> BOOLEAN], dependency' \in [Txs -> Txs \cup {None}],
         affect_txs' = affect_txs, index' \in Nat, commit_idx' = commit_idx
  PROVE  StageInv'
<1>1. call \in [Threads -> Calls] /\ held \in [Mutexes -> Threads \cup {None}]
  BY ZenonT(60) DEF StageInv, LocksTypeOK
<1>2. /\ held' \in [Mutexes -> Threads \cup {None}]
      /\ \A m \in Mutexes : held'[m] = held[m] \/ {held[m], held'[m]} \subseteq {w, None}
  <2>1. CASE held' = held
    BY ZenonT(60), <1>1, <2>1
  <2>2. CASE \E m \in Mutexes : held[m] = w /\ held' = [held EXCEPT ![m] = None]
    BY ZenonT(60), <1>1, <2>2
  <2> QED
    BY ZenonT(60), <2>1, <2>2
<1>3. call' \in [Threads -> Calls] /\ \A v \in Threads \ {w} : call'[v] = call[v]
  BY ZenonT(60), <1>1
<1>4. LocksTypeOK'
  BY ZenonT(60), <1>2, <1>3 DEF StageInv, LocksTypeOK
<1> QED
  BY ZenonT(60), <1>2, <1>3, <1>4, KeepStages

\* remove: the visit of the dependents.
LEMMA RemoveLoopStages ==
  ASSUME StageInv, NEW w \in Threads, RemoveLoop(w)
  PROVE  StageInv'
<1>1. /\ call[w] \in Calls /\ call[w].want = <<>> /\ call[w].op = "remove"
      /\ call[w].tx \in Txs /\ HoldsOnly(w, {AffectLock(call[w].tx)})
  BY ZenonT(60), BodyFacts DEF RemoveLoop, At
<1>2. LocksTypeOK /\ UNCHANGED <<onboard, dependency, affect_txs, index, commit_idx>>
  BY ZenonT(60) DEF RemoveLoop, StageInv, graph
<1>3. CASE affect_txs[call[w].tx] = {}
  <2>1. EndCall(w)
    BY ZenonT(60), <1>3 DEF RemoveLoop
  <2> QED
    BY ZenonT(60), <1>2, <2>1, EndStages DEF LocksTypeOK
<1>4. CASE affect_txs[call[w].tx] # {}
  <2> DEFINE c == [call[w] EXCEPT !.op = "visit", !.todo = affect_txs[call[w].tx]]
  <2>1. call' = [call EXCEPT ![w] = c] /\ held' = held
    BY ZenonT(60), <1>4 DEF RemoveLoop
  <2>2. c \in Calls /\ c.op = "visit" /\ c.tx = call[w].tx /\ c.want = <<>>
    BY ZenonT(60), <1>1, <1>2 DEF Calls, LocksTypeOK, Ops
  <2>3. call'[w] = c
    BY ZenonT(60), <1>2, <2>1 DEF LocksTypeOK
  <2> HIDE DEF c
  <2>4. Stage(w)'
    BY ZenonT(60), <1>1, <2>1, <2>2, <2>3 DEF Stage, VisitStage, HoldsOnly
  <2> QED
    BY ZenonT(60), <1>2, <2>1, <2>2, <2>4, InnerStages DEF LocksTypeOK
<1> QED
  BY ZenonT(60), <1>3, <1>4

\* remove: the next dependent is picked, its state is waited for.
LEMMA VisitStages ==
  ASSUME StageInv, NEW w \in Threads, NEW t \in Txs, Visit(w, t)
  PROVE  StageInv'
<1>1. /\ call[w] \in Calls /\ call[w].want = <<>> /\ call[w].op = "visit"
      /\ call[w].tx \in Txs /\ HoldsOnly(w, {AffectLock(call[w].tx)})
  BY ZenonT(60), BodyFacts DEF Visit, At
<1>2. LocksTypeOK /\ UNCHANGED <<onboard, dependency, affect_txs, index, commit_idx, held>>
  BY ZenonT(60) DEF Visit, StageInv, graph
<1> DEFINE c == [call[w] EXCEPT !.op = "release", !.dep = t, !.want = << StateLock(t) >>]
<1>3. call' = [call EXCEPT ![w] = c]
  BY ZenonT(60) DEF Visit, StateLock
<1>4. << StateLock(t) >> \in Seq(Mutexes)
  BY LockFacts
<1>5. /\ c \in Calls /\ c.op = "release" /\ c.tx = call[w].tx /\ c.dep = t
      /\ c.want = << StateLock(t) >>
  BY ZenonT(60), <1>1, <1>4 DEF Calls, Ops
<1>6. call'[w] = c
  BY ZenonT(60), <1>2, <1>3 DEF LocksTypeOK
<1> HIDE DEF c
<1>7. Stage(w)'
  BY ZenonT(60), <1>1, <1>2, <1>5, <1>6 DEF Stage, ReleaseStage, WaitsOrHolds, HoldsOnly
<1> QED
  BY ZenonT(60), <1>2, <1>3, <1>5, <1>7, InnerStages DEF LocksTypeOK

\* remove: a dependent's state is unlocked again, the reverse edges stay locked.
LEMMA ReleaseStages ==
  ASSUME StageInv, NEW w \in Threads, NEW pop_next \in BOOLEAN, Release(w, pop_next)
  PROVE  StageInv'
<1> DEFINE t == call[w].dep
<1>1. /\ call[w] \in Calls /\ call[w].want = <<>> /\ call[w].op = "release"
      /\ call[w].tx \in Txs /\ t \in Txs
      /\ HoldsOnly(w, {AffectLock(call[w].tx), StateLock(t)})
  BY ZenonT(60), BodyFacts DEF Release, At
<1>2. LocksTypeOK /\ affect_txs' = affect_txs /\ commit_idx' = commit_idx
  BY ZenonT(60) DEF Release, StageInv
<1>3. /\ dependency' \in [Txs -> Txs \cup {None}] /\ onboard' \in [Txs -> BOOLEAN]
      /\ index' \in Nat
  BY <1>1, <1>2 DEF Release, LocksTypeOK, fetch_min, Txs
<1> DEFINE c == [call[w] EXCEPT !.op = "visit", !.todo = @ \ {t}]
<1>4. /\ call' = [call EXCEPT ![w] = c]
      /\ held' = [held EXCEPT ![StateLock(t)] = None]
  BY ZenonT(60) DEF Release, StateLock
<1>5. c \in Calls /\ c.op = "visit" /\ c.tx = call[w].tx /\ c.want = <<>>
  BY ZenonT(60), <1>1 DEF Calls, Ops
<1>6. call'[w] = c
  BY ZenonT(60), <1>2, <1>4 DEF LocksTypeOK
<1> HIDE DEF c
<1>7. /\ StateLock(t) \in Mutexes /\ AffectLock(call[w].tx) # StateLock(t)
      /\ held[StateLock(t)] = w
  BY ZenonT(60), <1>1, LockFacts DEF HoldsOnly
<1>8. /\ held'[StateLock(t)] = None
      /\ \A m \in Mutexes : m # StateLock(t) => held'[m] = held[m]
  BY ZenonT(60), <1>2, <1>4, <1>7 DEF LocksTypeOK
<1>9. \A m \in Mutexes : held'[m] = w <=> m = AffectLock(call[w].tx)
  BY ZenonT(60), <1>1, <1>7, <1>8, ThreadFacts DEF HoldsOnly
<1>10. Stage(w)'
  BY ZenonT(60), <1>1, <1>5, <1>6, <1>9 DEF Stage, VisitStage, HoldsOnly
<1> QED
  BY ZenonT(60), <1>2, <1>3, <1>4, <1>5, <1>7, <1>10, InnerStages

\* key_tx reads the boundary under the lock.
LEMMA ReadCommitStages ==
  ASSUME StageInv, NEW w \in Threads, ReadCommit(w)
  PROVE  StageInv'
<1>1. /\ call[w] \in Calls /\ call[w].want = <<>> /\ call[w].op = "key_tx"
      /\ call[w].tx \in Txs /\ HoldsOnly(w, {StateLock(call[w].tx)})
  BY ZenonT(60), BodyFacts DEF ReadCommit, At
<1>2. LocksTypeOK /\ UNCHANGED <<onboard, dependency, affect_txs, index, commit_idx, held>>
  BY ZenonT(60) DEF ReadCommit, StageInv, graph
<1> DEFINE c == [call[w] EXCEPT !.op = "key_tx set", !.seen = commit_idx]
<1>3. call' = [call EXCEPT ![w] = c]
  BY ZenonT(60) DEF ReadCommit
<1>4. c \in Calls /\ c.op = "key_tx set" /\ c.tx = call[w].tx /\ c.want = <<>>
  BY ZenonT(60), <1>1, <1>2 DEF Calls, Ops, LocksTypeOK
<1>5. call'[w] = c
  BY ZenonT(60), <1>2, <1>3 DEF LocksTypeOK
<1> HIDE DEF c
<1>6. Stage(w)'
  BY ZenonT(60), <1>1, <1>2, <1>4, <1>5 DEF Stage, StateStage, WaitsOrHolds, HoldsOnly
<1> QED
  BY ZenonT(60), <1>2, <1>3, <1>4, <1>6, InnerStages DEF LocksTypeOK

\* Every step of next, remove, commit, key_tx and add keeps the lock discipline.
LEMMA StageStep == StageInv /\ [LocksNext]_lockVars => StageInv'
<1> SUFFICES ASSUME StageInv, [LocksNext]_lockVars PROVE StageInv'
  BY ZenonT(60)
<1>n. N \in Nat /\ Committer \in Threads /\ Workers \subseteq Threads
  BY ZenonT(60), ThreadFacts
<1>t. LocksTypeOK
  BY ZenonT(60) DEF StageInv
<1>s. \A t \in Txs : /\ t \in Nat /\ << StateLock(t) >> \in Seq(Mutexes)
                     /\ << AffectLock(t) >> \in Seq(Mutexes)
  BY <1>n, LockFacts DEF Txs
<1>1. CASE \E w \in Threads : Lock(w)
  BY ZenonT(60), <1>1, LockStages
<1>2. CASE CallCommit
  <2>1. commit_idx' \in Nat /\ UNCHANGED <<onboard, dependency, affect_txs, held>> /\ index' \in Nat
    BY <1>2, <1>t DEF CallCommit, LocksTypeOK, graph
  <2>2. CASE commit_idx + 1 < N
    <3> DEFINE t == commit_idx + 1
    <3>1. /\ call[Committer].op = "idle"
          /\ call' = [call EXCEPT ![Committer] = Op("commit", t, None, << StateLock(t) >>)]
      BY ZenonT(60), <1>2, <2>2 DEF CallCommit, Begin, StateLock
    <3>2. t \in Txs
      BY <1>n, <1>t, <2>2 DEF Txs, LocksTypeOK
    <3> QED
      BY ZenonT(60), <1>n, <1>s, <2>1, <3>1, <3>2, CallStages DEF Ops
  <2>3. CASE ~(commit_idx + 1 < N)
    <3>1. call' = call
      BY ZenonT(60), <1>2, <2>3 DEF CallCommit
    <3>2. LocksTypeOK'
      BY ZenonT(60), <1>t, <2>1, <3>1 DEF LocksTypeOK
    <3> QED
      BY ZenonT(60), <2>1, <3>1, <3>2, SameStages
  <2> QED
    BY ZenonT(60), <2>2, <2>3
<1>3. CASE CommitBody
  <2>1. call[Committer].tx \in Txs
    BY ZenonT(60), <1>3, <1>n, BodyFacts DEF CommitBody, At
  <2>2. /\ EndCall(Committer) /\ onboard' = onboard /\ affect_txs' = affect_txs
        /\ commit_idx' = commit_idx
    BY ZenonT(60), <1>3 DEF CommitBody
  <2>3. dependency' \in [Txs -> Txs \cup {None}] /\ index' \in Nat
    BY ZenonT(60), <1>3, <1>s, <1>t, <2>1 DEF CommitBody, fetch_min, LocksTypeOK
  <2> QED
    BY ZenonT(60), <1>n, <1>t, <2>2, <2>3, EndStages DEF LocksTypeOK
<1>4. ASSUME NEW w \in Workers, CallNext(w) PROVE StageInv'
  <2>1. /\ call[w].op = "idle" /\ call' = [call EXCEPT ![w] = Op("next?", 0, None, <<>>)]
        /\ UNCHANGED <<onboard, dependency, affect_txs, held>>
        /\ index' \in Nat /\ commit_idx' \in Nat
    BY ZenonT(60), <1>4, <1>t DEF CallNext, Begin, graph, LocksTypeOK
  <2>2. <<>> \in Seq(Mutexes)
    OBVIOUS
  <2> QED
    BY ZenonT(60), <1>n, <2>1, <2>2, CallStages DEF Ops
<1>5. ASSUME NEW w \in Workers, Claim(w) PROVE StageInv'
  <2>1. /\ call[w].op = "next?" /\ UNCHANGED <<onboard, dependency, affect_txs, held>>
        /\ index \in Nat /\ index' \in Nat /\ commit_idx' \in Nat
    BY <1>5, <1>t DEF Claim, At, LocksTypeOK
  <2>2. CASE index < N
    <3>1. index \in Txs
      BY <1>n, <2>1, <2>2 DEF Txs
    <3>2. call' = [call EXCEPT ![w] = Op("next", index, None, << StateLock(index) >>)]
      BY ZenonT(60), <1>5, <2>2 DEF Claim, StateLock
    <3> QED
      BY ZenonT(60), <1>n, <1>s, <2>1, <3>1, <3>2, CallStages DEF Ops
  <2>3. CASE ~(index < N)
    <3>1. call' = [call EXCEPT ![w] = Op("idle", 0, None, <<>>)]
      BY ZenonT(60), <1>5, <2>3 DEF Claim, Idle, Op
    <3>2. <<>> \in Seq(Mutexes)
      OBVIOUS
    <3> QED
      BY ZenonT(60), <1>n, <2>1, <3>1, <3>2, CallStages DEF Ops
  <2> QED
    BY ZenonT(60), <2>2, <2>3
<1>6. ASSUME NEW w \in Workers, NextBody(w) PROVE StageInv'
  <2>1. call[w].tx \in Txs
    BY ZenonT(60), <1>6, <1>n, BodyFacts DEF NextBody, At
  <2>2. /\ EndCall(w) /\ onboard' \in [Txs -> BOOLEAN]
        /\ UNCHANGED <<dependency, affect_txs, index, commit_idx>>
    BY ZenonT(60), <1>6, <1>t, <2>1 DEF NextBody, LocksTypeOK
  <2> QED
    BY ZenonT(60), <1>n, <1>t, <2>2, EndStages DEF LocksTypeOK
<1>7. ASSUME NEW w \in Workers, RemoveEnd(w) PROVE StageInv'
  <2>1. call[w].tx \in Txs
    BY ZenonT(60), <1>7, <1>n, BodyFacts DEF RemoveEnd, At
  <2>2. /\ EndCall(w) /\ affect_txs' \in [Txs -> SUBSET Txs]
        /\ UNCHANGED <<onboard, dependency, index, commit_idx>>
    BY ZenonT(60), <1>7, <1>t, <2>1 DEF RemoveEnd, LocksTypeOK
  <2> QED
    BY ZenonT(60), <1>n, <1>t, <2>2, EndStages DEF LocksTypeOK
<1>8. ASSUME NEW w \in Workers, KeyTxBody(w) PROVE StageInv'
  <2>1. call[w].tx \in Txs
    BY ZenonT(60), <1>8, <1>n, BodyFacts DEF KeyTxBody, At
  <2>2. EndCall(w) /\ affect_txs' = affect_txs /\ commit_idx' = commit_idx
    BY ZenonT(60), <1>8 DEF KeyTxBody
  <2>3. /\ dependency' \in [Txs -> Txs \cup {None}] /\ onboard' \in [Txs -> BOOLEAN]
        /\ index' \in Nat
    BY ZenonT(60), <1>8, <1>s, <1>t, <2>1 DEF KeyTxBody, fetch_min, LocksTypeOK
  <2> QED
    BY ZenonT(60), <1>n, <1>t, <2>2, <2>3, EndStages DEF LocksTypeOK
<1>9. ASSUME NEW w \in Workers, AddBody(w) PROVE StageInv'
  <2>1. call[w].tx \in Txs /\ call[w].dep \in Txs
    BY ZenonT(60), <1>9, <1>n, BodyFacts DEF AddBody, At
  <2>2. EndCall(w) /\ commit_idx' = commit_idx
    BY ZenonT(60), <1>9 DEF AddBody
  <2>3. /\ dependency' \in [Txs -> Txs \cup {None}] /\ onboard' \in [Txs -> BOOLEAN]
        /\ affect_txs' \in [Txs -> SUBSET Txs] /\ index' \in Nat
    BY ZenonT(60), <1>9, <1>s, <1>t, <2>1 DEF AddBody, fetch_min, LocksTypeOK
  <2> QED
    BY ZenonT(60), <1>n, <1>t, <2>2, <2>3, EndStages DEF LocksTypeOK
<1>10. ASSUME NEW w \in Workers, AddNoneBody(w) PROVE StageInv'
  <2>1. call[w].tx \in Txs
    BY ZenonT(60), <1>10, <1>n, BodyFacts DEF AddNoneBody, At
  <2>2. EndCall(w) /\ affect_txs' = affect_txs /\ commit_idx' = commit_idx
    BY ZenonT(60), <1>10 DEF AddNoneBody
  <2>3. /\ dependency' \in [Txs -> Txs \cup {None}] /\ onboard' \in [Txs -> BOOLEAN]
        /\ index' \in Nat
    BY ZenonT(60), <1>10, <1>s, <1>t, <2>1 DEF AddNoneBody, fetch_min, LocksTypeOK
  <2> QED
    BY ZenonT(60), <1>n, <1>t, <2>2, <2>3, EndStages DEF LocksTypeOK
<1>11. ASSUME NEW w \in Workers, NEW t \in Txs,
              CallRemove(w, t) \/ CallKeyTx(w, t) \/ CallAddNone(w, t)
       PROVE  StageInv'
  <2>1. /\ call[w].op = "idle" /\ UNCHANGED <<onboard, dependency, affect_txs, held>>
        /\ index' \in Nat /\ commit_idx' \in Nat
    BY ZenonT(60), <1>11, <1>t DEF CallRemove, CallKeyTx, CallAddNone, Begin, graph, LocksTypeOK
  <2>2. CASE CallRemove(w, t)
    <3>1. call' = [call EXCEPT ![w] = Op("remove", t, None, << AffectLock(t) >>)]
      BY ZenonT(60), <2>2 DEF CallRemove, Begin, AffectLock
    <3> QED
      BY ZenonT(60), <1>n, <1>s, <2>1, <3>1, CallStages DEF Ops
  <2>3. CASE CallKeyTx(w, t)
    <3>1. call' = [call EXCEPT ![w] = Op("key_tx", t, None, << StateLock(t) >>)]
      BY ZenonT(60), <2>3 DEF CallKeyTx, Begin, StateLock
    <3> QED
      BY ZenonT(60), <1>n, <1>s, <2>1, <3>1, CallStages DEF Ops
  <2>4. CASE CallAddNone(w, t)
    <3>1. call' = [call EXCEPT ![w] = Op("add none", t, None, << StateLock(t) >>)]
      BY ZenonT(60), <2>4 DEF CallAddNone, Begin, StateLock
    <3> QED
      BY ZenonT(60), <1>n, <1>s, <2>1, <3>1, CallStages DEF Ops
  <2> QED
    BY ZenonT(60), <1>11, <2>2, <2>3, <2>4
<1>12. ASSUME NEW w \in Workers, NEW t \in Txs, NEW d \in Txs, CallAdd(w, t, d) PROVE StageInv'
  <2> DEFINE want == << AffectLock(d), StateLock(d), StateLock(t) >>
  <2>1. /\ d < t /\ call[w].op = "idle" /\ UNCHANGED <<onboard, dependency, affect_txs, held>>
        /\ index' \in Nat /\ commit_idx' \in Nat
        /\ call' = [call EXCEPT ![w] = Op("add", t, d, want)]
    BY ZenonT(60), <1>12, <1>t DEF CallAdd, AddLocks, Begin, graph, LocksTypeOK, AffectLock,
       StateLock
  <2>2. want \in Seq(Mutexes)
    BY LockFacts
  <2> HIDE DEF want
  <2>3. want = << AffectLock(d), StateLock(d), StateLock(t) >>
    BY ZenonT(60) DEF want
  <2> QED
    BY ZenonT(60), <1>n, <1>s, <2>1, <2>2, <2>3, CallStages DEF Ops
<1>13. CASE UNCHANGED lockVars
  <2>1. LocksTypeOK' /\ call' = call /\ held' = held
    BY ZenonT(60), <1>13, <1>t DEF lockVars, LocksTypeOK
  <2> QED
    BY ZenonT(60), <2>1, SameStages
<1> QED
  BY ZenonT(60), <1>n, <1>1, <1>2, <1>3, <1>4, <1>5, <1>6, <1>7, <1>8, <1>9, <1>10, <1>11, <1>12,
     <1>13,
     RemoveLoopStages, VisitStages, ReleaseStages, ReadCommitStages DEF LocksNext

-----------------------------------------------------------------------------
(* The lock order                                                          *)

\* A bounded set of numbers has a greatest element.
LEMMA GreatestExists ==
  ASSUME NEW n \in Nat, NEW S, S \subseteq 0 .. n, S # {}
  PROVE  \E g \in S : \A x \in S : x <= g
<1> DEFINE R == {n - x : x \in S}
<1>1. R \subseteq Nat /\ R # {}
  <2>1. \A x \in S : n - x \in Nat
    OBVIOUS
  <2>2. PICK x \in S : TRUE
    BY ZenonT(60)
  <2> QED
    BY ZenonT(60), <2>1, <2>2
<1>2. PICK r \in R : \A y \in R : ~(<<y, r>> \in OpToRel(<, Nat))
  BY ZenonT(60), <1>1, NatLessThanWellFounded, WFMin
<1>3. \A y \in R : ~(y < r)
  BY ZenonT(60), <1>1, <1>2 DEF OpToRel
<1>4. PICK g \in S : r = n - g
  BY ZenonT(60), <1>2
<1>5. \A x \in S : ~(n - x < n - g)
  BY ZenonT(60), <1>3, <1>4
<1>6. n \in Int /\ g \in Int
  <2>1. n \in Int /\ 0 .. n \subseteq Int
    OBVIOUS
  <2> QED
    BY <1>4, <2>1, ZenonT(60)
<1>7. ASSUME NEW x \in S PROVE x <= g
  <2>1. 0 .. n \subseteq Int
    OBVIOUS
  <2>2. x \in Int /\ ~(n - x < n - g)
    BY ZenonT(60), <1>5, <2>1
  <2> QED
    BY <1>6, <2>2
<1> QED
  BY ZenonT(60), <1>7

\* The global order of the mutexes: the reverse edges before the states, each by
\* transaction.
Rank(m) == IF m[1] = "affect" THEN m[2] ELSE N + m[2]

\* add, remove: the places of the mutexes in the global order.
LEMMA RankFacts ==
  /\ \A m \in Mutexes : Rank(m) \in 0 .. 2 * N
  /\ \A t \in Txs : Rank(AffectLock(t)) = t /\ Rank(StateLock(t)) = N + t
<1>1. N \in Nat
  BY ZenonT(60), ThreadFacts
<1>2. ASSUME NEW m \in Mutexes PROVE Rank(m) \in 0 .. 2 * N
  <2>1. m[2] \in 0 .. N - 1
    BY ZenonT(60) DEF Mutexes, Txs
  <2> QED
    BY <1>1, <2>1 DEF Rank
<1>3. \A t \in Txs : Rank(AffectLock(t)) = t /\ Rank(StateLock(t)) = N + t
  BY ZenonT(60) DEF Rank, AffectLock, StateLock
<1> QED
  BY ZenonT(60), <1>2, <1>3

\* A thread waits for a mutex that comes after all it holds.
LEMMA HeldBelowWanted ==
  ASSUME StageInv, NEW w \in Threads, Waiting(w)
  PROVE  /\ Head(call[w].want) \in Mutexes
         /\ \A m \in Mutexes : held[m] = w => Rank(m) < Rank(Head(call[w].want))
<1>1. Stage(w) /\ call[w].want # <<>>
  BY ZenonT(60) DEF StageInv, Waiting
<1>2. \A t \in Txs : t \in 0 .. N - 1 /\ N \in Nat
  BY ZenonT(60), ThreadFacts DEF Txs
<1>3. CASE IdleStage(w)
  BY ZenonT(60), <1>1, <1>3 DEF IdleStage
<1>4. CASE StateStage(w)
  BY ZenonT(60), <1>1, <1>4, LockFacts, WantFacts DEF StateStage, WaitsOrHolds, HoldsOnly
<1>5. CASE RemoveStage(w)
  BY ZenonT(60), <1>1, <1>5, LockFacts, WantFacts DEF RemoveStage, WaitsOrHolds, HoldsOnly
<1>6. CASE VisitStage(w)
  BY ZenonT(60), <1>1, <1>6 DEF VisitStage
<1>7. CASE ReleaseStage(w)
  <2>1. /\ Head(call[w].want) = StateLock(call[w].dep) /\ call[w].dep \in Txs /\ call[w].tx \in Txs
        /\ HoldsOnly(w, {AffectLock(call[w].tx)})
    BY ZenonT(60), <1>1, <1>7, WantFacts DEF ReleaseStage, WaitsOrHolds
  <2>2. Rank(AffectLock(call[w].tx)) < Rank(StateLock(call[w].dep))
    BY SMTT(60), <1>2, <2>1, RankFacts
  <2> QED
    BY <2>1, <2>2, LockFacts DEF HoldsOnly
<1>8. CASE AddStage(w)
  <2> DEFINE t == call[w].tx
             d == call[w].dep
  <2>1. t \in Txs /\ d \in Txs /\ d < t
    BY ZenonT(60), <1>8 DEF AddStage
  <2>2. /\ Rank(AffectLock(d)) < Rank(StateLock(d)) /\ Rank(StateLock(d)) < Rank(StateLock(t))
        /\ Rank(AffectLock(d)) < Rank(StateLock(t))
    BY SMTT(60), <1>2, <2>1, RankFacts
  <2>3. \/ Head(call[w].want) = AffectLock(d) /\ HoldsOnly(w, {})
        \/ Head(call[w].want) = StateLock(d) /\ HoldsOnly(w, {AffectLock(d)})
        \/ Head(call[w].want) = StateLock(t) /\ HoldsOnly(w, {AffectLock(d), StateLock(d)})
    BY <1>1, <1>8, WantFacts DEF AddStage, WaitsOrHolds
  <2> QED
    BY ZenonT(60), <2>1, <2>2, <2>3, LockFacts DEF HoldsOnly
<1> QED
  BY ZenonT(60), <1>1, <1>3, <1>4, <1>5, <1>6, <1>7, <1>8 DEF Stage

\* add, remove: with this order no circle of threads waits for each other.
LEMMA OrderBreaksCycles == StageInv => NoLockCycle
<1> SUFFICES ASSUME StageInv, NEW S \in (SUBSET Threads) \ {{}},
                    \A w \in S : Waiting(w) /\ held[Head(call[w].want)] \in S
             PROVE  FALSE
  BY ZenonT(60) DEF NoLockCycle
<1> DEFINE wanted(w) == Head(call[w].want)
           R == {Rank(wanted(w)) : w \in S}
<1>1. \A w \in S : /\ wanted(w) \in Mutexes
                   /\ \A m \in Mutexes : held[m] = w => Rank(m) < Rank(wanted(w))
  BY ZenonT(60), HeldBelowWanted
<1>2. R \subseteq 0 .. 2 * N /\ R # {} /\ 2 * N \in Nat
  <2>1. \A w \in S : Rank(wanted(w)) \in 0 .. 2 * N
    BY ZenonT(60), <1>1, RankFacts
  <2>2. 2 * N \in Nat
    BY ThreadFacts
  <2>3. PICK w \in S : TRUE
    BY ZenonT(60)
  <2> QED
    BY ZenonT(60), <2>1, <2>2, <2>3
<1>3. PICK g \in R : \A x \in R : x <= g
  BY ZenonT(60), <1>2, GreatestExists
<1>4. PICK w \in S : g = Rank(wanted(w))
  BY ZenonT(60), <1>3
<1>5. held[wanted(w)] \in S
  BY ZenonT(60)
<1>6. g < Rank(wanted(held[wanted(w)]))
  BY ZenonT(60), <1>1, <1>4, <1>5
<1>7. Rank(wanted(held[wanted(w)])) \in R
  BY ZenonT(60), <1>5
<1>8. g \in Nat /\ Rank(wanted(held[wanted(w)])) \in Nat
  BY <1>2, <1>3, <1>7
<1> HIDE DEF R, wanted
<1> QED
  BY <1>3, <1>6, <1>7, <1>8

-----------------------------------------------------------------------------
(* The graph                                                               *)

\* A step that only moves a call on: it does not forget a claim, a commit, or a
\* dependent to visit.
LEMMA CallOnly ==
  ASSUME LocksInv, NEW w \in Threads, NEW c \in Calls, call' = [call EXCEPT ![w] = c],
         UNCHANGED <<onboard, dependency, affect_txs, index, commit_idx>>,
         call[w].op = "next" => c.op = "next" /\ c.tx = call[w].tx,
         w = Committer => c.op = call[w].op /\ c.tx = call[w].tx,
         w \in Workers => c.op # "commit",
         c.op \in {"visit", "release"} =>
           \A t \in Txs : c.tx < t /\ dependency[t] = c.tx => t \in c.todo,
         c.op = "key_tx set" =>
           \/ c.tx <= c.seen \/ commit_idx < c.tx
           \/ call[Committer].op = "commit" /\ call[Committer].tx = c.tx
  PROVE  GraphInv'
<1>1. call'[w] = c /\ \A v \in Threads \ {w} : call'[v] = call[v]
  BY ZenonT(60) DEF LocksInv, StageInv, LocksTypeOK
<1>2. GraphInv /\ NothingStranded
  BY ZenonT(60) DEF LocksInv, GraphInv
<1>3. call'[Committer].op = call[Committer].op /\ call'[Committer].tx = call[Committer].tx
  BY ZenonT(60), <1>1, ThreadFacts
<1>4. BlockerKnows' /\ BlockedIsOnboard'
  BY ZenonT(60), <1>2 DEF GraphInv, NothingStranded, BlockerKnows, BlockedIsOnboard
<1>5. RunnableIsClaimable'
  <2>1. \A v \in Threads :
          call[v].op = "next" => call'[v].op = "next" /\ call'[v].tx = call[v].tx
    BY ZenonT(60), <1>1
  <2> SUFFICES ASSUME NEW t \in Txs, onboard[t], dependency[t] = None, ~(index <= t)
               PROVE  \E v \in Threads : call'[v].op = "next" /\ call'[v].tx = t
    BY ZenonT(60) DEF RunnableIsClaimable
  <2>2. PICK v \in Threads : call[v].op = "next" /\ call[v].tx = t
    BY ZenonT(60), <1>2 DEF NothingStranded, RunnableIsClaimable
  <2> QED
    BY ZenonT(60), <2>1, <2>2
<1>6. BarrierIsLifted'
  BY ZenonT(60), <1>2, <1>3 DEF NothingStranded, BarrierIsLifted
<1>7. CommitterInv'
  BY ZenonT(60), <1>1, <1>2, <1>3, ThreadFacts DEF GraphInv, CommitterInv
<1>8. ASSUME NEW v \in Threads PROVE RemovalKnows(v)' /\ BoundaryHolds(v)'
  <2>1. RemovalKnows(v) /\ BoundaryHolds(v)
    BY ZenonT(60), <1>2 DEF GraphInv
  <2>2. CASE v = w
    BY ZenonT(60), <1>1, <1>3, <2>2 DEF RemovalKnows, BoundaryHolds
  <2>3. CASE v # w
    BY ZenonT(60), <1>1, <1>3, <2>1, <2>3 DEF RemovalKnows, BoundaryHolds
  <2> QED
    BY ZenonT(60), <2>2, <2>3
<1> QED
  BY ZenonT(60), <1>4, <1>5, <1>6, <1>7, <1>8 DEF GraphInv, NothingStranded

\* A step of a worker that leaves the boundary alone and has not just read it.
LEMMA WorkerFrame ==
  ASSUME LocksInv, NEW w \in Workers, NEW c \in Calls, call' = [call EXCEPT ![w] = c],
         commit_idx' = commit_idx, c.op \notin {"commit", "key_tx set"}
  PROVE  /\ call'[w] = c /\ \A v \in Threads \ {w} : call'[v] = call[v]
         /\ call'[Committer] = call[Committer]
         /\ CommitterInv' /\ \A v \in Threads : BoundaryHolds(v)'
<1>1. /\ call'[w] = c /\ \A v \in Threads \ {w} : call'[v] = call[v]
      /\ call'[Committer] = call[Committer]
  BY ZenonT(60), ThreadFacts DEF LocksInv, StageInv, LocksTypeOK
<1>2. CommitterInv'
  BY ZenonT(60), <1>1, ThreadFacts DEF LocksInv, GraphInv, CommitterInv
<1>3. ASSUME NEW v \in Threads PROVE BoundaryHolds(v)'
  <2>1. BoundaryHolds(v)
    BY ZenonT(60) DEF LocksInv, GraphInv
  <2> QED
    BY ZenonT(60), <1>1, <2>1 DEF BoundaryHolds
<1> QED
  BY ZenonT(60), <1>1, <1>2, <1>3

\* A step that blocks nothing, or a transaction at its own boundary, keeps what
\* blockers and removals know.
LEMMA DependentsKept ==
  ASSUME LocksInv, affect_txs' = affect_txs,
         \A x \in Txs : dependency'[x] \in {dependency[x], None, x}
  PROVE  /\ BlockerKnows'
         /\ \A v \in Threads : call'[v] = call[v] => RemovalKnows(v)'
<1>1. BlockerKnows /\ \A v \in Threads : RemovalKnows(v)
  BY ZenonT(60) DEF LocksInv, GraphInv, NothingStranded
<1>2. ASSUME NEW x \in Txs, NEW d \in Txs, d < x, dependency'[x] = d PROVE dependency[x] = d
  BY <1>2, ThreadFacts DEF Txs
<1>3. BlockerKnows'
  <2>1. \A t \in Txs : \A d \in 0 .. t - 1 : d \in Txs /\ d < t
    BY ThreadFacts DEF Txs
  <2> QED
    BY ZenonT(60), <1>1, <1>2, <2>1 DEF BlockerKnows
<1>4. ASSUME NEW v \in Threads, call'[v] = call[v] PROVE RemovalKnows(v)'
  <2>1. call[v].op \in {"visit", "release"} => call[v].tx \in Txs
    BY ZenonT(60) DEF LocksInv, StageInv, Stage, IdleStage, StateStage, RemoveStage, VisitStage,
       ReleaseStage,
       AddStage
  <2> QED
    BY ZenonT(60), <1>1, <1>2, <1>4, <2>1 DEF RemovalKnows
<1> QED
  BY ZenonT(60), <1>3, <1>4

\* next claims an index: whoever it skips is about to be looked at.
LEMMA ClaimGraph ==
  ASSUME LocksInv, NEW w \in Workers, Claim(w)
  PROVE  GraphInv'
<1>1. /\ call[w].op = "next?" /\ index \in Nat /\ N \in Nat
      /\ UNCHANGED <<onboard, dependency, affect_txs, commit_idx>> /\ index' = index + 1
  BY ZenonT(60), ThreadFacts DEF LocksInv, StageInv, LocksTypeOK, Claim, At
<1> DEFINE c == IF index < N THEN Op("next", index, None, << <<"state", index>> >>) ELSE Idle
<1>2. call' = [call EXCEPT ![w] = c]
  BY ZenonT(60) DEF Claim
<1>3. /\ c \in Calls /\ c.op \in {"next", "idle"}
      /\ index < N => c.op = "next" /\ c.tx = index
  <2>1. index < N => << <<"state", index>> >> \in Seq(Mutexes)
    BY SMTT(60), <1>1 DEF Mutexes, Txs
  <2>2. CASE index < N
    BY ZenonT(60), <1>1, <2>1, <2>2 DEF Op, Calls, Ops
  <2>3. CASE ~(index < N)
    BY <1>1, <2>3 DEF Idle, Calls, Ops
  <2> QED
    BY ZenonT(60), <2>2, <2>3
<1> HIDE DEF c
<1>4. /\ call'[w] = c /\ \A v \in Threads \ {w} : call'[v] = call[v]
      /\ call'[Committer] = call[Committer]
      /\ CommitterInv' /\ \A v \in Threads : BoundaryHolds(v)'
  BY ZenonT(60), <1>1, <1>2, <1>3, WorkerFrame
<1>5. BlockerKnows' /\ \A v \in Threads : call'[v] = call[v] => RemovalKnows(v)'
  BY ZenonT(60), <1>1, DependentsKept
<1>6. \A v \in Threads : RemovalKnows(v)'
  BY ZenonT(60), <1>3, <1>4, <1>5 DEF RemovalKnows
<1>7. BarrierIsLifted' /\ BlockedIsOnboard'
  BY ZenonT(60), <1>1, <1>4 DEF LocksInv, GraphInv, NothingStranded, BarrierIsLifted,
     BlockedIsOnboard
<1>8. RunnableIsClaimable'
  <2> SUFFICES ASSUME NEW t \in Txs, onboard[t], dependency[t] = None, index + 1 > t
               PROVE  \E v \in Threads : call'[v].op = "next" /\ call'[v].tx = t
    BY <1>1 DEF RunnableIsClaimable, Txs
  <2>1. t \in 0 .. N - 1
    BY ZenonT(60) DEF Txs
  <2>2. CASE t = index
    BY <1>1, <1>3, <1>4, <2>1, <2>2, ThreadFacts
  <2>3. CASE t # index
    <3>1. ~(index <= t)
      BY <1>1, <2>1, <2>3
    <3>2. PICK v \in Threads : call[v].op = "next" /\ call[v].tx = t
      BY ZenonT(60), <3>1 DEF LocksInv, GraphInv, NothingStranded, RunnableIsClaimable
    <3> QED
      BY ZenonT(60), <1>1, <1>4, <3>2
  <2> QED
    BY ZenonT(60), <2>2, <2>3
<1> QED
  BY ZenonT(60), <1>4, <1>5, <1>6, <1>7, <1>8 DEF GraphInv, NothingStranded

\* A call that returns has nothing left to visit or to look at.
LEMMA EndFrame ==
  ASSUME LocksInv, NEW w \in Workers, EndCall(w), commit_idx' = commit_idx
  PROVE  /\ \A v \in Threads \ {w} : call'[v] = call[v]
         /\ call'[Committer] = call[Committer]
         /\ CommitterInv' /\ \A v \in Threads : BoundaryHolds(v)'
         /\ RemovalKnows(w)'
<1>1. Idle \in Calls /\ Idle.op = "idle" /\ call' = [call EXCEPT ![w] = Idle]
  BY DEF Idle, Calls, Ops, EndCall
<1>2. /\ call'[w] = Idle /\ \A v \in Threads \ {w} : call'[v] = call[v]
      /\ call'[Committer] = call[Committer]
      /\ CommitterInv' /\ \A v \in Threads : BoundaryHolds(v)'
  BY ZenonT(60), <1>1, WorkerFrame
<1> QED
  BY ZenonT(60), <1>1, <1>2 DEF RemovalKnows

\* next has looked.
LEMMA NextBodyGraph ==
  ASSUME LocksInv, NEW w \in Workers, NextBody(w)
  PROVE  GraphInv'
<1> DEFINE t == call[w].tx
<1>1. /\ call[w].op = "next" /\ t \in Txs /\ EndCall(w)
      /\ UNCHANGED <<dependency, affect_txs, index, commit_idx>>
      /\ onboard' = [onboard EXCEPT ![t] = @ /\ dependency[t] # None]
  BY ZenonT(60), BodyFacts, ThreadFacts DEF LocksInv, NextBody, At
<1>2. onboard \in [Txs -> BOOLEAN]
  BY ZenonT(60) DEF LocksInv, StageInv, LocksTypeOK
<1>3. \A x \in Txs : onboard'[x] = (onboard[x] /\ (x = t => dependency[x] # None))
  BY ZenonT(60), <1>1, <1>2
<1>4. /\ \A v \in Threads \ {w} : call'[v] = call[v]
      /\ call'[Committer] = call[Committer]
      /\ CommitterInv' /\ \A v \in Threads : BoundaryHolds(v)'
      /\ RemovalKnows(w)'
  BY ZenonT(60), <1>1, EndFrame
<1>5. BlockerKnows' /\ \A v \in Threads : RemovalKnows(v)'
  BY ZenonT(60), <1>1, <1>4, DependentsKept
<1>6. BarrierIsLifted' /\ BlockedIsOnboard'
  BY ZenonT(60), <1>1, <1>3, <1>4 DEF LocksInv, GraphInv, NothingStranded, BarrierIsLifted,
     BlockedIsOnboard
<1>7. RunnableIsClaimable'
  <2> SUFFICES ASSUME NEW x \in Txs, onboard'[x], dependency[x] = None, ~(index <= x)
               PROVE  \E v \in Threads : call'[v].op = "next" /\ call'[v].tx = x
    BY ZenonT(60), <1>1 DEF RunnableIsClaimable
  <2>1. x # t /\ onboard[x]
    BY ZenonT(60), <1>3
  <2>2. PICK v \in Threads : call[v].op = "next" /\ call[v].tx = x
    BY ZenonT(60), <2>1 DEF LocksInv, GraphInv, NothingStranded, RunnableIsClaimable
  <2> QED
    BY ZenonT(60), <1>4, <2>1, <2>2
<1> QED
  BY ZenonT(60), <1>4, <1>5, <1>6, <1>7 DEF GraphInv, NothingStranded

\* A step that rewinds the cursor to every transaction it makes runnable.
LEMMA RunnableKept ==
  ASSUME LocksInv, index' \in Nat, index' <= index,
         \A v \in Threads : call[v].op = "next" => call'[v] = call[v],
         \A x \in Txs : onboard'[x] /\ dependency'[x] = None =>
           (onboard[x] /\ dependency[x] = None) \/ index' <= x
  PROVE  RunnableIsClaimable'
<1> SUFFICES ASSUME NEW x \in Txs, onboard'[x], dependency'[x] = None, ~(index' <= x)
             PROVE  \E v \in Threads : call'[v].op = "next" /\ call'[v].tx = x
  BY ZenonT(60) DEF RunnableIsClaimable
<1>1. index \in Nat /\ x \in Nat
  BY SMTT(60), ThreadFacts DEF LocksInv, StageInv, LocksTypeOK, Txs
<1>2. onboard[x] /\ dependency[x] = None /\ ~(index <= x)
  BY <1>1
<1>3. PICK v \in Threads : call[v].op = "next" /\ call[v].tx = x
  BY ZenonT(60), <1>2 DEF LocksInv, GraphInv, NothingStranded, RunnableIsClaimable
<1> QED
  BY ZenonT(60), <1>3

\* fetch_min.
LEMMA RewindFacts ==
  ASSUME NEW t \in Txs, index \in Nat
  PROVE  /\ fetch_min(t) => index' \in Nat /\ index' <= index /\ index' <= t
         /\ index' = index => index' \in Nat /\ index' <= index
BY ThreadFacts DEF fetch_min, Txs

\* remove releases one dependent: claimable, or handed to the caller.
LEMMA ReleaseGraph ==
  ASSUME LocksInv, NEW w \in Workers, NEW pop_next \in BOOLEAN, Release(w, pop_next)
  PROVE  GraphInv'
<1> DEFINE t == call[w].dep
           released == dependency[t] = call[w].tx
           handed == released /\ onboard[t] /\ pop_next /\ t = call[w].tx + 1 /\ index > t
<1>1. /\ call[w] \in Calls /\ call[w].op = "release" /\ t \in Txs /\ call[w].tx \in Txs
      /\ affect_txs' = affect_txs /\ commit_idx' = commit_idx
  BY ZenonT(60), BodyFacts, ThreadFacts DEF LocksInv, Release, At
<1>2. /\ onboard \in [Txs -> BOOLEAN] /\ dependency \in [Txs -> Txs \cup {None}] /\ index \in Nat
  BY ZenonT(60) DEF LocksInv, StageInv, LocksTypeOK
<1>3. /\ dependency' = [dependency EXCEPT ![t] = IF released THEN None ELSE @]
      /\ onboard' = [onboard EXCEPT ![t] = @ /\ ~handed]
      /\ IF released /\ onboard[t] /\ ~handed THEN fetch_min(t) ELSE index' = index
      /\ call' = [call EXCEPT ![w].op = "visit", ![w].todo = @ \ {t}]
  BY ZenonT(60) DEF Release
<1> DEFINE c == [call[w] EXCEPT !.op = "visit", !.todo = @ \ {t}]
<1>4. call' = [call EXCEPT ![w] = c]
  BY ZenonT(60), <1>3
<1>5. c \in Calls /\ c.op = "visit" /\ c.tx = call[w].tx /\ c.todo = call[w].todo \ {t}
  BY ZenonT(60), <1>1 DEF Calls, Ops
<1> HIDE DEF c
<1>6. /\ call'[w] = c /\ \A v \in Threads \ {w} : call'[v] = call[v]
      /\ call'[Committer] = call[Committer]
      /\ CommitterInv' /\ \A v \in Threads : BoundaryHolds(v)'
  BY ZenonT(60), <1>1, <1>4, <1>5, WorkerFrame
<1>7. /\ dependency'[t] = IF released THEN None ELSE dependency[t]
      /\ \A x \in Txs \ {t} : dependency'[x] = dependency[x]
  BY ZenonT(60), <1>1, <1>2, <1>3
<1>8. /\ onboard'[t] = (onboard[t] /\ ~handed)
      /\ \A x \in Txs \ {t} : onboard'[x] = onboard[x]
  BY ZenonT(60), <1>1, <1>2, <1>3
<1>9. \A x \in Txs : dependency'[x] \in {dependency[x], None}
  BY ZenonT(60), <1>7
<1>10. BlockerKnows' /\ \A v \in Threads : call'[v] = call[v] => RemovalKnows(v)'
  BY ZenonT(60), <1>1, <1>9, DependentsKept
<1>11. RemovalKnows(w)'
  <2>1. \A x \in Txs : call[w].tx < x /\ dependency[x] = call[w].tx => x \in call[w].todo
    BY ZenonT(60), <1>1, ThreadFacts DEF LocksInv, GraphInv, RemovalKnows
  <2>2. dependency'[t] # call[w].tx
    BY ZenonT(60), <1>1, <1>7, ThreadFacts
  <2>3. \A x \in Txs : call[w].tx < x /\ dependency'[x] = call[w].tx => x \in call[w].todo \ {t}
    BY ZenonT(60), <1>7, <2>1, <2>2
  <2> QED
    BY ZenonT(60), <1>5, <1>6, <2>3 DEF RemovalKnows
<1>12. BarrierIsLifted'
  <2>1. \A x \in Txs : dependency'[x] = x => dependency[x] = x
    BY ZenonT(60), <1>9, ThreadFacts
  <2> QED
    BY ZenonT(60), <1>1, <1>6, <2>1 DEF LocksInv, GraphInv, NothingStranded, BarrierIsLifted
<1>13. BlockedIsOnboard'
  BY ZenonT(60), <1>7, <1>8 DEF LocksInv, GraphInv, BlockedIsOnboard
<1>14. RunnableIsClaimable'
  <2>1. index' \in Nat /\ index' <= index /\ (released /\ onboard[t] /\ ~handed => index' <= t)
    BY ZenonT(60), <1>1, <1>2, <1>3, RewindFacts
  <2>2. \A x \in Txs : onboard'[x] /\ dependency'[x] = None =>
           (onboard[x] /\ dependency[x] = None) \/ index' <= x
    BY ZenonT(60), <1>7, <1>8, <2>1
  <2>3. \A v \in Threads : call[v].op = "next" => call'[v] = call[v]
    BY ZenonT(60), <1>1, <1>6
  <2> QED
    BY ZenonT(60), <2>1, <2>2, <2>3, RunnableKept
<1> QED
  BY ZenonT(60), <1>6, <1>10, <1>11, <1>12, <1>13, <1>14 DEF GraphInv, NothingStranded

\* remove clears the reverse edges when nobody waits for its transaction any more.
LEMMA RemoveEndGraph ==
  ASSUME LocksInv, NEW w \in Workers, RemoveEnd(w)
  PROVE  GraphInv'
<1> DEFINE d == call[w].tx
<1>1. /\ call[w].op = "visit" /\ call[w].todo = {} /\ d \in Txs /\ EndCall(w)
      /\ affect_txs' = [affect_txs EXCEPT ![d] = {}]
      /\ UNCHANGED <<onboard, dependency, index, commit_idx>>
  BY ZenonT(60), BodyFacts, ThreadFacts DEF LocksInv, RemoveEnd, At
<1>2. affect_txs \in [Txs -> SUBSET Txs] /\ index \in Nat
  BY ZenonT(60) DEF LocksInv, StageInv, LocksTypeOK
<1>3. /\ \A v \in Threads \ {w} : call'[v] = call[v]
      /\ call'[Committer] = call[Committer]
      /\ CommitterInv' /\ \A v \in Threads : BoundaryHolds(v)'
      /\ RemovalKnows(w)'
  BY ZenonT(60), <1>1, EndFrame
<1>4. \A v \in Threads : RemovalKnows(v)'
  BY ZenonT(60), <1>1, <1>3 DEF LocksInv, GraphInv, RemovalKnows
<1>5. BlockerKnows'
  <2> SUFFICES ASSUME NEW t \in Txs, NEW x \in 0 .. t - 1, dependency[t] = x
               PROVE  t \in affect_txs'[x]
    BY ZenonT(60), <1>1 DEF BlockerKnows
  <2>1. x \in Txs /\ x < t
    BY SMTT(60), ThreadFacts DEF Txs
  <2>2. x # d
    BY ZenonT(60), <1>1, <2>1, ThreadFacts DEF LocksInv, GraphInv, RemovalKnows
  <2>3. t \in affect_txs[x]
    BY ZenonT(60) DEF LocksInv, GraphInv, NothingStranded, BlockerKnows
  <2> QED
    BY ZenonT(60), <1>1, <1>2, <2>1, <2>2, <2>3
<1>6. BarrierIsLifted' /\ BlockedIsOnboard'
  BY ZenonT(60), <1>1, <1>3 DEF LocksInv, GraphInv, NothingStranded, BarrierIsLifted,
     BlockedIsOnboard
<1>7. RunnableIsClaimable'
  <2>1. index' \in Nat /\ index' <= index
    BY SMTT(60), <1>1, <1>2
  <2>2. \A v \in Threads : call[v].op = "next" => call'[v] = call[v]
    BY ZenonT(60), <1>1, <1>3
  <2> QED
    BY ZenonT(60), <1>1, <2>1, <2>2, RunnableKept
<1> QED
  BY ZenonT(60), <1>3, <1>4, <1>5, <1>6, <1>7 DEF GraphInv, NothingStranded

\* key_tx installs its barrier while the boundary is ahead or about to be passed.
LEMMA KeyTxGraph ==
  ASSUME LocksInv, NEW w \in Workers, KeyTxBody(w)
  PROVE  GraphInv'
<1> DEFINE t == call[w].tx
<1>1. /\ call[w] \in Calls /\ call[w].op = "key_tx set" /\ t \in Txs /\ EndCall(w)
      /\ UNCHANGED <<affect_txs, commit_idx>>
      /\ dependency' = [dependency EXCEPT ![t] = IF t > call[w].seen THEN t ELSE @]
      /\ onboard' = [onboard EXCEPT ![t] = TRUE]
      /\ IF dependency'[t] = None THEN fetch_min(t) ELSE index' = index
  BY ZenonT(60), BodyFacts, ThreadFacts DEF LocksInv, KeyTxBody, At
<1>2. /\ onboard \in [Txs -> BOOLEAN] /\ dependency \in [Txs -> Txs \cup {None}] /\ index \in Nat
  BY ZenonT(60) DEF LocksInv, StageInv, LocksTypeOK
<1>3. /\ \A v \in Threads \ {w} : call'[v] = call[v]
      /\ call'[Committer] = call[Committer]
      /\ CommitterInv' /\ \A v \in Threads : BoundaryHolds(v)'
      /\ RemovalKnows(w)'
  BY ZenonT(60), <1>1, EndFrame
<1>4. /\ dependency'[t] = IF t > call[w].seen THEN t ELSE dependency[t]
      /\ \A x \in Txs \ {t} : dependency'[x] = dependency[x]
      /\ onboard'[t] /\ \A x \in Txs \ {t} : onboard'[x] = onboard[x]
  BY ZenonT(60), <1>1, <1>2
<1>5. BlockerKnows' /\ \A v \in Threads : RemovalKnows(v)'
  <2>1. \A x \in Txs : dependency'[x] \in {dependency[x], None, x}
    BY ZenonT(60), <1>4
  <2> QED
    BY ZenonT(60), <1>1, <1>3, <2>1, DependentsKept
<1>6. BarrierIsLifted'
  <2> SUFFICES ASSUME NEW x \in Txs, dependency'[x] = x
               PROVE  commit_idx < x \/ (call[Committer].op = "commit" /\ call[Committer].tx = x)
    BY ZenonT(60), <1>1, <1>3 DEF BarrierIsLifted
  <2>1. CASE dependency[x] = x
    BY ZenonT(60), <2>1 DEF LocksInv, GraphInv, NothingStranded, BarrierIsLifted
  <2>2. CASE dependency[x] # x
    <3>1. x = t /\ t > call[w].seen
      BY ZenonT(60), <1>4, <2>2
    <3>2. BoundaryHolds(w)
      BY ZenonT(60), ThreadFacts DEF LocksInv, GraphInv
    <3>3. ~(t <= call[w].seen)
      <4>1. call[w].seen \in Nat /\ t \in Nat
        BY ZenonT(60), <1>1, ThreadFacts DEF Calls, Txs
      <4> QED
        BY <3>1, <4>1
    <3> QED
      BY ZenonT(60), <1>1, <3>1, <3>2, <3>3 DEF BoundaryHolds
  <2> QED
    BY ZenonT(60), <2>1, <2>2
<1>7. BlockedIsOnboard'
  BY ZenonT(60), <1>4 DEF LocksInv, GraphInv, BlockedIsOnboard
<1>8. RunnableIsClaimable'
  <2>1. index' \in Nat /\ index' <= index /\ (dependency'[t] = None => index' <= t)
    BY ZenonT(60), <1>1, <1>2, RewindFacts
  <2>2. \A x \in Txs : onboard'[x] /\ dependency'[x] = None =>
           (onboard[x] /\ dependency[x] = None) \/ index' <= x
    BY ZenonT(60), <1>4, <2>1
  <2>3. \A v \in Threads : call[v].op = "next" => call'[v] = call[v]
    BY ZenonT(60), <1>1, <1>3
  <2> QED
    BY ZenonT(60), <2>1, <2>2, <2>3, RunnableKept
<1> QED
  BY ZenonT(60), <1>3, <1>5, <1>6, <1>7, <1>8 DEF GraphInv, NothingStranded

\* remove holds the reverse edges while it visits and releases.
LEMMA VisitorHolds ==
  ASSUME StageInv, NEW v \in Threads, call[v].op \in {"visit", "release"}
  PROVE  call[v].tx \in Txs /\ held[AffectLock(call[v].tx)] = v
<1>1. VisitStage(v) \/ ReleaseStage(v)
  BY ZenonT(60) DEF StageInv, Stage, IdleStage, StateStage, RemoveStage, AddStage
<1>2. CASE VisitStage(v)
  BY ZenonT(60), <1>2, LockFacts DEF VisitStage, HoldsOnly
<1>3. CASE ReleaseStage(v)
  BY ZenonT(60), <1>3, LockFacts DEF ReleaseStage, WaitsOrHolds, HoldsOnly
<1> QED
  BY ZenonT(60), <1>1, <1>2, <1>3

\* add blocks a transaction under the lock of the reverse edges of its blocker, so
\* that no removal is on its way past it.
LEMMA AddGraph ==
  ASSUME LocksInv, NEW w \in Workers, AddBody(w)
  PROVE  GraphInv'
<1> DEFINE t == call[w].tx
           d == call[w].dep
<1>1. /\ call[w].op = "add" /\ t \in Txs /\ d \in Txs /\ d < t /\ EndCall(w)
      /\ held[AffectLock(d)] = w
      /\ commit_idx' = commit_idx
      /\ dependency' = [dependency EXCEPT ![t] = d]
      /\ affect_txs' = [affect_txs EXCEPT ![d] = @ \cup {t}]
      /\ onboard' = [onboard EXCEPT ![t] = TRUE, ![d] = TRUE]
      /\ IF dependency[d] = None THEN fetch_min(d) ELSE index' = index
  BY ZenonT(60), BodyFacts, ThreadFacts, LockFacts DEF LocksInv, AddBody, At, HoldsOnly
<1>2. /\ onboard \in [Txs -> BOOLEAN] /\ dependency \in [Txs -> Txs \cup {None}] /\ index \in Nat
      /\ affect_txs \in [Txs -> SUBSET Txs]
  BY ZenonT(60) DEF LocksInv, StageInv, LocksTypeOK
<1>3. /\ \A v \in Threads \ {w} : call'[v] = call[v]
      /\ call'[Committer] = call[Committer]
      /\ CommitterInv' /\ \A v \in Threads : BoundaryHolds(v)'
      /\ RemovalKnows(w)'
  BY ZenonT(60), <1>1, EndFrame
<1>4. /\ d # t /\ dependency'[t] = d /\ \A x \in Txs \ {t} : dependency'[x] = dependency[x]
      /\ onboard'[t] /\ onboard'[d] /\ \A x \in Txs \ {t, d} : onboard'[x] = onboard[x]
      /\ t \in affect_txs'[d] /\ \A x \in Txs : affect_txs[x] \subseteq affect_txs'[x]
  <2>1. d # t
    BY SMTT(60), <1>1, ThreadFacts DEF Txs
  <2>2. dependency'[t] = d /\ \A x \in Txs \ {t} : dependency'[x] = dependency[x]
    BY ZenonT(60), <1>1, <1>2
  <2>3. onboard'[t] /\ onboard'[d] /\ \A x \in Txs \ {t, d} : onboard'[x] = onboard[x]
    BY ZenonT(60), <1>1, <1>2, <2>1
  <2>4. t \in affect_txs'[d] /\ \A x \in Txs : affect_txs[x] \subseteq affect_txs'[x]
    BY ZenonT(60), <1>1, <1>2
  <2> QED
    BY ZenonT(60), <2>1, <2>2, <2>3, <2>4
<1>5. BlockerKnows'
  BY SMTT(60), <1>4, ThreadFacts DEF LocksInv, GraphInv, NothingStranded, BlockerKnows, Txs
<1>6. ASSUME NEW v \in Threads PROVE RemovalKnows(v)'
  <2>1. CASE v = w
    BY ZenonT(60), <1>3, <2>1
  <2>2. CASE v # w /\ call[v].op \in {"visit", "release"}
    <3>1. call[v].tx \in Txs /\ held[AffectLock(call[v].tx)] = v
      BY ZenonT(60), <2>2, VisitorHolds DEF LocksInv
    <3>2. call[v].tx # d
      BY ZenonT(60), <1>1, <2>2, <3>1
    <3>3. \A x \in Txs : dependency'[x] = call[v].tx => dependency[x] = call[v].tx
      BY ZenonT(60), <1>4, <3>2
    <3> QED
      BY ZenonT(60), <1>3, <2>2, <3>3 DEF LocksInv, GraphInv, RemovalKnows
  <2>3. CASE v # w /\ call[v].op \notin {"visit", "release"}
    BY ZenonT(60), <1>3, <2>3 DEF RemovalKnows
  <2> QED
    BY ZenonT(60), <2>1, <2>2, <2>3
<1>7. BarrierIsLifted'
  <2>1. \A x \in Txs : dependency'[x] = x => dependency[x] = x
    BY ZenonT(60), <1>4
  <2> QED
    BY ZenonT(60), <1>1, <1>3, <2>1 DEF LocksInv, GraphInv, NothingStranded, BarrierIsLifted
<1>8. BlockedIsOnboard'
  BY ZenonT(60), <1>4 DEF LocksInv, GraphInv, BlockedIsOnboard
<1>9. RunnableIsClaimable'
  <2>1. index' \in Nat /\ index' <= index /\ (dependency[d] = None => index' <= d)
    BY ZenonT(60), <1>1, <1>2, RewindFacts
  <2>2. \A x \in Txs : onboard'[x] /\ dependency'[x] = None =>
           (onboard[x] /\ dependency[x] = None) \/ index' <= x
    <3> SUFFICES ASSUME NEW x \in Txs, onboard'[x], dependency'[x] = None, ~(index' <= x)
                 PROVE  onboard[x] /\ dependency[x] = None
      BY ZenonT(60)
    <3>1. x # t /\ dependency[x] = None
      BY ZenonT(60), <1>1, <1>4, ThreadFacts
    <3>2. x # d
      BY ZenonT(60), <2>1, <3>1
    <3> QED
      BY ZenonT(60), <1>4, <3>1, <3>2
  <2>3. \A v \in Threads : call[v].op = "next" => call'[v] = call[v]
    BY ZenonT(60), <1>1, <1>3
  <2> QED
    BY ZenonT(60), <2>1, <2>2, <2>3, RunnableKept
<1> QED
  BY ZenonT(60), <1>3, <1>5, <1>6, <1>7, <1>8, <1>9 DEF GraphInv, NothingStranded

\* add without a predecessor.
LEMMA AddNoneGraph ==
  ASSUME LocksInv, NEW w \in Workers, AddNoneBody(w)
  PROVE  GraphInv'
<1> DEFINE t == call[w].tx
<1>1. /\ call[w].op = "add none" /\ t \in Txs /\ EndCall(w) /\ UNCHANGED <<affect_txs, commit_idx>>
      /\ onboard' = [onboard EXCEPT ![t] = TRUE]
      /\ dependency' = [dependency EXCEPT ![t] = IF onboard[t] THEN @ ELSE None]
      /\ IF onboard[t] THEN index' = index ELSE fetch_min(t)
  BY ZenonT(60), BodyFacts, ThreadFacts DEF LocksInv, AddNoneBody, At
<1>2. /\ onboard \in [Txs -> BOOLEAN] /\ dependency \in [Txs -> Txs \cup {None}] /\ index \in Nat
  BY ZenonT(60) DEF LocksInv, StageInv, LocksTypeOK
<1>3. /\ \A v \in Threads \ {w} : call'[v] = call[v]
      /\ call'[Committer] = call[Committer]
      /\ CommitterInv' /\ \A v \in Threads : BoundaryHolds(v)'
      /\ RemovalKnows(w)'
  BY ZenonT(60), <1>1, EndFrame
<1>4. /\ dependency'[t] = IF onboard[t] THEN dependency[t] ELSE None
      /\ \A x \in Txs \ {t} : dependency'[x] = dependency[x]
      /\ onboard'[t] /\ \A x \in Txs \ {t} : onboard'[x] = onboard[x]
  BY ZenonT(60), <1>1, <1>2
<1>5. \A x \in Txs : dependency'[x] \in {dependency[x], None}
  BY ZenonT(60), <1>4
<1>6. BlockerKnows' /\ \A v \in Threads : RemovalKnows(v)'
  BY ZenonT(60), <1>1, <1>3, <1>5, DependentsKept
<1>7. BarrierIsLifted' /\ BlockedIsOnboard'
  <2>1. \A x \in Txs : dependency'[x] = x => dependency[x] = x
    BY ZenonT(60), <1>5, ThreadFacts
  <2>2. BarrierIsLifted'
    BY ZenonT(60), <1>1, <1>3, <2>1 DEF LocksInv, GraphInv, NothingStranded, BarrierIsLifted
  <2>3. BlockedIsOnboard'
    BY ZenonT(60), <1>4 DEF LocksInv, GraphInv, BlockedIsOnboard
  <2> QED
    BY ZenonT(60), <2>2, <2>3
<1>8. RunnableIsClaimable'
  <2>1. index' \in Nat /\ index' <= index /\ (~onboard[t] => index' <= t)
    BY ZenonT(60), <1>1, <1>2, RewindFacts
  <2>2. \A x \in Txs : onboard'[x] /\ dependency'[x] = None =>
           (onboard[x] /\ dependency[x] = None) \/ index' <= x
    BY ZenonT(60), <1>4, <2>1
  <2>3. \A v \in Threads : call[v].op = "next" => call'[v] = call[v]
    BY ZenonT(60), <1>1, <1>3
  <2> QED
    BY ZenonT(60), <2>1, <2>2, <2>3, RunnableKept
<1> QED
  BY ZenonT(60), <1>3, <1>6, <1>7, <1>8 DEF GraphInv, NothingStranded

\* The commit thread publishes a boundary and is about to release the transaction
\* behind it.
LEMMA CallCommitGraph ==
  ASSUME LocksInv, CallCommit
  PROVE  GraphInv'
<1> DEFINE t == commit_idx + 1
<1>1. /\ call[Committer].op = "idle" /\ commit_idx' = t
      /\ UNCHANGED <<onboard, dependency, affect_txs, index>>
  BY ZenonT(60) DEF CallCommit, Begin, graph
<1>2. N \in Nat /\ commit_idx \in Nat /\ index \in Nat /\ call \in [Threads -> Calls]
  BY ZenonT(60), ThreadFacts DEF LocksInv, StageInv, LocksTypeOK
<1>3. /\ \A v \in Workers : call'[v] = call[v]
      /\ IF t < N THEN call'[Committer].op = "commit" /\ call'[Committer].tx = t
         ELSE call'[Committer] = call[Committer]
  BY <1>2, ThreadFacts DEF CallCommit, Begin, Op
<1>4. \A v \in Threads : v \in Workers \/ v = Committer
  BY ZenonT(60) DEF Threads
<1>5. ASSUME NEW x \in Txs, commit_idx < x
      PROVE  commit_idx' < x \/ (call'[Committer].op = "commit" /\ call'[Committer].tx = x)
  BY SMTT(60), <1>1, <1>2, <1>3, <1>5 DEF Txs
<1>6. CommitterInv'
  BY ZenonT(60), <1>1, <1>3 DEF LocksInv, GraphInv, CommitterInv
<1>7. BarrierIsLifted' /\ BlockedIsOnboard'
  BY ZenonT(60), <1>1, <1>5 DEF LocksInv, GraphInv, NothingStranded, BarrierIsLifted,
     BlockedIsOnboard
<1>8. ASSUME NEW v \in Threads PROVE BoundaryHolds(v)' /\ RemovalKnows(v)'
  <2>1. CASE v = Committer
    BY ZenonT(60), <1>1, <1>3, <2>1 DEF BoundaryHolds, RemovalKnows
  <2>2. CASE v \in Workers
    <3>1. call'[v] = call[v] /\ BoundaryHolds(v) /\ RemovalKnows(v)
      BY ZenonT(60), <1>3, <2>2 DEF LocksInv, GraphInv
    <3>2. call[v].op = "key_tx set" => call[v].tx \in Txs
      BY ZenonT(60) DEF LocksInv, StageInv, Stage, IdleStage, StateStage, RemoveStage, VisitStage,
         ReleaseStage,
         AddStage
    <3>3. BoundaryHolds(v)'
      BY ZenonT(60), <1>1, <1>5, <3>1, <3>2 DEF BoundaryHolds
    <3> QED
      BY ZenonT(60), <1>1, <3>1, <3>3 DEF RemovalKnows
  <2> QED
    BY ZenonT(60), <1>4, <2>1, <2>2
<1>9. BlockerKnows'
  BY ZenonT(60), <1>1 DEF LocksInv, GraphInv, NothingStranded, BlockerKnows
<1>10. RunnableIsClaimable'
  <2>1. \A v \in Threads : call[v].op = "next" => call'[v] = call[v]
    BY ZenonT(60), <1>1, <1>3, <1>4
  <2>2. index' \in Nat /\ index' <= index
    BY <1>1, <1>2
  <2> QED
    BY ZenonT(60), <1>1, <2>1, <2>2, RunnableKept
<1> QED
  BY ZenonT(60), <1>6, <1>7, <1>8, <1>9, <1>10 DEF GraphInv, NothingStranded

\* commit releases the transaction behind the boundary; a key_tx that has read the
\* boundary cannot be at the same transaction.
LEMMA CommitBodyGraph ==
  ASSUME LocksInv, CommitBody
  PROVE  GraphInv'
<1> DEFINE t == call[Committer].tx
<1>1. /\ call[Committer].op = "commit" /\ t \in Txs /\ held[StateLock(t)] = Committer
      /\ UNCHANGED <<onboard, affect_txs, commit_idx>>
      /\ dependency' = [dependency EXCEPT ![t] = IF onboard[t] THEN None ELSE @]
      /\ IF onboard[t] THEN fetch_min(t) ELSE index' = index
      /\ call' = [call EXCEPT ![Committer] = Idle]
  BY ZenonT(60), BodyFacts, ThreadFacts, LockFacts DEF LocksInv, CommitBody, At, EndCall, HoldsOnly
<1>2. /\ dependency \in [Txs -> Txs \cup {None}] /\ index \in Nat /\ call \in [Threads -> Calls]
  BY ZenonT(60) DEF LocksInv, StageInv, LocksTypeOK
<1>3. /\ \A v \in Threads \ {Committer} : call'[v] = call[v]
      /\ call'[Committer].op = "idle"
  BY ZenonT(60), <1>1, <1>2, ThreadFacts DEF Idle
<1>4. /\ dependency'[t] = IF onboard[t] THEN None ELSE dependency[t]
      /\ \A x \in Txs \ {t} : dependency'[x] = dependency[x]
  BY ZenonT(60), <1>1, <1>2
<1>5. \A x \in Txs : dependency'[x] \in {dependency[x], None}
  BY ZenonT(60), <1>4
<1>6. BlockerKnows' /\ \A v \in Threads : call'[v] = call[v] => RemovalKnows(v)'
  BY ZenonT(60), <1>1, <1>5, DependentsKept
<1>7. ASSUME NEW v \in Threads PROVE BoundaryHolds(v)' /\ RemovalKnows(v)'
  <2>1. CASE v = Committer
    BY ZenonT(60), <1>3, <2>1 DEF BoundaryHolds, RemovalKnows
  <2>2. CASE v # Committer /\ call[v].op = "key_tx set"
    <3>1. call[v].want = <<>>
      BY ZenonT(60), <2>2 DEF LocksInv, StageInv, Stage, IdleStage, StateStage, RemoveStage,
         VisitStage,
         ReleaseStage, AddStage
    <3>2. call[v].tx \in Txs /\ held[StateLock(call[v].tx)] = v
      BY ZenonT(60), <2>2, <3>1, BodyFacts, LockFacts DEF LocksInv, HoldsOnly
    <3>3. call[v].tx # t
      BY ZenonT(60), <1>1, <2>2, <3>2
    <3>4. BoundaryHolds(v)
      BY ZenonT(60) DEF LocksInv, GraphInv
    <3> QED
      BY ZenonT(60), <1>1, <1>3, <1>6, <2>2, <3>3, <3>4 DEF BoundaryHolds
  <2>3. CASE v # Committer /\ call[v].op # "key_tx set"
    BY ZenonT(60), <1>3, <1>6, <2>3 DEF BoundaryHolds
  <2> QED
    BY ZenonT(60), <2>1, <2>2, <2>3
<1>8. CommitterInv'
  BY ZenonT(60), <1>1, <1>3, ThreadFacts DEF LocksInv, GraphInv, CommitterInv
<1>9. BlockedIsOnboard'
  BY ZenonT(60), <1>1, <1>4 DEF LocksInv, GraphInv, BlockedIsOnboard
<1>10. BarrierIsLifted'
  <2> SUFFICES ASSUME NEW x \in Txs, dependency'[x] = x PROVE commit_idx < x
    BY ZenonT(60), <1>1 DEF BarrierIsLifted
  <2>1. dependency[x] = x
    BY ZenonT(60), <1>5, ThreadFacts
  <2>2. x # t
    BY ZenonT(60), <1>4, <2>1, ThreadFacts DEF LocksInv, GraphInv, BlockedIsOnboard
  <2> QED
    BY ZenonT(60), <2>1, <2>2 DEF LocksInv, GraphInv, NothingStranded, BarrierIsLifted
<1>11. RunnableIsClaimable'
  <2>1. index' \in Nat /\ index' <= index /\ (onboard[t] => index' <= t)
    BY ZenonT(60), <1>1, <1>2, RewindFacts
  <2>2. \A x \in Txs : onboard'[x] /\ dependency'[x] = None =>
           (onboard[x] /\ dependency[x] = None) \/ index' <= x
    BY ZenonT(60), <1>1, <1>4, <2>1
  <2>3. \A v \in Threads : call[v].op = "next" => call'[v] = call[v]
    BY ZenonT(60), <1>1, <1>3
  <2> QED
    BY ZenonT(60), <2>1, <2>2, <2>3, RunnableKept
<1> QED
  BY ZenonT(60), <1>6, <1>7, <1>8, <1>9, <1>10, <1>11 DEF GraphInv, NothingStranded

\* The steps that only move a call on: a lock is taken, a call starts, remove looks
\* for its dependents, key_tx reads the boundary.
LEMMA CallGraph ==
  ASSUME LocksInv, NEW w \in Workers,
         \/ CallNext(w) \/ ReadCommit(w) \/ RemoveLoop(w)
         \/ \E t \in Txs : \/ CallRemove(w, t) \/ CallKeyTx(w, t) \/ CallAddNone(w, t) \/ Visit(w, t)
                           \/ \E d \in Txs : CallAdd(w, t, d)
  PROVE  GraphInv'
<1>n. N \in Nat /\ w \in Threads /\ w # Committer
  BY ZenonT(60), ThreadFacts
<1>t. LocksTypeOK /\ call[w] \in Calls
  BY ZenonT(60), <1>n DEF LocksInv, StageInv, LocksTypeOK
<1>u. UNCHANGED <<onboard, dependency, affect_txs, index, commit_idx>>
  BY ZenonT(60) DEF CallNext, ReadCommit, RemoveLoop, CallRemove, CallKeyTx, CallAddNone, Visit,
     CallAdd, graph
<1>b. ASSUME NEW op \in Ops \ {"visit", "release", "key_tx set", "commit"}, NEW t \in Nat,
             NEW d \in Txs \cup {None}, NEW want \in Seq(Mutexes), call[w].op = "idle",
             call' = [call EXCEPT ![w] = Op(op, t, d, want)]
      PROVE  GraphInv'
  <2> DEFINE c == Op(op, t, d, want)
  <2>1. c \in Calls /\ c.op = op
    BY ZenonT(60) DEF Op, Calls
  <2>2. call' = [call EXCEPT ![w] = c]
    BY ZenonT(60), <1>b
  <2> HIDE DEF c
  <2> QED
    BY ZenonT(60), <1>b, <1>n, <1>u, <2>1, <2>2, CallOnly
<1>s. /\ <<>> \in Seq(Mutexes)
      /\ \A t \in Txs : /\ t \in Nat /\ << StateLock(t) >> \in Seq(Mutexes)
                        /\ << AffectLock(t) >> \in Seq(Mutexes)
  BY <1>n, LockFacts DEF Txs
<1>1. CASE CallNext(w)
  BY ZenonT(60), <1>1, <1>b, <1>s DEF CallNext, Begin, Ops
<1>2. ASSUME NEW t \in Txs, CallRemove(w, t) PROVE GraphInv'
  BY ZenonT(60), <1>2, <1>b, <1>s DEF CallRemove, Begin, Ops, AffectLock
<1>3. ASSUME NEW t \in Txs, CallKeyTx(w, t) PROVE GraphInv'
  BY ZenonT(60), <1>3, <1>b, <1>s DEF CallKeyTx, Begin, Ops, StateLock
<1>4. ASSUME NEW t \in Txs, CallAddNone(w, t) PROVE GraphInv'
  BY ZenonT(60), <1>4, <1>b, <1>s DEF CallAddNone, Begin, Ops, StateLock
<1>5. ASSUME NEW t \in Txs, NEW d \in Txs, CallAdd(w, t, d) PROVE GraphInv'
  <2>1. AddLocks(t, d) \in Seq(Mutexes)
    BY DEF AddLocks, Mutexes
  <2> QED
    BY ZenonT(60), <1>5, <1>b, <1>s, <2>1 DEF CallAdd, Begin, Ops
<1>6. CASE ReadCommit(w)
  <2> DEFINE c == [call[w] EXCEPT !.op = "key_tx set", !.seen = commit_idx]
  <2>1. call[w].op = "key_tx" /\ call' = [call EXCEPT ![w] = c]
    BY ZenonT(60), <1>6 DEF ReadCommit, At
  <2>2. c \in Calls /\ c.op = "key_tx set" /\ c.seen = commit_idx /\ c.tx \in Nat /\ commit_idx \in Nat
    BY ZenonT(60), <1>t DEF Calls, Ops, LocksTypeOK
  <2> HIDE DEF c
  <2>3. c.tx <= c.seen \/ commit_idx < c.tx
    <3>1. \A i, j \in Nat : i <= j \/ j < i
      OBVIOUS
    <3> QED
      BY <2>2, <3>1, Zenon
  <2> QED
    BY ZenonT(60), <1>n, <1>u, <2>1, <2>2, <2>3, CallOnly
<1>7. ASSUME NEW t \in Txs, Visit(w, t) PROVE GraphInv'
  <2> DEFINE c == [call[w] EXCEPT !.op = "release", !.dep = t, !.want = << StateLock(t) >>]
  <2>1. call[w].op = "visit" /\ call' = [call EXCEPT ![w] = c]
    BY ZenonT(60), <1>7 DEF Visit, At, StateLock
  <2>2. c \in Calls /\ c.op = "release" /\ c.tx = call[w].tx /\ c.todo = call[w].todo
    BY ZenonT(60), <1>s, <1>t DEF Calls, Ops
  <2> HIDE DEF c
  <2>3. \A x \in Txs : c.tx < x /\ dependency[x] = c.tx => x \in c.todo
    BY ZenonT(60), <1>n, <2>1, <2>2 DEF LocksInv, GraphInv, RemovalKnows
  <2> QED
    BY ZenonT(60), <1>n, <1>u, <2>1, <2>2, <2>3, CallOnly
<1>8. CASE RemoveLoop(w)
  <2> DEFINE d == call[w].tx
  <2>1. call[w].op = "remove" /\ d \in Txs
    BY ZenonT(60), <1>8, <1>n, BodyFacts DEF RemoveLoop, At, LocksInv
  <2>2. CASE affect_txs[d] = {}
    <3>1. call' = [call EXCEPT ![w] = Idle] /\ Idle \in Calls /\ Idle.op = "idle"
      BY <1>8, <2>2 DEF RemoveLoop, EndCall, Idle, Calls, Ops
    <3> QED
      BY ZenonT(60), <1>n, <1>u, <2>1, <3>1, CallOnly
  <2>3. CASE affect_txs[d] # {}
    <3> DEFINE c == [call[w] EXCEPT !.op = "visit", !.todo = affect_txs[d]]
    <3>1. call' = [call EXCEPT ![w] = c]
      BY ZenonT(60), <1>8, <2>3 DEF RemoveLoop
    <3>2. c \in Calls /\ c.op = "visit" /\ c.tx = d /\ c.todo = affect_txs[d]
      BY ZenonT(60), <1>t, <2>1 DEF Calls, Ops, LocksTypeOK
    <3> HIDE DEF c
    <3>3. \A x \in Txs : d < x /\ dependency[x] = d => x \in affect_txs[d]
      BY <1>n, <2>1 DEF LocksInv, GraphInv, NothingStranded, BlockerKnows, Txs
    <3> QED
      BY ZenonT(60), <1>n, <1>u, <2>1, <3>1, <3>2, <3>3, CallOnly
  <2> QED
    BY ZenonT(60), <2>2, <2>3
<1> QED
  BY ZenonT(60), <1>1, <1>2, <1>3, <1>4, <1>5, <1>6, <1>7, <1>8

\* Lock: taking a mutex changes nothing of the graph.
LEMMA LockGraph ==
  ASSUME LocksInv, NEW w \in Threads, Lock(w)
  PROVE  GraphInv'
<1> DEFINE c == [call[w] EXCEPT !.want = Tail(@)]
<1>1. call[w] \in Calls /\ call[w].want # <<>>
  BY ZenonT(60) DEF LocksInv, StageInv, LocksTypeOK, Lock
<1>2. /\ call' = [call EXCEPT ![w] = c]
      /\ UNCHANGED <<onboard, dependency, affect_txs, index, commit_idx>>
  BY ZenonT(60) DEF Lock, graph
<1>3. Tail(call[w].want) \in Seq(Mutexes)
  <2>1. call[w].want \in Seq(Mutexes)
    BY ZenonT(60), <1>1 DEF Calls
  <2> QED
    BY SMTT(60), <1>1, <2>1
<1>4. /\ c \in Calls /\ c.op = call[w].op /\ c.tx = call[w].tx /\ c.todo = call[w].todo
      /\ c.seen = call[w].seen
  BY ZenonT(60), <1>1, <1>3 DEF Calls
<1> HIDE DEF c
<1>5. RemovalKnows(w) /\ BoundaryHolds(w) /\ CommitterInv
  BY ZenonT(60) DEF LocksInv, GraphInv
<1> QED
  BY ZenonT(60), <1>2, <1>4, <1>5, CallOnly DEF RemovalKnows, BoundaryHolds, CommitterInv

\* next, remove, commit, key_tx, add: every step keeps the graph's invariant.
LEMMA GraphStep ==
  ASSUME LocksInv, [LocksNext]_lockVars
  PROVE  GraphInv'
<1>1. ASSUME NEW w \in Threads, Lock(w) PROVE GraphInv'
  BY ZenonT(60), <1>1, LockGraph
<1>2. CASE CallCommit
  BY ZenonT(60), <1>2, CallCommitGraph
<1>3. CASE CommitBody
  BY ZenonT(60), <1>3, CommitBodyGraph
<1>4. ASSUME NEW w \in Workers, Claim(w) PROVE GraphInv'
  BY ZenonT(60), <1>4, ClaimGraph
<1>5. ASSUME NEW w \in Workers, NextBody(w) PROVE GraphInv'
  BY ZenonT(60), <1>5, NextBodyGraph
<1>6. ASSUME NEW w \in Workers, RemoveEnd(w) PROVE GraphInv'
  BY ZenonT(60), <1>6, RemoveEndGraph
<1>7. ASSUME NEW w \in Workers, NEW pop_next \in BOOLEAN, Release(w, pop_next) PROVE GraphInv'
  BY ZenonT(60), <1>7, ReleaseGraph
<1>8. ASSUME NEW w \in Workers, KeyTxBody(w) PROVE GraphInv'
  BY ZenonT(60), <1>8, KeyTxGraph
<1>9. ASSUME NEW w \in Workers, AddBody(w) PROVE GraphInv'
  BY ZenonT(60), <1>9, AddGraph
<1>10. ASSUME NEW w \in Workers, AddNoneBody(w) PROVE GraphInv'
  BY ZenonT(60), <1>10, AddNoneGraph
<1>11. ASSUME NEW w \in Workers,
              \/ CallNext(w) \/ ReadCommit(w) \/ RemoveLoop(w)
              \/ \E t \in Txs : \/ CallRemove(w, t) \/ CallKeyTx(w, t) \/ CallAddNone(w, t) \/ Visit(w, t)
                                \/ \E d \in Txs : CallAdd(w, t, d)
       PROVE  GraphInv'
  BY ZenonT(60), <1>11, CallGraph
<1>12. CASE UNCHANGED lockVars
  BY ZenonT(60), <1>12 DEF LocksInv, GraphInv, lockVars, NothingStranded, BlockerKnows,
     RunnableIsClaimable,
               BarrierIsLifted, RemovalKnows, BoundaryHolds, CommitterInv, BlockedIsOnboard
<1> QED
  BY <1>1, <1>2, <1>3, <1>4, <1>5, <1>6, <1>7, <1>8, <1>9, <1>10, <1>11, <1>12, ZenonT(60)
     DEF LocksNext

\* TxDependency::new: nothing is blocked, nothing is locked and no call is in progress.
LEMMA LocksInitially ==
  ASSUME LocksInit
  PROVE  LocksInv
<1>1. N \in Nat
  BY ZenonT(60), ThreadFacts
<1>2. /\ call \in [Threads -> Calls] /\ \A w \in Threads : call[w] = Idle
  BY SMTT(60) DEF LocksInit, Idle, Calls, Ops
<1>3. \A w \in Threads : call[w].op = "idle" /\ call[w].want = <<>>
  BY <1>2 DEF Idle
<1>4. LocksTypeOK
  BY ZenonT(60), <1>1, <1>2 DEF LocksInit, LocksTypeOK
<1>5. ASSUME NEW w \in Threads PROVE HoldsOnly(w, {})
  BY ZenonT(60), <1>5, ThreadFacts DEF LocksInit, HoldsOnly
<1>6. StageInv
  BY ZenonT(60), <1>3, <1>4, <1>5 DEF StageInv, Stage, IdleStage
<1>7. NothingStranded /\ BlockedIsOnboard
  <2>1. \A t \in Txs : dependency[t] = None /\ t \notin {None} /\ index <= t
    BY <1>1, ThreadFacts DEF LocksInit, Txs
  <2>2. \A t \in Txs : \A d \in 0 .. t - 1 : d \in Txs
    BY <1>1 DEF Txs
  <2> QED
    BY ZenonT(60), <2>1, <2>2 DEF NothingStranded, BlockerKnows, RunnableIsClaimable,
       BarrierIsLifted, BlockedIsOnboard
<1>8. GraphInv
  BY ZenonT(60), <1>3, <1>7, ThreadFacts DEF GraphInv, CommitterInv, RemovalKnows, BoundaryHolds
<1> QED
  BY ZenonT(60), <1>6, <1>8 DEF LocksInv

\* add, remove, commit, key_tx: for any number of transactions and workers, the
\* global lock order leaves no circle of threads that wait for each other.
THEOREM LocksNeverCycle == LocksSpec => []NoLockCycle
<1>1. LocksInit => LocksInv
  BY ZenonT(60), LocksInitially
<1>2. LocksInv /\ [LocksNext]_lockVars => LocksInv'
  BY ZenonT(60), StageStep, GraphStep DEF LocksInv
<1>3. LocksInv => NoLockCycle
  BY ZenonT(60), OrderBreaksCycles DEF LocksInv
<1> QED
  BY <1>1, <1>2, <1>3, PTL DEF LocksSpec

\* next, remove, add, key_tx, commit, one mutex at a time and for any number of
\* transactions and workers: a blocked transaction is known to its blocker, a
\* transaction that may be claimed is in front of the cursor or looked at, and a
\* barrier has its commit still ahead.
THEOREM LocksStrandNothing == LocksSpec => []NothingStranded
<1>1. LocksInit => LocksInv
  BY ZenonT(60), LocksInitially
<1>2. LocksInv /\ [LocksNext]_lockVars => LocksInv'
  BY ZenonT(60), StageStep, GraphStep DEF LocksInv
<1>3. LocksInv => NothingStranded
  BY ZenonT(60) DEF LocksInv, GraphInv
<1> QED
  BY <1>1, <1>2, <1>3, PTL DEF LocksSpec
=============================================================================
