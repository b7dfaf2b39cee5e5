---------------------------- MODULE MCBlockState ---------------------------
(***************************************************************************)
(* The state between blocks and database.  `part` says what a behaviour is *)
(* about: the cache since Cancun or before it, or the bundle of the        *)
(* committed blocks.                                                       *)
(***************************************************************************)
EXTENDS MCParallelState

VARIABLES
  part,
  cached, info, transitions, bundle_state, canonical, written, marks, reverting, taken, failed, ops

bundleVars ==
  <<cached, info, transitions, bundle_state, canonical, written, marks, reverting, taken, failed,
    ops>>

Shanghai == INSTANCE ParallelState WITH Cancun <- FALSE

Bundle == INSTANCE BlockBundle WITH
  Addr <- {1, 2}, Hash <- {"h"}, NoCode <- "no code", MaxBalance <- 2, MaxOps <- 4,
  transition_state <- transitions

NoBundle ==
  /\ cached = 0 /\ info = 0 /\ transitions = 0 /\ bundle_state = 0 /\ canonical = 0
  /\ written = 0 /\ marks = 0 /\ reverting = 0 /\ taken = 0 /\ failed = 0 /\ ops = 0

AllInit ==
  /\ Init
  /\ \/ part \in {"cancun", "shanghai"} /\ NoBundle
     \/ part = "bundle" /\ Bundle!Init

CancunStep == part = "cancun" /\ Next /\ UNCHANGED <<part, bundleVars>>
ShanghaiStep == part = "shanghai" /\ Shanghai!Next /\ UNCHANGED <<part, bundleVars>>
BundleStep == part = "bundle" /\ Bundle!Next /\ UNCHANGED <<part, vars>>

AllNext == CancunStep \/ ShanghaiStep \/ BundleStep
AllSpec == AllInit /\ [][AllNext]_<<part, vars, bundleVars>>

PartView == <<part, bundleVars, ReadView>>

-----------------------------------------------------------------------------
\* ParallelState::basic and storage, since Cancun: a read returns a value that was
\* current while it went on, and between commits the cache serves the committed
\* slots.
CancunReadsCurrent == part = "cancun" => ReadIsCurrent /\ SlotsServePrefix

\* increment_balances, apply_transition, parallel_take_bundle: every change is
\* tracked.
ChangesAreTracked == part = "bundle" => Bundle!ChangesAreTracked

\* parallel_apply_transitions_and_create_reverts: the bundle is revm's.
MatchesCanonical == part = "bundle" => Bundle!MatchesCanonical

\* create_revert: the reverts of every merge undo it.
RevertsUndo == part = "bundle" => Bundle!RevertsUndo
=============================================================================
