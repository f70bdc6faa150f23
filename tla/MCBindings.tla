------------------------------ MODULE MCBindings ------------------------------
(* Instance, for TLC, of what a presenter lets a producer do: the leases of its  *)
(* controllers, the two binding guards of a surface, and a file transfer.  They  *)
(* share no state, so a behaviour exercises one and the others stay as they began. *)
EXTENDS LeaseControl, InputGuard, FileDrop

VARIABLE exercised

bindingVars == <<vars, guardVars, dropVars, exercised>>

BindingsInit ==
  /\ exercised \in {"leases", "input", "drops", "files"}
  /\ Init /\ GuardInit /\ DropInit
  /\ exercised # "files" => source.length = Length

ButDrops == UNCHANGED <<vars, guardVars, exercised>>
ButLeases == UNCHANGED <<guardVars, dropVars, exercised>>

BindingsNext ==
  \/ exercised = "leases" /\ Next /\ ButLeases
  \/ exercised = "input" /\ GuardNext /\ UNCHANGED <<vars, dropVars, exercised>>
  \/ exercised = "drops" /\ BindingNext /\ ButDrops
  \/ exercised = "files" /\ TransferNext /\ ButDrops

AttemptOf(t) == exercised = "leases" /\ AttemptEnds(t) /\ ButLeases

\* The fairness of FairSpec and of GuardFairness, in the instance.
BindingsSpec ==
  /\ BindingsInit /\ [][BindingsNext]_bindingVars
  /\ GuardFairness /\ \A t \in Controllers : WF_bindingVars(AttemptOf(t))
===============================================================================
