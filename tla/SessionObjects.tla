--------------------------- MODULE SessionObjects ---------------------------
(***************************************************************************)
(* What a producer session keeps of the presenter's surfaces, nodes and     *)
(* scene, and the fallible requests that change them.  A Session is used by *)
(* one thread here: all of these calls take it by &mut.                     *)
(*                                                                          *)
(* A request that was sent is answered; or refused with ERROR, and nothing  *)
(* changed; or carried out and answered by a record the SDK rejects; or the *)
(* connection ends, and nobody knows.  The presenter is external: it checks *)
(* the preconditions of a commit against its own target and revision.       *)
(***************************************************************************)
EXTENDS Naturals, FiniteSets

CONSTANT MaxTargets  \* bound: changes of the target

ASSUME TargetsAssumption == MaxTargets \in Nat

VARIABLES
  link,    \* the control connection of the session is up
  store,   \* the presenter: surfaces, nodes, tracks, slots, open, revision, target
  scene,   \* SessionInfo: scene_revision and target_generation
  txn,     \* the scene transaction of the running call: phase, op, node, ok
  unsure   \* history: a reply was rejected, or undoing something was refused

objectVars == <<link, store, scene, txn, unsure>>

NoTxn == [phase |-> "none", op |-> "create", node |-> 0, ok |-> FALSE]
NoSlots == [s \in {1, 2} |-> 0]

ObjectsInit ==
  /\ link = TRUE /\ unsure = FALSE /\ txn = NoTxn
  /\ store = [surfaces |-> {}, nodes |-> {}, tracks |-> {}, slots |-> NoSlots,
              open |-> FALSE, revision |-> 0, target |-> 0]
  /\ scene = [revision |-> 0, target |-> 0]
-----------------------------------------------------------------------------
\* A request whose effect at the presenter is the given store.
Asks(effect, Then, Otherwise) ==
  \/ link /\ store' = effect /\ Then /\ UNCHANGED <<link, unsure>>
  \/ UNCHANGED <<link, store, unsure>> /\ Otherwise
  \/ link /\ store' = effect /\ Otherwise /\ unsure' = TRUE /\ UNCHANGED link
  \/ link /\ store' \in {store, effect} /\ link' = FALSE /\ Otherwise /\ UNCHANGED unsure

\* A request that undoes something and whose result is not looked at.
Undoes(effect, Then) ==
  \/ link /\ store' = effect /\ Then /\ UNCHANGED <<link, unsure>>
  \/ UNCHANGED <<link, store>> /\ Then /\ unsure' = TRUE
  \/ link /\ store' \in {store, effect} /\ link' = FALSE /\ Then /\ UNCHANGED unsure

WithSurface(n) == [store EXCEPT !.surfaces = @ \union {n}]
WithTrack(n) == [store EXCEPT !.tracks = @ \union {n}]
WithoutTrack(n) == [store EXCEPT !.tracks = @ \ {n}]
WithSlots(f) == [store EXCEPT !.slots = f]

\* DESTROY_SURFACE ends the tracks of the surface with it.
WithoutSurface(n, owned) ==
  [store EXCEPT !.surfaces = @ \ {n}, !.tracks = @ \ owned,
                !.slots = [s \in {1, 2} |-> IF @[s] \in owned THEN 0 ELSE @[s]]]
-----------------------------------------------------------------------------
\* scene_transaction: BEGIN_TXN, the mutation, COMMIT_TXN, and ABORT_TXN on a failure of
\* the last two.  The call that runs it waits for the phase "done".
StartsTxn(op, n) == txn' = [phase |-> "begin", op |-> op, node |-> n, ok |-> FALSE]
Phase(p) == txn' = [txn EXCEPT !.phase = p] /\ UNCHANGED scene

Begins ==
  /\ txn.phase = "begin"
  /\ Asks([store EXCEPT !.open = TRUE], Phase("mutate"), Phase("done"))

Mutates ==
  /\ txn.phase = "mutate"
  /\ Asks(store, Phase("commit"), Phase("abort"))

Committed ==
  [store EXCEPT !.open = FALSE, !.revision = @ + 1,
                !.nodes = IF txn.op = "create" THEN @ \union {txn.node} ELSE @ \ {txn.node}]
Current == scene.revision = store.revision /\ scene.target = store.target

\* Mutant: the revision of a commit is not kept.
CommitsForgetting ==
  /\ txn.phase = "commit" /\ UNCHANGED scene
  /\ \/ /\ link /\ Current
        /\ \/ /\ store' = Committed /\ UNCHANGED <<link, unsure>>
              /\ txn' = [txn EXCEPT !.phase = "done", !.ok = TRUE]
           \/ /\ store' = Committed /\ unsure' = TRUE /\ UNCHANGED link
              /\ txn' = [txn EXCEPT !.phase = "done"]
           \/ /\ store' \in {store, Committed} /\ link' = FALSE /\ UNCHANGED unsure
              /\ txn' = [txn EXCEPT !.phase = "abort"]
     \/ UNCHANGED <<link, store, unsure>> /\ txn' = [txn EXCEPT !.phase = "abort"]

\* The commit names the cached target and revision.  An answer of the wrong kind is an
\* error with an abort, a SCENE_PRESENTED that does not decode one without; either way
\* the new revision is lost.
Commits ==
  /\ txn.phase = "commit"
  /\ \/ /\ link /\ Current
        /\ \/ /\ store' = Committed /\ UNCHANGED <<link, unsure>>
              /\ scene' = [scene EXCEPT !.revision = Committed.revision]
              /\ txn' = [txn EXCEPT !.phase = "done", !.ok = TRUE]
           \/ /\ store' = Committed /\ unsure' = TRUE /\ UNCHANGED link /\ Phase("done")
           \/ /\ store' \in {store, Committed} /\ link' = FALSE /\ UNCHANGED unsure
              /\ Phase("abort")
     \/ UNCHANGED <<link, store, unsure>> /\ Phase("abort")

Aborts ==
  /\ txn.phase = "abort"
  /\ Undoes([store EXCEPT !.open = FALSE], Phase("done"))

\* The terminal changes its target; the application applies TARGET_CHANGED later, and a
\* commit in between is refused.
TargetChanges ==
  /\ store.target < MaxTargets
  /\ store' = [store EXCEPT !.target = @ + 1]
  /\ UNCHANGED <<link, scene, txn, unsure>>

LinkEnds ==
  /\ link /\ link' = FALSE
  /\ UNCHANGED <<store, scene, txn, unsure>>

TxnStep == Begins \/ Mutates \/ Commits \/ Aborts
-----------------------------------------------------------------------------
\* Between calls the session knows the scene revision of the presenter and has left no
\* transaction open, whichever of its requests failed, as long as it understood the
\* answers and the abort was taken: otherwise every later commit is refused
\* (Session::scene_transaction).
SceneInStep ==
  (link /\ ~unsure /\ txn.phase \in {"none", "done"}) =>
    scene.revision = store.revision /\ ~store.open
=============================================================================
