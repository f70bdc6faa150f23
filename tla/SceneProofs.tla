------------------------------ MODULE SceneProofs ------------------------------
(***************************************************************************)
(* Theorems about what a session leaves at the presenter: the scene        *)
(* transactions (SessionObjects), the image of a pane (PaneSession), and   *)
(* the tracks, slots and senders of a desktop (DesktopSession).            *)
(***************************************************************************)
EXTENDS PaneSession, DesktopSession, TLAPS

(* SessionObjects: the requests and the scene transaction.                 *)

StoreRecord ==
  [surfaces : SUBSET Nat, nodes : SUBSET Nat, tracks : SUBSET Nat,
   slots : [{1, 2} -> Nat], open : BOOLEAN, revision : Nat, target : Nat]
TxnRecord ==
  [phase : {"none", "begin", "mutate", "commit", "abort", "done"},
   op : {"create", "delete"}, node : Nat, ok : BOOLEAN]

ObjectsTyped ==
  /\ link \in BOOLEAN /\ unsure \in BOOLEAN
  /\ store \in StoreRecord /\ txn \in TxnRecord
  /\ scene \in [revision : Nat, target : Nat]

\* SceneInStep in the middle of a transaction too: the revision is known in every phase,
\* and a transaction is open only between its BEGIN_TXN and its end.
SceneKnown ==
  link /\ ~unsure =>
    /\ scene.revision = store.revision
    /\ store.open => txn.phase \in {"mutate", "commit", "abort"}

\* A transaction has succeeded only when it is done.
TxnOutcome == txn.ok => txn.phase = "done"

SceneInv == ObjectsTyped /\ SceneKnown /\ TxnOutcome

\* What each request writes at the presenter, field by field.
LEMMA SurfaceAdded ==
  ASSUME store \in StoreRecord, NEW n \in Nat
  PROVE  /\ WithSurface(n) \in StoreRecord
         /\ WithSurface(n).surfaces = store.surfaces \union {n}
         /\ WithSurface(n).nodes = store.nodes /\ WithSurface(n).tracks = store.tracks
         /\ WithSurface(n).slots = store.slots /\ WithSurface(n).open = store.open
         /\ WithSurface(n).revision = store.revision
BY DEF StoreRecord, WithSurface

LEMMA TrackAdded ==
  ASSUME store \in StoreRecord, NEW n \in Nat
  PROVE  /\ WithTrack(n) \in StoreRecord
         /\ WithTrack(n).tracks = store.tracks \union {n}
         /\ WithTrack(n).nodes = store.nodes /\ WithTrack(n).surfaces = store.surfaces
         /\ WithTrack(n).slots = store.slots /\ WithTrack(n).open = store.open
         /\ WithTrack(n).revision = store.revision
BY DEF StoreRecord, WithTrack

LEMMA TrackRemoved ==
  ASSUME store \in StoreRecord, NEW n \in Nat
  PROVE  /\ WithoutTrack(n) \in StoreRecord
         /\ WithoutTrack(n).tracks = store.tracks \ {n}
         /\ WithoutTrack(n).slots = store.slots /\ WithoutTrack(n).open = store.open
         /\ WithoutTrack(n).revision = store.revision
BY DEF StoreRecord, WithoutTrack

LEMMA SlotsSet ==
  ASSUME store \in StoreRecord, NEW f \in [{1, 2} -> Nat]
  PROVE  /\ WithSlots(f) \in StoreRecord
         /\ WithSlots(f).slots = f /\ WithSlots(f).tracks = store.tracks
         /\ WithSlots(f).nodes = store.nodes /\ WithSlots(f).surfaces = store.surfaces
         /\ WithSlots(f).open = store.open /\ WithSlots(f).revision = store.revision
BY DEF StoreRecord, WithSlots

LEMMA SurfaceRemoved ==
  ASSUME store \in StoreRecord, NEW n \in Nat, NEW owned
  PROVE  /\ WithoutSurface(n, owned) \in StoreRecord
         /\ WithoutSurface(n, owned).surfaces = store.surfaces \ {n}
         /\ WithoutSurface(n, owned).tracks = store.tracks \ owned
         /\ WithoutSurface(n, owned).nodes = store.nodes
         /\ WithoutSurface(n, owned).open = store.open
         /\ WithoutSurface(n, owned).revision = store.revision
<1> DEFINE f == [s \in {1, 2} |-> IF store.slots[s] \in owned THEN 0 ELSE store.slots[s]]
<1>1. f \in [{1, 2} -> Nat]
      BY DEF StoreRecord
<1>2. WithoutSurface(n, owned) =
        [store EXCEPT !.surfaces = store.surfaces \ {n}, !.tracks = store.tracks \ owned,
                      !.slots = f]
      BY DEF WithoutSurface
<1> HIDE DEF f
<1> QED
    BY <1>1, <1>2 DEF StoreRecord

LEMMA TxnWritten ==
  ASSUME store \in StoreRecord, txn \in TxnRecord, NEW b \in BOOLEAN
  PROVE  /\ [store EXCEPT !.open = b] \in StoreRecord
         /\ [store EXCEPT !.open = b].open = b
         /\ [store EXCEPT !.open = b].revision = store.revision
         /\ [store EXCEPT !.open = b].surfaces = store.surfaces
         /\ [store EXCEPT !.open = b].nodes = store.nodes
         /\ [store EXCEPT !.open = b].tracks = store.tracks
         /\ [store EXCEPT !.open = b].slots = store.slots
BY DEF StoreRecord

LEMMA CommitWritten ==
  ASSUME store \in StoreRecord, txn \in TxnRecord
  PROVE  /\ Committed \in StoreRecord
         /\ Committed.open = FALSE /\ Committed.revision = store.revision + 1
         /\ Committed.surfaces = store.surfaces /\ Committed.tracks = store.tracks
         /\ Committed.slots = store.slots
         /\ Committed.nodes = IF txn.op = "create" THEN store.nodes \union {txn.node}
                              ELSE store.nodes \ {txn.node}
<1> DEFINE nodes == IF txn.op = "create" THEN store.nodes \union {txn.node}
                    ELSE store.nodes \ {txn.node}
<1>1. nodes \in SUBSET Nat
      BY DEF StoreRecord, TxnRecord
<1>2. Committed = [store EXCEPT !.open = FALSE, !.revision = store.revision + 1,
                                !.nodes = nodes]
      BY DEF Committed
<1>3. store.revision + 1 \in Nat
      BY DEF StoreRecord
<1> HIDE DEF nodes
<1>4. /\ Committed \in StoreRecord
      /\ Committed.open = FALSE /\ Committed.revision = store.revision + 1
      /\ Committed.surfaces = store.surfaces /\ Committed.tracks = store.tracks
      /\ Committed.slots = store.slots /\ Committed.nodes = nodes
      BY <1>1, <1>2, <1>3 DEF StoreRecord
<1> QED
    BY <1>4 DEF nodes

LEMMA TargetWritten ==
  ASSUME store \in StoreRecord
  PROVE  LET s == [store EXCEPT !.target = @ + 1]
         IN /\ s \in StoreRecord
            /\ s.surfaces = store.surfaces /\ s.nodes = store.nodes
            /\ s.tracks = store.tracks /\ s.slots = store.slots
            /\ s.open = store.open /\ s.revision = store.revision
BY DEF StoreRecord

\* A step of the transaction changes the scene only: it keeps the rest of the store, the
\* operation, and, without a silent failure, the nodes until it succeeds.
LEMMA TxnSteps ==
  ASSUME SceneInv, TxnStep
  PROVE  /\ SceneInv'
         /\ txn.phase \notin {"none", "done"} /\ txn'.phase # "none" /\ ~txn.ok
         /\ txn'.op = txn.op /\ txn'.node = txn.node
         /\ store'.surfaces = store.surfaces /\ store'.tracks = store.tracks
         /\ store'.slots = store.slots
         /\ link' => link
         /\ ~unsure' => ~unsure
         /\ link' /\ ~unsure' =>
              store'.nodes = IF txn'.ok
                               THEN IF txn.op = "create" THEN store.nodes \union {txn.node}
                                                         ELSE store.nodes \ {txn.node}
                               ELSE store.nodes
<1>0. /\ link \in BOOLEAN /\ unsure \in BOOLEAN /\ store \in StoreRecord /\ txn \in TxnRecord
      /\ scene \in [revision : Nat, target : Nat] /\ (txn.ok => txn.phase = "done")
      /\ txn.ok \in BOOLEAN /\ store.open \in BOOLEAN
      BY DEF SceneInv, ObjectsTyped, TxnOutcome, TxnRecord, StoreRecord
<1> USE DEF SceneInv
<1>1. ASSUME NEW p \in {"mutate", "commit", "abort", "done"}, Phase(p)
      PROVE  /\ txn' \in TxnRecord /\ scene' = scene
             /\ txn'.phase = p /\ txn'.op = txn.op /\ txn'.node = txn.node
             /\ txn'.ok = txn.ok
      BY <1>0, <1>1 DEF Phase, TxnRecord
<1>2. CASE Begins
  <2>1. /\ [store EXCEPT !.open = TRUE] \in StoreRecord
        /\ [store EXCEPT !.open = TRUE].revision = store.revision
        /\ [store EXCEPT !.open = TRUE].surfaces = store.surfaces
        /\ [store EXCEPT !.open = TRUE].nodes = store.nodes
        /\ [store EXCEPT !.open = TRUE].tracks = store.tracks
        /\ [store EXCEPT !.open = TRUE].slots = store.slots
        BY <1>0, TxnWritten
  <2>2. txn.phase = "begin" /\ ~txn.ok
        BY <1>0, <1>2 DEF Begins
  <2>3. \/ /\ store' = [store EXCEPT !.open = TRUE] /\ Phase("mutate")
           /\ link' = link /\ unsure' = unsure
        \/ /\ store' = store /\ link' = link /\ unsure' = unsure /\ Phase("done")
        \/ /\ store' = [store EXCEPT !.open = TRUE] /\ Phase("done")
           /\ unsure' = TRUE /\ link' = link
        \/ /\ store' \in {store, [store EXCEPT !.open = TRUE]} /\ Phase("done")
           /\ link' = FALSE /\ unsure' = unsure
        BY <1>2 DEF Begins, Asks
  <2>4. ObjectsTyped' /\ TxnOutcome'
        BY <1>0, <1>1, <2>1, <2>2, <2>3 DEF ObjectsTyped, TxnOutcome
  <2>5. SceneKnown'
        BY <1>0, <1>1, <2>1, <2>2, <2>3 DEF SceneKnown
  <2>6. /\ txn'.phase # "none" /\ txn'.op = txn.op /\ txn'.node = txn.node /\ ~txn'.ok
        /\ store'.surfaces = store.surfaces /\ store'.tracks = store.tracks
        /\ store'.slots = store.slots /\ store'.nodes = store.nodes
        BY <1>0, <1>1, <2>1, <2>2, <2>3
  <2>7. (link' => link) /\ (~unsure' => ~unsure)
        BY <1>0, <2>1, <2>2, <2>3
  <2> QED
      BY <1>0, <2>2, <2>4, <2>5, <2>6, <2>7
<1>3. CASE Mutates
  <2>1. txn.phase = "mutate" /\ ~txn.ok /\ store' = store
        BY <1>0, <1>3 DEF Mutates, Asks
  <2>2. \/ Phase("commit") /\ link' = link /\ unsure' = unsure
        \/ Phase("abort") /\ link' = link /\ unsure' = unsure
        \/ Phase("abort") /\ link' = link /\ unsure' = TRUE
        \/ Phase("abort") /\ link' = FALSE /\ unsure' = unsure
        BY <1>3 DEF Mutates, Asks
  <2>3. ObjectsTyped' /\ TxnOutcome'
        BY <1>0, <1>1, <2>1, <2>2 DEF ObjectsTyped, TxnOutcome
  <2>4. SceneKnown'
        BY <1>0, <1>1, <2>1, <2>2 DEF SceneKnown
  <2>5. /\ txn'.phase # "none" /\ txn'.op = txn.op /\ txn'.node = txn.node /\ ~txn'.ok
        /\ store'.surfaces = store.surfaces /\ store'.tracks = store.tracks
        /\ store'.slots = store.slots /\ store'.nodes = store.nodes
        BY <1>0, <1>1, <2>1, <2>2
  <2>6. (link' => link) /\ (~unsure' => ~unsure)
        BY <1>0, <2>1, <2>2
  <2> QED
      BY <1>0, <2>1, <2>3, <2>4, <2>5, <2>6
<1>4. CASE Commits
  <2>1. txn.phase = "commit" /\ ~txn.ok
        BY <1>0, <1>4 DEF Commits
  <2>2. /\ Committed \in StoreRecord
        /\ Committed.open = FALSE /\ Committed.revision = store.revision + 1
        /\ Committed.surfaces = store.surfaces /\ Committed.tracks = store.tracks
        /\ Committed.slots = store.slots
        /\ Committed.nodes = IF txn.op = "create" THEN store.nodes \union {txn.node}
                             ELSE store.nodes \ {txn.node}
        /\ Committed.revision \in Nat
        BY <1>0, CommitWritten DEF StoreRecord
  <2>3. CASE /\ link /\ store' = Committed /\ link' = link /\ unsure' = unsure
             /\ scene' = [scene EXCEPT !.revision = Committed.revision]
             /\ txn' = [txn EXCEPT !.phase = "done", !.ok = TRUE]
    <3>1. /\ scene' \in [revision : Nat, target : Nat]
          /\ scene'.revision = Committed.revision
          BY <1>0, <2>2, <2>3
    <3>2. /\ txn' \in TxnRecord /\ txn'.phase = "done" /\ txn'.ok = TRUE
          /\ txn'.op = txn.op /\ txn'.node = txn.node
          BY <1>0, <2>3 DEF TxnRecord
    <3> QED
        BY <1>0, <2>1, <2>2, <2>3, <3>1, <3>2 DEF ObjectsTyped, SceneKnown, TxnOutcome
  <2>4. CASE \/ store' = Committed /\ unsure' = TRUE /\ link' = link /\ Phase("done")
             \/ /\ store' \in {store, Committed} /\ link' = FALSE /\ unsure' = unsure
                /\ Phase("abort")
             \/ store' = store /\ link' = link /\ unsure' = unsure /\ Phase("abort")
    <3>1. ObjectsTyped' /\ TxnOutcome'
          BY <1>0, <1>1, <2>1, <2>2, <2>4 DEF ObjectsTyped, TxnOutcome
    <3>2. SceneKnown'
          BY <1>0, <1>1, <2>1, <2>2, <2>4 DEF SceneKnown
    <3>3. /\ txn'.phase # "none" /\ txn'.op = txn.op /\ txn'.node = txn.node /\ ~txn'.ok
          /\ store'.surfaces = store.surfaces /\ store'.tracks = store.tracks
          /\ store'.slots = store.slots
          /\ link' /\ ~unsure' => store'.nodes = store.nodes
          BY <1>0, <1>1, <2>1, <2>2, <2>4
    <3>4. (link' => link) /\ (~unsure' => ~unsure)
          BY <1>0, <2>1, <2>2, <2>4
    <3> QED
        BY <1>0, <2>1, <3>1, <3>2, <3>3, <3>4
  <2> QED
      BY <1>4, <2>3, <2>4 DEF Commits
<1>5. CASE Aborts
  <2>1. /\ [store EXCEPT !.open = FALSE] \in StoreRecord
        /\ [store EXCEPT !.open = FALSE].open = FALSE
        /\ [store EXCEPT !.open = FALSE].revision = store.revision
        /\ [store EXCEPT !.open = FALSE].surfaces = store.surfaces
        /\ [store EXCEPT !.open = FALSE].nodes = store.nodes
        /\ [store EXCEPT !.open = FALSE].tracks = store.tracks
        /\ [store EXCEPT !.open = FALSE].slots = store.slots
        BY <1>0, TxnWritten
  <2>2. txn.phase = "abort" /\ ~txn.ok /\ Phase("done")
        BY <1>0, <1>5 DEF Aborts, Undoes
  <2>3. \/ store' = [store EXCEPT !.open = FALSE] /\ link' = link /\ unsure' = unsure
        \/ store' = store /\ link' = link /\ unsure' = TRUE
        \/ /\ store' \in {store, [store EXCEPT !.open = FALSE]}
           /\ link' = FALSE /\ unsure' = unsure
        BY <1>5 DEF Aborts, Undoes
  <2>4. ObjectsTyped' /\ TxnOutcome'
        BY <1>0, <1>1, <2>1, <2>2, <2>3 DEF ObjectsTyped, TxnOutcome
  <2>5. SceneKnown'
        BY <1>0, <1>1, <2>1, <2>2, <2>3 DEF SceneKnown
  <2>6. /\ txn'.phase # "none" /\ txn'.op = txn.op /\ txn'.node = txn.node /\ ~txn'.ok
        /\ store'.surfaces = store.surfaces /\ store'.tracks = store.tracks
        /\ store'.slots = store.slots /\ store'.nodes = store.nodes
        BY <1>0, <1>1, <2>1, <2>2, <2>3
  <2>7. (link' => link) /\ (~unsure' => ~unsure)
        BY <1>0, <2>1, <2>2, <2>3
  <2> QED
      BY <1>0, <2>2, <2>4, <2>5, <2>6, <2>7
<1> QED
    BY <1>2, <1>3, <1>4, <1>5 DEF TxnStep

\* The terminal and the end of the connection change what the scene invariant permits.
LEMMA OutsideSteps ==
  ASSUME SceneInv, TargetChanges \/ LinkEnds
  PROVE  /\ SceneInv' /\ txn' = txn /\ unsure' = unsure /\ (link' => link)
         /\ store'.surfaces = store.surfaces /\ store'.nodes = store.nodes
         /\ store'.tracks = store.tracks /\ store'.slots = store.slots
<1>1. CASE TargetChanges
  <2>1. store \in StoreRecord /\ store' = [store EXCEPT !.target = @ + 1]
        BY <1>1 DEF TargetChanges, SceneInv, ObjectsTyped
  <2>2. /\ store' \in StoreRecord
        /\ store'.surfaces = store.surfaces /\ store'.nodes = store.nodes
        /\ store'.tracks = store.tracks /\ store'.slots = store.slots
        /\ store'.open = store.open /\ store'.revision = store.revision
        BY <2>1, TargetWritten
  <2> QED
      BY <1>1, <2>2 DEF TargetChanges, SceneInv, ObjectsTyped, SceneKnown, TxnOutcome
<1>2. CASE LinkEnds
      BY <1>2 DEF LinkEnds, SceneInv, ObjectsTyped, SceneKnown, TxnOutcome
<1> QED
    BY <1>1, <1>2

\* A request outside a transaction leaves the revision and the transaction alone.
LEMMA RequestKeepsScene ==
  ASSUME SceneInv, NEW effect \in StoreRecord,
         effect.revision = store.revision, effect.open = store.open,
         store' \in {store, effect}, scene' = scene, txn' = txn,
         link' \in {link, FALSE}, unsure' \in {unsure, TRUE}
  PROVE  SceneInv'
<1>1. store' \in StoreRecord /\ store'.revision = store.revision /\ store'.open = store.open
      BY DEF SceneInv, ObjectsTyped
<1>2. ObjectsTyped' /\ TxnOutcome'
      BY <1>1 DEF SceneInv, ObjectsTyped, TxnOutcome
<1>3. SceneKnown'
      BY <1>1 DEF SceneInv, ObjectsTyped, SceneKnown
<1> QED
    BY <1>2, <1>3 DEF SceneInv

\* The record of a transaction that starts, and of none.
LEMMA TxnReset ==
  /\ NoTxn \in TxnRecord /\ NoTxn.phase = "none" /\ ~NoTxn.ok
  /\ \A op \in {"create", "delete"}, n \in Nat :
       StartsTxn(op, n) => /\ txn' \in TxnRecord /\ txn'.phase = "begin" /\ ~txn'.ok
                           /\ txn'.op = op /\ txn'.node = n
<1>1. NoTxn \in TxnRecord /\ NoTxn.phase = "none" /\ ~NoTxn.ok
      BY DEF NoTxn, TxnRecord
<1>2. ASSUME NEW op \in {"create", "delete"}, NEW n \in Nat, StartsTxn(op, n)
      PROVE  /\ txn' \in TxnRecord /\ txn'.phase = "begin" /\ ~txn'.ok
             /\ txn'.op = op /\ txn'.node = n
      BY <1>2 DEF StartsTxn, TxnRecord
<1> QED
    BY <1>1, <1>2

\* A transaction starts, or its result is taken, when none runs.
LEMMA TxnTurnsOver ==
  ASSUME SceneInv, txn.phase \in {"none", "done"}, store' = store, scene' = scene,
         link' = link, unsure' \in {unsure, TRUE},
         txn' \in TxnRecord, ~txn'.ok
  PROVE  SceneInv'
<1>1. ObjectsTyped' /\ TxnOutcome'
      BY DEF SceneInv, ObjectsTyped, TxnOutcome
<1>2. SceneKnown'
  <2>1. link' /\ ~unsure' => link /\ ~unsure
        BY DEF SceneInv, ObjectsTyped
  <2>2. link /\ ~unsure => scene.revision = store.revision /\ ~store.open
        BY DEF SceneInv, SceneKnown
  <2> QED
      BY <2>1, <2>2 DEF SceneKnown
<1> QED
    BY <1>1, <1>2 DEF SceneInv

(* PaneSession: the programs of show and clear.                            *)

Quiet == {"idle", "close", "close_end", "unsurface", "unsurface_end", "surface", "track",
          "open", "activate", "undo_surface"}
Committing == {"node", "unnode", "unnode_end", "undo"}

PaneTyped ==
  /\ shown \in Nat /\ clearing \in Nat /\ image \in Nat
  /\ pane \in Quiet \union Committing

\* A scene transaction runs only where the program waits for one, and it is that one.
TxnInPlace ==
  /\ pane \in Quiet => txn.phase = "none"
  /\ pane \in {"unnode", "unnode_end"} => txn.phase # "none"
  /\ txn.phase # "none" =>
       /\ txn.op = IF pane = "node" THEN "create" ELSE "delete"
       /\ txn.node = IF pane \in {"unnode", "unnode_end"} THEN clearing ELSE image

\* The pane owns an image only between calls, and image numbers start at one.
OwnedBetweenCalls ==
  /\ pane # "idle" => shown = 0 /\ image # 0
  /\ shown # 0 => image # 0

Holds(surfaces, nodes, tracks) ==
  store.surfaces = surfaces /\ store.nodes = nodes /\ store.tracks = tracks

\* What the presenter holds at every point of a show or a clear, as long as every result
\* was understood: PaneLeavesNothing is what it says of the point between calls.
PaneHolds ==
  link /\ ~unsure =>
    /\ pane = "idle" => Holds(Owned, Owned, Owned)
    /\ pane \in {"close", "close_end"} => Holds({clearing}, {clearing}, {clearing})
    /\ pane \in {"unnode", "unnode_end"} =>
         Holds({clearing}, IF txn.ok THEN {} ELSE {clearing}, {clearing})
    /\ pane \in {"unsurface", "unsurface_end"} => Holds({clearing}, {}, {clearing})
    /\ pane = "surface" => Holds({}, {}, {})
    /\ pane = "node" => Holds({image}, IF txn.ok THEN {image} ELSE {}, {})
    /\ pane = "track" => Holds({image}, {image}, {})
    /\ pane \in {"open", "activate"} => Holds({image}, {image}, {image})
    /\ pane = "undo" => /\ store.surfaces = {image} /\ store.tracks \subseteq {image}
                        /\ store.nodes \subseteq IF txn.ok THEN {} ELSE {image}
    /\ pane = "undo_surface" => /\ store.surfaces = {image} /\ store.nodes = {}
                                /\ store.tracks \subseteq {image}

PaneInv == SceneInv /\ PaneTyped /\ TxnInPlace /\ OwnedBetweenCalls /\ PaneHolds

\* Steps that ask nothing of the presenter.
LEMMA PaneLocalSteps ==
  ASSUME PaneInv, Shows \/ Clears \/ OpensAndSends \/ UNCHANGED paneVars
  PROVE  PaneInv'
<1>1. UNCHANGED objectVars
      BY DEF Shows, Clears, OpensAndSends, paneVars
<1>2. SceneInv'
      BY <1>1 DEF objectVars, PaneInv, SceneInv, ObjectsTyped, SceneKnown, TxnOutcome
<1> USE DEF PaneInv
<1>3. CASE Shows
  <2>1. /\ pane = "idle" /\ image' = image + 1 /\ clearing' = shown /\ shown' = 0
        /\ pane' = IF shown = 0 THEN "surface" ELSE "close"
        BY <1>3 DEF Shows
  <2>2. PaneTyped' /\ OwnedBetweenCalls'
        BY <2>1 DEF PaneTyped, OwnedBetweenCalls, Quiet, Committing
  <2>3. TxnInPlace'
        BY <1>1, <2>1 DEF TxnInPlace, objectVars, Quiet
  <2>4. PaneHolds'
        BY <1>1, <2>1 DEF PaneHolds, objectVars, Holds, Owned
  <2> QED
      BY <1>2, <2>2, <2>3, <2>4
<1>4. CASE Clears
  <2>1. /\ pane = "idle" /\ image' = image /\ clearing' = shown /\ shown' = 0
        /\ pane' = "close_end" /\ shown # 0
        BY <1>4 DEF Clears
  <2>2. PaneTyped' /\ OwnedBetweenCalls'
        BY <2>1 DEF PaneTyped, OwnedBetweenCalls, Quiet, Committing
  <2>3. TxnInPlace'
        BY <1>1, <2>1 DEF TxnInPlace, objectVars, Quiet
  <2>4. PaneHolds'
        BY <1>1, <2>1 DEF PaneHolds, objectVars, Holds, Owned
  <2> QED
      BY <1>2, <2>2, <2>3, <2>4
<1>5. CASE OpensAndSends
  <2>1. /\ pane = "open" /\ pane' \in {"activate", "undo"}
        /\ image' = image /\ clearing' = clearing /\ shown' = shown
        BY <1>5 DEF OpensAndSends, Goto
  <2>2. PaneTyped' /\ OwnedBetweenCalls'
        BY <2>1 DEF PaneTyped, OwnedBetweenCalls, Quiet, Committing
  <2>3. TxnInPlace' /\ txn.phase = "none" /\ txn' = txn
        BY <1>1, <2>1 DEF TxnInPlace, objectVars, Quiet
  <2>4. ~txn.ok
        BY <2>3 DEF SceneInv, TxnOutcome
  <2>5. PaneHolds'
        BY <1>1, <2>1, <2>3, <2>4 DEF PaneHolds, objectVars, Holds
  <2> QED
      BY <1>2, <2>2, <2>3, <2>5
<1>6. CASE UNCHANGED paneVars
      BY <1>2, <1>6 DEF paneVars, paneOwn, objectVars, PaneTyped, TxnInPlace,
                        OwnedBetweenCalls, PaneHolds, Holds, Owned
<1> QED
    BY <1>3, <1>4, <1>5, <1>6

\* Steps that start a transaction or take its result.
LEMMA PaneTxnSteps ==
  ASSUME PaneInv, ClosesChannel \/ DeletesNode \/ PlacesNode \/ NodePlaced \/ UndoesNode
  PROVE  PaneInv'
<1>0. /\ link \in BOOLEAN /\ unsure \in BOOLEAN /\ shown \in Nat /\ clearing \in Nat
      /\ image \in Nat /\ SceneInv
      BY DEF PaneInv, SceneInv, ObjectsTyped, PaneTyped
<1> USE DEF PaneInv
<1>1. CASE ClosesChannel
  <2>1. /\ pane \in {"close", "close_end"} /\ pane' \in {"unnode", "unnode_end"}
        /\ shown' = shown /\ clearing' = clearing /\ image' = image
        /\ link' = link /\ store' = store /\ scene' = scene /\ unsure' = unsure
        /\ StartsTxn("delete", clearing)
        BY <1>1 DEF ClosesChannel, Goto
  <2>2. /\ txn' \in TxnRecord /\ txn'.phase = "begin" /\ ~txn'.ok
        /\ txn'.op = "delete" /\ txn'.node = clearing
        BY <1>0, <2>1, TxnReset
  <2>3. txn.phase = "none"
        BY <2>1 DEF TxnInPlace, Quiet
  <2>4. SceneInv'
        BY <1>0, <2>1, <2>2, <2>3, TxnTurnsOver
  <2>5. PaneTyped' /\ OwnedBetweenCalls' /\ TxnInPlace'
        BY <2>1, <2>2 DEF PaneTyped, OwnedBetweenCalls, TxnInPlace, Quiet, Committing
  <2>6. PaneHolds'
        BY <2>1, <2>2 DEF PaneHolds, Holds
  <2> QED
      BY <2>4, <2>5, <2>6
<1>2. CASE DeletesNode
  <2>1. /\ pane \in {"unnode", "unnode_end"} /\ pane' \in {"unsurface", "unsurface_end"}
        /\ shown' = shown /\ clearing' = clearing /\ image' = image
        /\ link' = link /\ store' = store /\ scene' = scene
        /\ unsure' = (unsure \/ ~txn.ok) /\ txn' = NoTxn /\ txn.phase = "done"
        BY <1>2 DEF DeletesNode, Goto
  <2>2. SceneInv'
        BY <1>0, <2>1, TxnTurnsOver, TxnReset
  <2>3. PaneTyped' /\ OwnedBetweenCalls' /\ TxnInPlace'
        BY <2>1, TxnReset DEF PaneTyped, OwnedBetweenCalls, TxnInPlace, Quiet, Committing
  <2>4. PaneHolds'
        BY <1>0, <2>1 DEF PaneHolds, Holds
  <2> QED
      BY <2>2, <2>3, <2>4
<1>3. CASE PlacesNode
  <2>1. /\ pane = "node" /\ pane' = pane /\ txn.phase = "none"
        /\ shown' = shown /\ clearing' = clearing /\ image' = image
        /\ link' = link /\ store' = store /\ scene' = scene /\ unsure' = unsure
        /\ StartsTxn("create", image)
        BY <1>3 DEF PlacesNode, paneOwn
  <2>2. /\ txn' \in TxnRecord /\ txn'.phase = "begin" /\ ~txn'.ok
        /\ txn'.op = "create" /\ txn'.node = image
        BY <1>0, <2>1, TxnReset
  <2>3. ~txn.ok
        BY <2>1 DEF SceneInv, TxnOutcome
  <2>4. SceneInv'
        BY <1>0, <2>1, <2>2, TxnTurnsOver
  <2>5. PaneTyped' /\ OwnedBetweenCalls' /\ TxnInPlace'
        BY <2>1, <2>2 DEF PaneTyped, OwnedBetweenCalls, TxnInPlace, Quiet, Committing
  <2>6. PaneHolds'
        BY <2>1, <2>2, <2>3 DEF PaneHolds, Holds
  <2> QED
      BY <2>4, <2>5, <2>6
<1>4. CASE NodePlaced
  <2>1. /\ pane = "node" /\ txn.phase = "done" /\ txn' = NoTxn
        /\ pane' = IF txn.ok THEN "track" ELSE "undo"
        /\ shown' = shown /\ clearing' = clearing /\ image' = image
        /\ link' = link /\ store' = store /\ scene' = scene /\ unsure' = unsure
        BY <1>4 DEF NodePlaced, Goto
  <2>2. SceneInv'
        BY <1>0, <2>1, TxnTurnsOver, TxnReset
  <2>3. PaneTyped' /\ OwnedBetweenCalls' /\ TxnInPlace'
        BY <2>1, TxnReset DEF PaneTyped, OwnedBetweenCalls, TxnInPlace, Quiet, Committing
  <2>4. PaneHolds'
        BY <2>1, TxnReset DEF PaneHolds, Holds
  <2> QED
      BY <2>2, <2>3, <2>4
\* The deletion of the error path: if it failed, the node was never there.
<1>5. CASE UndoesNode
  <2>1. /\ pane = "undo" /\ shown' = shown /\ clearing' = clearing /\ image' = image
        /\ link' = link /\ store' = store /\ scene' = scene
        BY <1>5 DEF UndoesNode, Goto, paneOwn
  <2>2. CASE txn.phase = "none"
    <3>1. unsure' = unsure /\ pane' = pane /\ StartsTxn("delete", image)
          BY <1>5, <2>2 DEF UndoesNode, paneOwn
    <3>2. /\ txn' \in TxnRecord /\ txn'.phase = "begin" /\ ~txn'.ok
          /\ txn'.op = "delete" /\ txn'.node = image
          BY <1>0, <3>1, TxnReset
    <3>3. SceneInv'
          BY <1>0, <2>1, <2>2, <3>1, <3>2, TxnTurnsOver
    <3>4. PaneTyped' /\ OwnedBetweenCalls' /\ TxnInPlace'
          BY <2>1, <3>1, <3>2 DEF PaneTyped, OwnedBetweenCalls, TxnInPlace, Quiet, Committing
    <3>5. PaneHolds'
          BY <2>1, <3>1, <3>2 DEF PaneHolds, Holds
    <3> QED
        BY <3>3, <3>4, <3>5
  <2>3. CASE txn.phase = "done"
    <3>1. /\ unsure' = (unsure \/ (~txn.ok /\ image \in store.nodes))
          /\ pane' = "undo_surface" /\ txn' = NoTxn
          BY <1>5, <2>3 DEF UndoesNode, Goto
    <3>2. SceneInv'
          BY <1>0, <2>1, <2>3, <3>1, TxnTurnsOver, TxnReset
    <3>3. PaneTyped' /\ OwnedBetweenCalls' /\ TxnInPlace'
          BY <2>1, <3>1, TxnReset
          DEF PaneTyped, OwnedBetweenCalls, TxnInPlace, Quiet, Committing
    <3>4. PaneHolds'
          BY <1>0, <2>1, <3>1 DEF PaneHolds, Holds
    <3> QED
        BY <3>2, <3>3, <3>4
  <2> QED
      BY <1>5, <2>2, <2>3 DEF UndoesNode
<1> QED
    BY <1>1, <1>2, <1>3, <1>4, <1>5

\* Steps that ask the presenter for something outside a transaction.
LEMMA PaneRequestSteps ==
  ASSUME PaneInv,
         CreatesSurface \/ CreatesTrack \/ ActivatesImage \/ DestroysSurface \/ UndoesSurface
  PROVE  PaneInv'
<1>0. /\ link \in BOOLEAN /\ unsure \in BOOLEAN /\ shown \in Nat /\ clearing \in Nat
      /\ image \in Nat /\ store \in StoreRecord
      BY DEF PaneInv, SceneInv, ObjectsTyped, PaneTyped
<1>1. ASSUME NEW p \in Quiet, pane \in Quiet, Goto(p), p # "idle" => pane # "idle", txn' = txn
      PROVE  PaneTyped' /\ TxnInPlace' /\ OwnedBetweenCalls'
      BY <1>1 DEF PaneInv, PaneTyped, TxnInPlace, OwnedBetweenCalls, Goto, Quiet, Committing
<1>2. pane \in Quiet => txn.phase = "none" /\ ~txn.ok
      BY DEF PaneInv, TxnInPlace, SceneInv, TxnOutcome
<1>3. CASE CreatesSurface
  <2>1. pane = "surface" /\ scene' = scene /\ txn' = txn
        BY <1>3 DEF CreatesSurface, KeepsScene
  <2>2. \/ link' = link /\ unsure' = unsure /\ store' = WithSurface(image) /\ Goto("node")
        \/ link' = link /\ unsure' = unsure /\ store' = store /\ Goto("idle")
        \/ link' = link /\ unsure' = TRUE /\ store' = WithSurface(image) /\ Goto("idle")
        \/ link' = FALSE /\ unsure' = unsure /\ store' \in {store, WithSurface(image)}
           /\ Goto("idle")
        BY <1>3 DEF CreatesSurface, Asks
  <2>3. /\ WithSurface(image) \in StoreRecord
        /\ WithSurface(image).surfaces = store.surfaces \union {image}
        /\ WithSurface(image).nodes = store.nodes /\ WithSurface(image).tracks = store.tracks
        /\ WithSurface(image).open = store.open
        /\ WithSurface(image).revision = store.revision
        BY <1>0, SurfaceAdded
  <2>4. SceneInv'
        BY <2>1, <2>2, <2>3, RequestKeepsScene DEF PaneInv
  <2>5. /\ PaneTyped' /\ OwnedBetweenCalls' /\ TxnInPlace'
        /\ shown' = 0 /\ image' = image /\ pane' \in {"node", "idle"} /\ ~txn.ok
        BY <2>1, <2>2, <1>2
        DEF PaneInv, PaneTyped, TxnInPlace, OwnedBetweenCalls, Goto, Quiet, Committing
  <2>6. link' /\ ~unsure' =>
          /\ link /\ ~unsure
          /\ \/ store' = WithSurface(image) /\ pane' = "node"
             \/ store' = store /\ pane' = "idle"
        BY <1>0, <2>2 DEF Goto
  <2>7. PaneHolds'
        BY <2>1, <2>3, <2>5, <2>6 DEF PaneInv, PaneHolds, Holds, Owned
  <2> QED
      BY <2>4, <2>5, <2>7 DEF PaneInv
<1>4. CASE CreatesTrack
  <2>1. pane = "track" /\ scene' = scene /\ txn' = txn
        BY <1>4 DEF CreatesTrack, KeepsScene
  <2>2. \/ link' = link /\ unsure' = unsure /\ store' = WithTrack(image) /\ Goto("open")
        \/ link' = link /\ unsure' = unsure /\ store' = store /\ Goto("undo")
        \/ link' = link /\ unsure' = TRUE /\ store' = WithTrack(image) /\ Goto("undo")
        \/ link' = FALSE /\ unsure' = unsure /\ store' \in {store, WithTrack(image)}
           /\ Goto("undo")
        BY <1>4 DEF CreatesTrack, Asks
  <2>3. /\ WithTrack(image) \in StoreRecord
        /\ WithTrack(image).tracks = store.tracks \union {image}
        /\ WithTrack(image).nodes = store.nodes
        /\ WithTrack(image).surfaces = store.surfaces
        /\ WithTrack(image).open = store.open
        /\ WithTrack(image).revision = store.revision
        BY <1>0, TrackAdded
  <2>4. SceneInv'
        BY <2>1, <2>2, <2>3, RequestKeepsScene DEF PaneInv
  <2>5. /\ PaneTyped' /\ OwnedBetweenCalls' /\ TxnInPlace'
        /\ image' = image /\ pane' \in {"open", "undo"} /\ ~txn.ok
        BY <2>1, <2>2, <1>2
        DEF PaneInv, PaneTyped, TxnInPlace, OwnedBetweenCalls, Goto, Quiet, Committing
  <2>6. link' /\ ~unsure' =>
          /\ link /\ ~unsure
          /\ \/ store' = WithTrack(image) /\ pane' = "open"
             \/ store' = store /\ pane' = "undo"
        BY <1>0, <2>2 DEF Goto
  <2>7. PaneHolds'
        BY <2>1, <2>3, <2>5, <2>6 DEF PaneInv, PaneHolds, Holds
  <2> QED
      BY <2>4, <2>5, <2>7 DEF PaneInv
<1>5. CASE ActivatesImage
  <2> DEFINE effect == WithSlots([NoSlots EXCEPT ![1] = image])
  <2>1. pane = "activate" /\ scene' = scene /\ txn' = txn
        BY <1>5 DEF ActivatesImage, KeepsScene
  <2>2. \/ /\ link' = link /\ unsure' = unsure /\ store' = effect
           /\ shown' = image /\ pane' = "idle" /\ image' = image /\ clearing' = clearing
        \/ link' = link /\ unsure' = unsure /\ store' = store /\ Goto("undo")
        \/ link' = link /\ unsure' = TRUE /\ store' = effect /\ Goto("undo")
        \/ link' = FALSE /\ unsure' = unsure /\ store' \in {store, effect} /\ Goto("undo")
        BY <1>5 DEF ActivatesImage, Asks
  <2>3. /\ effect \in StoreRecord
        /\ effect.tracks = store.tracks /\ effect.nodes = store.nodes
        /\ effect.surfaces = store.surfaces /\ effect.open = store.open
        /\ effect.revision = store.revision
    <3>1. [NoSlots EXCEPT ![1] = image] \in [{1, 2} -> Nat]
          BY <1>0 DEF NoSlots
    <3> QED
        BY <1>0, <3>1, SlotsSet
  <2> HIDE DEF effect
  <2>4. SceneInv'
        BY <2>1, <2>2, <2>3, RequestKeepsScene DEF PaneInv
  <2>5. /\ PaneTyped' /\ OwnedBetweenCalls' /\ TxnInPlace'
        /\ image' = image /\ image # 0 /\ ~txn.ok
        BY <1>0, <2>1, <2>2, <1>2
        DEF PaneInv, PaneTyped, TxnInPlace, OwnedBetweenCalls, Goto, Quiet, Committing
  <2>6. link' /\ ~unsure' =>
          /\ link /\ ~unsure
          /\ \/ store' = effect /\ pane' = "idle" /\ shown' = image
             \/ store' = store /\ pane' = "undo"
        BY <1>0, <2>2 DEF Goto
  <2>7. PaneHolds'
        BY <2>1, <2>3, <2>5, <2>6 DEF PaneInv, PaneHolds, Holds, Owned
  <2> QED
      BY <2>4, <2>5, <2>7 DEF PaneInv
<1>6. CASE DestroysSurface
  <2> DEFINE effect == WithoutSurface(clearing, {clearing})
  <2>1. pane \in {"unsurface", "unsurface_end"} /\ scene' = scene /\ txn' = txn
        BY <1>6 DEF DestroysSurface, KeepsScene
  <2>2. \/ /\ link' = link /\ unsure' = unsure /\ store' = effect
           /\ Goto("surface") \/ Goto("idle")
        \/ link' = link /\ unsure' = TRUE /\ store' = store /\ Goto("idle")
        \/ link' = FALSE /\ unsure' = unsure /\ store' \in {store, effect} /\ Goto("idle")
        BY <1>6 DEF DestroysSurface, Undoes
  <2>3. /\ effect \in StoreRecord
        /\ effect.surfaces = store.surfaces \ {clearing}
        /\ effect.tracks = store.tracks \ {clearing} /\ effect.nodes = store.nodes
        /\ effect.open = store.open /\ effect.revision = store.revision
        BY <1>0, SurfaceRemoved
  <2> HIDE DEF effect
  <2>4. SceneInv'
        BY <2>1, <2>2, <2>3, RequestKeepsScene DEF PaneInv
  <2>5. /\ PaneTyped' /\ OwnedBetweenCalls' /\ TxnInPlace'
        /\ shown' = 0 /\ pane' \in {"surface", "idle"} /\ ~txn.ok
        BY <2>1, <2>2, <1>2
        DEF PaneInv, PaneTyped, TxnInPlace, OwnedBetweenCalls, Goto, Quiet, Committing
  <2>6. link' /\ ~unsure' => link /\ ~unsure /\ store' = effect
        BY <1>0, <2>2
  <2>7. PaneHolds'
        BY <2>1, <2>3, <2>5, <2>6 DEF PaneInv, PaneHolds, Holds, Owned
  <2> QED
      BY <2>4, <2>5, <2>7 DEF PaneInv
<1>7. CASE UndoesSurface
  <2> DEFINE effect == WithoutSurface(image, {image})
  <2>1. pane = "undo_surface" /\ scene' = scene /\ txn' = txn
        BY <1>7 DEF UndoesSurface, KeepsScene
  <2>2. /\ \/ link' = link /\ unsure' = unsure /\ store' = effect
           \/ link' = link /\ unsure' = TRUE /\ store' = store
           \/ link' = FALSE /\ unsure' = unsure /\ store' \in {store, effect}
        /\ Goto("idle")
        BY <1>7 DEF UndoesSurface, Undoes
  <2>3. /\ effect \in StoreRecord
        /\ effect.surfaces = store.surfaces \ {image}
        /\ effect.tracks = store.tracks \ {image} /\ effect.nodes = store.nodes
        /\ effect.open = store.open /\ effect.revision = store.revision
        BY <1>0, SurfaceRemoved
  <2> HIDE DEF effect
  <2>4. SceneInv'
        BY <2>1, <2>2, <2>3, RequestKeepsScene DEF PaneInv
  <2>5. /\ PaneTyped' /\ OwnedBetweenCalls' /\ TxnInPlace'
        /\ shown' = 0 /\ pane' = "idle" /\ ~txn.ok
        BY <2>1, <2>2, <1>2
        DEF PaneInv, PaneTyped, TxnInPlace, OwnedBetweenCalls, Goto, Quiet, Committing
  <2>6. link' /\ ~unsure' => link /\ ~unsure /\ store' = effect
        BY <1>0, <2>2
  <2>7. PaneHolds'
        BY <2>1, <2>3, <2>5, <2>6 DEF PaneInv, PaneHolds, Holds, Owned
  <2> QED
      BY <2>4, <2>5, <2>7 DEF PaneInv
<1> QED
    BY <1>3, <1>4, <1>5, <1>6, <1>7

\* Steps of the transaction and of the world outside, beside a call that waits.
LEMMA PaneSceneSteps ==
  ASSUME PaneInv, TxnStep \/ TargetChanges \/ LinkEnds, UNCHANGED paneOwn
  PROVE  PaneInv'
<1>0. /\ SceneInv /\ link \in BOOLEAN /\ unsure \in BOOLEAN
      /\ shown' = shown /\ clearing' = clearing /\ image' = image /\ pane' = pane
      BY DEF PaneInv, SceneInv, ObjectsTyped, paneOwn
<1>1. PaneTyped' /\ OwnedBetweenCalls'
      BY <1>0 DEF PaneInv, PaneTyped, OwnedBetweenCalls
<1>2. CASE TxnStep
  <2>1. /\ SceneInv'
        /\ txn.phase \notin {"none", "done"} /\ txn'.phase # "none" /\ ~txn.ok
        /\ txn'.op = txn.op /\ txn'.node = txn.node
        /\ store'.surfaces = store.surfaces /\ store'.tracks = store.tracks
        BY <1>0, <1>2, TxnSteps
  <2>2. link' /\ ~unsure' =>
          /\ link /\ ~unsure
          /\ store'.nodes = IF txn'.ok
                              THEN IF txn.op = "create" THEN store.nodes \union {txn.node}
                                                        ELSE store.nodes \ {txn.node}
                              ELSE store.nodes
        BY <1>0, <1>2, TxnSteps
  <2>3. /\ pane \in Committing
        /\ txn.op = IF pane = "node" THEN "create" ELSE "delete"
        /\ txn.node = IF pane \in {"unnode", "unnode_end"} THEN clearing ELSE image
        BY <2>1 DEF PaneInv, TxnInPlace, PaneTyped, Quiet, Committing
  <2>4. TxnInPlace'
        BY <1>0, <2>1, <2>3 DEF PaneInv, TxnInPlace, Quiet, Committing
  <2>5. PaneHolds'
        BY <1>0, <2>1, <2>2, <2>3 DEF PaneInv, PaneHolds, Holds, Committing
  <2> QED
      BY <1>1, <2>1, <2>4, <2>5 DEF PaneInv
<1>3. CASE TargetChanges \/ LinkEnds
  <2>1. /\ SceneInv' /\ txn' = txn /\ unsure' = unsure /\ (link' => link)
        /\ store'.surfaces = store.surfaces /\ store'.nodes = store.nodes
        /\ store'.tracks = store.tracks
        BY <1>0, <1>3, OutsideSteps
  <2>2. TxnInPlace'
        BY <1>0, <2>1 DEF PaneInv, TxnInPlace
  <2>3. PaneHolds'
        BY <1>0, <2>1 DEF PaneInv, PaneHolds, Holds, Owned
  <2> QED
      BY <1>1, <2>1, <2>2, <2>3 DEF PaneInv
<1> QED
    BY <1>2, <1>3

LEMMA ObjectsInitially == ObjectsInit => SceneInv
<1> SUFFICES ASSUME ObjectsInit PROVE SceneInv
    OBVIOUS
<1>1. store \in StoreRecord /\ store.revision = 0 /\ store.open = FALSE
      BY DEF ObjectsInit, StoreRecord, NoSlots
<1>2. ObjectsTyped
      BY <1>1, TxnReset DEF ObjectsInit, ObjectsTyped
<1> QED
    BY <1>1, <1>2 DEF ObjectsInit, SceneInv, SceneKnown, TxnOutcome, NoTxn

\* Every reachable state of a pane keeps PaneInv, for any number of images and of target
\* changes and whatever fails.
THEOREM PaneInvariant == PaneSpec => []PaneInv
<1>1. PaneInit => PaneInv
  <2> SUFFICES ASSUME PaneInit PROVE PaneInv
      OBVIOUS
  <2>1. SceneInv
        BY ObjectsInitially DEF PaneInit
  <2>2. /\ shown = 0 /\ clearing = 0 /\ image = 0 /\ pane = "idle" /\ txn = NoTxn
        /\ store.surfaces = {} /\ store.nodes = {} /\ store.tracks = {}
        BY DEF PaneInit, PaneAt, ObjectsInit
  <2>3. PaneTyped /\ TxnInPlace /\ OwnedBetweenCalls /\ PaneHolds
        BY <2>2, TxnReset
        DEF PaneTyped, TxnInPlace, OwnedBetweenCalls, PaneHolds, Holds, Owned, Quiet
  <2> QED
      BY <2>1, <2>3 DEF PaneInv
<1>2. PaneInv /\ [PaneNext]_paneVars => PaneInv'
      BY PaneLocalSteps, PaneTxnSteps, PaneRequestSteps, PaneSceneSteps DEF PaneNext
<1> QED
    BY <1>1, <1>2, PTL DEF PaneSpec

\* Between calls the presenter holds the image the pane owns and nothing else, whichever
\* step of a show or a clear failed, for any number of images (PaneSession::present and
\* clear).
THEOREM PaneLeavesNothingBehind == PaneSpec => []PaneLeavesNothing
<1>1. PaneInv => PaneLeavesNothing
      BY DEF PaneInv, PaneHolds, PaneLeavesNothing, Holds
<1> QED
    BY <1>1, PaneInvariant, PTL

\* A pane knows the scene revision of its presenter whenever no transaction runs, and has
\* left none open (Session::scene_transaction under PaneSession).
THEOREM PaneSceneInStep == PaneSpec => []SceneInStep
<1>1. PaneInv => SceneInStep
      BY DEF PaneInv, SceneInv, SceneKnown, SceneInStep
<1> QED
    BY <1>1, PaneInvariant, PTL

(* DesktopSession: the calls as programs, and the tracks, slots and senders. *)

VideoTracks == 1..(MaxReplaces + 1)
SenderRecord == [track : Nat, gen : Nat, session : Nat, last : Nat, detached : BOOLEAN]
HeldRecord ==
  [session : Nat, video : VideoTracks \union {0}, vsender : SenderRecord,
   audio : {0, AudioTrack}, asender : SenderRecord, lane : Nat]
FreshRecord ==
  [call : {"establish", "activate", "replace", "disable", "resume"}, session : Nat,
   video : VideoTracks \union {0}, vsender : SenderRecord, audio : {0, AudioTrack},
   asender : SenderRecord, made : VideoTracks,
   result : {"running", "ok", "failed", "unasked"}]
HandleRecord == [gen : Nat, last : Nat, destroyed : BOOLEAN]
PeerRecord == [gens : [AllTracks -> Nat], session : Nat, ahead : BOOLEAN]

DeskTyped ==
  /\ held \in HeldRecord /\ fresh \in FreshRecord
  /\ handles \in [AllTracks -> HandleRecord] /\ peer \in PeerRecord

Resting == {"idle", "gone", "drop", "closed"}
Program(call) ==
  CASE call = "establish" -> {"surface", "node", "video", "video_channel", "audio",
                              "audio_channel", "lane"}
    [] call = "activate" -> {"ready_video", "ready_audio", "activate"}
    [] call = "replace" -> {"video", "video_channel", "key", "ready_video", "activate",
                            "destroy"}
    [] call = "disable" -> {"ready_video", "activate", "destroy"}
    [] call = "resume" -> {"connect", "adopt_surface", "adopt_video", "adopt_audio",
                           "advance_video", "video_channel", "advance_audio",
                           "audio_channel", "activate", "lane"}

\* A call is at a step of its own program until it returns.
CallPlaced ==
  /\ fresh.result # "running" => desk \in Resting
  /\ fresh.result = "running" => desk \in Program(fresh.call)
  /\ desk = "drop" => fresh.call = "resume" /\ fresh.result = "failed"

\* The fields of the object are of one connection in every state, and not only between
\* calls: OneIncarnation is what it says of those.
HeldTogether ==
  /\ held.vsender.session = held.session /\ held.vsender.track = held.video
  /\ held.asender.track = held.audio
  /\ held.audio # 0 => held.asender.session = held.session
  /\ held.lane \in {0, held.session}

\* The video tracks are numbered in the order they were made.
TracksApart ==
  /\ held.video <= fresh.made
  /\ desk \in {"idle", "drop"} \/ (fresh.result = "running" /\ fresh.call # "establish") =>
       held.video # 0
  /\ fresh.result = "running" => fresh.video \in 1..fresh.made
  /\ fresh.result = "running" /\ fresh.call = "replace" => held.video < fresh.video

\* Where the program has got to with the sender of the video, and of the audio.
VideoSenderMade ==
  \/ fresh.call \in {"activate", "disable"}
  \/ desk \in {"audio", "audio_channel", "advance_audio", "lane", "key", "ready_video",
               "activate", "destroy"}
AudioSenderMade ==
  fresh.call \in {"activate", "replace", "disable"} \/ desk \in {"lane", "activate"}
Bound(sender, t) ==
  sender.track = t /\ (t # 0 => sender.session = fresh.session)

LocalsTogether ==
  /\ fresh.result # "running" => fresh.vsender = NoSender /\ fresh.asender = NoSender
  /\ fresh.result = "running" /\ VideoSenderMade => Bound(fresh.vsender, fresh.video)
  /\ fresh.result = "running" /\ AudioSenderMade => Bound(fresh.asender, fresh.audio)
  /\ fresh.result = "running" /\ ~AudioSenderMade => fresh.asender = NoSender
  /\ fresh.result = "running" /\ fresh.call = "establish"
       /\ desk \notin {"audio_channel", "lane"} => fresh.audio = 0
  /\ desk \in {"adopt_audio", "advance_audio", "audio_channel"} => fresh.audio # 0

\* What a call on the object as it is took over from it.
LocalsTaken ==
  fresh.result = "running" /\ fresh.call \in {"activate", "replace", "disable"} =>
    /\ fresh.session = held.session /\ fresh.audio = held.audio
    /\ fresh.asender.gen = held.asender.gen
    /\ fresh.call = "disable" => fresh.audio = 0
    /\ fresh.call # "replace" =>
         fresh.video = held.video /\ fresh.vsender.gen = held.vsender.gen

Presented(video, vsender, audio, asender) ==
  /\ store.slots = [s \in {1, 2} |-> IF s = 1 THEN video ELSE audio]
  /\ peer.gens[video] = vsender.gen
  /\ audio # 0 => peer.gens[audio] = asender.gen

\* From the activation to the end of a call, and until the next one starts, the presenter
\* shows what the call bound.
ShownSinceActivation ==
  /\ desk = "destroy" \/ (desk = "lane" /\ fresh.call = "resume") =>
       Presented(fresh.video, fresh.vsender, fresh.audio, fresh.asender)
  /\ ReportedIsShown

DeskOwn ==
  /\ DeskTyped /\ CallPlaced /\ HeldTogether /\ TracksApart
  /\ LocalsTogether /\ LocalsTaken

DeskInv == SceneInv /\ SlotsNameLiveTracks /\ DeskOwn /\ ShownSinceActivation

\* A call that returns at an error leaves the object as it is; that it may hide what the
\* presenter does now, ReportedIsShown permits.
LEMMA FailingKeeps ==
  ASSUME DeskOwn, fresh.result = "running", Fails, peer' \in PeerRecord
  PROVE  DeskOwn' /\ ShownSinceActivation'
<1>1. /\ held' = held /\ handles' = handles /\ fresh' = Left("failed")
      /\ desk' = CASE fresh.call = "establish" -> "gone"
                   [] fresh.call = "resume" -> "drop"
                   [] OTHER -> "idle"
      BY DEF Fails, Moves
<1>2. /\ fresh'.call = fresh.call /\ fresh'.made = fresh.made /\ fresh'.result = "failed"
      /\ fresh'.vsender = NoSender /\ fresh'.asender = NoSender /\ fresh'.audio = 0
      BY <1>1 DEF Left
<1>3. fresh' \in FreshRecord
      BY <1>1 DEF Left, FreshRecord, SenderRecord, NoSender, DeskOwn, DeskTyped
<1>4. DeskTyped'
      BY <1>1, <1>3 DEF DeskOwn, DeskTyped
<1>5. desk' \in {"gone", "drop", "idle"} /\ (desk' = "drop" <=> fresh.call = "resume")
      BY <1>1
<1>6. desk' \in {"idle", "drop"} => fresh.call # "establish"
      BY <1>1
<1>7. CallPlaced' /\ HeldTogether' /\ LocalsTogether' /\ LocalsTaken'
      BY <1>1, <1>2, <1>5
      DEF DeskOwn, CallPlaced, HeldTogether, LocalsTogether, LocalsTaken, Resting
<1>8. TracksApart'
      BY <1>1, <1>2, <1>5, <1>6 DEF DeskOwn, TracksApart
<1>9. ShownSinceActivation'
      BY <1>2, <1>5 DEF ShownSinceActivation, ReportedIsShown
<1> QED
    BY <1>4, <1>7, <1>8, <1>9 DEF DeskOwn

\* A call that goes on keeps its locals, as long as the senders it has are those that the
\* next step presumes.
LEMMA GoingOnKeeps ==
  ASSUME DeskOwn, fresh.result = "running", held' = held, fresh' = fresh,
         handles' \in [AllTracks -> HandleRecord], peer' \in PeerRecord,
         desk' \in Program(fresh.call), desk' # "drop", desk' # "idle",
         VideoSenderMade' => VideoSenderMade, AudioSenderMade' <=> AudioSenderMade,
         desk' \in {"adopt_audio", "advance_audio", "audio_channel"} => fresh.audio # 0,
         fresh.call = "establish" /\ desk' \notin {"audio_channel", "lane"} => fresh.audio = 0
  PROVE  DeskOwn'
<1>1. DeskTyped' /\ HeldTogether' /\ LocalsTaken'
      BY DEF DeskOwn, DeskTyped, HeldTogether, LocalsTaken
<1>2. CallPlaced' /\ TracksApart'
      BY DEF DeskOwn, CallPlaced, TracksApart
<1>3. LocalsTogether'
      BY DEF DeskOwn, LocalsTogether, Bound
<1> QED
    BY <1>1, <1>2, <1>3 DEF DeskOwn

\* A request outside a transaction, whatever becomes of it.
LEMMA DeskRequest ==
  ASSUME SceneInv, SlotsNameLiveTracks, NEW effect \in StoreRecord,
         effect.revision = store.revision, effect.open = store.open,
         \A s \in {1, 2} : effect.slots[s] \in effect.tracks \union {0},
         store' \in {store, effect}, scene' = scene, txn' = txn,
         link' \in {link, FALSE}, unsure' \in {unsure, TRUE}
  PROVE  SceneInv' /\ SlotsNameLiveTracks'
<1>1. SceneInv'
      BY RequestKeepsScene
<1>2. SlotsNameLiveTracks'
      BY DEF SlotsNameLiveTracks
<1> QED
    BY <1>1, <1>2

LEMMA DeskLocal ==
  ASSUME SceneInv, SlotsNameLiveTracks, Local
  PROVE  SceneInv' /\ SlotsNameLiveTracks'
BY DEF Local, objectVars, SceneInv, ObjectsTyped, SceneKnown, TxnOutcome, SlotsNameLiveTracks

\* A call is running at every step of a program.
LEMMA RunningPlaces ==
  ASSUME DeskOwn
  PROVE  /\ desk \notin Resting => fresh.result = "running" /\ desk \in Program(fresh.call)
         /\ desk \in Resting => fresh.result # "running"
         /\ fresh.call \in {"establish", "activate", "replace", "disable", "resume"}
<1>1. fresh.call \in {"establish", "activate", "replace", "disable", "resume"}
      BY DEF DeskOwn, DeskTyped, FreshRecord
<1>2. \A call \in {"establish", "activate", "replace", "disable", "resume"} :
        Program(call) \intersect Resting = {}
      BY DEF Program, Resting
<1> QED
    BY <1>1, <1>2 DEF DeskOwn, CallPlaced

\* The steps of a program that a request or its answer moves on and that touch no local.
LEMMA GoingOnSteps ==
  ASSUME DeskInv,
         EstablishesSurface \/ EstablishesNode \/ CreatesVideo \/ WaitsReady
           \/ Connects \/ AdoptsSurface \/ KeyFails \/ ConnectFails
  PROVE  DeskInv'
<1> USE DEF DeskInv
<1>0. /\ store \in StoreRecord /\ txn \in TxnRecord /\ link \in BOOLEAN /\ unsure \in BOOLEAN
      /\ held \in HeldRecord /\ fresh \in FreshRecord /\ peer \in PeerRecord
      /\ handles \in [AllTracks -> HandleRecord]
      BY DEF SceneInv, ObjectsTyped, DeskOwn, DeskTyped
<1>1. ASSUME fresh.result = "running", FailsQuietly
      PROVE  DeskOwn' /\ ShownSinceActivation'
      BY <1>0, <1>1, FailingKeeps DEF FailsQuietly
<1>2. CASE EstablishesSurface
  <2>1. desk = "surface" /\ scene' = scene /\ txn' = txn
        BY <1>2 DEF EstablishesSurface
  <2>2. fresh.result = "running" /\ fresh.call = "establish"
        BY <2>1, RunningPlaces DEF Resting, Program
  <2>3. /\ link' \in {link, FALSE} /\ unsure' \in {unsure, TRUE}
        /\ store' \in {store, WithSurface(1)}
        /\ Proceeds("node") \/ FailsQuietly
        BY <1>2 DEF EstablishesSurface, Asks
  <2>4. SceneInv' /\ SlotsNameLiveTracks'
    <3>1. /\ WithSurface(1) \in StoreRecord /\ WithSurface(1).revision = store.revision
          /\ WithSurface(1).open = store.open /\ WithSurface(1).slots = store.slots
          /\ WithSurface(1).tracks = store.tracks
          BY <1>0, SurfaceAdded
    <3> QED
        BY <2>1, <2>3, <3>1, DeskRequest DEF SlotsNameLiveTracks
  <2>5. CASE Proceeds("node")
    <3>1. /\ held' = held /\ fresh' = fresh /\ handles' = handles /\ peer' = peer
          /\ desk' = "node"
          BY <2>5 DEF Proceeds, Moves, Keeps
    <3>2. DeskOwn'
          BY <1>0, <2>1, <2>2, <3>1, GoingOnKeeps
          DEF Program, VideoSenderMade, AudioSenderMade, DeskOwn, LocalsTogether
    <3>3. ShownSinceActivation'
          BY <2>2, <3>1 DEF ShownSinceActivation, ReportedIsShown
    <3> QED
        BY <2>4, <3>2, <3>3
  <2> QED
      BY <1>1, <2>2, <2>3, <2>4, <2>5
<1>3. CASE EstablishesNode
  <2>1. desk = "node" /\ link' = link /\ store' = store /\ scene' = scene /\ unsure' = unsure
        BY <1>3 DEF EstablishesNode
  <2>2. fresh.result = "running" /\ fresh.call = "establish"
        BY <2>1, RunningPlaces DEF Resting, Program
  <2>3. SlotsNameLiveTracks'
        BY <2>1 DEF SlotsNameLiveTracks
  <2>4. CASE txn.phase = "none"
    <3>1. StartsTxn("create", 1) /\ UNCHANGED <<desk, fresh, held, handles, peer>>
          BY <1>3, <2>4 DEF EstablishesNode
    <3>2. SceneInv'
          BY <2>1, <2>4, <3>1, TxnReset, TxnTurnsOver
    <3>3. DeskOwn' /\ ShownSinceActivation'
          BY <2>1, <3>1
          DEF DeskOwn, DeskTyped, CallPlaced, HeldTogether, TracksApart, LocalsTogether,
              LocalsTaken, VideoSenderMade, AudioSenderMade, Bound,
              ShownSinceActivation, ReportedIsShown, Presented
    <3> QED
        BY <2>3, <3>2, <3>3
  <2>5. CASE txn.phase = "done"
    <3>1. txn' = NoTxn /\ (Proceeds("video") \/ FailsQuietly)
          BY <1>3, <2>5 DEF EstablishesNode
    <3>2. SceneInv'
          BY <2>1, <2>5, <3>1, TxnReset, TxnTurnsOver
    <3>3. ASSUME Proceeds("video") PROVE DeskOwn' /\ ShownSinceActivation'
      <4>1. /\ held' = held /\ fresh' = fresh /\ handles' = handles /\ peer' = peer
            /\ desk' = "video"
            BY <3>3 DEF Proceeds, Moves, Keeps
      <4>2. DeskOwn'
            BY <1>0, <2>1, <2>2, <4>1, GoingOnKeeps
            DEF Program, VideoSenderMade, AudioSenderMade, DeskOwn, LocalsTogether
      <4> QED
          BY <2>2, <4>1, <4>2 DEF ShownSinceActivation, ReportedIsShown
    <3> QED
        BY <1>1, <2>2, <2>3, <3>1, <3>2, <3>3
  <2> QED
      BY <1>3, <2>4, <2>5 DEF EstablishesNode
<1>4. CASE CreatesVideo
  <2>1. desk = "video" /\ scene' = scene /\ txn' = txn
        BY <1>4 DEF CreatesVideo
  <2>2. fresh.result = "running" /\ fresh.call \in {"establish", "replace"}
        BY <2>1, RunningPlaces DEF Resting, Program
  <2>3. /\ link' \in {link, FALSE} /\ unsure' \in {unsure, TRUE}
        /\ store' \in {store, WithTrack(fresh.video)}
        /\ Proceeds("video_channel") \/ FailsQuietly
        BY <1>4 DEF CreatesVideo, Asks
  <2>4. SceneInv' /\ SlotsNameLiveTracks'
    <3>1. fresh.video \in Nat
          BY <1>0 DEF FreshRecord, VideoTracks
    <3>2. /\ WithTrack(fresh.video) \in StoreRecord
          /\ WithTrack(fresh.video).revision = store.revision
          /\ WithTrack(fresh.video).open = store.open
          /\ WithTrack(fresh.video).slots = store.slots
          /\ WithTrack(fresh.video).tracks = store.tracks \union {fresh.video}
          BY <1>0, <3>1, TrackAdded
    <3> QED
        BY <2>1, <2>3, <3>2, DeskRequest DEF SlotsNameLiveTracks
  <2>5. ASSUME Proceeds("video_channel") PROVE DeskOwn' /\ ShownSinceActivation'
    <3>1. /\ held' = held /\ fresh' = fresh /\ handles' = handles /\ peer' = peer
          /\ desk' = "video_channel"
          BY <2>5 DEF Proceeds, Moves, Keeps
    <3>2. DeskOwn'
          BY <1>0, <2>1, <2>2, <3>1, GoingOnKeeps
          DEF Program, VideoSenderMade, AudioSenderMade, DeskOwn, LocalsTogether
    <3> QED
        BY <2>2, <3>1, <3>2 DEF ShownSinceActivation, ReportedIsShown
  <2> QED
      BY <1>1, <2>2, <2>3, <2>4, <2>5
<1>5. CASE WaitsReady
  <2>1. desk \in {"ready_video", "ready_audio"}
        BY <1>5 DEF WaitsReady
  <2>2. fresh.result = "running" /\ fresh.call \in {"activate", "replace", "disable"}
        BY <2>1, RunningPlaces DEF Resting, Program
  <2> DEFINE next == IF desk = "ready_video" /\ fresh.call = "activate" /\ fresh.audio # 0
                     THEN "ready_audio" ELSE "activate"
  <2>3. /\ link' \in {link, FALSE} /\ unsure' \in {unsure, TRUE} /\ store' = store
        /\ scene' = scene /\ txn' = txn
        /\ Proceeds(next) \/ FailsQuietly
        BY <1>5 DEF WaitsReady, Queries, Asks, Local, objectVars
  <2>4. SceneInv' /\ SlotsNameLiveTracks'
        BY <1>0, <2>3, DeskRequest DEF SlotsNameLiveTracks
  <2>5. ASSUME Proceeds(next) PROVE DeskOwn' /\ ShownSinceActivation'
    <3>1. /\ held' = held /\ fresh' = fresh /\ handles' = handles /\ peer' = peer
          /\ desk' \in {"ready_audio", "activate"}
          /\ desk' = "ready_audio" => fresh.call = "activate"
          BY <2>5 DEF Proceeds, Moves, Keeps
    <3>2. desk = "ready_audio" => fresh.call = "activate"
          BY <2>1, <2>2, RunningPlaces DEF Resting, Program
    <3>3. DeskOwn'
          BY <1>0, <2>1, <2>2, <3>1, <3>2, GoingOnKeeps
          DEF Program, VideoSenderMade, AudioSenderMade, DeskOwn, LocalsTogether
    <3> QED
        BY <2>2, <3>1, <3>3 DEF ShownSinceActivation, ReportedIsShown
  <2> QED
      BY <1>1, <2>2, <2>3, <2>4, <2>5
\* The new connection knows the scene from its WELCOME.
<1>6. CASE Connects
  <2>1. /\ desk = "connect" /\ desk' = "adopt_surface" /\ held' = held /\ fresh' = fresh
        /\ handles' = handles /\ peer' = [peer EXCEPT !.session = fresh.session]
        /\ link' = TRUE /\ store' = [store EXCEPT !.open = FALSE] /\ txn' = NoTxn
        /\ scene' = [revision |-> store.revision, target |-> store.target]
        /\ unsure' = unsure
        BY <1>6 DEF Connects, Welcomed, Moves
  <2>2. fresh.result = "running" /\ fresh.call = "resume"
        BY <2>1, RunningPlaces DEF Resting, Program
  <2>3. /\ store' \in StoreRecord /\ store'.open = FALSE
        /\ store'.revision = store.revision /\ store'.slots = store.slots
        /\ store'.tracks = store.tracks
        BY <1>0, <2>1, TxnWritten
  <2>4. scene' \in [revision : Nat, target : Nat] /\ scene'.revision = store.revision
        BY <1>0, <2>1 DEF StoreRecord
  <2>5. ObjectsTyped' /\ TxnOutcome' /\ SceneKnown'
        BY <1>0, <2>1, <2>3, <2>4, TxnReset DEF ObjectsTyped, TxnOutcome, SceneKnown
  <2>6. SlotsNameLiveTracks'
        BY <2>3 DEF SlotsNameLiveTracks
  <2>7. peer' \in PeerRecord
        BY <1>0, <2>1 DEF PeerRecord, FreshRecord
  <2>8. DeskOwn'
        BY <1>0, <2>1, <2>2, <2>7, GoingOnKeeps
        DEF Program, VideoSenderMade, AudioSenderMade, DeskOwn, LocalsTogether
  <2>9. ShownSinceActivation'
        BY <2>1 DEF ShownSinceActivation, ReportedIsShown
  <2> QED
      BY <2>5, <2>6, <2>8, <2>9 DEF SceneInv
<1>7. CASE AdoptsSurface
  <2>1. desk = "adopt_surface"
        BY <1>7 DEF AdoptsSurface
  <2>2. fresh.result = "running" /\ fresh.call = "resume"
        BY <2>1, RunningPlaces DEF Resting, Program
  <2>3. /\ link' \in {link, FALSE} /\ unsure' \in {unsure, TRUE} /\ store' = store
        /\ scene' = scene /\ txn' = txn
        /\ \/ /\ desk' = "adopt_video" /\ peer' = [peer EXCEPT !.ahead = FALSE]
              /\ held' = held /\ fresh' = fresh /\ handles' = handles
           \/ FailsQuietly
        BY <1>7 DEF AdoptsSurface, Queries, Asks, Moves
  <2>4. SceneInv' /\ SlotsNameLiveTracks'
        BY <1>0, <2>3, DeskRequest DEF SlotsNameLiveTracks
  <2>5. ASSUME desk' = "adopt_video", peer' = [peer EXCEPT !.ahead = FALSE],
               held' = held, fresh' = fresh, handles' = handles
        PROVE  DeskOwn' /\ ShownSinceActivation'
    <3>1. peer' \in PeerRecord
          BY <1>0, <2>5 DEF PeerRecord
    <3>2. DeskOwn'
          BY <1>0, <2>1, <2>2, <2>5, <3>1, GoingOnKeeps
          DEF Program, VideoSenderMade, AudioSenderMade, DeskOwn, LocalsTogether
    <3> QED
        BY <2>2, <2>5, <3>2 DEF ShownSinceActivation, ReportedIsShown
  <2> QED
      BY <1>1, <2>2, <2>3, <2>4, <2>5
<1>8. CASE KeyFails \/ ConnectFails
  <2>1. desk \in {"key", "connect"} /\ Local /\ FailsQuietly
        BY <1>8 DEF KeyFails, ConnectFails
  <2>2. fresh.result = "running"
        BY <2>1, RunningPlaces DEF Resting
  <2> QED
      BY <1>1, <2>1, <2>2, DeskLocal
<1> QED
    BY <1>2, <1>3, <1>4, <1>5, <1>6, <1>7, <1>8

\* adopt_track and advance_channel reconcile the handle of a track; the senders of the old
\* connection stay behind until their channels are opened again.
LEMMA ReconcilingSteps ==
  ASSUME DeskInv,
         AdoptsVideo \/ AdoptsAudio \/ AdvancesVideo \/ AdvancesAudio \/ DropsResumed
  PROVE  DeskInv'
<1> USE DEF DeskInv
<1>0. /\ store \in StoreRecord /\ txn \in TxnRecord /\ link \in BOOLEAN /\ unsure \in BOOLEAN
      /\ held \in HeldRecord /\ fresh \in FreshRecord /\ peer \in PeerRecord
      /\ handles \in [AllTracks -> HandleRecord]
      BY DEF SceneInv, ObjectsTyped, DeskOwn, DeskTyped
<1>1. ASSUME NEW t \in AllTracks, NEW next, Adopts(t, next), fresh.result = "running",
             fresh.call = "resume", next \in {"advance_video", "adopt_audio"},
             next = "adopt_audio" => fresh.audio # 0, ~AudioSenderMade, ~VideoSenderMade
      PROVE  DeskInv'
  <2>1. /\ link' \in {link, FALSE} /\ unsure' \in {unsure, TRUE} /\ store' = store
        /\ scene' = scene /\ txn' = txn
        /\ \/ /\ handles' = [handles EXCEPT ![t].gen = peer.gens[t],
                                            ![t].destroyed = t \notin store.tracks]
              /\ held' = held /\ peer' = peer
              /\ \/ desk' = next /\ fresh' = fresh
                 \/ desk' = "drop" /\ fresh' = Left("failed")
           \/ FailsQuietly
        BY <1>1 DEF Adopts, Queries, Asks, Moves
  <2>2. SceneInv' /\ SlotsNameLiveTracks'
        BY <1>0, <2>1, DeskRequest DEF SlotsNameLiveTracks
  <2>3. CASE FailsQuietly
        BY <1>0, <1>1, <2>2, <2>3, FailingKeeps DEF FailsQuietly
  <2>4. ASSUME handles' = [handles EXCEPT ![t].gen = peer.gens[t],
                                          ![t].destroyed = t \notin store.tracks]
        PROVE  handles' \in [AllTracks -> HandleRecord]
    <3>1. peer.gens[t] \in Nat /\ (t \notin store.tracks) \in BOOLEAN
          BY <1>0, <1>1 DEF PeerRecord
    <3>2. handles[t] \in HandleRecord
          BY <1>0, <1>1
    <3>3. [[handles[t] EXCEPT !.gen = peer.gens[t]] EXCEPT !.destroyed = t \notin store.tracks]
            \in HandleRecord
          BY <3>1, <3>2 DEF HandleRecord
    <3>4. handles' = [handles EXCEPT ![t] =
            [[handles[t] EXCEPT !.gen = peer.gens[t]] EXCEPT !.destroyed = t \notin store.tracks]]
          BY <1>0, <1>1, <2>4
    <3> QED
        BY <1>0, <3>3, <3>4
  <2>5. CASE /\ handles' = [handles EXCEPT ![t].gen = peer.gens[t],
                                           ![t].destroyed = t \notin store.tracks]
             /\ held' = held /\ peer' = peer /\ desk' = next /\ fresh' = fresh
    <3>1. DeskOwn'
          BY <1>0, <1>1, <2>4, <2>5, GoingOnKeeps
          DEF Program, VideoSenderMade, AudioSenderMade
    <3>2. ShownSinceActivation'
          BY <1>1, <2>5 DEF ShownSinceActivation, ReportedIsShown
    <3> QED
        BY <2>2, <3>1, <3>2
  <2>6. CASE /\ handles' = [handles EXCEPT ![t].gen = peer.gens[t],
                                           ![t].destroyed = t \notin store.tracks]
             /\ held' = held /\ peer' = peer /\ desk' = "drop" /\ fresh' = Left("failed")
    <3>1. /\ fresh'.call = "resume" /\ fresh'.made = fresh.made /\ fresh'.result = "failed"
          /\ fresh'.vsender = NoSender /\ fresh'.asender = NoSender /\ fresh'.audio = 0
          BY <1>1, <2>6 DEF Left
    <3>2. fresh' \in FreshRecord
          BY <1>0, <2>6 DEF Left, FreshRecord, SenderRecord, NoSender
    <3>3. DeskTyped'
          BY <1>0, <2>4, <2>6, <3>2 DEF DeskTyped
    <3>4. CallPlaced' /\ HeldTogether' /\ LocalsTogether' /\ LocalsTaken'
          BY <2>6, <3>1
          DEF DeskOwn, CallPlaced, HeldTogether, LocalsTogether, LocalsTaken, Resting
    <3>5. TracksApart'
          BY <1>1, <2>6, <3>1 DEF DeskOwn, TracksApart
    <3>6. ShownSinceActivation'
          BY <2>6 DEF ShownSinceActivation, ReportedIsShown
    <3> QED
        BY <2>2, <3>3, <3>4, <3>5, <3>6 DEF DeskOwn
  <2> QED
      BY <2>1, <2>3, <2>5, <2>6
<1>2. ASSUME NEW t \in AllTracks, NEW next, Advances(t, next), fresh.result = "running",
             fresh.call = "resume", next \in {"video_channel", "audio_channel"},
             next = "audio_channel" => VideoSenderMade /\ fresh.audio # 0, ~AudioSenderMade
      PROVE  DeskInv'
  <2> DEFINE more == [peer EXCEPT !.gens[t] = @ + 1]
             moved == [handles EXCEPT ![t].gen = @ + 1]
  <2>1. /\ link' \in {link, FALSE} /\ unsure' \in {unsure, TRUE} /\ store' = store
        /\ scene' = scene /\ txn' = txn
        /\ \/ /\ peer' = more /\ handles' = moved
              /\ desk' = next /\ held' = held /\ fresh' = fresh
           \/ Fails /\ peer' \in {peer, more}
        BY <1>2 DEF Advances, Asks, Moves
  <2>2. more \in PeerRecord /\ moved \in [AllTracks -> HandleRecord]
        BY <1>0, <1>2 DEF PeerRecord, HandleRecord
  <2> HIDE DEF more, moved
  <2>3. SceneInv' /\ SlotsNameLiveTracks'
        BY <1>0, <2>1, DeskRequest DEF SlotsNameLiveTracks
  <2>4. CASE Fails /\ peer' \in {peer, more}
        BY <1>0, <1>2, <2>2, <2>3, <2>4, FailingKeeps
  <2>5. CASE /\ peer' = more /\ handles' = moved
             /\ desk' = next /\ held' = held /\ fresh' = fresh
    <3>1. DeskOwn'
          BY <1>0, <1>2, <2>2, <2>5, GoingOnKeeps
          DEF Program, VideoSenderMade, AudioSenderMade
    <3>2. ShownSinceActivation'
          BY <1>2, <2>5 DEF ShownSinceActivation, ReportedIsShown
    <3> QED
        BY <2>3, <3>1, <3>2
  <2> QED
      BY <2>1, <2>4, <2>5
<1>3. /\ fresh.result = "running" => fresh.video \in AllTracks
      /\ fresh.audio # 0 => fresh.audio \in AllTracks
      BY <1>0, DesktopAssumption DEF DeskOwn, TracksApart, AllTracks, AudioTrack, FreshRecord,
                                     VideoTracks
<1>4. ASSUME desk \in {"adopt_video", "adopt_audio", "advance_video", "advance_audio"}
      PROVE  /\ fresh.result = "running" /\ fresh.call = "resume" /\ ~AudioSenderMade
             /\ VideoSenderMade <=> desk = "advance_audio"
             /\ desk \in {"adopt_audio", "advance_audio"} => fresh.audio # 0
  <2>1. fresh.result = "running" /\ fresh.call = "resume"
        BY <1>4, RunningPlaces DEF Resting, Program
  <2> QED
      BY <1>4, <2>1 DEF AudioSenderMade, VideoSenderMade, DeskOwn, LocalsTogether
<1>5. CASE AdoptsVideo
  <2>1. /\ desk = "adopt_video"
        /\ Adopts(fresh.video, IF fresh.audio = 0 THEN "advance_video" ELSE "adopt_audio")
        BY <1>5 DEF AdoptsVideo
  <2>2. CASE fresh.audio = 0
        BY <1>1, <1>3, <1>4, <2>1, <2>2
  <2>3. CASE fresh.audio # 0
        BY <1>1, <1>3, <1>4, <2>1, <2>3
  <2> QED
      BY <2>2, <2>3
<1>6. CASE AdoptsAudio
      BY <1>1, <1>3, <1>4, <1>6 DEF AdoptsAudio
<1>7. CASE AdvancesVideo
      BY <1>2, <1>3, <1>4, <1>7 DEF AdvancesVideo
<1>8. CASE AdvancesAudio
      BY <1>2, <1>3, <1>4, <1>8 DEF AdvancesAudio
<1>9. CASE DropsResumed
  <2>1. /\ desk = "drop" /\ desk' = "idle" /\ store' = store /\ scene' = scene /\ txn' = txn
        /\ unsure' = unsure /\ link' = (link /\ peer.session = held.session)
        /\ held' = held /\ fresh' = fresh /\ handles' = handles /\ peer' = peer
        BY <1>9 DEF DropsResumed, Moves, Keeps
  <2>2. link' \in {link, FALSE}
        BY <1>0, <2>1
  <2>3. SceneInv' /\ SlotsNameLiveTracks'
        BY <1>0, <2>1, <2>2, DeskRequest DEF SlotsNameLiveTracks
  <2>4. fresh.result = "failed" /\ fresh.call = "resume"
        BY <2>1, RunningPlaces DEF Resting, DeskOwn, CallPlaced
  <2>5. DeskOwn'
        BY <2>1, <2>4
        DEF DeskOwn, DeskTyped, CallPlaced, HeldTogether, TracksApart, LocalsTogether,
            LocalsTaken, Resting
  <2>6. ShownSinceActivation'
        BY <2>1, <2>4 DEF ShownSinceActivation, ReportedIsShown
  <2> QED
      BY <2>3, <2>5, <2>6
<1> QED
    BY <1>5, <1>6, <1>7, <1>8, <1>9

LEMMA SenderTyped ==
  ASSUME DeskTyped, NEW t \in AllTracks, NEW c \in Nat
  PROVE  /\ NewSender(t, c) \in SenderRecord
         /\ NewSender(t, c).track = t /\ NewSender(t, c).session = c
         /\ NoSender \in SenderRecord /\ NoSender.track = 0
<1>1. handles[t].gen \in Nat /\ t \in Nat
      BY DesktopAssumption DEF DeskTyped, HandleRecord, AllTracks, AudioTrack
<1> QED
    BY <1>1 DEF NewSender, NoSender, SenderRecord

\* Opening a channel gives the call a sender of its own connection.
LEMMA OpeningSteps ==
  ASSUME DeskInv, EstablishesAudio \/ OpensVideo \/ OpensAudio
  PROVE  DeskInv'
<1> USE DEF DeskInv
<1>0. /\ store \in StoreRecord /\ txn \in TxnRecord /\ link \in BOOLEAN /\ unsure \in BOOLEAN
      /\ held \in HeldRecord /\ fresh \in FreshRecord /\ peer \in PeerRecord
      /\ handles \in [AllTracks -> HandleRecord] /\ fresh.session \in Nat
      BY DEF SceneInv, ObjectsTyped, DeskOwn, DeskTyped, FreshRecord
<1>1. ASSUME fresh.result = "running", FailsQuietly
      PROVE  DeskOwn' /\ ShownSinceActivation'
      BY <1>0, <1>1, FailingKeeps DEF FailsQuietly
<1>2. /\ AudioTrack \in AllTracks /\ AudioTrack \in Nat /\ AudioTrack # 0
      /\ fresh.result = "running" => fresh.video \in AllTracks
      BY <1>0, DesktopAssumption DEF DeskOwn, TracksApart, AllTracks, AudioTrack, FreshRecord,
                                     VideoTracks
<1>3. CASE EstablishesAudio
  <2>1. desk = "audio" /\ scene' = scene /\ txn' = txn
        BY <1>3 DEF EstablishesAudio, Local, objectVars
  <2>2. fresh.result = "running" /\ fresh.call = "establish"
        BY <2>1, RunningPlaces DEF Resting, Program
  <2>3. /\ link' \in {link, FALSE} /\ unsure' \in {unsure, TRUE}
        /\ store' \in {store, WithTrack(AudioTrack)}
        /\ \/ /\ desk' = "audio_channel" /\ fresh' = [fresh EXCEPT !.audio = AudioTrack]
              /\ held' = held /\ handles' = handles /\ peer' = peer
           \/ Proceeds("lane") \/ FailsQuietly
        BY <1>3 DEF EstablishesAudio, Asks, Local, objectVars, Moves
  <2>4. SceneInv' /\ SlotsNameLiveTracks'
    <3>1. /\ WithTrack(AudioTrack) \in StoreRecord
          /\ WithTrack(AudioTrack).revision = store.revision
          /\ WithTrack(AudioTrack).open = store.open
          /\ WithTrack(AudioTrack).slots = store.slots
          /\ WithTrack(AudioTrack).tracks = store.tracks \union {AudioTrack}
          BY <1>0, <1>2, TrackAdded
    <3> QED
        BY <2>1, <2>3, <3>1, DeskRequest DEF SlotsNameLiveTracks
  <2>5. fresh.asender = NoSender /\ fresh.audio = 0 /\ Bound(fresh.vsender, fresh.video)
        BY <2>1, <2>2 DEF DeskOwn, LocalsTogether, AudioSenderMade, VideoSenderMade
  <2>6. CASE /\ desk' = "audio_channel" /\ fresh' = [fresh EXCEPT !.audio = AudioTrack]
             /\ held' = held /\ handles' = handles /\ peer' = peer
    <3>1. /\ fresh' \in FreshRecord
          /\ fresh'.call = fresh.call /\ fresh'.result = fresh.result
          /\ fresh'.video = fresh.video /\ fresh'.vsender = fresh.vsender
          /\ fresh'.session = fresh.session /\ fresh'.asender = fresh.asender
          /\ fresh'.made = fresh.made /\ fresh'.audio = AudioTrack
          BY <1>0, <2>6 DEF FreshRecord
    <3>2. DeskTyped' /\ HeldTogether' /\ CallPlaced' /\ TracksApart' /\ LocalsTaken'
          BY <2>2, <2>6, <3>1
          DEF DeskOwn, DeskTyped, HeldTogether, CallPlaced, Program, TracksApart, LocalsTaken
    <3>3. LocalsTogether'
          BY <1>2, <2>2, <2>5, <2>6, <3>1
          DEF LocalsTogether, AudioSenderMade, VideoSenderMade, Bound
    <3>4. ShownSinceActivation'
          BY <2>2, <2>6, <3>1 DEF ShownSinceActivation, ReportedIsShown
    <3> QED
        BY <2>4, <3>2, <3>3, <3>4 DEF DeskOwn
  <2>7. CASE Proceeds("lane")
    <3>1. /\ held' = held /\ fresh' = fresh /\ handles' = handles /\ peer' = peer
          /\ desk' = "lane"
          BY <2>7 DEF Proceeds, Moves, Keeps
    <3>2. DeskTyped' /\ HeldTogether' /\ CallPlaced' /\ TracksApart' /\ LocalsTaken'
          BY <2>2, <3>1
          DEF DeskOwn, DeskTyped, HeldTogether, CallPlaced, Program, TracksApart, LocalsTaken
    <3>3. LocalsTogether'
          BY <1>2, <2>2, <2>5, <3>1
          DEF LocalsTogether, AudioSenderMade, VideoSenderMade, Bound, NoSender
    <3>4. ShownSinceActivation'
          BY <2>2, <3>1 DEF ShownSinceActivation, ReportedIsShown
    <3> QED
        BY <2>4, <3>2, <3>3, <3>4 DEF DeskOwn
  <2> QED
      BY <1>1, <2>2, <2>3, <2>4, <2>6, <2>7
<1>4. CASE OpensVideo
  <2>1. desk = "video_channel" /\ Local
        BY <1>4 DEF OpensVideo
  <2>2. fresh.result = "running" /\ fresh.call \in {"establish", "replace", "resume"}
        BY <2>1, RunningPlaces DEF Resting, Program
  <2>3. SceneInv' /\ SlotsNameLiveTracks'
        BY <2>1, DeskLocal
  <2>4. CASE /\ fresh' = [fresh EXCEPT !.vsender = NewSender(fresh.video, fresh.session)]
             /\ Moves(CASE fresh.call = "establish" -> "audio" [] fresh.call = "replace" -> "key"
                       [] OTHER -> IF fresh.audio = 0 THEN "activate" ELSE "advance_audio")
             /\ UNCHANGED <<held, handles, peer>>
    <3> DEFINE new == NewSender(fresh.video, fresh.session)
    <3>1. new \in SenderRecord /\ new.track = fresh.video /\ new.session = fresh.session
          BY <1>0, <1>2, <2>2, SenderTyped DEF DeskOwn
    <3>2. fresh' = [fresh EXCEPT !.vsender = new]
          BY <2>4
    <3> HIDE DEF new
    <3>3. /\ fresh' \in FreshRecord
          /\ fresh'.call = fresh.call /\ fresh'.result = fresh.result
          /\ fresh'.video = fresh.video /\ fresh'.vsender = new
          /\ fresh'.session = fresh.session /\ fresh'.asender = fresh.asender
          /\ fresh'.made = fresh.made /\ fresh'.audio = fresh.audio
          BY <1>0, <3>1, <3>2 DEF FreshRecord
    <3>4. /\ held' = held /\ handles' = handles /\ peer' = peer
          /\ fresh.call = "establish" => desk' = "audio"
          /\ fresh.call = "replace" => desk' = "key"
          /\ fresh.call = "resume" =>
               desk' = IF fresh.audio = 0 THEN "activate" ELSE "advance_audio"
          BY <2>4 DEF Moves
    <3>5. DeskTyped' /\ HeldTogether' /\ CallPlaced' /\ TracksApart'
          BY <1>0, <2>2, <3>3, <3>4
          DEF DeskOwn, DeskTyped, HeldTogether, CallPlaced, Program, TracksApart
    <3>6. LocalsTaken'
          BY <2>2, <3>3, <3>4 DEF DeskOwn, LocalsTaken
    <3>7. /\ fresh.call # "replace" => fresh.asender = NoSender
          /\ fresh.call = "replace" => Bound(fresh.asender, fresh.audio)
          /\ fresh.call = "establish" => fresh.audio = 0
          BY <2>1, <2>2 DEF DeskOwn, LocalsTogether, AudioSenderMade
    <3>8. LocalsTogether'
          BY <1>2, <2>2, <3>1, <3>3, <3>4, <3>7
          DEF LocalsTogether, AudioSenderMade, VideoSenderMade, Bound, NoSender
    <3>9. ShownSinceActivation'
          BY <2>2, <3>3, <3>4 DEF ShownSinceActivation, ReportedIsShown
    <3> QED
        BY <2>3, <3>5, <3>6, <3>8, <3>9 DEF DeskOwn
  <2> QED
      BY <1>1, <1>4, <2>2, <2>3, <2>4 DEF OpensVideo
<1>5. CASE OpensAudio
  <2>1. desk = "audio_channel" /\ Local
        BY <1>5 DEF OpensAudio
  <2>2. fresh.result = "running" /\ fresh.call \in {"establish", "resume"}
        BY <2>1, RunningPlaces DEF Resting, Program
  <2>3. SceneInv' /\ SlotsNameLiveTracks'
        BY <2>1, DeskLocal
  <2>4. CASE /\ fresh' = [fresh EXCEPT !.asender = NewSender(AudioTrack, fresh.session)]
             /\ Moves(IF fresh.call = "establish" THEN "lane" ELSE "activate")
             /\ UNCHANGED <<held, handles, peer>>
    <3> DEFINE new == NewSender(AudioTrack, fresh.session)
    <3>1. new \in SenderRecord /\ new.track = AudioTrack /\ new.session = fresh.session
          BY <1>0, <1>2, SenderTyped DEF DeskOwn
    <3>2. fresh' = [fresh EXCEPT !.asender = new]
          BY <2>4
    <3> HIDE DEF new
    <3>3. /\ fresh' \in FreshRecord
          /\ fresh'.call = fresh.call /\ fresh'.result = fresh.result
          /\ fresh'.video = fresh.video /\ fresh'.vsender = fresh.vsender
          /\ fresh'.session = fresh.session /\ fresh'.asender = new
          /\ fresh'.made = fresh.made /\ fresh'.audio = fresh.audio
          BY <1>0, <3>1, <3>2 DEF FreshRecord
    <3>4. /\ held' = held /\ handles' = handles /\ peer' = peer
          /\ desk' = IF fresh.call = "establish" THEN "lane" ELSE "activate"
          BY <2>4 DEF Moves
    <3>5. DeskTyped' /\ HeldTogether' /\ CallPlaced' /\ TracksApart' /\ LocalsTaken'
          BY <1>0, <2>2, <3>3, <3>4
          DEF DeskOwn, DeskTyped, HeldTogether, CallPlaced, Program, TracksApart, LocalsTaken
    <3>6. fresh.audio = AudioTrack /\ Bound(fresh.vsender, fresh.video)
          BY <1>0, <2>1, <2>2 DEF DeskOwn, LocalsTogether, VideoSenderMade, FreshRecord
    <3>7. LocalsTogether'
          BY <1>2, <2>2, <3>1, <3>3, <3>4, <3>6
          DEF LocalsTogether, AudioSenderMade, VideoSenderMade, Bound
    <3>8. ShownSinceActivation'
          BY <2>2, <3>3, <3>4 DEF ShownSinceActivation, ReportedIsShown
    <3> QED
        BY <2>3, <3>5, <3>7, <3>8 DEF DeskOwn
  <2> QED
      BY <1>1, <1>5, <2>2, <2>3, <2>4 DEF OpensAudio
<1> QED
    BY <1>3, <1>4, <1>5

\* A call that starts takes what it needs from the object.
LEMMA StartingSteps ==
  ASSUME DeskInv,
         StartsActivate \/ StartsReplace \/ StartsDisable \/ DisablesNothing \/ StartsResume
  PROVE  DeskInv'
<1> USE DEF DeskInv
<1>0. /\ held \in HeldRecord /\ fresh \in FreshRecord /\ peer \in PeerRecord
      /\ handles \in [AllTracks -> HandleRecord]
      /\ held.session \in Nat /\ held.vsender \in SenderRecord /\ held.asender \in SenderRecord
      /\ NoSender \in SenderRecord /\ NoSender.track = 0
      BY DEF DeskOwn, DeskTyped, HeldRecord, SenderRecord, NoSender
<1>1. desk = "idle" /\ SceneInv' /\ SlotsNameLiveTracks'
      BY DeskLocal
      DEF StartsActivate, StartsReplace, StartsDisable, DisablesNothing, StartsResume, StartsCall
<1>2. /\ fresh.result # "running" /\ fresh.vsender = NoSender /\ fresh.asender = NoSender
      /\ held.video # 0 /\ held.video <= fresh.made
      BY <1>1, RunningPlaces DEF DeskOwn, LocalsTogether, TracksApart, Resting
<1>3. held.video \in 1..fresh.made /\ fresh.made \in Nat /\ held.video \in Nat
      BY <1>0, <1>2, DesktopAssumption DEF HeldRecord, FreshRecord, VideoTracks
<1>4. CASE StartsActivate
  <2>1. /\ fresh' = [fresh EXCEPT !.call = "activate", !.result = "running",
                                  !.session = held.session, !.video = held.video,
                                  !.vsender = held.vsender, !.audio = held.audio,
                                  !.asender = held.asender]
        /\ desk' = "ready_video" /\ held' = held /\ handles' = handles /\ peer' = peer
        BY <1>4 DEF StartsActivate, StartsCall, Moves
  <2>2. /\ fresh' \in FreshRecord
        /\ fresh'.call = "activate" /\ fresh'.result = "running"
        /\ fresh'.session = held.session /\ fresh'.video = held.video
        /\ fresh'.vsender = held.vsender /\ fresh'.audio = held.audio
        /\ fresh'.asender = held.asender /\ fresh'.made = fresh.made
        BY <1>0, <2>1 DEF FreshRecord, HeldRecord
  <2>3. DeskTyped' /\ HeldTogether' /\ CallPlaced' /\ TracksApart' /\ LocalsTaken'
        BY <1>0, <1>2, <1>3, <2>1, <2>2
        DEF DeskOwn, DeskTyped, HeldTogether, CallPlaced, Program, TracksApart, LocalsTaken
  <2>4. LocalsTogether'
        BY <2>1, <2>2
        DEF DeskOwn, HeldTogether, LocalsTogether, AudioSenderMade, VideoSenderMade, Bound
  <2>5. ShownSinceActivation'
        BY <2>1, <2>2 DEF ShownSinceActivation, ReportedIsShown
  <2> QED
      BY <1>1, <2>3, <2>4, <2>5 DEF DeskOwn
<1>5. CASE StartsReplace
  <2>1. /\ fresh' = [fresh EXCEPT !.call = "replace", !.result = "running",
                                  !.made = fresh.made + 1,
                                  !.session = held.session, !.video = fresh.made + 1,
                                  !.audio = held.audio, !.asender = held.asender]
        /\ desk' = "video" /\ held' = held /\ handles' = handles /\ peer' = peer
        BY <1>5 DEF StartsReplace, Moves
  <2>2. fresh.made + 1 \in VideoTracks
        BY <1>0, <1>5, DesktopAssumption DEF StartsReplace, VideoTracks, FreshRecord
  <2>3. /\ fresh' \in FreshRecord
        /\ fresh'.call = "replace" /\ fresh'.result = "running"
        /\ fresh'.session = held.session /\ fresh'.video = fresh.made + 1
        /\ fresh'.vsender = fresh.vsender /\ fresh'.audio = held.audio
        /\ fresh'.asender = held.asender /\ fresh'.made = fresh.made + 1
        BY <1>0, <2>1, <2>2 DEF FreshRecord, HeldRecord
  <2>4. DeskTyped' /\ HeldTogether' /\ CallPlaced' /\ LocalsTaken'
        BY <1>0, <1>2, <2>1, <2>3
        DEF DeskOwn, DeskTyped, HeldTogether, CallPlaced, Program, LocalsTaken
  <2>5. TracksApart'
        BY <1>3, <1>2, <2>1, <2>3 DEF TracksApart
  <2>6. LocalsTogether'
        BY <1>2, <2>1, <2>3
        DEF DeskOwn, HeldTogether, LocalsTogether, AudioSenderMade, VideoSenderMade, Bound
  <2>7. ShownSinceActivation'
        BY <2>1, <2>3 DEF ShownSinceActivation, ReportedIsShown
  <2> QED
      BY <1>1, <2>4, <2>5, <2>6, <2>7 DEF DeskOwn
<1>6. CASE StartsDisable
  <2>1. /\ fresh' = [fresh EXCEPT !.call = "disable", !.result = "running",
                                  !.session = held.session, !.video = held.video,
                                  !.vsender = held.vsender, !.audio = 0,
                                  !.asender = NoSender]
        /\ held' = [held EXCEPT !.audio = 0, !.asender = NoSender]
        /\ desk' = "ready_video" /\ handles' = handles /\ peer' = peer
        BY <1>6 DEF StartsDisable, Moves
  <2>2. /\ fresh' \in FreshRecord
        /\ fresh'.call = "disable" /\ fresh'.result = "running"
        /\ fresh'.session = held.session /\ fresh'.video = held.video
        /\ fresh'.vsender = held.vsender /\ fresh'.audio = 0
        /\ fresh'.asender = NoSender /\ fresh'.made = fresh.made
        BY <1>0, <2>1 DEF FreshRecord, HeldRecord
  <2>3. /\ held' \in HeldRecord /\ held'.session = held.session /\ held'.video = held.video
        /\ held'.vsender = held.vsender /\ held'.audio = 0 /\ held'.asender = NoSender
        /\ held'.lane = held.lane
        BY <1>0, <2>1 DEF HeldRecord
  <2>4. DeskTyped' /\ HeldTogether' /\ CallPlaced' /\ TracksApart' /\ LocalsTaken'
        BY <1>0, <1>2, <1>3, <2>1, <2>2, <2>3
        DEF DeskOwn, DeskTyped, HeldTogether, CallPlaced, Program, TracksApart, LocalsTaken
  <2>5. LocalsTogether'
        BY <1>0, <2>1, <2>2
        DEF DeskOwn, HeldTogether, LocalsTogether, AudioSenderMade, VideoSenderMade, Bound
  <2>6. ShownSinceActivation'
        BY <2>1, <2>2 DEF ShownSinceActivation, ReportedIsShown
  <2> QED
      BY <1>1, <2>4, <2>5, <2>6 DEF DeskOwn
<1>7. CASE DisablesNothing
  <2> DEFINE left == IF fresh.result = "failed" THEN "unasked" ELSE fresh.result
  <2>1. /\ fresh' = [fresh EXCEPT !.result = left]
        /\ desk' = desk /\ held' = held /\ handles' = handles /\ peer' = peer
        /\ UNCHANGED objectVars
        BY <1>7 DEF DisablesNothing, Local
  <2>2. left \in {"ok", "unasked"} /\ (left = "ok" => fresh.result = "ok")
        BY <1>0, <1>2 DEF FreshRecord
  <2> HIDE DEF left
  <2>3. /\ fresh' \in FreshRecord /\ fresh'.result = left /\ fresh'.call = fresh.call
        /\ fresh'.session = fresh.session /\ fresh'.video = fresh.video
        /\ fresh'.vsender = fresh.vsender /\ fresh'.audio = fresh.audio
        /\ fresh'.asender = fresh.asender /\ fresh'.made = fresh.made
        BY <1>0, <2>1, <2>2 DEF FreshRecord
  <2>4. DeskTyped' /\ HeldTogether' /\ CallPlaced' /\ TracksApart' /\ LocalsTaken'
        BY <1>0, <1>1, <1>2, <2>1, <2>2, <2>3
        DEF DeskOwn, DeskTyped, HeldTogether, CallPlaced, TracksApart, LocalsTaken
  <2>5. LocalsTogether'
        BY <1>1, <1>2, <2>1, <2>2, <2>3 DEF LocalsTogether
  <2>6. ShownSinceActivation'
        BY <1>1, <2>1, <2>2, <2>3 DEF ShownSinceActivation, ReportedIsShown, objectVars
  <2> QED
      BY <1>1, <2>4, <2>5, <2>6 DEF DeskOwn
<1>8. CASE StartsResume
  <2>1. /\ fresh' = [fresh EXCEPT !.call = "resume", !.result = "running",
                                  !.session = held.session + 1, !.video = held.video,
                                  !.audio = held.audio]
        /\ held' = [held EXCEPT !.vsender.detached = TRUE,
                                !.asender.detached = (held.audio # 0)]
        /\ desk' = "connect" /\ handles' = handles /\ peer' = peer
        BY <1>8 DEF StartsResume, Moves
  <2>2. /\ fresh' \in FreshRecord
        /\ fresh'.call = "resume" /\ fresh'.result = "running"
        /\ fresh'.session = held.session + 1 /\ fresh'.video = held.video
        /\ fresh'.vsender = fresh.vsender /\ fresh'.audio = held.audio
        /\ fresh'.asender = fresh.asender /\ fresh'.made = fresh.made
    <3>1. /\ held.session + 1 \in Nat /\ held.video \in VideoTracks \union {0}
          /\ held.audio \in {0, AudioTrack}
          BY <1>0 DEF HeldRecord
    <3> DEFINE n == held.session + 1
    <3>2. fresh' = [fresh EXCEPT !.call = "resume", !.result = "running", !.session = n,
                                 !.video = held.video, !.audio = held.audio]
          BY <2>1
    <3> HIDE DEF n
    <3> QED
        BY <1>0, <3>1, <3>2 DEF FreshRecord, n
  <2>3. /\ held' \in HeldRecord /\ held'.session = held.session /\ held'.video = held.video
        /\ held'.vsender.track = held.vsender.track
        /\ held'.vsender.session = held.vsender.session
        /\ held'.asender.track = held.asender.track
        /\ held'.asender.session = held.asender.session
        /\ held'.audio = held.audio /\ held'.lane = held.lane
    <3> DEFINE b == held.audio # 0
               v == [held.vsender EXCEPT !.detached = TRUE]
               a == [held.asender EXCEPT !.detached = b]
    <3>1. /\ v \in SenderRecord /\ v.track = held.vsender.track
          /\ v.session = held.vsender.session
          BY <1>0 DEF SenderRecord
    <3>2. held' = [held EXCEPT !.vsender.detached = TRUE, !.asender.detached = b]
          BY <2>1
    <3>3. b \in BOOLEAN
          OBVIOUS
    <3> HIDE DEF b
    <3>4. /\ a \in SenderRecord /\ a.track = held.asender.track
          /\ a.session = held.asender.session
          BY <1>0, <3>3 DEF SenderRecord
    <3>5. held' = [held EXCEPT !.vsender = v, !.asender = a]
          BY <1>0, <3>2 DEF HeldRecord
    <3> HIDE DEF v, a
    <3> QED
        BY <1>0, <3>1, <3>4, <3>5 DEF HeldRecord
  <2>4. DeskTyped' /\ HeldTogether' /\ CallPlaced' /\ TracksApart' /\ LocalsTaken'
        BY <1>0, <1>2, <1>3, <2>1, <2>2, <2>3
        DEF DeskOwn, DeskTyped, HeldTogether, CallPlaced, Program, TracksApart, LocalsTaken
  <2>5. LocalsTogether'
        BY <1>2, <2>1, <2>2 DEF LocalsTogether, AudioSenderMade, VideoSenderMade, Bound
  <2>6. ShownSinceActivation'
        BY <2>1, <2>2 DEF ShownSinceActivation, ReportedIsShown
  <2> QED
      BY <1>1, <2>4, <2>5, <2>6 DEF DeskOwn
<1> QED
    BY <1>4, <1>5, <1>6, <1>7, <1>8

\* The last step of establish and of resume: the object takes locals of one connection.
LEMMA LaneStep ==
  ASSUME DeskInv, OpensLane
  PROVE  DeskInv'
<1> USE DEF DeskInv
<1>0. held \in HeldRecord /\ fresh \in FreshRecord /\ peer \in PeerRecord
      BY DEF DeskOwn, DeskTyped
<1>1. desk = "lane" /\ SceneInv' /\ SlotsNameLiveTracks' /\ store' = store
      BY DeskLocal DEF OpensLane, Local, objectVars
<1>2. fresh.result = "running" /\ fresh.call \in {"establish", "resume"}
      BY <1>1, RunningPlaces DEF Resting, Program
<1>3. CASE FailsQuietly
      BY <1>0, <1>1, <1>2, <1>3, FailingKeeps DEF FailsQuietly
<1>4. ASSUME NEW lane \in {0, fresh.session}, Assigns(lane)
      PROVE  DeskInv'
  <2>1. /\ desk' = "idle" /\ fresh' = Left("ok") /\ handles' = handles /\ peer' = peer
        /\ held' = [session |-> fresh.session, video |-> fresh.video,
                    vsender |-> fresh.vsender, audio |-> fresh.audio,
                    asender |-> fresh.asender, lane |-> lane]
        BY <1>4 DEF Assigns, Succeeds, Moves
  <2>2. /\ fresh'.call = fresh.call /\ fresh'.made = fresh.made /\ fresh'.result = "ok"
        /\ fresh'.vsender = NoSender /\ fresh'.asender = NoSender /\ fresh'.audio = 0
        BY <2>1 DEF Left
  <2>3. fresh' \in FreshRecord
        BY <1>0, <2>1 DEF Left, FreshRecord, SenderRecord, NoSender
  <2>4. /\ held' \in HeldRecord /\ held'.session = fresh.session
        /\ held'.video = fresh.video /\ held'.vsender = fresh.vsender
        /\ held'.audio = fresh.audio /\ held'.asender = fresh.asender /\ held'.lane = lane
        BY <1>0, <2>1 DEF HeldRecord, FreshRecord
  <2>5. Bound(fresh.vsender, fresh.video) /\ Bound(fresh.asender, fresh.audio)
        BY <1>1, <1>2 DEF DeskOwn, LocalsTogether, VideoSenderMade, AudioSenderMade
  <2>6. fresh.video \in 1..fresh.made /\ fresh.video # 0 /\ fresh.video <= fresh.made
        BY <1>0, <1>2, DesktopAssumption DEF DeskOwn, TracksApart, FreshRecord, VideoTracks
  <2>7. DeskTyped' /\ HeldTogether'
        BY <1>4, <2>1, <2>3, <2>4, <2>5, <2>6 DEF DeskOwn, DeskTyped, HeldTogether, Bound
  <2>8. CallPlaced' /\ TracksApart' /\ LocalsTogether' /\ LocalsTaken'
        BY <2>1, <2>2, <2>4, <2>6
        DEF CallPlaced, TracksApart, LocalsTogether, LocalsTaken, Resting
  <2>9. ShownSinceActivation'
        BY <1>1, <1>2, <2>1, <2>2, <2>4
        DEF ShownSinceActivation, Presented, ReportedIsShown
  <2> QED
      BY <1>1, <2>7, <2>8, <2>9 DEF DeskOwn
<1> QED
    BY <1>3, <1>4 DEF OpensLane

\* The key unit of a replacement carries the first identifier of the new sender.
LEMMA KeyStep ==
  ASSUME DeskInv, SendsKey
  PROVE  DeskInv'
<1> USE DEF DeskInv
<1>0. /\ held \in HeldRecord /\ fresh \in FreshRecord /\ peer \in PeerRecord
      /\ handles \in [AllTracks -> HandleRecord]
      /\ fresh.vsender \in SenderRecord /\ fresh.vsender.last \in Nat
      BY DEF DeskOwn, DeskTyped, FreshRecord, SenderRecord
<1>1. desk = "key" /\ SceneInv' /\ SlotsNameLiveTracks'
      BY DeskLocal DEF SendsKey
<1>2. fresh.result = "running" /\ fresh.call = "replace"
      BY <1>1, RunningPlaces DEF Resting, Program
<1> DEFINE n == fresh.vsender.last + 1
           new == [fresh.vsender EXCEPT !.last = n]
<1>3. n \in Nat
      BY <1>0
<1>4. /\ fresh' = [fresh EXCEPT !.vsender.last = n]
      /\ handles' = [handles EXCEPT ![fresh.video].last = n]
      /\ desk' = "ready_video" /\ held' = held /\ peer' = peer
      BY <1>0 DEF SendsKey, Moves, FreshRecord
<1> HIDE DEF n
<1>5. /\ new \in SenderRecord /\ new.track = fresh.vsender.track
      /\ new.session = fresh.vsender.session
      BY <1>0, <1>3 DEF SenderRecord
<1>6. fresh' = [fresh EXCEPT !.vsender = new]
      BY <1>0, <1>4 DEF FreshRecord
<1> HIDE DEF new
<1>7. /\ fresh' \in FreshRecord
      /\ fresh'.call = fresh.call /\ fresh'.result = fresh.result
      /\ fresh'.video = fresh.video /\ fresh'.vsender = new
      /\ fresh'.session = fresh.session /\ fresh'.asender = fresh.asender
      /\ fresh'.made = fresh.made /\ fresh'.audio = fresh.audio
      BY <1>0, <1>5, <1>6 DEF FreshRecord
<1>8. handles' \in [AllTracks -> HandleRecord]
      BY <1>0, <1>3, <1>4 DEF HandleRecord
<1>9. /\ DeskTyped' /\ HeldTogether' /\ CallPlaced' /\ TracksApart' /\ LocalsTaken'
      BY <1>0, <1>2, <1>4, <1>7, <1>8
      DEF DeskOwn, DeskTyped, HeldTogether, CallPlaced, Program, TracksApart, LocalsTaken
<1>10. LocalsTogether'
       BY <1>1, <1>2, <1>4, <1>5, <1>7
       DEF DeskOwn, LocalsTogether, VideoSenderMade, AudioSenderMade, Bound
<1>11. ShownSinceActivation'
       BY <1>2, <1>4, <1>7 DEF ShownSinceActivation, ReportedIsShown
<1> QED
    BY <1>1, <1>9, <1>10, <1>11 DEF DeskOwn

\* An activation that the presenter accepted names tracks it has, on the generations of
\* the senders of the call.
LEMMA ActivationStep ==
  ASSUME DeskInv, Activates
  PROVE  DeskInv'
<1> USE DEF DeskInv
<1>0. /\ store \in StoreRecord /\ held \in HeldRecord /\ fresh \in FreshRecord
      /\ peer \in PeerRecord /\ handles \in [AllTracks -> HandleRecord]
      BY DEF SceneInv, ObjectsTyped, DeskOwn, DeskTyped
<1>1. desk = "activate" /\ scene' = scene /\ txn' = txn
      BY DEF Activates
<1>2. /\ fresh.result = "running"
      /\ fresh.call \in {"activate", "replace", "disable", "resume"}
      BY <1>1, RunningPlaces DEF Resting, Program
<1>3. /\ Bound(fresh.vsender, fresh.video) /\ Bound(fresh.asender, fresh.audio)
      BY <1>1, <1>2 DEF DeskOwn, LocalsTogether, VideoSenderMade, AudioSenderMade
<1>4. fresh.video # 0 /\ fresh.video \in Nat /\ fresh.audio \in Nat
      BY <1>0, <1>2, DesktopAssumption
      DEF DeskOwn, TracksApart, FreshRecord, VideoTracks, AudioTrack
<1>5. CASE Local /\ FailsQuietly
      BY <1>0, <1>2, <1>5, DeskLocal, FailingKeeps DEF FailsQuietly
<1>6. CASE ~(Local /\ FailsQuietly)
  <2>1. Accepted
        BY <1>6 DEF Activates
  <2>2. /\ fresh.video \in store.tracks /\ fresh.vsender.gen = peer.gens[fresh.video]
        /\ fresh.audio # 0 => /\ fresh.audio \in store.tracks
                              /\ fresh.asender.gen = peer.gens[fresh.audio]
        BY <1>3, <1>4, <2>1 DEF Accepted, Required, Bound
  <2> DEFINE f == [s \in {1, 2} |-> IF s = 1 THEN fresh.video ELSE fresh.audio]
  <2>3. f \in [{1, 2} -> Nat] /\ \A s \in {1, 2} : f[s] \in store.tracks \union {0}
        BY <1>4, <2>2
  <2>4. Bindings = WithSlots(f)
        BY DEF Bindings
  <2>5. /\ Bindings \in StoreRecord /\ Bindings.slots = f
        /\ Bindings.tracks = store.tracks /\ Bindings.open = store.open
        /\ Bindings.revision = store.revision
        BY <1>0, <2>3, <2>4, SlotsSet
  <2>6. /\ link' \in {link, FALSE} /\ unsure' \in {unsure, TRUE}
        /\ store' \in {store, Bindings}
        /\ \/ store' = Bindings /\ AfterActivation
           \/ Fails /\ peer' \in {peer, [peer EXCEPT !.ahead = TRUE]}
        BY <1>6 DEF Activates, Asks
  <2>7. SceneInv' /\ SlotsNameLiveTracks'
        BY <1>1, <2>3, <2>5, <2>6, DeskRequest
  <2>8. CASE Fails /\ peer' \in {peer, [peer EXCEPT !.ahead = TRUE]}
    <3>1. peer' \in PeerRecord
          BY <1>0, <2>8 DEF PeerRecord
    <3> QED
        BY <1>2, <2>7, <2>8, <3>1, FailingKeeps
  <2>9. CASE store' = Bindings /\ AfterActivation
    <3>1. store'.slots = f /\ held' = held /\ handles' = handles /\ peer' = peer
          BY <2>5, <2>9 DEF AfterActivation
    <3>2. CASE fresh.call = "activate"
      <4>1. desk' = "idle" /\ fresh' = Left("ok")
            BY <2>9, <3>2 DEF AfterActivation, Succeeds, Moves
      <4>2. /\ fresh'.call = "activate" /\ fresh'.made = fresh.made /\ fresh'.result = "ok"
            /\ fresh'.vsender = NoSender /\ fresh'.asender = NoSender /\ fresh'.audio = 0
            BY <3>2, <4>1 DEF Left
      <4>3. fresh' \in FreshRecord
            BY <1>0, <4>1 DEF Left, FreshRecord, SenderRecord, NoSender
      <4>4. held.video # 0 /\ held.video <= fresh.made
            BY <1>2, <3>2 DEF DeskOwn, TracksApart
      <4>5. DeskOwn'
            BY <3>1, <4>1, <4>2, <4>3, <4>4
            DEF DeskOwn, DeskTyped, CallPlaced, HeldTogether, TracksApart, LocalsTogether,
                LocalsTaken, Resting
      <4>6. /\ held.video = fresh.video /\ held.vsender.gen = fresh.vsender.gen
            /\ held.audio = fresh.audio /\ held.asender.gen = fresh.asender.gen
            BY <1>2, <3>2 DEF DeskOwn, LocalsTaken
      <4>7. ShownSinceActivation'
            BY <2>2, <3>1, <4>1, <4>6 DEF ShownSinceActivation, ReportedIsShown
      <4> QED
          BY <2>7, <4>5, <4>7
    <3>3. CASE fresh.call # "activate"
      <4>1. /\ fresh' = fresh
            /\ desk' = IF fresh.call = "resume" THEN "lane" ELSE "destroy"
            BY <2>9, <3>3 DEF AfterActivation, Moves
      <4>2. DeskOwn'
            BY <1>0, <1>1, <1>2, <3>1, <3>3, <4>1, GoingOnKeeps
            DEF Program, VideoSenderMade, AudioSenderMade
      <4>3. ShownSinceActivation'
            BY <1>2, <2>2, <3>1, <4>1 DEF ShownSinceActivation, ReportedIsShown, Presented
      <4> QED
          BY <2>7, <4>2, <4>3
    <3> QED
        BY <3>2, <3>3
  <2> QED
      BY <2>6, <2>8, <2>9
<1> QED
    BY <1>5, <1>6

\* The track that a replacement or disabling the audio destroys is in no slot.
LEMMA DestroyingStep ==
  ASSUME DeskInv, DestroysOld
  PROVE  DeskInv'
<1> USE DEF DeskInv
<1>0. /\ store \in StoreRecord /\ held \in HeldRecord /\ fresh \in FreshRecord
      /\ peer \in PeerRecord /\ handles \in [AllTracks -> HandleRecord]
      BY DEF SceneInv, ObjectsTyped, DeskOwn, DeskTyped
<1>1. desk = "destroy" /\ scene' = scene /\ txn' = txn
      BY DEF DestroysOld
<1>2. fresh.result = "running" /\ fresh.call \in {"replace", "disable"}
      BY <1>1, RunningPlaces DEF Resting, Program
<1>3. Presented(fresh.video, fresh.vsender, fresh.audio, fresh.asender)
      BY <1>1 DEF ShownSinceActivation
<1>4. /\ fresh.video \in 1..fresh.made /\ fresh.made \in 1..(MaxReplaces + 1)
      /\ held.video # 0 /\ held.video \in VideoTracks /\ fresh.audio = held.audio
      /\ fresh.asender.gen = held.asender.gen
      /\ fresh.call = "disable" => fresh.audio = 0
      /\ fresh.call = "replace" => held.video < fresh.video
      BY <1>0, <1>2
      DEF DeskOwn, TracksApart, LocalsTaken, HeldRecord, FreshRecord, VideoTracks
<1>5. /\ Old \in AllTracks /\ Old \in Nat /\ Old # fresh.video /\ Old # fresh.audio
      /\ fresh.video # 0 /\ fresh.video <= fresh.made /\ fresh.video \in VideoTracks
  <2>1. fresh.audio \in {0, AudioTrack}
        BY <1>0 DEF FreshRecord
  <2> QED
      BY <1>2, <1>4, <2>1, DesktopAssumption DEF Old, AllTracks, AudioTrack, VideoTracks
<1>6. CASE Local /\ FailsQuietly
      BY <1>0, <1>2, <1>6, DeskLocal, FailingKeeps DEF FailsQuietly
<1>7. CASE ~(Local /\ FailsQuietly)
  <2>1. /\ link' \in {link, FALSE} /\ unsure' \in {unsure, TRUE}
        /\ store' \in {store, WithoutTrack(Old)}
        /\ \/ /\ store' = WithoutTrack(Old)
              /\ handles' = [handles EXCEPT ![Old].destroyed = TRUE]
              /\ held' = [held EXCEPT !.video = fresh.video, !.vsender = fresh.vsender]
              /\ Succeeds /\ peer' = peer
           \/ FailsQuietly
        BY <1>7 DEF DestroysOld, Asks
  <2>2. /\ WithoutTrack(Old) \in StoreRecord
        /\ WithoutTrack(Old).tracks = store.tracks \ {Old}
        /\ WithoutTrack(Old).slots = store.slots
        /\ WithoutTrack(Old).open = store.open
        /\ WithoutTrack(Old).revision = store.revision
        BY <1>0, <1>5, TrackRemoved
  <2>3. \A s \in {1, 2} : store.slots[s] # Old
        BY <1>3, <1>5 DEF Presented
  <2>4. SceneInv' /\ SlotsNameLiveTracks'
    <3>1. \A s \in {1, 2} : store.slots[s] \in (store.tracks \ {Old}) \union {0}
          BY <2>3 DEF SlotsNameLiveTracks
    <3> QED
        BY <1>1, <2>1, <2>2, <3>1, DeskRequest
  <2>5. CASE FailsQuietly
        BY <1>0, <1>2, <2>4, <2>5, FailingKeeps DEF FailsQuietly
  <2>6. CASE /\ store' = WithoutTrack(Old)
             /\ handles' = [handles EXCEPT ![Old].destroyed = TRUE]
             /\ held' = [held EXCEPT !.video = fresh.video, !.vsender = fresh.vsender]
             /\ Succeeds /\ peer' = peer
    <3>1. desk' = "idle" /\ fresh' = Left("ok")
          BY <2>6 DEF Succeeds, Moves
    <3>2. /\ fresh'.call = fresh.call /\ fresh'.made = fresh.made /\ fresh'.result = "ok"
          /\ fresh'.vsender = NoSender /\ fresh'.asender = NoSender /\ fresh'.audio = 0
          BY <3>1 DEF Left
    <3>3. fresh' \in FreshRecord
          BY <1>0, <3>1 DEF Left, FreshRecord, SenderRecord, NoSender
    <3>4. /\ held' \in HeldRecord /\ held'.session = held.session
          /\ held'.video = fresh.video /\ held'.vsender = fresh.vsender
          /\ held'.audio = held.audio /\ held'.asender = held.asender
          /\ held'.lane = held.lane
          BY <1>0, <1>5, <2>6 DEF HeldRecord, FreshRecord
    <3>5. handles' \in [AllTracks -> HandleRecord]
          BY <1>0, <1>5, <2>6 DEF HandleRecord
    <3>6. fresh.vsender.track = fresh.video /\ fresh.vsender.session = held.session
          BY <1>1, <1>2, <1>5
          DEF DeskOwn, LocalsTogether, VideoSenderMade, Bound, LocalsTaken
    <3>7. DeskTyped' /\ HeldTogether'
          BY <1>0, <2>6, <3>3, <3>4, <3>5, <3>6 DEF DeskOwn, DeskTyped, HeldTogether
    <3>8. CallPlaced' /\ TracksApart' /\ LocalsTogether' /\ LocalsTaken'
          BY <1>5, <3>1, <3>2, <3>4
          DEF CallPlaced, TracksApart, LocalsTogether, LocalsTaken, Resting
    <3>9. ShownSinceActivation'
          BY <1>3, <1>4, <2>2, <2>6, <3>1, <3>4
          DEF ShownSinceActivation, Presented, ReportedIsShown
    <3> QED
        BY <2>4, <3>7, <3>8, <3>9 DEF DeskOwn
  <2> QED
      BY <2>1, <2>5, <2>6
<1> QED
    BY <1>6, <1>7

\* A media worker moves the identifiers of a sender, of the object and of the call that
\* took it over, and nothing else.
LEMMA WorkerSteps ==
  ASSUME DeskInv, WorkerSends
  PROVE  DeskInv'
<1> USE DEF DeskInv
<1>0. /\ held \in HeldRecord /\ fresh \in FreshRecord /\ peer \in PeerRecord
      /\ handles \in [AllTracks -> HandleRecord]
      /\ held.vsender \in SenderRecord /\ held.asender \in SenderRecord
      /\ fresh.vsender \in SenderRecord /\ fresh.asender \in SenderRecord
      BY DEF DeskOwn, DeskTyped, HeldRecord, FreshRecord
<1>1. SceneInv' /\ SlotsNameLiveTracks' /\ desk' = desk /\ peer' = peer /\ store' = store
      BY DeskLocal DEF WorkerSends, Local, objectVars
<1>2. held.vsender.track = held.video /\ held.asender.track = held.audio
      BY DEF DeskOwn, HeldTogether
<1>3. /\ held.video # 0 => held.video \in AllTracks
      /\ held.audio # 0 => held.audio \in AllTracks
      BY <1>0, DesktopAssumption DEF HeldRecord, VideoTracks, AllTracks, AudioTrack
<1>4. ASSUME NEW s \in SenderRecord, s.track \in AllTracks
      PROVE  MediaLast(s) \in Nat
  <2>1. handles[s.track] \in HandleRecord
        BY <1>0, <1>4
  <2> QED
      BY <1>4, <2>1 DEF MediaLast, HandleRecord, SenderRecord
<1>5. ASSUME NEW s \in SenderRecord
      PROVE  LET n == [s EXCEPT !.last = @ + 1]
             IN /\ n \in SenderRecord /\ n.track = s.track /\ n.session = s.session
                /\ n.gen = s.gen
      BY <1>5 DEF SenderRecord
<1>6. CASE /\ held.vsender.track # 0
           /\ held' = [held EXCEPT !.vsender.last = @ + 1]
           /\ handles' = [handles EXCEPT ![held.vsender.track].last = MediaLast(held.vsender)]
           /\ fresh' = IF fresh.vsender.track = held.vsender.track /\ fresh.call # "resume"
                       THEN [fresh EXCEPT !.vsender.last = @ + 1] ELSE fresh
  <2> DEFINE hs == [held.vsender EXCEPT !.last = @ + 1]
             fs == [fresh.vsender EXCEPT !.last = @ + 1]
  <2>1. /\ hs \in SenderRecord /\ hs.track = held.vsender.track
        /\ hs.session = held.vsender.session /\ hs.gen = held.vsender.gen
        /\ fs \in SenderRecord /\ fs.track = fresh.vsender.track
        /\ fs.session = fresh.vsender.session /\ fs.gen = fresh.vsender.gen
        BY <1>0, <1>5
  <2>2. /\ held' = [held EXCEPT !.vsender = hs]
        /\ fresh' \in {fresh, [fresh EXCEPT !.vsender = fs]}
        /\ fresh' # fresh => fresh.vsender.track = held.vsender.track
        BY <1>0, <1>6 DEF HeldRecord, FreshRecord
  <2> HIDE DEF hs, fs
  <2>3. /\ held' \in HeldRecord /\ held'.session = held.session
        /\ held'.video = held.video /\ held'.vsender = hs /\ held'.audio = held.audio
        /\ held'.asender = held.asender /\ held'.lane = held.lane
        BY <1>0, <2>1, <2>2 DEF HeldRecord
  <2>4. /\ fresh' \in FreshRecord /\ fresh'.call = fresh.call
        /\ fresh'.result = fresh.result /\ fresh'.session = fresh.session
        /\ fresh'.video = fresh.video /\ fresh'.vsender \in {fresh.vsender, fs}
        /\ fresh'.audio = fresh.audio /\ fresh'.asender = fresh.asender
        /\ fresh'.made = fresh.made
        /\ fresh'.vsender # fresh.vsender => fresh.vsender.track # 0
        BY <1>0, <1>6, <2>1, <2>2 DEF FreshRecord
  <2>5. handles' \in [AllTracks -> HandleRecord]
    <3>1. MediaLast(held.vsender) \in Nat
          BY <1>0, <1>2, <1>3, <1>4, <1>6
    <3> QED
        BY <1>0, <1>6, <3>1 DEF HandleRecord
  <2>6. DeskTyped' /\ HeldTogether' /\ CallPlaced' /\ TracksApart'
        BY <1>0, <1>1, <2>1, <2>3, <2>4, <2>5
        DEF DeskOwn, DeskTyped, HeldTogether, CallPlaced, Program, TracksApart
  <2>7. LocalsTogether' /\ LocalsTaken'
    <3>1. /\ fresh'.vsender.track = fresh.vsender.track
          /\ fresh'.vsender.session = fresh.vsender.session
          /\ fresh'.vsender.gen = fresh.vsender.gen
          /\ fresh.vsender = NoSender => fresh'.vsender = NoSender
          BY <2>1, <2>4 DEF NoSender
    <3> QED
        BY <1>1, <2>1, <2>3, <2>4, <3>1
        DEF DeskOwn, LocalsTogether, LocalsTaken, VideoSenderMade, AudioSenderMade, Bound
  <2>8. ShownSinceActivation'
        BY <1>1, <2>1, <2>3, <2>4 DEF ShownSinceActivation, Presented, ReportedIsShown
  <2> QED
      BY <1>1, <2>6, <2>7, <2>8 DEF DeskOwn
<1>7. CASE /\ held.asender.track # 0
           /\ held' = [held EXCEPT !.asender.last = @ + 1]
           /\ handles' = [handles EXCEPT ![held.asender.track].last = MediaLast(held.asender)]
           /\ fresh' = IF fresh.asender.track = held.asender.track /\ fresh.call # "resume"
                       THEN [fresh EXCEPT !.asender.last = @ + 1] ELSE fresh
  <2> DEFINE hs == [held.asender EXCEPT !.last = @ + 1]
             fs == [fresh.asender EXCEPT !.last = @ + 1]
  <2>1. /\ hs \in SenderRecord /\ hs.track = held.asender.track
        /\ hs.session = held.asender.session /\ hs.gen = held.asender.gen
        /\ fs \in SenderRecord /\ fs.track = fresh.asender.track
        /\ fs.session = fresh.asender.session /\ fs.gen = fresh.asender.gen
        BY <1>0, <1>5
  <2>2. /\ held' = [held EXCEPT !.asender = hs]
        /\ fresh' \in {fresh, [fresh EXCEPT !.asender = fs]}
        /\ fresh' # fresh => fresh.asender.track = held.asender.track
        BY <1>0, <1>7 DEF HeldRecord, FreshRecord
  <2> HIDE DEF hs, fs
  <2>3. /\ held' \in HeldRecord /\ held'.session = held.session
        /\ held'.video = held.video /\ held'.asender = hs /\ held'.audio = held.audio
        /\ held'.vsender = held.vsender /\ held'.lane = held.lane
        BY <1>0, <2>1, <2>2 DEF HeldRecord
  <2>4. /\ fresh' \in FreshRecord /\ fresh'.call = fresh.call
        /\ fresh'.result = fresh.result /\ fresh'.session = fresh.session
        /\ fresh'.video = fresh.video /\ fresh'.asender \in {fresh.asender, fs}
        /\ fresh'.audio = fresh.audio /\ fresh'.vsender = fresh.vsender
        /\ fresh'.made = fresh.made
        /\ fresh'.asender # fresh.asender => fresh.asender.track # 0
        BY <1>0, <1>7, <2>1, <2>2 DEF FreshRecord
  <2>5. handles' \in [AllTracks -> HandleRecord]
    <3>1. MediaLast(held.asender) \in Nat
          BY <1>0, <1>2, <1>3, <1>4, <1>7
    <3> QED
        BY <1>0, <1>7, <3>1 DEF HandleRecord
  <2>6. DeskTyped' /\ HeldTogether' /\ CallPlaced' /\ TracksApart'
        BY <1>0, <1>1, <2>1, <2>3, <2>4, <2>5
        DEF DeskOwn, DeskTyped, HeldTogether, CallPlaced, Program, TracksApart
  <2>7. LocalsTogether' /\ LocalsTaken'
    <3>1. /\ fresh'.asender.track = fresh.asender.track
          /\ fresh'.asender.session = fresh.asender.session
          /\ fresh'.asender.gen = fresh.asender.gen
          /\ fresh.asender = NoSender => fresh'.asender = NoSender
          BY <2>1, <2>4 DEF NoSender
    <3> QED
        BY <1>1, <2>1, <2>3, <2>4, <3>1
        DEF DeskOwn, LocalsTogether, LocalsTaken, VideoSenderMade, AudioSenderMade, Bound
  <2>8. ShownSinceActivation'
        BY <1>1, <2>1, <2>3, <2>4 DEF ShownSinceActivation, Presented, ReportedIsShown
  <2> QED
      BY <1>1, <2>6, <2>7, <2>8 DEF DeskOwn
<1> QED
  <2>1. PICK f \in {"vsender", "asender"} :
          /\ held[f].track # 0
          /\ held' = [held EXCEPT ![f].last = @ + 1]
          /\ handles' = [handles EXCEPT ![held[f].track].last = MediaLast(held[f])]
          /\ fresh' = IF fresh[f].track = held[f].track /\ fresh.call # "resume"
                      THEN [fresh EXCEPT ![f].last = @ + 1] ELSE fresh
        BY DEF WorkerSends
  <2>2. CASE f = "vsender"
        BY <1>6, <2>1, <2>2
  <2>3. CASE f = "asender"
        BY <1>7, <2>1, <2>3
  <2> QED
      BY <2>2, <2>3

\* The transaction of establish, the terminal, the end of the connection and close do not
\* touch what the calls keep, nor the tracks and slots of the presenter.
LEMMA OutsideDesk ==
  ASSUME DeskInv,
         \/ (TxnStep \/ TargetChanges \/ LinkEnds) /\ UNCHANGED desktopOwn
         \/ ClosesDesktop
         \/ UNCHANGED desktopVars
  PROVE  DeskInv'
<1> USE DEF DeskInv
<1>1. CASE (TxnStep \/ TargetChanges \/ LinkEnds) /\ UNCHANGED desktopOwn
  <2>1. SceneInv' /\ store'.slots = store.slots /\ store'.tracks = store.tracks
        BY <1>1, TxnSteps, OutsideSteps
  <2>2. held' = held /\ fresh' = fresh /\ desk' = desk /\ handles' = handles /\ peer' = peer
        BY <1>1 DEF desktopOwn
  <2>3. SlotsNameLiveTracks'
        BY <2>1 DEF SlotsNameLiveTracks
  <2>4. DeskOwn'
        BY <2>2
        DEF DeskOwn, DeskTyped, CallPlaced, HeldTogether, TracksApart, LocalsTogether,
            LocalsTaken, VideoSenderMade, AudioSenderMade, Bound
  <2>5. ShownSinceActivation'
        BY <2>1, <2>2 DEF ShownSinceActivation, Presented, ReportedIsShown
  <2> QED
      BY <2>1, <2>3, <2>4, <2>5
<1>2. CASE ClosesDesktop
  <2> DEFINE v == [held.vsender EXCEPT !.detached = TRUE]
             a == [held.asender EXCEPT !.detached = TRUE]
  <2>1. /\ held \in HeldRecord /\ held.vsender \in SenderRecord
        /\ held.asender \in SenderRecord
        /\ v \in SenderRecord /\ v.track = held.vsender.track
        /\ v.session = held.vsender.session
        /\ a \in SenderRecord /\ a.track = held.asender.track
        /\ a.session = held.asender.session
        BY DEF DeskOwn, DeskTyped, HeldRecord, SenderRecord
  <2>2. /\ desk = "idle" /\ desk' = "closed" /\ link' = FALSE
        /\ held' \in {held, [held EXCEPT !.vsender = v, !.asender = a]}
        /\ store' = store /\ scene' = scene /\ txn' = txn /\ unsure' = unsure
        /\ fresh' = fresh /\ handles' = handles /\ peer' = peer
        BY <1>2, <2>1 DEF ClosesDesktop, Moves, HeldRecord
  <2> HIDE DEF v, a
  <2>3. /\ held' \in HeldRecord /\ held'.session = held.session
        /\ held'.video = held.video /\ held'.audio = held.audio
        /\ held'.vsender.track = held.vsender.track
        /\ held'.vsender.session = held.vsender.session
        /\ held'.asender.track = held.asender.track
        /\ held'.asender.session = held.asender.session
        /\ held'.lane = held.lane
        BY <2>1, <2>2 DEF HeldRecord
  <2>4. fresh.result # "running"
        BY <2>2, RunningPlaces DEF Resting
  <2>5. SceneInv' /\ SlotsNameLiveTracks'
    <3>1. store \in StoreRecord /\ \A s \in {1, 2} : store.slots[s] \in store.tracks \union {0}
          BY DEF SceneInv, ObjectsTyped, SlotsNameLiveTracks
    <3> QED
        BY <2>2, <3>1, DeskRequest
  <2>6. DeskOwn'
        BY <2>2, <2>3, <2>4
        DEF DeskOwn, DeskTyped, CallPlaced, HeldTogether, TracksApart, LocalsTogether,
            LocalsTaken, Resting
  <2>7. ShownSinceActivation'
        BY <2>2 DEF ShownSinceActivation, ReportedIsShown
  <2> QED
      BY <2>5, <2>6, <2>7
<1>3. CASE UNCHANGED desktopVars
  <2>1. /\ link' = link /\ store' = store /\ scene' = scene /\ txn' = txn
        /\ unsure' = unsure /\ held' = held /\ fresh' = fresh /\ desk' = desk
        /\ handles' = handles /\ peer' = peer
        BY <1>3 DEF desktopVars, desktopOwn, objectVars
  <2>2. SceneInv' /\ SlotsNameLiveTracks'
        BY <2>1, DeskLocal DEF Local, objectVars
  <2>3. DeskOwn' /\ ShownSinceActivation'
        BY <2>1
        DEF DeskOwn, DeskTyped, CallPlaced, HeldTogether, TracksApart, LocalsTogether,
            LocalsTaken, VideoSenderMade, AudioSenderMade, Bound,
            ShownSinceActivation, Presented, ReportedIsShown
  <2> QED
      BY <2>2, <2>3
<1> QED
    BY <1>1, <1>2, <1>3

\* Every reachable state of a desktop keeps DeskInv, for any number of replacements,
\* resumes, media identifiers and target changes and whatever fails.
THEOREM DesktopInvariant == DesktopSpec => []DeskInv
<1>1. DesktopInit => DeskInv
  <2> SUFFICES ASSUME DesktopInit PROVE DeskInv
      OBVIOUS
  <2>1. SceneInv
        BY ObjectsInitially DEF DesktopInit
  <2>2. SlotsNameLiveTracks
        BY DEF DesktopInit, ObjectsInit, SlotsNameLiveTracks, NoSlots
  <2>3. /\ NoSender \in SenderRecord /\ NoSender.track = 0 /\ NoSender.session = 0
        BY DEF NoSender, SenderRecord
  <2>4. /\ held = [session |-> 0, video |-> 0, vsender |-> NoSender,
                   audio |-> 0, asender |-> NoSender, lane |-> 0]
        /\ fresh = [call |-> "establish", session |-> 1, video |-> 1, vsender |-> NoSender,
                    audio |-> 0, asender |-> NoSender, made |-> 1, result |-> "running"]
        /\ desk = "surface"
        BY DEF DesktopInit
  <2>5. held \in HeldRecord /\ fresh \in FreshRecord
        BY <2>3, <2>4, DesktopAssumption DEF HeldRecord, FreshRecord, VideoTracks
  <2>6. handles \in [AllTracks -> HandleRecord] /\ peer \in PeerRecord
        BY DEF DesktopInit, HandleRecord, PeerRecord
  <2>7. DeskOwn
        BY <2>3, <2>4, <2>5, <2>6
        DEF DeskOwn, DeskTyped, CallPlaced, Program, Resting, HeldTogether, TracksApart,
            LocalsTogether, LocalsTaken, VideoSenderMade, AudioSenderMade
  <2>8. ShownSinceActivation
        BY <2>4 DEF ShownSinceActivation, ReportedIsShown
  <2> QED
      BY <2>1, <2>2, <2>7, <2>8 DEF DeskInv
<1>2. DeskInv /\ [DesktopNext]_desktopVars => DeskInv'
  <2> SUFFICES ASSUME DeskInv, [DesktopNext]_desktopVars PROVE DeskInv'
      OBVIOUS
  <2>1. CASE EstablishStep
        BY <2>1, GoingOnSteps, OpeningSteps, LaneStep DEF EstablishStep
  <2>2. CASE SlotStep
        BY <2>2, GoingOnSteps, StartingSteps, KeyStep, ActivationStep, DestroyingStep
        DEF SlotStep
  <2>3. CASE ResumeStep
        BY <2>3, GoingOnSteps, StartingSteps, ReconcilingSteps DEF ResumeStep
  <2>4. CASE WorkerSends
        BY <2>4, WorkerSteps
  <2> QED
      BY <2>1, <2>2, <2>3, <2>4, OutsideDesk DEF DesktopNext
<1> QED
    BY <1>1, <1>2, PTL DEF DesktopSpec

\* No slot of a desktop ever names a track that was destroyed, for any number of
\* replacements and resumes (DesktopSession::replace_video_track, disable_audio_track).
THEOREM SlotsStayLive == DesktopSpec => []SlotsNameLiveTracks
<1>1. DeskInv => SlotsNameLiveTracks
      BY DEF DeskInv
<1> QED
    BY <1>1, DesktopInvariant, PTL

\* Between calls the senders and the lane of a desktop are of its session and its tracks,
\* wherever a resume failed (DesktopSession::resume).
THEOREM IncarnationStaysOne == DesktopSpec => []OneIncarnation
<1>1. DeskInv => OneIncarnation
      BY DEF DeskInv, DeskOwn, HeldTogether, OneIncarnation
<1> QED
    BY <1>1, DesktopInvariant, PTL

\* A call of a desktop that reported success left the presenter showing the tracks held, on
\* the generations of their senders (DesktopSession::activate_slots and the others).
THEOREM ReportsAreShown == DesktopSpec => []ReportedIsShown
<1>1. DeskInv => ReportedIsShown
      BY DEF DeskInv, ShownSinceActivation
<1> QED
    BY <1>1, DesktopInvariant, PTL

\* A desktop knows the scene revision of its presenter whenever no transaction runs, and
\* has left none open (Session::scene_transaction under DesktopSession::establish).
THEOREM DesktopSceneInStep == DesktopSpec => []SceneInStep
<1>1. DeskInv => SceneInStep
      BY DEF DeskInv, SceneInv, SceneKnown, SceneInStep
<1> QED
    BY <1>1, DesktopInvariant, PTL
=============================================================================
