---------------------------- MODULE PaneSession ----------------------------
(***************************************************************************)
(* PaneSession shows at most one image in a terminal pane.  A show clears   *)
(* the previous image, then makes a surface, a node, a track and a channel, *)
(* sends the image and activates it; every step may fail, and what was made *)
(* by then is undone.  Image n has surface n, node n and track n.           *)
(***************************************************************************)
EXTENDS SessionObjects

CONSTANT MaxShows  \* bound: images shown

ASSUME ShowsAssumption == MaxShows \in Nat

VARIABLES
  shown,     \* PaneSession.current: the image it owns, 0 for none
  clearing,  \* the presentation taken out by clear
  image,     \* the image of the running show, or of the last one
  pane       \* where the call is

paneOwn == <<shown, clearing, image, pane>>
paneVars == <<objectVars, paneOwn>>

PaneAt(step) == shown = 0 /\ clearing = 0 /\ image = 0 /\ pane = step
PaneInit == ObjectsInit /\ PaneAt("idle")

Goto(step) == pane' = step /\ UNCHANGED <<shown, clearing, image>>
KeepsScene == UNCHANGED <<scene, txn>>
-----------------------------------------------------------------------------
\* show_*, after its validation: present clears first, with "?".
Shows ==
  /\ pane = "idle" /\ image < MaxShows
  /\ image' = image + 1
  /\ clearing' = shown /\ shown' = 0
  /\ pane' = IF shown = 0 THEN "surface" ELSE "close"
  /\ UNCHANGED objectVars

\* clear on its own; the presentation leaves the session before anything is undone.
Clears ==
  /\ pane = "idle" /\ shown # 0
  /\ clearing' = shown /\ shown' = 0 /\ pane' = "close_end"
  /\ UNCHANGED <<objectVars, image>>

\* clear: close the channel, delete the node, destroy the surface, each whether or not
\* the former worked; an error ends the show.
ClosesChannel ==
  /\ pane \in {"close", "close_end"}
  /\ \E fine \in BOOLEAN :
       Goto(IF fine /\ pane = "close" THEN "unnode" ELSE "unnode_end")
  /\ StartsTxn("delete", clearing)
  /\ UNCHANGED <<link, store, scene, unsure>>

DeletesNode ==
  /\ pane \in {"unnode", "unnode_end"} /\ txn.phase = "done"
  /\ Goto(IF txn.ok /\ pane = "unnode" THEN "unsurface" ELSE "unsurface_end")
  /\ txn' = NoTxn
  /\ unsure' = (unsure \/ ~txn.ok)
  /\ UNCHANGED <<link, store, scene>>

DestroysSurface ==
  /\ pane \in {"unsurface", "unsurface_end"}
  /\ \/ /\ link /\ store' = WithoutSurface(clearing, {clearing}) /\ UNCHANGED <<link, unsure>>
        /\ Goto(IF pane = "unsurface" THEN "surface" ELSE "idle")
     \/ Undoes(WithoutSurface(clearing, {clearing}), Goto("idle"))
  /\ KeepsScene
-----------------------------------------------------------------------------
\* present: a surface that was not confirmed is not undone.
CreatesSurface ==
  /\ pane = "surface"
  /\ Asks(WithSurface(image), Goto("node"), Goto("idle")) /\ KeepsScene

PlacesNode ==
  /\ pane = "node" /\ txn.phase = "none"
  /\ StartsTxn("create", image)
  /\ UNCHANGED <<link, store, scene, unsure, paneOwn>>

NodePlaced ==
  /\ pane = "node" /\ txn.phase = "done"
  /\ Goto(IF txn.ok THEN "track" ELSE "undo")
  /\ txn' = NoTxn
  /\ UNCHANGED <<link, store, scene, unsure>>

CreatesTrack ==
  /\ pane = "track"
  /\ Asks(WithTrack(image), Goto("open"), Goto("undo")) /\ KeepsScene

\* open_track_channel and the send, which need no answer of the control connection.
OpensAndSends ==
  /\ pane = "open"
  /\ Goto("activate") \/ Goto("undo")
  /\ UNCHANGED objectVars

ActivatesImage ==
  /\ pane = "activate"
  /\ Asks(WithSlots([NoSlots EXCEPT ![1] = image]),
          shown' = image /\ pane' = "idle" /\ UNCHANGED <<clearing, image>>,
          Goto("undo"))
  /\ KeepsScene

\* Mutant: the error path deletes the node only.
UndoesNodeOnly ==
  /\ pane = "undo"
  /\ \/ /\ txn.phase = "none" /\ StartsTxn("delete", image)
        /\ UNCHANGED <<link, store, scene, unsure, paneOwn>>
     \/ /\ txn.phase = "done" /\ Goto("idle") /\ txn' = NoTxn
        /\ UNCHANGED <<link, store, scene, unsure>>

\* The error path deletes the node and destroys the surface, and reports the first error.
UndoesNode ==
  /\ pane = "undo"
  /\ \/ /\ txn.phase = "none" /\ StartsTxn("delete", image)
        /\ UNCHANGED <<link, store, scene, unsure, paneOwn>>
     \/ /\ txn.phase = "done" /\ Goto("undo_surface") /\ txn' = NoTxn
        /\ unsure' = (unsure \/ (~txn.ok /\ image \in store.nodes))
        /\ UNCHANGED <<link, store, scene>>

UndoesSurface ==
  /\ pane = "undo_surface"
  /\ Undoes(WithoutSurface(image, {image}), Goto("idle")) /\ KeepsScene

PaneNext ==
  \/ Shows \/ Clears \/ ClosesChannel \/ DeletesNode \/ DestroysSurface
  \/ CreatesSurface \/ PlacesNode \/ NodePlaced \/ CreatesTrack \/ OpensAndSends
  \/ ActivatesImage \/ UndoesNode \/ UndoesSurface
  \/ (TxnStep \/ TargetChanges \/ LinkEnds) /\ UNCHANGED paneOwn

PaneSpec == PaneInit /\ [][PaneNext]_paneVars
-----------------------------------------------------------------------------
Owned == IF shown = 0 THEN {} ELSE {shown}

\* Between calls the presenter holds the image the pane owns and nothing else, whichever
\* step of a show or a clear failed, unless undoing was itself refused
\* (PaneSession::present, PaneSession::clear).
PaneLeavesNothing ==
  (pane = "idle" /\ link /\ ~unsure) =>
    store.surfaces = Owned /\ store.nodes = Owned /\ store.tracks = Owned
=============================================================================
