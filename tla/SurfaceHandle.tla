--------------------------- MODULE SurfaceHandle ---------------------------
(***************************************************************************)
(* The Surface handle of a producer beside the presenter's surface.  Each   *)
(* has a revision, which every change advances, and a generation, which a   *)
(* change of the mapping advances and which input bindings name.  An        *)
(* update or an activation names the revision (an update the generation     *)
(* too) that the handle holds; the answer to an update carries neither, so  *)
(* the handle works them out.                                               *)
(*                                                                          *)
(* A call that fails may have been carried out: its answer was rejected, or *)
(* the connection ended and the session resumed.  QUERY_SURFACE reconciles  *)
(* the handle, with the mapping in its definition but not with the profile  *)
(* parameters, although the mapping is both.  The presenter is external.    *)
(***************************************************************************)
EXTENDS Naturals

CONSTANTS
  Geometries,   \* logical size, scale and rotation
  Parameters,   \* profile parameters
  MaxRevision   \* bound: revisions of the surface

ASSUME MappingAssumption == Geometries # {} /\ Parameters # {}
ASSUME RevisionAssumption == MaxRevision \in Nat \ {0}

VARIABLES
  surface,  \* SurfaceLocal: revision, generation, geometry, parameters, destroyed
  remote,   \* the presenter's surface
  blind     \* history: the parameters of the definition may not be the presenter's

surfaceVars == <<surface, remote, blind>>

\* create_surface: SURFACE_READY gives the revision, the generation and the parameters.
SurfaceInit ==
  /\ surface = [revision |-> 1, generation |-> 1, destroyed |-> FALSE,
                geometry |-> CHOOSE g \in Geometries : TRUE,
                parameters |-> CHOOSE p \in Parameters : TRUE]
  /\ remote = surface /\ blind = FALSE
-----------------------------------------------------------------------------
\* Mutant: a change of the geometry alone keeps the generation.
ReplacedFlat(s, g, p) ==
  [revision |-> s.revision + 1, geometry |-> g, parameters |-> p, destroyed |-> s.destroyed,
   generation |-> IF p # s.parameters THEN s.generation + 1 ELSE s.generation]

\* update_surface, on either side: the mapping is the geometry and the parameters.
Replaced(s, g, p) ==
  [revision |-> s.revision + 1, geometry |-> g, parameters |-> p, destroyed |-> s.destroyed,
   generation |-> IF g # s.geometry \/ p # s.parameters THEN s.generation + 1 ELSE s.generation]

\* The presenter follows the same rule.
Moved(s, g, p) ==
  [revision |-> s.revision + 1, geometry |-> g, parameters |-> p, destroyed |-> s.destroyed,
   generation |-> IF <<g, p>> # <<s.geometry, s.parameters>> THEN s.generation + 1 ELSE s.generation]

Expected == surface.revision = remote.revision /\ surface.generation = remote.generation
Usable == ~surface.destroyed /\ remote.revision < MaxRevision

Updates ==
  \E g \in Geometries, p \in Parameters :
    /\ Usable /\ Expected /\ ~remote.destroyed
    /\ remote' = Moved(remote, g, p)
    /\ \/ surface' = Replaced(surface, g, p) /\ UNCHANGED blind
       \/ surface' = surface /\ blind' = (blind \/ p # surface.parameters)

\* activate_tracks: TRACK_ACTIVATED carries the new revision.
ActivatesSlots ==
  /\ Usable /\ surface.revision = remote.revision /\ ~remote.destroyed
  /\ remote' = [remote EXCEPT !.revision = @ + 1]
  /\ surface' \in {surface, [surface EXCEPT !.revision = remote.revision + 1]}
  /\ UNCHANGED blind

\* query_surface, on its own and in adopt_surface; it asks also for a destroyed surface.
QueriesSurface ==
  /\ surface' = [remote EXCEPT !.parameters = surface.parameters]
  /\ blind' = (surface.parameters # remote.parameters)
  /\ UNCHANGED remote

\* destroy_surface, and its answer that is lost.
DestroysHandle ==
  /\ ~surface.destroyed /\ ~remote.destroyed
  /\ remote' = [remote EXCEPT !.destroyed = TRUE]
  /\ surface' \in {surface, [surface EXCEPT !.destroyed = TRUE]}
  /\ UNCHANGED blind

SurfaceNext == Updates \/ ActivatesSlots \/ QueriesSurface \/ DestroysHandle

SurfaceSpec == SurfaceInit /\ [][SurfaceNext]_surfaceVars
-----------------------------------------------------------------------------
\* A handle that knows the presenter's revision knows its generation and its mapping, so
\* an input binding names the mapping the application computes with, whichever updates,
\* activations and queries failed or were carried out unseen; but not behind a change of
\* the parameters that was carried out unseen, which no query repairs
\* (Session::update_surface, Session::query_surface, Session::adopt_surface).
HandleInStep ==
  ~blind =>
    /\ surface.revision <= remote.revision /\ surface.generation <= remote.generation
    /\ surface.revision = remote.revision =>
         /\ surface.generation = remote.generation
         /\ surface.geometry = remote.geometry /\ surface.parameters = remote.parameters
=============================================================================
