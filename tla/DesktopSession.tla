--------------------------- MODULE DesktopSession ---------------------------
(***************************************************************************)
(* DesktopSession: one surface with a video slot and an audio slot, the     *)
(* tracks and senders bound to them, and an input lane.  Its calls are      *)
(* programs of fallible requests: establish, activate_slots,                *)
(* replace_video_track, disable_audio_track and resume; each returns at its *)
(* first error and the handles stay as the program left them by then.       *)
(*                                                                          *)
(* A connection is numbered by its resume generation.  The presenter keeps  *)
(* the objects when the connection ends and admits a resume from the latest *)
(* generation only.  ACTIVATE_TRACK names every slot that stays bound.      *)
(***************************************************************************)
EXTENDS SessionObjects

CONSTANTS
  MaxReplaces,  \* bound: video tracks created after the first
  MaxResumes,   \* bound: connections resumed
  MaxMedia      \* bound: media identifiers a sender hands out

ASSUME DesktopAssumption ==
  MaxReplaces \in Nat /\ MaxResumes \in Nat /\ MaxMedia \in Nat

VARIABLES
  held,     \* the fields of the object: session, tracks, senders, lane
  fresh,    \* the locals of the running call, or of the last one
  desk,     \* where the call is
  handles,  \* TrackLocal of every track: generation, last media identifier, destroyed
  peer      \* the presenter: generations of the tracks, latest connection, and whether
            \* the revision of the surface is ahead of the handle's

desktopOwn == <<held, fresh, desk, handles, peer>>
desktopVars == <<objectVars, desktopOwn>>

AudioTrack == MaxReplaces + 2
AllTracks == 1..AudioTrack
NoSender == [track |-> 0, gen |-> 0, session |-> 0, last |-> 0, detached |-> FALSE]

\* TrackSender::new on the channel just opened: identifiers start again.
NewSender(t, c) ==
  [track |-> t, gen |-> handles[t].gen, session |-> c, last |-> 0, detached |-> FALSE]

DesktopInit ==
  /\ ObjectsInit
  /\ held = [session |-> 0, video |-> 0, vsender |-> NoSender,
             audio |-> 0, asender |-> NoSender, lane |-> 0]
  /\ fresh = [call |-> "establish", session |-> 1, video |-> 1, vsender |-> NoSender,
              audio |-> 0, asender |-> NoSender, made |-> 1, result |-> "running"]
  /\ desk = "surface"
  /\ handles = [t \in AllTracks |-> [gen |-> 1, last |-> 0, destroyed |-> FALSE]]
  /\ peer = [gens |-> [t \in AllTracks |-> 1], session |-> 1, ahead |-> FALSE]
-----------------------------------------------------------------------------
Moves(step) == desk' = step
Keeps == UNCHANGED <<held, fresh, handles, peer>>
Proceeds(step) == Moves(step) /\ Keeps

\* The locals leave with the call; what it was and how it ended is remembered.
Left(result) ==
  [call |-> fresh.call, made |-> fresh.made, result |-> result, session |-> 0,
   video |-> 0, vsender |-> NoSender, audio |-> 0, asender |-> NoSender]

\* "?": establish consumes the session, resume drops the new one, and the other calls
\* leave the object as it is.
Fails ==
  /\ Moves(CASE fresh.call = "establish" -> "gone"
            [] fresh.call = "resume" -> "drop"
            [] OTHER -> "idle")
  /\ fresh' = Left("failed")
  /\ UNCHANGED <<held, handles>>
FailsQuietly == Fails /\ UNCHANGED peer

\* A request without an effect the model keeps.
Queries(Then) == Asks(store, Then, FailsQuietly) /\ UNCHANGED <<scene, txn>>
Local == UNCHANGED objectVars

StartsCall(call, step) ==
  /\ desk = "idle" /\ Moves(step)
  /\ fresh' = [fresh EXCEPT !.call = call, !.result = "running", !.session = held.session,
                            !.video = held.video, !.vsender = held.vsender,
                            !.audio = held.audio, !.asender = held.asender]
Succeeds == Moves("idle") /\ fresh' = Left("ok")
-----------------------------------------------------------------------------
\* establish: surface, node, video track and channel, audio if it is configured, lane.
EstablishesSurface ==
  /\ desk = "surface"
  /\ Asks(WithSurface(1), Proceeds("node"), FailsQuietly)
  /\ UNCHANGED <<scene, txn>>

EstablishesNode ==
  /\ desk = "node"
  /\ \/ txn.phase = "none" /\ StartsTxn("create", 1) /\ UNCHANGED <<desk, fresh, held, handles, peer>>
     \/ /\ txn.phase = "done" /\ txn' = NoTxn
        /\ IF txn.ok THEN Proceeds("video") ELSE FailsQuietly
  /\ UNCHANGED <<link, store, scene, unsure>>

EstablishesAudio ==
  /\ desk = "audio"
  /\ \/ Asks(WithTrack(AudioTrack),
             /\ Moves("audio_channel") /\ fresh' = [fresh EXCEPT !.audio = AudioTrack]
             /\ UNCHANGED <<held, handles, peer>>,
             FailsQuietly) /\ UNCHANGED <<scene, txn>>
     \/ Local /\ Proceeds("lane")

\* Session::create_track for the video of establish and of replace_video_track.
CreatesVideo ==
  /\ desk = "video"
  /\ Asks(WithTrack(fresh.video), Proceeds("video_channel"), FailsQuietly)
  /\ UNCHANGED <<scene, txn>>

\* open_track_channel and TrackSender::new, for either track of any call.
OpensVideo ==
  /\ desk = "video_channel" /\ Local
  /\ \/ /\ fresh' = [fresh EXCEPT !.vsender = NewSender(fresh.video, fresh.session)]
        /\ Moves(CASE fresh.call = "establish" -> "audio" [] fresh.call = "replace" -> "key"
                  [] OTHER -> IF fresh.audio = 0 THEN "activate" ELSE "advance_audio")
        /\ UNCHANGED <<held, handles, peer>>
     \/ FailsQuietly

OpensAudio ==
  /\ desk = "audio_channel" /\ Local
  /\ \/ /\ fresh' = [fresh EXCEPT !.asender = NewSender(AudioTrack, fresh.session)]
        /\ Moves(IF fresh.call = "establish" THEN "lane" ELSE "activate")
        /\ UNCHANGED <<held, handles, peer>>
     \/ FailsQuietly

\* The last step of establish and of resume: the lane, if its profile was accepted, and
\* the object takes every local at once.
Assigns(lane) ==
  /\ held' = [session |-> fresh.session, video |-> fresh.video, vsender |-> fresh.vsender,
              audio |-> fresh.audio, asender |-> fresh.asender, lane |-> lane]
  /\ Succeeds /\ UNCHANGED <<handles, peer>>

OpensLane ==
  /\ desk = "lane" /\ Local
  /\ (\E lane \in {0, fresh.session} : Assigns(lane)) \/ FailsQuietly
-----------------------------------------------------------------------------
StartsActivate ==
  StartsCall("activate", "ready_video") /\ Local /\ UNCHANGED <<held, handles, peer>>

StartsReplace ==
  /\ desk = "idle" /\ fresh.made <= MaxReplaces
  /\ Moves("video") /\ Local /\ UNCHANGED <<held, handles, peer>>
  /\ fresh' = [fresh EXCEPT !.call = "replace", !.result = "running", !.made = @ + 1,
                            !.session = held.session, !.video = fresh.made + 1,
                            !.audio = held.audio, !.asender = held.asender]

\* disable_audio_track when the handle of the audio has left the object, also because an
\* earlier one failed half-way: Ok at once.  Behind a call that failed the result says that
\* the presenter was not asked; behind one that succeeded, what that one reported stands.
DisablesNothing ==
  /\ held.audio = 0 /\ desk = "idle"
  /\ fresh' = [fresh EXCEPT !.result = IF @ = "failed" THEN "unasked" ELSE @]
  /\ Local /\ UNCHANGED <<desk, held, handles, peer>>

\* The handles of the audio leave the object before anything is asked.
StartsDisable ==
  /\ held.audio # 0 /\ desk = "idle" /\ Moves("ready_video")
  /\ fresh' = [fresh EXCEPT !.call = "disable", !.result = "running",
                            !.session = held.session, !.video = held.video,
                            !.vsender = held.vsender, !.audio = 0, !.asender = NoSender]
  /\ held' = [held EXCEPT !.audio = 0, !.asender = NoSender]
  /\ Local /\ UNCHANGED <<handles, peer>>

\* The key unit of replace_video_track, with the first identifier of its sender.
SendsKey ==
  /\ desk = "key" /\ Local
  /\ fresh' = [fresh EXCEPT !.vsender.last = @ + 1]
  /\ handles' = [handles EXCEPT ![fresh.video].last = fresh.vsender.last + 1]
  /\ Moves("ready_video") /\ UNCHANGED <<held, peer>>
KeyFails == desk = "key" /\ Local /\ FailsQuietly

\* wait_output_ready, which a destroyed handle refuses.
WaitsReady ==
  /\ desk \in {"ready_video", "ready_audio"}
  /\ LET t == IF desk = "ready_video" THEN fresh.video ELSE fresh.audio
     IN IF handles[t].destroyed \/ t \notin store.tracks THEN Local /\ FailsQuietly
        ELSE Queries(Proceeds(IF desk = "ready_video" /\ fresh.call = "activate"
                                 /\ fresh.audio # 0
                              THEN "ready_audio" ELSE "activate"))

\* SurfaceSlots::require and Session::activate_tracks.
Required == {s \in {fresh.vsender, fresh.asender} : s.track # 0}
MayActivate ==
  \A s \in Required : s.gen = handles[s.track].gen /\ ~handles[s.track].destroyed
Accepted ==
  ~peer.ahead /\ \A s \in Required : s.track \in store.tracks /\ s.gen = peer.gens[s.track]
Bindings == WithSlots([s \in {1, 2} |-> IF s = 1 THEN fresh.video ELSE fresh.audio])

AfterActivation ==
  /\ IF fresh.call = "activate" THEN Succeeds
     ELSE Moves(IF fresh.call = "resume" THEN "lane" ELSE "destroy") /\ UNCHANGED fresh
  /\ UNCHANGED <<held, handles, peer>>

\* Mutant: replace_video_track destroys the old track before the slots move.
ActivatesLate ==
  /\ desk = "activate" /\ UNCHANGED <<scene, txn>>
  /\ \/ /\ fresh.call = "replace"
        /\ Asks(WithoutTrack(held.video), Proceeds("activate"), FailsQuietly)
     \/ /\ MayActivate /\ Accepted
        /\ Asks(Bindings, AfterActivation, FailsQuietly)

\* Mutant: replace_video_track does not name the audio slot.
ActivatesVideoOnly ==
  /\ desk = "activate" /\ UNCHANGED <<scene, txn>>
  /\ Asks(WithSlots([NoSlots EXCEPT ![1] = fresh.video]),
          AfterActivation, FailsQuietly)

\* Without an understood answer the revision of the surface handle stays behind, and the
\* presenter refuses the next activation that names it.
Activates ==
  /\ desk = "activate" /\ UNCHANGED <<scene, txn>>
  /\ IF ~MayActivate \/ ~Accepted THEN Local /\ FailsQuietly
     ELSE Asks(Bindings, AfterActivation,
               /\ Fails
               /\ \/ store' = store /\ UNCHANGED peer
                  \/ store' = Bindings /\ peer' = [peer EXCEPT !.ahead = TRUE])

\* The last step of replace_video_track and of disable_audio_track: the old track goes,
\* then the object takes the new one.
Old == IF fresh.call = "replace" THEN held.video ELSE AudioTrack
DestroysOld ==
  /\ desk = "destroy" /\ UNCHANGED <<scene, txn>>
  /\ IF handles[Old].destroyed \/ Old \notin store.tracks THEN Local /\ FailsQuietly
     ELSE Asks(WithoutTrack(Old),
            /\ handles' = [handles EXCEPT ![Old].destroyed = TRUE]
            /\ held' = [held EXCEPT !.video = fresh.video, !.vsender = fresh.vsender]
            /\ Succeeds /\ UNCHANGED peer,
            FailsQuietly)
-----------------------------------------------------------------------------
\* resume: the binding and the senders of the old connection are given up first.
StartsResume ==
  /\ fresh' = [fresh EXCEPT !.call = "resume", !.result = "running",
                            !.session = held.session + 1, !.video = held.video,
                            !.audio = held.audio]
  /\ desk = "idle" /\ held.session <= MaxResumes /\ Moves("connect")
  /\ held' = [held EXCEPT !.vsender.detached = TRUE,
                          !.asender.detached = (held.audio # 0)]
  /\ Local /\ UNCHANGED <<handles, peer>>

\* Session::connect with the key of the connection held.
Welcomed ==
  /\ desk = "connect" /\ ~link /\ held.session = peer.session
  /\ peer' = [peer EXCEPT !.session = fresh.session]
  /\ link' = TRUE /\ store' = [store EXCEPT !.open = FALSE] /\ txn' = NoTxn
  /\ scene' = [revision |-> store.revision, target |-> store.target]
  /\ UNCHANGED <<unsure, fresh, handles>>

\* Mutant: the object takes the new session as soon as it is connected.
ConnectsAndAssigns == Welcomed /\ Moves("adopt_surface") /\ held' = [held EXCEPT !.session = fresh.session]
Connects == Welcomed /\ Moves("adopt_surface") /\ UNCHANGED held
ConnectFails == desk = "connect" /\ Local /\ FailsQuietly

\* adopt_surface and adopt_track: a query reconciles the handle with the presenter.
AdoptsSurface ==
  /\ desk = "adopt_surface"
  /\ Queries(/\ Moves("adopt_video") /\ peer' = [peer EXCEPT !.ahead = FALSE]
             /\ UNCHANGED <<held, fresh, handles>>)

Adopts(t, next) ==
  Queries(/\ handles' = [handles EXCEPT ![t].gen = peer.gens[t],
                                        ![t].destroyed = t \notin store.tracks]
          /\ IF t \in store.tracks THEN Moves(next) /\ UNCHANGED <<held, fresh, peer>>
             ELSE Moves("drop") /\ fresh' = Left("failed") /\ UNCHANGED <<held, peer>>)

AdoptsVideo ==
  /\ desk = "adopt_video"
  /\ Adopts(fresh.video, IF fresh.audio = 0 THEN "advance_video" ELSE "adopt_audio")
AdoptsAudio == desk = "adopt_audio" /\ Adopts(fresh.audio, "advance_video")

\* advance_channel, from the generation that adopt_track reconciled: the handle follows
\* an answer that was understood.
Advances(t, next) ==
  /\ Asks(store,
          /\ peer' = [peer EXCEPT !.gens[t] = @ + 1]
          /\ handles' = [handles EXCEPT ![t].gen = @ + 1]
          /\ Moves(next) /\ UNCHANGED <<held, fresh>>,
          Fails /\ peer' \in {peer, [peer EXCEPT !.gens[t] = @ + 1]})
  /\ UNCHANGED <<scene, txn>>
AdvancesVideo == desk = "advance_video" /\ Advances(fresh.video, "video_channel")
AdvancesAudio == desk = "advance_audio" /\ Advances(fresh.audio, "audio_channel")

\* The connection of a resume that failed is dropped.
DropsResumed ==
  /\ desk = "drop" /\ Moves("idle")
  /\ link' = (link /\ peer.session = held.session)
  /\ UNCHANGED <<store, scene, txn, unsure>> /\ Keeps
-----------------------------------------------------------------------------
\* close: the session ends in any case, the senders are detached if the lane was closed.
ClosesDesktop ==
  /\ desk = "idle" /\ Moves("closed")
  /\ held' \in {held, [held EXCEPT !.vsender.detached = TRUE, !.asender.detached = TRUE]}
  /\ link' = FALSE
  /\ UNCHANGED <<store, scene, txn, unsure, fresh, handles, peer>>

\* A media worker sends through its clone of a sender, whatever call is running:
\* next_packet_id, then TrackMediaSequence::accept on a live channel.
MediaLast(s) ==
  IF s.gen = handles[s.track].gen /\ ~handles[s.track].destroyed
     /\ s.last + 1 > handles[s.track].last
  THEN s.last + 1 ELSE handles[s.track].last
WorkerSends ==
  \E f \in {"vsender", "asender"} :
    /\ held[f].track # 0 /\ ~held[f].detached /\ held[f].last < MaxMedia
    /\ held' = [held EXCEPT ![f].last = @ + 1]
    /\ handles' = [handles EXCEPT ![held[f].track].last = MediaLast(held[f])]
    /\ fresh' = IF fresh[f].track = held[f].track /\ fresh.call # "resume"
                THEN [fresh EXCEPT ![f].last = @ + 1] ELSE fresh
    /\ Local /\ UNCHANGED <<desk, peer>>

EstablishStep ==
  EstablishesSurface \/ EstablishesNode \/ EstablishesAudio \/ CreatesVideo \/ OpensVideo
  \/ OpensAudio \/ OpensLane
SlotStep ==
  StartsActivate \/ StartsReplace \/ StartsDisable \/ DisablesNothing \/ SendsKey \/ KeyFails \/ WaitsReady
  \/ Activates \/ DestroysOld
ResumeStep ==
  StartsResume \/ Connects \/ ConnectFails \/ AdoptsSurface \/ AdoptsVideo \/ AdoptsAudio
  \/ AdvancesVideo \/ AdvancesAudio \/ DropsResumed

DesktopNext ==
  \/ EstablishStep \/ SlotStep \/ ResumeStep \/ ClosesDesktop \/ WorkerSends
  \/ (TxnStep \/ TargetChanges \/ LinkEnds) /\ UNCHANGED desktopOwn

DesktopSpec == DesktopInit /\ [][DesktopNext]_desktopVars
-----------------------------------------------------------------------------
\* The presenter never shows a slot whose track was destroyed, at any step of a
\* replacement or of disabling the audio and whatever failed before: the old track is
\* destroyed only when the slots have moved (DesktopSession::replace_video_track).
SlotsNameLiveTracks ==
  \A s \in {1, 2} : store.slots[s] \in store.tracks \union {0}

\* Between calls every sender and the lane belong to the connection of the session held,
\* and every sender to the track held, although a resume replaces all of them and may
\* fail at any step (DesktopSession::resume).
OneIncarnation ==
  desk = "idle" =>
    /\ held.vsender.session = held.session /\ held.vsender.track = held.video
    /\ held.asender.track = held.audio
    /\ held.audio # 0 => held.asender.session = held.session
    /\ held.lane \in {0, held.session}

\* A call that asked the presenter and reported success leaves it showing the tracks held,
\* on the channel generations of the senders held, even after earlier calls failed half-way
\* (DesktopSession::activate_slots, replace_video_track, disable_audio_track, resume).  It
\* still shows them when disable_audio_track then finds no audio to disable; the Ok of such
\* a call behind one that failed ("unasked") promises nothing about the slots.
ReportedIsShown ==
  (desk = "idle" /\ fresh.result = "ok" /\ fresh.call # "establish") =>
    /\ store.slots = [s \in {1, 2} |-> IF s = 1 THEN held.video ELSE held.audio]
    /\ peer.gens[held.video] = held.vsender.gen
    /\ held.audio # 0 => peer.gens[held.audio] = held.asender.gen

\* pipeline.rs: "Channel recovery must keep packet IDs increasing": the next identifier a
\* sender hands out is one the sequence of its track accepts.
IdsContinue ==
  \A f \in {"vsender", "asender"} :
    (desk = "idle" /\ held[f].track # 0 /\ ~held[f].detached) =>
      held[f].last >= handles[held[f].track].last
=============================================================================
