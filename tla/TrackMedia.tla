----------------------------- MODULE TrackMedia -----------------------------
(***************************************************************************)
(* One track of a session: the shared media sequence, the channel          *)
(* generations opened for it, the recovery discipline of each channel, and *)
(* the session calls and presenter messages that change them.              *)
(*                                                                         *)
(* Senders are application threads holding clones of a TrackChannel.       *)
(* Controllers are application threads calling Session methods on the      *)
(* track.  The control reader and the reverse readers are the actions that *)
(* deliver a presenter message.  A step is one critical section of the     *)
(* code, so everything between two lock acquisitions may interleave.       *)
(*                                                                         *)
(* A control request is two steps of the environment and the caller: the   *)
(* presenter answers (and the FIFO control reader hands the answer over),  *)
(* then the caller applies it.  Between the two, later messages of the     *)
(* control connection may be applied by the reader.                        *)
(***************************************************************************)
EXTENDS Integers, Sequences

CONSTANTS
  Senders,       \* threads that send on the track's channels
  Controllers,   \* threads that call Session methods on the track
  MaxChannels,   \* bound: channels opened during a behaviour
  MaxGeneration, \* bound: channel generations
  MaxId,         \* bound: media identifiers
  MaxEpoch,      \* bound: media epochs
  MaxRecovery,   \* bound: recovery requests received by one channel
  MaxRevision,   \* bound: track revisions the presenter assigns
  Activities     \* the calls and presenter messages a behaviour may contain

ASSUME BoundsAssumption ==
  /\ MaxChannels \in Nat
  /\ MaxGeneration \in Nat
  /\ MaxId \in Nat
  /\ MaxEpoch \in Nat
  /\ MaxRecovery \in Nat
  /\ MaxRevision \in Nat

Channels == 1..MaxChannels
None     == 0                    \* no channel: an empty or dead Weak pointer
Ids      == 1..MaxId
Epochs   == 0..MaxEpoch

\* Session methods taking &mut self: the borrow excludes every other call.
Exclusive == {"create", "advance", "flush", "destroy"}

VARIABLES
  registered,  \* the track is in the session's registry
  generation,  \* TrackLocal.channel_generation, 0 before the track exists
  revision,    \* TrackLocal.revision
  destroyed,   \* TrackLocal.destroyed
  lost,        \* TrackLocal.lost is Some
  active,      \* TrackLocal.active_flow / active_media
  sequence,    \* TrackMediaSequence
  chan,        \* per channel: generation, opening state, FlowLocal.closed
  media,       \* per channel: ChannelMediaState
  wire,        \* per channel: the records written after CHANNEL_OPEN
  sender,      \* per sender: the send it is in
  call,        \* per controller: the Session call it is in
  presenter,   \* the presenter's view of the track
  asked,       \* history: per channel, largest NEED_KEYFRAME epoch since a FLUSH
  flushed      \* history: per channel, epoch of the last FLUSH that returned

trackVars   == <<registered, generation, revision, destroyed, lost, active>>
historyVars == <<asked, flushed>>
vars == <<trackVars, sequence, chan, media, wire, sender, call, presenter,
          historyVars>>
-----------------------------------------------------------------------------
SenderIdle == [at |-> "idle", channel |-> None, id |-> 0, epoch |-> 0,
               recovery |-> FALSE, base |-> 0, revision |-> 0, record |-> 0]

NoAnswer == [generation |-> 0, revision |-> 0, dead |-> FALSE,
             id |-> 0, epoch |-> 0, record |-> 0]

CallIdle == [op |-> "none", at |-> "idle", generation |-> 0, epoch |-> 0,
             channel |-> None, answer |-> NoAnswer]

NewMedia(epoch) ==
  [last_sequence |-> 0, needs_recovery |-> TRUE,
   minimum_recovery_epoch |-> epoch, recovery_revision |-> 0, eos |-> FALSE]

Init ==
  /\ registered = FALSE
  /\ generation = 0
  /\ revision = 0
  /\ destroyed = FALSE
  /\ lost = FALSE
  /\ active = None
  /\ sequence = [last_id |-> 0, last_epoch |-> 0, last_record_sequence |-> 0]
  /\ chan = [c \in Channels |->
               [state |-> "unused", generation |-> 0, closed |-> FALSE]]
  /\ media = [c \in Channels |-> NewMedia(0)]
  /\ wire = [c \in Channels |-> <<>>]
  /\ sender = [s \in Senders |-> SenderIdle]
  /\ call = [k \in Controllers |-> CallIdle]
  /\ presenter = [state |-> "none", generation |-> 0, revision |-> 0]
  /\ asked = [c \in Channels |-> 0]
  /\ flushed = [c \in Channels |-> 0]
-----------------------------------------------------------------------------
\* Sequence discipline shared by every channel of the track.
Larger(a, b) == IF a < b THEN b ELSE a

\* TrackMediaSequence::accept
Accepts(id, epoch) == id > sequence.last_id /\ epoch >= sequence.last_epoch

\* Mutant of Reconciled: an off-by-one in the record sequence, no merge.
ReconciledOffByOne(status, generation_changed) ==
  [sequence EXCEPT !.last_record_sequence = status.record - 1]

\* TrackMediaSequence::reconcile_status
Reconciled(status, generation_changed) ==
  [last_id    |-> Larger(sequence.last_id, status.id),
   last_epoch |-> Larger(sequence.last_epoch, status.epoch),
   last_record_sequence |->
     IF generation_changed THEN status.record
     ELSE Larger(sequence.last_record_sequence, status.record)]

\* Mutant of Live: establish forgets that a live channel may exist.
LiveIgnored(c) == FALSE

\* The active pointer upgrades to a flow that is not closed.
Live(c) == c # None /\ ~chan[c].closed

\* active_flow.take() followed by close_track_flow.
CloseFlow(c) ==
  IF c = None THEN chan ELSE [chan EXCEPT ![c].closed = TRUE]
-----------------------------------------------------------------------------
(* Session calls: a call starts, the presenter answers, the caller applies. *)

MayCall(k, op) ==
  /\ op \in Activities
  /\ call[k].op = "none"
  /\ \A j \in Controllers : call[j].op \notin Exclusive
  /\ op \in Exclusive => \A j \in Controllers : call[j].op = "none"

Calls(k, op, epoch) ==
  /\ MayCall(k, op)
  /\ call' = [call EXCEPT ![k] =
                [CallIdle EXCEPT !.op = op, !.at = "called",
                                 !.generation = generation,
                                 !.epoch = epoch, !.channel = active]]
  /\ UNCHANGED <<trackVars, sequence, chan, media, wire, sender, presenter,
                 historyVars>>

Returns(k) == call' = [call EXCEPT ![k] = CallIdle]

Answers(k, answer) ==
  call' = [call EXCEPT ![k] = [@ EXCEPT !.at = "answered", !.answer = answer]]

Waiting(k, op)  == call[k].op = op /\ call[k].at = "called"
Answered(k, op) == call[k].op = op /\ call[k].at = "answered"

\* What the presenter reports of its own track state.
PresenterAnswer == [NoAnswer EXCEPT !.generation = presenter'.generation,
                                    !.revision = presenter'.revision]

PresenterDoes(k, op, new) ==
  /\ Waiting(k, op)
  /\ presenter' = new
  /\ Answers(k, PresenterAnswer)
  /\ UNCHANGED <<trackVars, sequence, chan, media, wire, sender, historyVars>>

\* An ERROR reply, or a reply the caller rejects as invalid.
RequestFails(k) ==
  /\ call[k].at \in {"called", "answered"}
  /\ Returns(k)
  /\ UNCHANGED <<trackVars, sequence, chan, media, wire, sender, presenter,
                 historyVars>>

\* create_track
CreateCall(k) == presenter.state = "none" /\ Calls(k, "create", 0)

CreateAnswer(k) ==
  /\ presenter.state = "none"
  /\ PresenterDoes(k, "create",
                   [state |-> "live", generation |-> 1, revision |-> 1])

CreateReturn(k) ==
  /\ Answered(k, "create")
  /\ registered' = TRUE
  /\ generation' = call[k].answer.generation
  /\ revision' = call[k].answer.revision
  /\ Returns(k)
  /\ UNCHANGED <<destroyed, lost, active, sequence, chan, media, wire, sender,
                 presenter, historyVars>>

TrackExists == generation # 0

\* advance_channel and destroy_track take the active flow under the track
\* lock and close it after releasing the lock.
TakesActive(k) ==
  /\ active' = None
  /\ call' = [call EXCEPT ![k] = [@ EXCEPT !.at = "closing", !.channel = active]]

Closing(k, op) == call[k].op = op /\ call[k].at = "closing"

\* query_track: it does not require a live track.
QueryCall(k) == TrackExists /\ Calls(k, "query", 0)

\* TRACK_STATUS after the first n records of channel c; they may lag the wire.
Status(c, n) ==
  [generation |-> presenter.generation,
   revision   |-> presenter.revision,
   dead       |-> presenter.state # "live",
   id         |-> IF n = 0 THEN 0 ELSE wire[c][n].id,
   epoch      |-> IF n = 0 THEN 0 ELSE wire[c][n].epoch,
   record     |-> IF chan[c].generation = presenter.generation THEN n ELSE 0]

QueryAnswer(k) ==
  /\ Waiting(k, "query")
  /\ \E c \in Channels : \E n \in 0..Len(wire[c]) : Answers(k, Status(c, n))
  /\ UNCHANGED <<trackVars, sequence, chan, media, wire, sender, presenter,
                 historyVars>>

QueryReturn(k) ==
  LET status  == call[k].answer
      changed == status.generation # generation
  IN  /\ Answered(k, "query")
      /\ IF changed \/ status.dead
           THEN chan' = CloseFlow(active) /\ active' = None
           ELSE UNCHANGED <<chan, active>>
      /\ revision' = status.revision
      /\ generation' = status.generation
      /\ destroyed' = status.dead
      /\ sequence' = Reconciled(status, changed)
      /\ Returns(k)
      /\ UNCHANGED <<registered, lost, media, wire, sender, presenter,
                     historyVars>>

\* advance_channel
AdvanceCall(k) ==
  TrackExists /\ ~destroyed /\ generation < MaxGeneration
  /\ Calls(k, "advance", 0)

AdvanceAnswer(k) ==
  /\ presenter.state = "live" /\ presenter.revision < MaxRevision
  /\ presenter.generation = call[k].generation
  /\ PresenterDoes(k, "advance",
                   [presenter EXCEPT !.generation = @ + 1, !.revision = @ + 1])

AdvanceReturn(k) ==
  /\ Answered(k, "advance")
  /\ TakesActive(k)
  /\ sequence' = [sequence EXCEPT !.last_record_sequence = 0]
  /\ generation' = call[k].generation + 1
  /\ revision' = call[k].answer.revision
  /\ UNCHANGED <<registered, destroyed, lost, chan, media, wire, sender,
                 presenter, historyVars>>

AdvanceCloses(k) ==
  /\ Closing(k, "advance")
  /\ chan' = CloseFlow(call[k].channel)
  /\ Returns(k)
  /\ UNCHANGED <<trackVars, sequence, media, wire, sender, presenter,
                 historyVars>>

\* flush: the channel to reset is the one in the snapshot taken by the call.  Its epoch
\* takes the place of the minimum that NEED_KEYFRAME asked for, a larger one too.
FlushCall(k, epoch) ==
  TrackExists /\ ~destroyed /\ epoch > sequence.last_epoch
  /\ Calls(k, "flush", epoch)

FlushAnswer(k) ==
  presenter.state = "live" /\ PresenterDoes(k, "flush", presenter)

FlushReturn(k) ==
  /\ Answered(k, "flush")
  /\ sequence' = [sequence EXCEPT !.last_epoch = call[k].epoch]
  /\ call' = [call EXCEPT ![k].at = "flushing"]
  /\ UNCHANGED <<trackVars, chan, media, wire, sender, presenter, historyVars>>

FlushResets(k) ==
  LET c == call[k].channel
      e == call[k].epoch
  IN  /\ call[k].at = "flushing"
      /\ IF c = None
           THEN UNCHANGED <<media, historyVars>>
           ELSE /\ media' = [media EXCEPT ![c] =
                     [@ EXCEPT !.needs_recovery = TRUE,
                               !.minimum_recovery_epoch = e]]
                /\ flushed' = [flushed EXCEPT ![c] = e]
                /\ asked' = [asked EXCEPT ![c] = 0]
      /\ Returns(k)
      /\ UNCHANGED <<trackVars, sequence, chan, wire, sender, presenter>>

\* destroy_track
DestroyCall(k) == TrackExists /\ ~destroyed /\ Calls(k, "destroy", 0)

DestroyAnswer(k) ==
  /\ presenter.state = "live" /\ presenter.revision < MaxRevision
  /\ PresenterDoes(k, "destroy",
                   [presenter EXCEPT !.state = "destroyed", !.revision = @ + 1])

DestroyReturn(k) ==
  /\ Answered(k, "destroy")
  /\ destroyed' = TRUE
  /\ TakesActive(k)
  /\ UNCHANGED <<registered, generation, revision, lost, sequence, chan, media,
                 wire, sender, presenter, historyVars>>

DestroyCloses(k) ==
  /\ Closing(k, "destroy")
  /\ chan' = CloseFlow(call[k].channel)
  /\ registered' = FALSE
  /\ Returns(k)
  /\ UNCHANGED <<generation, revision, destroyed, lost, active, sequence, media,
                 wire, sender, presenter, historyVars>>

\* open_track_channel, then TrackChannel::establish
OpenCall(k) ==
  TrackExists /\ ~destroyed
  /\ (\E c \in Channels : chan[c].state = "unused")
  /\ Calls(k, "open", 0)

OpenAnswer(k) ==
  /\ presenter.state = "live" /\ presenter.revision < MaxRevision
  /\ presenter.generation = call[k].generation
  /\ PresenterDoes(k, "open", [presenter EXCEPT !.revision = @ + 1])

\* Mutant of AcceptedRevision: counted locally, as the offline branch does.
CountedRevision(k) == revision + 1

\* The revision CHANNEL_ACCEPTED carried.
AcceptedRevision(k) == call[k].answer.revision

\* CHANNEL_ACCEPTED: its revision is taken.
OpenAccepted(k) ==
  /\ Answered(k, "open")
  /\ revision' = AcceptedRevision(k)
  /\ call' = [call EXCEPT ![k].at = "accepted"]
  /\ UNCHANGED <<registered, generation, destroyed, lost, active, sequence,
                 chan, media, wire, sender, presenter, historyVars>>

\* The flow and the media state of the new channel are created.
OpenCreates(k) ==
  /\ call[k].at = "accepted"
  /\ \E c \in Channels :
       /\ chan[c].state = "unused"
       /\ \A d \in Channels : d < c => chan[d].state # "unused"
       /\ chan' = [chan EXCEPT ![c] = [@ EXCEPT !.state = "opening",
                                  !.generation = call[k].generation]]
       /\ media' = [media EXCEPT ![c] = NewMedia(sequence.last_epoch)]
       /\ call' = [call EXCEPT ![k] = [@ EXCEPT !.at = "created",
                                                !.channel = c]]
  /\ UNCHANGED <<trackVars, sequence, wire, sender, presenter, historyVars>>

\* Under the track lock: same generation, no live channel, become active.
OpenInstalls(k) ==
  LET c == call[k].channel
  IN  /\ call[k].at = "created"
      /\ generation = chan[c].generation
      /\ ~Live(active)
      /\ active' = c
      /\ chan' = [chan EXCEPT ![c].state = "open"]
      /\ Returns(k)
      /\ UNCHANGED <<registered, generation, revision, destroyed, lost,
                     sequence, media, wire, sender, presenter, historyVars>>

OpenRefused(k) ==
  LET c == call[k].channel
  IN  /\ call[k].at = "created"
      /\ generation # chan[c].generation \/ Live(active)
      /\ chan' = [chan EXCEPT ![c] = [@ EXCEPT !.state = "discarded",
                                               !.closed = TRUE]]
      /\ Returns(k)
      /\ UNCHANGED <<trackVars, sequence, media, wire, sender, presenter,
                     historyVars>>
-----------------------------------------------------------------------------
(* Messages of the presenter, delivered by the reader threads.             *)

\* apply_track_lost: a track that is not in the registry is ignored.
TrackLost ==
  /\ "lose" \in Activities
  /\ presenter.state = "live" /\ presenter.revision < MaxRevision
  /\ presenter' = [presenter EXCEPT !.state = "lost", !.revision = @ + 1]
  /\ IF registered
       THEN /\ revision' = presenter'.revision
            /\ destroyed' = TRUE
            /\ lost' = TRUE
            /\ chan' = CloseFlow(active)
            /\ active' = None
       ELSE UNCHANGED <<revision, destroyed, lost, chan, active>>
  /\ UNCHANGED <<registered, generation, sequence, media, wire, sender, call,
                 historyVars>>

\* NEED_KEYFRAME on the reverse channel.
NeedKeyframe(c, epoch) ==
  /\ "recovery" \in Activities
  /\ chan[c].state = "open"
  /\ media[c].recovery_revision < MaxRecovery
  /\ media' = [media EXCEPT ![c] =
       [@ EXCEPT !.recovery_revision = media[c].recovery_revision + 1,
                 !.needs_recovery = TRUE,
                 !.minimum_recovery_epoch =
                   Larger(media[c].minimum_recovery_epoch, epoch)]]
  /\ asked' = [asked EXCEPT ![c] = Larger(@, epoch)]
  /\ UNCHANGED <<trackVars, sequence, chan, wire, sender, call, presenter,
                 flushed>>

\* NEED_FULL_FRAME on the reverse channel.
NeedFullFrame(c) ==
  /\ "recovery" \in Activities
  /\ chan[c].state = "open"
  /\ media[c].recovery_revision < MaxRecovery
  /\ media' = [media EXCEPT ![c] =
       [@ EXCEPT !.recovery_revision = media[c].recovery_revision + 1,
                 !.needs_recovery = TRUE]]
  /\ UNCHANGED <<trackVars, sequence, chan, wire, sender, call, presenter,
                 historyVars>>

\* TrackChannel::close, the end of the reverse reader, or the last handle
\* being dropped: each of them sets FlowLocal.closed.
Close(c) ==
  /\ "close" \in Activities
  /\ chan[c].state = "open"
  /\ ~chan[c].closed
  /\ chan' = CloseFlow(c)
  /\ UNCHANGED <<trackVars, sequence, media, wire, sender, call, presenter,
                 historyVars>>
-----------------------------------------------------------------------------
(* Media sends.  send_order is held from BeginSend to FinishSend.          *)

\* Mutant of SendOrderFree: sends are not ordered against each other.
SendOrderIgnored(c) == TRUE

SendOrderFree(c) ==
  \A t \in Senders :
    sender[t].channel = c => sender[t].at \in {"idle", "planned"}

\* Mutant of Admissible: the presenter's minimum epoch is not checked.
AdmissibleAnyEpoch(c, epoch, recovery) ==
  ~media[c].eos /\ (media[c].needs_recovery => recovery)

\* The checks of send_media on the channel's media state.
Admissible(c, epoch, recovery) ==
  /\ ~media[c].eos
  /\ media[c].needs_recovery => recovery
  /\ recovery => epoch >= media[c].minimum_recovery_epoch

\* Under the media lock; the recovery revision is copied there.
Validates(s, c, id, epoch, recovery, base) ==
  /\ SendOrderFree(c)
  /\ Admissible(c, epoch, recovery)
  /\ sender' = [sender EXCEPT ![s] =
                  [at |-> "checked", channel |-> c, id |-> id,
                   epoch |-> epoch, recovery |-> recovery, base |-> base,
                   revision |-> media[c].recovery_revision, record |-> 0]]
  /\ UNCHANGED <<trackVars, sequence, chan, media, wire, call, presenter,
                 historyVars>>

\* send_video, send_audio, send_raster: a unit that names no base.
BeginSend(s, c, id, epoch, recovery) ==
  /\ "send" \in Activities
  /\ sender[s].at = "idle"
  /\ chan[c].state = "open"
  /\ Validates(s, c, id, epoch, recovery, 0)

\* raster_delta_body: the base is checked before send_order is taken.  The
\* frame's own identifier and epoch matter only once send_media runs.
PlanDelta(s, c) ==
  /\ "delta" \in Activities
  /\ sender[s].at = "idle"
  /\ chan[c].state = "open"
  /\ ~media[c].needs_recovery
  /\ sender' = [sender EXCEPT ![s] =
                  [SenderIdle EXCEPT !.at = "planned", !.channel = c,
                                     !.base = sequence.last_id]]
  /\ UNCHANGED <<trackVars, sequence, chan, media, wire, call, presenter,
                 historyVars>>

SendDelta(s, id, epoch) ==
  /\ sender[s].at = "planned"
  /\ Validates(s, sender[s].channel, id, epoch, FALSE, sender[s].base)

EndsSend(s) ==
  /\ sender' = [sender EXCEPT ![s] = SenderIdle]
  /\ UNCHANGED <<trackVars, sequence, chan, wire, call, presenter,
                 historyVars>>

DeltaRefused(s, epoch) ==
  LET c == sender[s].channel
  IN  /\ sender[s].at = "planned"
      /\ SendOrderFree(c)
      /\ ~Admissible(c, epoch, FALSE)
      /\ EndsSend(s)
      /\ UNCHANGED media

\* Under the sequence lock, taken after the media lock is released.
AcceptId(s) ==
  /\ sender[s].at = "checked"
  /\ Accepts(sender[s].id, sender[s].epoch)
  /\ sender' = [sender EXCEPT ![s].at = "accepted"]
  /\ UNCHANGED <<trackVars, sequence, chan, media, wire, call, presenter,
                 historyVars>>

\* write_charged_record admits the record under the flow lock, refused once
\* the flow is closed; the transport write follows without that lock.
AdmitRecord(s) ==
  /\ sender[s].at = "accepted"
  /\ ~chan[sender[s].channel].closed
  /\ sender' = [sender EXCEPT ![s].at = "admitted"]
  /\ UNCHANGED <<trackVars, sequence, chan, media, wire, call, presenter,
                 historyVars>>

WriteRecord(s) ==
  LET send == sender[s]
      c    == send.channel
  IN  /\ send.at = "admitted"
      /\ wire' = [wire EXCEPT ![c] =
                    Append(@, [kind |-> "media", id |-> send.id,
                               epoch |-> send.epoch,
                               recovery |-> send.recovery, base |-> send.base,
                               revision |-> send.revision, last |-> 0])]
      /\ sender' = [sender EXCEPT ![s] = [@ EXCEPT !.at = "written",
                                                 !.record = Len(wire[c]) + 1]]
      /\ UNCHANGED <<trackVars, sequence, chan, media, call, presenter,
                     historyVars>>

\* A refused identifier, a closed flow or a transport error: nothing of the
\* send is recorded.
SendFails(s) ==
  /\ sender[s].at \in {"checked", "accepted", "admitted", "eos"}
  /\ sender[s].at = "checked" => ~Accepts(sender[s].id, sender[s].epoch)
  /\ EndsSend(s)
  /\ UNCHANGED media

\* The accepted copy is merged into the shared sequence.
MergeSequence(s) ==
  LET send == sender[s]
  IN  /\ send.at = "written"
      /\ sequence' =
           [last_id    |-> Larger(sequence.last_id, send.id),
            last_epoch |-> Larger(sequence.last_epoch, send.epoch),
            last_record_sequence |->
              Larger(sequence.last_record_sequence, send.record)]
      /\ sender' = [sender EXCEPT ![s].at = "merged"]
      /\ UNCHANGED <<trackVars, chan, media, wire, call, presenter,
                     historyVars>>

\* Mutant of Recovered: any finished recovery unit clears the request.
RecoveredAnyRevision(s) == sender[s].recovery

\* A recovery unit clears the request only if no newer one arrived meanwhile.
Recovered(s) ==
  /\ sender[s].recovery
  /\ media[sender[s].channel].recovery_revision = sender[s].revision

FinishSend(s) ==
  LET send == sender[s]
      c    == send.channel
  IN  /\ send.at = "merged"
      /\ media' = [media EXCEPT ![c] =
                     [@ EXCEPT !.last_sequence = send.record,
                               !.needs_recovery =
                                 media[c].needs_recovery /\ ~Recovered(s),
                               !.minimum_recovery_epoch =
                                 IF Recovered(s) THEN send.epoch
                                 ELSE media[c].minimum_recovery_epoch]]
      /\ EndsSend(s)

\* eos: the flow is not consulted, send_order is.
BeginEos(s, c) ==
  /\ "eos" \in Activities
  /\ sender[s].at = "idle"
  /\ chan[c].state = "open"
  /\ SendOrderFree(c)
  /\ ~media[c].eos
  /\ sender' = [sender EXCEPT ![s] =
                  [SenderIdle EXCEPT !.at = "eos", !.channel = c,
                     !.epoch = sequence.last_epoch,
                     !.record = media[c].last_sequence]]
  /\ UNCHANGED <<trackVars, sequence, chan, media, wire, call, presenter,
                 historyVars>>

WriteEos(s) ==
  LET send == sender[s]
      c    == send.channel
  IN  /\ send.at = "eos"
      /\ wire' = [wire EXCEPT ![c] =
                    Append(@, [kind |-> "eos", id |-> 0, epoch |-> send.epoch,
                               recovery |-> FALSE, base |-> 0, revision |-> 0,
                               last |-> send.record])]
      /\ media' = [media EXCEPT ![c].eos = TRUE]
      /\ sender' = [sender EXCEPT ![s] = SenderIdle]
      /\ UNCHANGED <<trackVars, sequence, chan, call, presenter, historyVars>>
-----------------------------------------------------------------------------
Create(k)  == CreateCall(k) \/ CreateAnswer(k) \/ CreateReturn(k)
Query(k)   == QueryCall(k) \/ QueryAnswer(k) \/ QueryReturn(k)
Advance(k) == AdvanceCall(k) \/ AdvanceAnswer(k) \/ AdvanceReturn(k)
              \/ AdvanceCloses(k)
Flush(k)   == (\E e \in Epochs : FlushCall(k, e)) \/ FlushAnswer(k)
              \/ FlushReturn(k) \/ FlushResets(k)
Destroy(k) == DestroyCall(k) \/ DestroyAnswer(k) \/ DestroyReturn(k)
              \/ DestroyCloses(k)
Open(k)    == OpenCall(k) \/ OpenAnswer(k) \/ OpenAccepted(k)
              \/ OpenCreates(k) \/ OpenInstalls(k) \/ OpenRefused(k)

Control(k) == \/ Create(k) \/ Query(k) \/ Advance(k) \/ Flush(k)
              \/ Destroy(k) \/ Open(k) \/ RequestFails(k)

Send(s) ==
  \/ \E c \in Channels, id \in Ids, e \in Epochs, recovery \in BOOLEAN :
       BeginSend(s, c, id, e, recovery)
  \/ \E c \in Channels : PlanDelta(s, c) \/ BeginEos(s, c)
  \/ \E id \in Ids, e \in Epochs : SendDelta(s, id, e) \/ DeltaRefused(s, e)
  \/ AcceptId(s) \/ AdmitRecord(s) \/ WriteRecord(s) \/ SendFails(s) \/ MergeSequence(s) \/ FinishSend(s)
  \/ WriteEos(s)

Reverse(c) ==
  \/ \E e \in Epochs : NeedKeyframe(c, e)
  \/ NeedFullFrame(c)
  \/ Close(c)

Next ==
  \/ \E k \in Controllers : Control(k)
  \/ \E s \in Senders : Send(s)
  \/ \E c \in Channels : Reverse(c)
  \/ TrackLost

Spec == Init /\ [][Next]_vars
-----------------------------------------------------------------------------
(* Properties.                                                             *)

Sequence == [last_id : Nat, last_epoch : Nat, last_record_sequence : Nat]

Flow == [state : {"unused", "opening", "open", "discarded"},
         generation : Nat, closed : BOOLEAN]

MediaState == [last_sequence : Nat, needs_recovery : BOOLEAN,
               minimum_recovery_epoch : Nat, recovery_revision : Nat,
               eos : BOOLEAN]

Record == [kind : {"media", "eos"}, id : Nat, epoch : Nat,
           recovery : BOOLEAN, base : Nat, revision : Nat, last : Nat]

SendState == [at : {"idle", "planned", "checked", "accepted", "admitted",
                    "written", "merged", "eos"},
              channel : Channels \union {None}, id : Nat, epoch : Nat,
              recovery : BOOLEAN, base : Nat, revision : Nat, record : Nat]

Answer == [generation : Nat, revision : Nat, dead : BOOLEAN,
           id : Nat, epoch : Nat, record : Nat]

CallState == [op : Exclusive \union {"none", "query", "open"},
              at : {"idle", "called", "answered", "accepted", "created",
                    "flushing", "closing"},
              generation : Nat, epoch : Nat,
              channel : Channels \union {None}, answer : Answer]

PresenterState == [state : {"none", "live", "lost", "destroyed"},
                   generation : Nat, revision : Nat]

\* The type invariant: identifiers, epochs and sequences stay u64/u32 values
\* every thread is at a point of its call, and a send is on some channel.
TypeOK ==
  /\ registered \in BOOLEAN /\ destroyed \in BOOLEAN /\ lost \in BOOLEAN
  /\ generation \in Nat /\ revision \in Nat
  /\ active \in Channels \union {None}
  /\ sequence \in Sequence
  /\ chan \in [Channels -> Flow]
  /\ media \in [Channels -> MediaState]
  /\ wire \in [Channels -> Seq(Record)]
  /\ sender \in [Senders -> SendState]
  /\ \A s \in Senders : sender[s].at # "idle" => sender[s].channel \in Channels
  /\ call \in [Controllers -> CallState]
  /\ presenter \in PresenterState
  /\ asked \in [Channels -> Nat] /\ flushed \in [Channels -> Nat]

\* A channel whose flow still admits media is the track's active channel and
\* belongs to the track's current generation: advance, reconciliation, loss
\* and destruction never leave an older channel able to send, and two opens
\* never both install.  Only while advance_channel or destroy_track is between
\* its two locks, when no other channel is active, may the taken flow be open.
LiveChannelIsCurrent ==
  \A c \in Channels :
    chan[c].state = "open" /\ ~chan[c].closed =>
      \/ active = c /\ chan[c].generation = generation
      \/ active = None /\ \E k \in Controllers : call[k].at = "closing"
                                              /\ call[k].channel = c

\* README "recovery-unit enforcement": a delta on the wire follows a recovery
\* unit of the same channel that answered every recovery request the reverse
\* reader had posted when the delta was validated, even when the request
\* arrived while another unit was in transport.
DeltaFollowsRecovery ==
  \A c \in Channels : \A n \in DOMAIN wire[c] :
    wire[c][n].kind = "media" /\ ~wire[c][n].recovery =>
      \E m \in 1..(n - 1) : /\ wire[c][m].recovery
                            /\ wire[c][m].revision = wire[c][n].revision

\* Once a channel needs no recovery, a unit answering its newest request, at or above
\* the largest epoch NEED_KEYFRAME asked for since the last FLUSH, is on its wire
\* (send_media, the reverse reader).
RequestedEpochHonoured ==
  \A c \in Channels :
    chan[c].state = "open" /\ ~media[c].needs_recovery =>
      \E n \in DOMAIN wire[c] :
        /\ wire[c][n].recovery
        /\ wire[c][n].revision = media[c].recovery_revision
        /\ wire[c][n].epoch >= asked[c]

\* Media identifiers strictly increase along one channel, however many
\* threads share it (send_order, TrackMediaSequence::accept).
WireIdsIncrease ==
  \A c \in Channels : \A m, n \in DOMAIN wire[c] :
    m < n /\ wire[c][m].kind = "media" /\ wire[c][n].kind = "media" =>
      wire[c][m].id < wire[c][n].id

\* README "ordered CHANNEL_EOS": CHANNEL_EOS is the last record of its
\* channel and names the sequence of the media record before it.
EosClosesStream ==
  \A c \in Channels : \A n \in DOMAIN wire[c] :
    wire[c][n].kind = "eos" => n = Len(wire[c]) /\ wire[c][n].last = n - 1

\* Progress is merged, never overwritten: apart from records whose send has
\* not merged yet, the shared sequence covers every identifier on any wire,
\* and so covers what the presenter may report.
SequenceCoversWire ==
  \A c \in Channels : \A n \in DOMAIN wire[c] :
    \/ wire[c][n].id <= sequence.last_id
    \/ \E s \in Senders : sender[s].at = "written" /\ sender[s].channel = c
                          /\ sender[s].record = n

\* The wire of every channel of a track that several threads share keeps its order, its
\* end and its record in the shared sequence (send_media, eos, reconcile_status).
WireInOrder == WireIdsIncrease /\ EosClosesStream /\ SequenceCoversWire

\* The revision the SDK holds was reported by the presenter, so TRACK_LOST
\* is never refused as moving the track revision backward, which would end
\* the whole session (apply_track_lost).
LossNeverBackward == revision <= presenter.revision

-----------------------------------------------------------------------------
(* The strengthenings that make LiveChannelIsCurrent, LossNeverBackward,   *)
(* DeltaFollowsRecovery, RequestedEpochHonoured and WireInOrder inductive. *)

\* The &mut self borrow: a call that holds it is alone on the session.
CallsExclusive ==
  \A j, k \in Controllers :
    j # k /\ call[j].op \in Exclusive => call[k].op = "none"

\* Nothing is opened before create_track has returned.
OpenedAfterCreate ==
  /\ presenter.state = "none" =>
       /\ generation = 0
       /\ \A k \in Controllers : /\ call[k].op \in {"none", "create"}
                                 /\ call[k].at # "answered"
  /\ presenter.state = "none" \/ (\E k \in Controllers : call[k].op = "create") =>
       \A c \in Channels : chan[c].state # "open"
  /\ \A k \in Controllers :
       /\ call[k].at \in {"accepted", "created"} => call[k].op = "open"
       /\ call[k].at = "closing" => call[k].op \in {"advance", "destroy"}
       /\ call[k].at = "flushing" => call[k].op = "flush"

LiveChannelInv ==
  TypeOK /\ CallsExclusive /\ OpenedAfterCreate /\ LiveChannelIsCurrent

\* A revision a call was answered with is one the presenter had assigned.
AnswersReported ==
  /\ \A k \in Controllers : call[k].answer.revision <= presenter.revision
  /\ presenter.state = "none" => presenter.revision = 0

RevisionInv == TypeOK /\ AnswersReported /\ LossNeverBackward

\* A recovery unit validated at this revision is on the wire of c.
HasUnit(c, rev) ==
  \E n \in DOMAIN wire[c] : wire[c][n].recovery /\ wire[c][n].revision = rev

\* A channel not yet opened has no sender and no record.
UnusedIsSilent ==
  \A c \in Channels : chan[c].state = "unused" =>
    /\ wire[c] = <<>>
    /\ \A s \in Senders : sender[s].at # "idle" => sender[s].channel # c

\* The request a channel, or a send in flight, counts as answered was answered.
AnsweredByUnit ==
  /\ \A c \in Channels :
       ~media[c].needs_recovery => HasUnit(c, media[c].recovery_revision)
  /\ \A s \in Senders :
       (\/ sender[s].at \in {"checked", "accepted", "admitted"}
          /\ ~sender[s].recovery
        \/ sender[s].at \in {"written", "merged"} /\ sender[s].recovery) =>
          HasUnit(sender[s].channel, sender[s].revision)

DeltaInv == TypeOK /\ UnusedIsSilent /\ AnsweredByUnit /\ DeltaFollowsRecovery

\* The send holds send_order of its channel.
InFlight(s) == sender[s].at \notin {"idle", "planned"}

OneSender ==
  \A s, t \in Senders :
    InFlight(s) /\ InFlight(t) /\ sender[s].channel = sender[t].channel => s = t

\* Where a send in flight stands on its channel's wire.
SendsInStep ==
  \A s \in Senders :
    LET c == sender[s].channel
    IN  /\ InFlight(s) => ~media[c].eos
        /\ sender[s].at \in {"accepted", "admitted"} =>
             \A n \in DOMAIN wire[c] : wire[c][n].id < sender[s].id
        /\ sender[s].at \in {"written", "merged", "eos"} =>
             sender[s].record = Len(wire[c])
        /\ sender[s].at = "written" =>
             Len(wire[c]) > 0 /\ wire[c][Len(wire[c])].id = sender[s].id

\* Until CHANNEL_EOS the wire holds media, counted by the media state as
\* soon as the send that wrote the last record has finished.
MediaInStep ==
  \A c \in Channels : ~media[c].eos =>
    /\ \A n \in DOMAIN wire[c] : wire[c][n].kind = "media"
    /\ \/ media[c].last_sequence = Len(wire[c])
       \/ \E s \in Senders : /\ sender[s].channel = c
                             /\ sender[s].at \in {"written", "merged"}

\* As HasUnit, with a unit at or above epoch e.
HasUnitAt(c, rev, e) ==
  \E n \in DOMAIN wire[c] : /\ wire[c][n].recovery /\ wire[c][n].revision = rev
                            /\ wire[c][n].epoch >= e

\* The minimum of a channel is never below what was asked of it.
MinimumCoversAsked ==
  \A c \in Channels :
    /\ media[c].minimum_recovery_epoch >= asked[c]
    /\ chan[c].state = "unused" => asked[c] = 0
    /\ ~media[c].needs_recovery => HasUnitAt(c, media[c].recovery_revision, asked[c])

\* A send past its validation, and before FinishSend, has the epoch that the request it
\* answers asked for; once it is written, its unit is on the wire.
OnItsWay(s) == sender[s].at \in {"checked", "accepted", "admitted", "written", "merged"}
UnitsMeetRequest ==
  \A s \in Senders : OnItsWay(s) =>
    LET c == sender[s].channel
    IN  /\ sender[s].revision <= media[c].recovery_revision
        /\ sender[s].recovery /\ sender[s].revision = media[c].recovery_revision =>
             sender[s].epoch >= asked[c]
        /\ sender[s].recovery /\ sender[s].at \in {"written", "merged"} =>
             HasUnitAt(c, sender[s].revision, sender[s].epoch)

EpochInv == TypeOK /\ UnusedIsSilent /\ MinimumCoversAsked /\ UnitsMeetRequest

WireInv == /\ TypeOK /\ UnusedIsSilent /\ OneSender /\ SendsInStep
           /\ MediaInStep /\ WireInOrder

-----------------------------------------------------------------------------
\* A FLUSH that returned demands a recovery unit at its epoch: until one is
\* on the wire the channel keeps needing recovery (flush, send_media).
FlushHonoured ==
  \A c \in Channels :
    chan[c].state = "open" /\ flushed[c] > 0 /\ ~media[c].needs_recovery =>
      \E n \in DOMAIN wire[c] :
        wire[c][n].recovery /\ wire[c][n].epoch >= flushed[c]
=============================================================================
