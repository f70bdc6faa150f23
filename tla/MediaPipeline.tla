--------------------------- MODULE MediaPipeline ---------------------------
(***************************************************************************)
(* A media pipeline: a capture thread stores frames in a LatestFrame, the   *)
(* encoders take them, number them and push the packets into a              *)
(* BoundedQueue, the workers drain it through clones of a TrackSender       *)
(* (flush_one), and recover_channel moves the track to a new channel and    *)
(* returns a sender for it, while packets numbered by the old one may still *)
(* be queued, with a worker, or in transport on the old channel.            *)
(*                                                                          *)
(* Both buffers are a mutex with condition variables.  A method is one step *)
(* per time it holds the mutex: it finishes, or it joins the waiters; a     *)
(* notify_one moves some waiter back to runnable, and a waiter may also     *)
(* wake by itself.                                                          *)
(***************************************************************************)
EXTENDS Naturals, FiniteSets, Sequences

CONSTANTS
  Encoders,       \* threads that take frames, number and push packets
  Workers,        \* threads that pop packets and send them
  Capacity,       \* capacity of the queue
  MaxFrames,      \* bound: frames stored
  MaxGeneration   \* bound: channel generations of the track

ASSUME CapacityAssumption == Capacity \in Nat \ {0}
ASSUME ThreadsAssumption == IsFiniteSet(Encoders) /\ IsFiniteSet(Workers)
ASSUME PipelineBounds == MaxFrames \in Nat /\ MaxGeneration \in Nat

VARIABLES
  slot,      \* LatestFrame: full, frames stored, frames dropped, frames taken
  queue,     \* BoundedQueue: its items, how many it dropped, closed
  at,        \* per thread: where it is
  packet,    \* per thread: the packet it holds; by is the sender that numbered it
  clone,     \* per worker: the sender that its flush_one runs on, 0 outside one
  senders,   \* the TrackSenders made: channel generation, detached, last_packet_id
  track,     \* channel generation, its flow open, last_id, the sender that numbered it
  recovery   \* recover_channel: how far it is, the identifier of its unit

pipelineVars == <<slot, queue, at, packet, clone, senders, track, recovery>>
sequenceVars == <<clone, senders, track, recovery>>

Threads == Encoders \union Workers
NoPacket == [by |-> 0, id |-> 0]
Newest == Len(senders)

PipelineInit ==
  /\ slot = [full |-> FALSE, stored |-> 0, dropped |-> 0, taken |-> 0]
  /\ queue = [items |-> <<>>, dropped |-> 0, closed |-> FALSE]
  /\ at = [t \in Threads |-> "idle"]
  /\ packet = [t \in Threads |-> NoPacket]
  /\ clone = [w \in Workers |-> 0]
  /\ senders = <<[channel |-> 1, detached |-> FALSE, last |-> 0]>>
  /\ track = [generation |-> 1, open |-> TRUE, last |-> 0, by |-> 0]
  /\ recovery = [step |-> "none", id |-> 0]
-----------------------------------------------------------------------------
At(place) == {t \in Threads : at[t] = place}
Goes(t, place) == at' = [at EXCEPT ![t] = place]

\* notify_one beside a step of t itself: some waiter becomes runnable, if there is one.
Notifies(from, to, t, place) ==
  \/ /\ At(from) = {} /\ Goes(t, place)
  \/ \E u \in At(from) : at' = [at EXCEPT ![u] = to, ![t] = place]

\* LatestFrame::store: the newest frame replaces one that was not taken.
Stores ==
  /\ slot.stored < MaxFrames
  /\ slot' = [slot EXCEPT !.full = TRUE, !.stored = @ + 1,
                          !.dropped = IF slot.full THEN @ + 1 ELSE @]
  /\ \/ At("awaits_frame") = {} /\ UNCHANGED at
     \/ \E u \in At("awaits_frame") : Goes(u, "takes")
  /\ UNCHANGED <<queue, packet, sequenceVars>>

\* LatestFrame::take, and try_take, which does not wait.
StartsTake(e) ==
  at[e] = "idle" /\ Goes(e, "takes") /\ UNCHANGED <<slot, queue, packet, sequenceVars>>
Takes(e) ==
  /\ at[e] = "takes"
  /\ IF slot.full
       THEN slot' = [slot EXCEPT !.full = FALSE, !.taken = @ + 1] /\ Goes(e, "has_frame")
       ELSE UNCHANGED slot /\ Goes(e, "awaits_frame")
  /\ UNCHANGED <<queue, packet, sequenceVars>>
TriesTake(e) ==
  /\ at[e] = "idle" /\ slot.full
  /\ slot' = [slot EXCEPT !.full = FALSE, !.taken = @ + 1]
  /\ Goes(e, "has_frame")
  /\ UNCHANGED <<queue, packet, sequenceVars>>
-----------------------------------------------------------------------------
\* next_packet_id on a sender: the clones of a sender share its counter, and an encoder
\* may still hold a clone of a sender that was replaced.
Numbers(e) ==
  /\ at[e] = "has_frame"
  /\ \E s \in DOMAIN senders :
       /\ senders' = [senders EXCEPT ![s].last = @ + 1]
       /\ packet' = [packet EXCEPT ![e] = [by |-> s, id |-> senders[s].last + 1]]
  /\ Goes(e, "has_packet")
  /\ UNCHANGED <<slot, queue, clone, track, recovery>>

PutsDown(t) == packet' = [packet EXCEPT ![t] = NoPacket]

\* BoundedQueue::push_blocking: waits while the queue is full and open.
Starts(e) ==
  at[e] = "has_packet" /\ Goes(e, "pushes") /\ UNCHANGED <<slot, queue, packet, sequenceVars>>
Pushes(e) ==
  /\ at[e] = "pushes"
  /\ \/ queue.closed /\ Goes(e, "idle") /\ PutsDown(e) /\ UNCHANGED queue
     \/ /\ ~queue.closed /\ Len(queue.items) >= Capacity
        /\ Goes(e, "awaits_room") /\ UNCHANGED <<packet, queue>>
     \/ /\ ~queue.closed /\ Len(queue.items) < Capacity
        /\ queue' = [queue EXCEPT !.items = Append(@, packet[e])]
        /\ PutsDown(e)
        /\ Notifies("awaits_packet", "pops", e, "idle")
  /\ UNCHANGED <<slot, sequenceVars>>

\* Mutant: a push that does not wait does not notify either.
TriesPushSilent(e) ==
  /\ at[e] = "has_packet"
  /\ \/ queue.closed /\ UNCHANGED queue
     \/ /\ ~queue.closed /\ Len(queue.items) >= Capacity
        /\ queue' = [queue EXCEPT !.dropped = @ + 1]
     \/ /\ ~queue.closed /\ Len(queue.items) < Capacity
        /\ queue' = [queue EXCEPT !.items = Append(@, packet[e])]
  /\ PutsDown(e)
  /\ Goes(e, "idle")
  /\ UNCHANGED <<slot, sequenceVars>>

\* BoundedQueue::push_nonblocking (also InputQueue::push): a full queue drops the newcomer,
\* whose number is spent.
TriesPush(e) ==
  /\ at[e] = "has_packet"
  /\ \/ queue.closed /\ UNCHANGED queue /\ Goes(e, "idle")
     \/ /\ ~queue.closed /\ Len(queue.items) >= Capacity
        /\ queue' = [queue EXCEPT !.dropped = @ + 1] /\ Goes(e, "idle")
     \/ /\ ~queue.closed /\ Len(queue.items) < Capacity
        /\ queue' = [queue EXCEPT !.items = Append(@, packet[e])]
        /\ Notifies("awaits_packet", "pops", e, "idle")
  /\ PutsDown(e)
  /\ UNCHANGED <<slot, sequenceVars>>

\* flush_one on a clone of some sender, also of one that is replaced while pop waits.
StartsPop(w) ==
  /\ at[w] = "idle"
  /\ \E s \in DOMAIN senders : clone' = [clone EXCEPT ![w] = s]
  /\ Goes(w, "pops")
  /\ UNCHANGED <<slot, queue, packet, senders, track, recovery>>

\* flush_one returns.
Flushed(w, place) ==
  /\ Goes(w, place) /\ PutsDown(w)
  /\ clone' = [clone EXCEPT ![w] = 0]

\* BoundedQueue::pop: what is queued comes before the end, also after close.
Pops(w) ==
  /\ at[w] = "pops"
  /\ \/ /\ queue.items # <<>>
        /\ queue' = [queue EXCEPT !.items = Tail(@)]
        /\ packet' = [packet EXCEPT ![w] = Head(queue.items)]
        /\ Notifies("awaits_room", "pushes", w, "sends")
        /\ UNCHANGED clone
     \/ queue.items = <<>> /\ queue.closed /\ Flushed(w, "ended") /\ UNCHANGED queue
     \/ /\ queue.items = <<>> /\ ~queue.closed
        /\ Goes(w, "awaits_packet") /\ UNCHANGED <<packet, clone, queue>>
  /\ UNCHANGED <<slot, senders, track, recovery>>

\* close and Drop: every waiter of the queue wakes.
Closes ==
  /\ ~queue.closed
  /\ queue' = [queue EXCEPT !.closed = TRUE]
  /\ at' = [t \in Threads |-> CASE at[t] = "awaits_room" -> "pushes"
                                [] at[t] = "awaits_packet" -> "pops"
                                [] OTHER -> at[t]]
  /\ UNCHANGED <<slot, packet, sequenceVars>>

WakesAlone(t) ==
  /\ \/ at[t] = "awaits_frame" /\ Goes(t, "takes")
     \/ at[t] = "awaits_room" /\ Goes(t, "pushes")
     \/ at[t] = "awaits_packet" /\ Goes(t, "pops")
  /\ UNCHANGED <<slot, queue, packet, sequenceVars>>
-----------------------------------------------------------------------------
\* The flow of a channel is open: the channel is the one of the track and was not lost.
FlowOpen(channel) == track.open /\ channel = track.generation

\* The TrackMediaSequence once a record in transport is merged into it.
Merged(sequence, id, by) ==
  IF id > sequence.last THEN [sequence EXCEPT !.last = id, !.by = by] ELSE sequence

\* send_media, up to the transport: one record of a channel at a time (send_order), an
\* identifier beyond the last one of the track, on an open flow.  A detached sender, and
\* whatever else the channel refuses, ends the send.
Sends(w) ==
  /\ at[w] = "sends"
  /\ \/ /\ ~senders[clone[w]].detached
        /\ FlowOpen(senders[clone[w]].channel)
        /\ packet[w].id > track.last
        /\ \A v \in Workers : ~(at[v] = "in_transport" /\ clone[v] = clone[w])
        /\ Goes(w, "in_transport") /\ UNCHANGED <<packet, clone>>
     \/ Flushed(w, "idle")
  /\ UNCHANGED <<slot, queue, senders, track, recovery>>

\* send_media, after the transport, which may outlast the channel: the identifier is
\* merged into the sequence, unless the write failed.
Merges(w) ==
  /\ at[w] = "in_transport"
  /\ track' \in {track, Merged(track, packet[w].id, packet[w].by)}
  /\ Flushed(w, "idle")
  /\ UNCHANGED <<slot, queue, senders, recovery>>

ChannelLost ==
  /\ track.open
  /\ track' = [track EXCEPT !.open = FALSE]
  /\ UNCHANGED <<slot, queue, at, packet, clone, senders, recovery>>

Detaches ==
  /\ \E s \in DOMAIN senders :
       ~senders[s].detached /\ senders' = [senders EXCEPT ![s].detached = TRUE]
  /\ UNCHANGED <<slot, queue, at, packet, clone, track, recovery>>
-----------------------------------------------------------------------------
\* recover_channel, which holds the session: the track advances, which closes its flow.
StartsRecovery ==
  /\ recovery.step = "none" /\ track.generation < MaxGeneration
  /\ track' = [track EXCEPT !.generation = @ + 1, !.open = FALSE]
  /\ recovery' = [recovery EXCEPT !.step = "advanced"]
  /\ UNCHANGED <<slot, queue, at, packet, clone, senders>>

\* The new channel opens.
Reopens ==
  /\ recovery.step = "advanced"
  /\ track' = [track EXCEPT !.open = TRUE]
  /\ recovery' = [recovery EXCEPT !.step = "opened"]
  /\ UNCHANGED <<slot, queue, at, packet, clone, senders>>

\* It numbers the recovery unit behind the sequence, which it then lets go of.
NumbersUnit ==
  /\ recovery.step = "opened"
  /\ recovery' = [step |-> "numbered", id |-> track.last + 1]
  /\ UNCHANGED <<slot, queue, at, packet, clone, senders, track>>

\* The unit is sent: a record of the old channel may have been merged meanwhile.
SendsUnit ==
  /\ recovery.step = "numbered"
  /\ FlowOpen(track.generation) /\ recovery.id > track.last
  /\ recovery' = [recovery EXCEPT !.step = "in_transport"]
  /\ UNCHANGED <<slot, queue, at, packet, clone, senders, track>>

\* Mutant: the recovered sender counts from one.
RecoversAfresh ==
  /\ recovery.step = "in_transport"
  /\ track' = Merged(track, recovery.id, Newest + 1)
  /\ senders' = Append(senders, [channel |-> track.generation, detached |-> FALSE, last |-> 0])
  /\ recovery' = [step |-> "none", id |-> 0]
  /\ UNCHANGED <<slot, queue, at, packet, clone>>

\* The unit is out: the sender that is returned is seeded with its identifier.
Recovers ==
  /\ recovery.step = "in_transport"
  /\ track' = Merged(track, recovery.id, Newest + 1)
  /\ senders' = Append(senders, [channel |-> track.generation, detached |-> FALSE,
                                 last |-> recovery.id])
  /\ recovery' = [step |-> "none", id |-> 0]
  /\ UNCHANGED <<slot, queue, at, packet, clone>>

\* A request or the send of the unit fails: no sender is returned.
FailsRecovery ==
  /\ recovery.step # "none"
  /\ recovery' = [step |-> "none", id |-> 0]
  /\ UNCHANGED <<slot, queue, at, packet, clone, senders, track>>

PipelineNext ==
  \/ Stores \/ Closes \/ ChannelLost \/ Detaches
  \/ StartsRecovery \/ Reopens \/ NumbersUnit \/ SendsUnit \/ Recovers \/ FailsRecovery
  \/ \E t \in Threads : WakesAlone(t)
  \/ \E e \in Encoders : StartsTake(e) \/ Takes(e) \/ TriesTake(e) \/ Numbers(e)
                           \/ Starts(e) \/ Pushes(e) \/ TriesPush(e)
  \/ \E w \in Workers : StartsPop(w) \/ Pops(w) \/ Sends(w) \/ Merges(w)

PipelineSpec == PipelineInit /\ [][PipelineNext]_pipelineVars
-----------------------------------------------------------------------------
\* No wakeup is lost: beside a sleeper there are as many runnable threads as there are
\* packets to pop, or places to fill; nobody sleeps beside a full slot without one that
\* is about to take it, and nobody sleeps on a closed queue (the condition variables of
\* LatestFrame and BoundedQueue).
NoLostWakeup ==
  /\ At("awaits_frame") # {} /\ slot.full => At("takes") # {}
  /\ At("awaits_packet") # {} => ~queue.closed /\ Cardinality(At("pops")) >= Len(queue.items)
  /\ At("awaits_room") # {} =>
       ~queue.closed /\ Cardinality(At("pushes")) >= Capacity - Len(queue.items)

\* The sender that the last recovery returned continues the sequence of its track: when the
\* track is ahead of it, then by a packet that an earlier sender numbered and that was
\* queued, with a worker or in transport while the channel was recovered; never by the
\* recovery unit, nor by what the sender itself numbered (the comment on
\* TrackSender::seeded).
SenderContinues == senders[Newest].last < track.last => track.by \notin {0, Newest}
=============================================================================
