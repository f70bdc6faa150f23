# vivid_sdk: a TLA+ verification project

`vivid_sdk` is the producer side of Vivid Protocol 1.5: a Rust library with Python bindings and a
small Node wrapper. An application opens an authenticated `Session`, creates surfaces and tracks
on it, opens a `TrackChannel` for each track and writes media on it, while a presenter at the other
end answers requests, returns flow credit, asks for recovery units and reports losses.

The library is synchronous and multi-threaded. Application threads hold clones of one channel and
call methods of one session; a control reader, one reverse reader per channel and one reader per
interactive lane apply what the presenter sends. What is hard to test is what these threads do to
each other between two lock acquisitions, and that is what the modules here model.

All line numbers below are of `src/src/` unless a path is given.

## 1. Inventory

| Component | Source | State it keeps | Operations | What makes it correct |
| --- | --- | --- | --- | --- |
| Session lifecycle | `session.rs` | `closed`, weak lists of channel flows and input lanes | `ensure_active`, `register_track_flow`, `register_input_lane`, `close` (from `abort`, `close`, `Drop`, end of the control reader) | whatever is registered while the session closes is refused or closed; every wait ends |
| Control plane | `session.rs`, `wire.rs` | request table, control event queue, `closed` | `request`, the control reader (replies, PING, events) | every request gets its own reply or an error; nothing waits for a reader that ended |
| Interactive lane | `input.rs` | request table, event queue, `closed` | `set_binding`, the lane reader, `close_input_lane` | as the control plane; `LaneClosed` replaces what is queued |
| Track | `track.rs` | `TrackLocal` (revision, channel generation, active flow, destroyed, lost), `TrackMediaSequence` | create, query, advance, flush, destroy, play, pause, wait; `apply_track_lost` | one live channel, of the current generation; progress is merged |
| Track channel | `channel.rs` | `ChannelMediaState` (recovery, end of stream), `send_order` | `establish`, `send_media`, `send_raster_delta`, `send_image`, `eos`, `close`, the reverse reader | recovery discipline, increasing identifiers, `CHANNEL_EOS` last |
| Channel flow | `channel.rs` | charged totals, cumulative maxima, `closed`, rate buckets | `write_charged_record`, `wait_for_rate`, `wait_for_reusable_media_capacity`, `MAX_CHANNEL_DATA` | the window is respected, the barrier is a barrier, nobody sleeps for ever |
| Input guard | `guard.rs` | epoch, state, deadline, renewal sequence | enable, disable, bound, renewal, revocation, release | no input outside a live grant of the current binding |
| File drop | `file_drop.rs` | epoch, requested binding, grant; per transfer its flow and end | enable, disable, bound, release; accept, open, read, grant credit, end, advance | a grant answers the request of its epoch; a finished transfer is whole |
| Pipeline | `pipeline.rs` | `LatestFrame`, `BoundedQueue`, `TrackSender` counters | store/take, push/pop/close, send, `recover_channel` | no lost wake-up, packet identifiers keep increasing across a recovery |
| Video rate control | `pipeline.rs` | target, observation window | observe, poll, `next_target` | backs off only from a rate that does not arrive, climbs back |
| Controller and leases | `controller.rs`, `lease.rs` | issued leases, `LeaseHandle` | issue with retries, activate once, revoke, drop | one secret per lease; a revoked lease is gone; none is forgotten |
| Scenes and slots | `scene.rs`, `orch.rs` | scene revision, target generation | transaction, `ACTIVATE_TRACK`, `SurfaceSlots` | a transaction is committed or aborted; slots name live tracks |
| Surfaces and resume | `surface.rs`, `resume.rs` | `SurfaceLocal`, registries | create, update, query, destroy, adopt | handle and presenter agree on the mapping |
| Desktop and pane sessions | `desktop.rs`, `pane.rs` | the composition of the above | establish, activate, replace, disable, resume; show, clear | a failed step leaks nothing and mixes no incarnations |
| Python handles | `src/python-bindings/src/lib.rs` | one `Mutex<Option<..>>` per handle, the interpreter lock | every native function | no handle used after close |
| Target, config, handshake, offline, wire, lib, Python and Node packages, test presenter | | none shared between threads | | not modelled, see section 7 |

How they interact. A session call is a request on the control connection and a wait for its reply;
the FIFO control reader hands the reply over and goes on to later messages before the caller has
applied it. `establish` makes a flow, registers it with the lifecycle, installs weak pointers to it
in the track and starts a reverse reader. Sends take `send_order` (one send at a time on a channel),
the rate limiter, the media state, the shared media sequence, the flow and the transport, in that
order and never two of the last four together. `advance`, `destroy`, a reconciled `TRACK_STATUS` and
`TRACK_LOST` take the active flow out of the track and close it; the lifecycle closes all flows and
then, one by one, the lanes; the reverse reader closes its own flow when it ends. Closing notifies
every wait. The helpers above (pipeline, pane, desktop, controller) are ordinary callers of that
interface: programs of fallible requests, which return at the first error with whatever handles
they hold by then.

The Rust borrow rules are part of the model: `create_track`, `advance_channel`, `flush`,
`destroy_track`, `abort` and `close` take `&mut self` (or consume the session) and exclude every
other session call; `query_track`, `open_track_channel`, `open_input_lane` and `play` take `&self`
and overlap. Sends go through channel clones and overlap everything.

Hazards. `PROJECT.json` lists them with their lines and the property that would catch each one
going wrong, or the reason why none does.

## 2. Modules

| Module | Contents |
| --- | --- |
| `TrackMedia` | one track: its registry entry, the shared sequence, its channel generations, recovery, sends, session calls, presenter messages |
| `ChannelFlow` | one channel: flow credit, rate wait, capacity barrier, reverse reader, registration against closing, blocked transport |
| `CreditWindow` | abstract specification: what flow control promises, with no thread or lock |
| `ControlPlane` | request tables, event queues and readers of the control connection and of lanes; how sessions and lanes end |
| `LeaseControl` | controllers, the presenter's leases, retries, late requests, broken links |
| `InputGuard` | the input binding guard, its setters, the lane with its reader and its event thread, the clock |
| `FileDrop` | the file-drop guard and a file transfer over its generations |
| `MediaPipeline` | frame slot, packet queue, condition variables, senders, the channel they send on, recovery |
| `VideoRate` | the rate control loop |
| `SessionObjects` | the objects of a presenter and the outcomes of a request; scene transactions; shared by the next two |
| `PaneSession`, `DesktopSession` | their calls, request by request |
| `SurfaceHandle` | a surface handle beside the presenter's surface |
| `PythonHandle` | Python threads, the interpreter lock and the `Mutex` of each handle |
| `MCTrackMedia`, `MCChannelFlow`, `MCControlPlane` | TLC instances |
| `MCBindings` | `LeaseControl`, `InputGuard` and `FileDrop` in one instance |
| `MCHelpers` | `MediaPipeline`, `VideoRate`, `SurfaceHandle`, `PaneSession`, `DesktopSession`, `PythonHandle` in one instance |
| `*Proofs` | theorems, section 5 |

In all of them a step is one critical section of the code, and a thread's local copies (a snapshot
taken under a lock and used after it is released) are fields of its state. Modules of components
that share no state are instantiated together in `MCBindings` and `MCHelpers`: the variable
`exercised` picks one of them per behaviour and the others stay in their initial states, so nothing
is multiplied. `PaneSession` and `DesktopSession` do share state, the variables of `SessionObjects`.

### TrackMedia

`generation`, `revision`, `destroyed`, `lost` and `active` are the fields of `TrackLocal`;
`sequence` is `TrackMediaSequence`; `media[c]` is `ChannelMediaState` of channel `c`; `chan[c].closed`
is `FlowLocal.closed`; `wire[c]` is what was written after `CHANNEL_OPEN`. `sender[s]` holds the
locals of `send_media`, and `call[k]` those of a session call. A request is three steps: the call
(argument checks, snapshot), the answer (the presenter changes its own track, the reader hands the
reply over) and the return (the caller applies it). `TrackLost` is `apply_track_lost`, which the
reader runs between any two of them.

A send is: `Validates` (end of stream, recovery and epoch, under the media lock), `AcceptId` (the
identifier, under the sequence lock, taken after the media lock is released), `AdmitRecord` (the
flow is open), `WriteRecord`, `MergeSequence`, `FinishSend` (recovery bookkeeping). `PlanDelta` and
`SendDelta` are the two halves of a raster delta, whose base is checked before `send_order`;
`PlanDelta` reads the recovery flag and the sequence in one step.

Left out: the closing of the session and flow credit (in `ChannelFlow`), the rate limiter,
`send_image`, the bound of the event queue, `wait_track`, milestones, weak pointers that die because
every clone was dropped, and the failure to start a reader thread.

### ChannelFlow

`flow` is `FlowLocal`: charged totals, maxima, `closed`. `sender[s]` walks through `send_order`
(`queued`), `wait_for_rate` (`limiting`), one turn of the loop of `write_charged_record`
(`admitting`), its condition variable (`asleep`) and the socket write (`transport`).
`HeldInTransport` names the locks a sender keeps while its write may block; in the code it is
`{"send_order"}`, and steps that need another lock may run. `waiter[w]` is a call of
`wait_for_reusable_media_capacity`. `opener` and `closer` are `register_track_flow` and
`SessionLifecycle::close` with their locks. `forward` and `reverse` are the two sockets, with room
for a few records: a write to a full one blocks.

The presenter is external and is modelled from what the SDK relies on. It does one thing at a time:
while its grant waits for room it reads nothing, which is the case that could deadlock against the
producer. It starts paused, reads once PLAY came, and may stall for ever at any time.

Left out: `eos` and `send_image` writes, the arithmetic of the rate buckets (sizes are within the
burst, so `PassRate` passes after some time), other flows of the same session, the text of
diagnostics, and the `checked_add` that rejects totals near 2^64.

### ControlPlane

A *plane* is the control connection or a lane: both have `requests`, `events`, `closed` and one
reader thread, and the code of one repeats that of the other. `call[c]` walks a caller through
`inserting` (the flag is read again under the lock of the table), `writing` and `waiting`.
`lifecycle`, `lanes` and `sweep` are `SessionLifecycle`: closing sets the flag, takes the registry and
closes the lanes one by one while holding it; `closing[t]` is the progress of a thread in
`close_input_lane`, which sets the flag, reports `LaneClosed` and drains the table in three critical
sections that others may enter between. The control reader closes the lifecycle, marks the plane
closed, reports and drains.

Sockets have no state of their own: a write is a step that waits for the presenter, a blocked write
one that does not come. A reply without an entry, a full event queue, a malformed record and the end
of the connection all end a reader. Request identifiers are bounded by `MaxRequests` per plane.

### LeaseControl

`call[t]` is an issue or a revoke with its secret and attempts, `handle[t]` the `LeaseHandle` of a
thread, `mutex` the one around the root session of a `VividoAdmin`; threads in `Bridged` use a
`BridgeAdmin` instead, with one connection per attempt. `late` holds requests whose sender stopped
waiting and which may reach the presenter at any later time. `outcome[l]` is what the controller of
a lease was told. The presenter (first definition of a lease wins, a revoked lease stays revoked) is
external.

A control request of the code has no timeout of its own: `TimedOut` can reach `retry_on_timeout`
from the socket of the gateway or from a trait implementation, and otherwise a silent presenter keeps
the caller, and the mutex, for as long as the connection lasts. `CallsReturn` therefore assumes that
attempts end (section 3).

### InputGuard and FileDrop

`guard` is `InputBindingGuard` behind its mutex: epoch, `Fresh`/`Active`/`Inactive`, grant, deadline,
last renewal. A setter's `change` goes through `ready` (the method returned a binding), `sent`,
`answered` and back with `handle_bound`; events reach one thread through the queue of the lane, so an
answer and an event that the lane delivered in one order may be handled in the other. `granter` is
the presenter. `answered` and `intent` are history: the newest grant accepted, and what the newest
epoch asked for.

`lane` says whether `PendingInput.closed` is unset, whether the reader runs, and whether requests
still have to be drained. Closing is `close_input_lane`: `Closes` sets the flag and puts `LaneClosed`
in the place of what is queued, `DrainsRequests` fails the requests afterwards. `InputLane::close`
(or the end of the session) leaves the reader running, so renewals may be pushed behind `LaneClosed`
and an answer may still reach its setter, until the reader ends and closes the lane once more. The
three threads that meet here (a closer, the reader, a setter) are the same as in `ControlPlane`,
which has the request table of a lane in detail. A lane is not opened again, and the classes and
reasons of a grant are left out; a renewal that names another watchdog is refused in one disjunct of
`TakesEvent`.

In `FileDrop`, `binding` is `FileDropBindingGuard` and `asking` its setters; one limit stands for the
six of a binding. `transfer` is the `IncomingFileTransfer` of the current generation, `file` what the
application has kept; a byte is its offset. After a loss, `Advances` starts the next generation
behind the bytes kept. The source may be shorter or longer than it declared.

### MediaPipeline and VideoRate

Each method of a buffer is one step per time it holds the mutex: it finishes or joins the waiters.
`notify_one` moves some waiter back to runnable and a waiter may wake by itself. An encoder numbers
its packet from the current sender before it pushes it (`Numbers`), as `EncodedPacket` carries its
`packet_id`; a worker pops it and sends it through the clone it took for its `flush_one`, which may
be of another sender than the one that numbered it. `senders` are the `TrackSender`s made so far,
`track` the channel generation with its flow and `TrackMediaSequence`. A send is `Sends` (the
identifier is beyond the last, the write begins) and `Merges` (it is merged), with anything in
between. `recover_channel` is `StartsRecovery` (the old sender detached), `Reopens` (the next
generation), `NumbersUnit` (`last_id` is read), `SendsUnit` and `Recovers` (the unit is merged, a
sender is seeded), or `FailsRecovery`; a send of the old channel may merge between any two of them.
`VideoRate` is the control law in units of which the step and the minimum are multiples, with a
window reduced to the rate it achieved and the percentage it spent in the transport.

### SessionObjects, PaneSession, DesktopSession, SurfaceHandle

`store` is what the presenter holds, and `Asks` the four outcomes of a request: carried out, refused,
carried out with an answer the session does not accept (`unsure` remembers it), or the connection
ended before or after the effect. `scene_transaction` is `Begins`, `Mutates`, `Commits`, `Aborts`.
`PaneSession.pane` and `DesktopSession.desk` are the point of the program a call has reached; `held`
are the fields of a `DesktopSession` and `fresh` the locals of its running call. A connection is
numbered by its resume generation. `disable_audio_track` without an audio handle returns `Ok` at once
(`DisablesNothing`), also when an earlier one failed after it had taken the handle. `SurfaceHandle` puts `SurfaceLocal` beside the presenter's surface:
the answer of an update carries neither revision nor generation, so the handle works them out, and an
update may be carried out unseen.

### PythonHandle

`gil` is the thread that holds the interpreter lock, `holder[h]` the thread that holds the `Mutex` of
a handle and `opened[h]` whether its `Option` is still `Some`. Every native function is one of three:
a `request` locks, detaches, runs in Rust, reattaches and drops its guard; an `inspect` locks and
answers without detaching; a `close` takes the value, drops the guard and detaches. `aio.py` runs
native functions on executor threads, so `Loop` enters none: it needs the interpreter lock to go on,
nothing else. The interpreter lock and its hand-over are external.

## 3. Runs

| Run | Kind | What it shows |
| --- | --- | --- |
| `track_sends` | pass | two senders and a lagging query on one channel: recovery before deltas, the epoch NEED_KEYFRAME asks for, and the order of the wire |
| `track_generations` | pass | two controllers over create, open, advance, flush, query, destroy, loss: one live channel, of the current generation; no loss is refused |
| `channel_flow` | pass | safety of the flow, and that it implements `CreditWindow` |
| `channel_liveness` | pass | sends and waits end, closing wakes every wait, PLAY gets through |
| `control_plane` | pass | no caller is left behind a drained table, no lane outlives its session, the loss of a plane is reported last |
| `control_liveness` | pass | requests return; closing the session frees the callers of its lanes |
| `bindings` | pass | retries and late requests keep one secret per lease, no revoked lease lives, no active one is forgotten, calls return and give up the mutex; the newest input grant wins, an expired one and those from before a lost lane stay so; drops stay within their grant and finished files are whole |
| `helpers` | pass | wake-ups, identifiers and rates of the pipeline; surface, pane and desktop after every failure of their requests; no Python handle is closed under a request that runs in Rust |
| `flush_recovery` | violation | a recovery unit in transport erases the recovery a FLUSH demanded |
| `resume_numbering` | violation | a resumed sender hands out identifiers its track refuses |
| `python_loop` | violation | two workers on one handle stop the interpreter, and the event loop with it |
| `lane_loss` | violation | an answer handed over after the loss of its lane arms the guard again |

Bounds, all named constants.

- `track_sends`: 2 senders, 1 controller, 1 channel, 3 identifiers, epochs 0 and 1, 1 recovery
  request. Two senders are what the code can interleave on one channel (a third waits for
  `send_order` like the second); three identifiers allow a unit, a delta and one more; one request
  can arrive before, during and after a unit.
- `track_generations`: 2 controllers, 2 channels, 2 generations, 4 revisions. Two opens can race,
  one can race an advance or a query, and a lost track can be queried.
- `channel_flow`: 2 senders, 1 waiter, 1 closer, sizes 1 and 2, a window of 3 bytes and 2 records,
  3 sends, 1 record of room in each socket: either limit can be the one that blocks, the second
  send can fill the window and the third needs credit.
- `channel_liveness`: the same with 2 sends and a window of 2 bytes, so that a second send blocks.
- `control_plane`: 2 callers, 1 lane, 1 request per plane and a GOODBYE, queues of 2 events. One caller
  can wait while the other closes the lane, aborts or closes the session; the report of a loss can
  come before and behind another event, and the third event overflows. `control_liveness` has 1 caller, as its hazard is a caller alone with two readers.
- `bindings`: for leases 2 threads on one `VividoAdmin`, 1 on a `BridgeAdmin`, 2 leases, 2 secrets, 3
  attempts (the value of `LEASE_ISSUE_ATTEMPTS`), so two threads can wait for the mutex or race a
  late request; for input 2 setters, 2 epochs, 2 events in the queue, 2 renewals, a watchdog of 2 ticks and 3
  ticks of time, so a renewal can be in time, late and queued behind a revocation or a `LaneClosed`; for drops 2
  threads, 2 limits, 2 epochs, 2 generations of a transfer of 2 bytes whose source has 1, 2 or 3.
- `helpers`: 2 encoders, 2 workers, a queue of 2; 4 frames while the channel stays (both sides can
  sleep, one wake-up can meet two sleepers), and 2 frames over 2 generations when it is lost and
  recovered (one packet in the queue or with a worker, another in transport); a configured rate of 43 in steps of 5, minimum 8, which is above
  the eight steps the climb needs and no multiple of a step; revisions up to 5; 3 images, so that a
  show can clear one that itself followed another; 1 replacement, 1 resume, 1 change of the target;
  a loop and 3 workers on 2 Python handles, where nothing else is bounded. `python_loop` has a loop,
  2 workers and 1 handle, `lane_loss` 2 setters, 1 epoch and 1 renewal.

Deadlock is not checked: every bounded behaviour ends, and a program may stop calling.

Each property of a passing run has a mutant in its module: a plausible bug of the code (a dropped
check, the wrong sequence merged, a notification forgotten, one more lock kept over a write, a step
undone only in part) under which TLC finds the property violated.

Fairness. Where only safety is checked there is none.

- `ChannelFlow` assumes that a thread of the SDK that can take its next step takes it (weak fairness
  of opener, closer, sender, woken waiter, reader and controller: they are OS threads), and that a
  presenter that was told to play and has not stalled serves its channel. Nobody is obliged to begin
  a send, a wait or a shutdown, and no fault has to happen. `send_order` needs no strong fairness
  because sends are bounded.
- `ControlPlane.FairSpec` is the same for callers and readers, and has the application take its
  events. The presenter is owed nothing there; `EveryRequestReturns` names what it assumes of the
  presenter (`PresenterServes`: it reads, and answers or hangs up), and `CloseFreesLaneCallers`
  assumes nothing of it.
- `LeaseControl.FairSpec` assumes that an attempt ends, for the reason given in section 2. A call that
  waits for the mutex is not assumed to get it; `CallsReturn` shows that whoever holds it gives it up.
- `InputGuard.GuardFairSpec` assumes that the event thread keeps taking events, and `VideoRate` that the encoder
  keeps polling, which is what their callers are for.
- `PythonHandle` assumes strong fairness of the interpreter lock, which CPython forces from its holder
  at intervals, and that Rust calls end.

One limit of `channel_liveness`: with a window of two records the producer cannot have enough records
in flight for the full cycle of blocked writes. That a wait behind a blocked write needs the flow
lock free is therefore shown by `AbortWakesWaiters` and its mutant.

## 4. Findings

The violation runs are disagreements between the code and what it says of itself; `PROJECT.json`
quotes the sentences.

- *FLUSH and a unit in transport* (`track.rs:743`). `flush` sets `needs_recovery`; a recovery unit
  validated before it and written after it clears the flag, because only NEED_KEYFRAME and
  NEED_FULL_FRAME change `recovery_revision`. The recovery that the flush demanded is then gone with
  no unit of its epoch on the wire.
- *Numbering after resume* (`desktop.rs:265`). `resume` builds `TrackSender::new` on the retained
  tracks, so its packets are numbered from 1, although the sequence of those tracks is further on and
  refuses them. `recover_channel` seeds its sender from the sequence for exactly this reason.
- *Python* (`src/python-bindings/src/lib.rs:777`). The `Mutex` of a handle is waited for with the
  interpreter lock held, and its holder needs the interpreter lock before it drops its guard. Two
  workers of the executor do that to each other; the event loop only runs Python code and stops with
  them.
- *Loss of a lane* (`guard.rs:206`). `handle_bound` compares an answer with the epoch of the guard,
  which `release` does not advance. An answer that `set_binding` returned before the lane was lost,
  and that is handed over after the application took `LaneClosed`, arms the guard, without a
  deadline if nothing was renewed after it. `README.md:17` of the library promises fail-closed lane loss.
  What does hold is `LaneLossDisarms`: no grant accepted before the loss comes back.

Behaviour met on the way, visible in the models, that no run states as a property:

- A `TRACK_STATUS` answered before `TRACK_LOST` and applied after it assigns `destroyed` from the old
  lifecycle (`track.rs:559`), so the handle of a lost track works until the presenter refuses it.
- Records in transport on two generations of a track may share an identifier (`channel.rs:693`).
- The base of a raster delta is checked before `send_order` is taken (`channel.rs:552`).
- `abort` wakes the waits of a flow, not a write in the socket, nor the senders behind it
  (`session.rs:659`).
- A `SCENE_PRESENTED` that does not decode leaves a transaction without an abort (`scene.rs:162`).
- `replace_video_track` leaves the new track behind when a step before its assignment fails
  (`desktop.rs:181`), and `disable_audio_track` the old one (`desktop.rs:210`). Called again after such a
  failure, `disable_audio_track` returns `Ok` at once while slot 2 still shows the audio;
  `ReportedIsShown` is about calls that ask the presenter.
- A packet that an old sender numbered and a worker flushes through the recovered one takes the
  sequence of the track beyond that sender, whose next packets are refused until it has caught up
  (`pipeline.rs:241`; the comment at `pipeline.rs:281` expects them to pass). `SenderContinues` says
  that packets of an earlier sender are the only cause.
- `query_surface` does not take over the parameters of the profile (`surface.rs:308`).
- Below eight rate steps the climb of `next_target` is rounded away (`pipeline.rs:771`);
  `IdleLinkRecovers` is checked above them.

## 5. Proofs

Checked by TLAPS for every value of the constants, under the assumptions the modules name (bounds are
natural numbers; `None` and `Absent` are no thread, lease, plane, grant or deadline; a `Watchdog`, a queue, an event queue
and a rate step are positive; encoders and workers are finitely many; the loop is a Python thread;
the minimum rate is at most the configured one). Every invariant and every action property that a
passing run checks is a theorem.

- `TrackMediaProofs`: `TypeOK`, `LiveChannelIsCurrent` and `LossNeverBackward`. The last one needs
  that an answer under way never carries a revision the presenter has not assigned (`RevisionInv`).
  The live channel needs `LiveChannelInv`: that calls borrowing the session exclusively are alone
  (`CallsExclusive`), and that no channel opens before `create_track` returned. Without the first, an
  `open` could install a channel between the two locks of `advance_channel`.
- `TrackRecoveryProofs`: `DeltaFollowsRecovery`. It is inductive with `AnsweredByUnit`: whenever a
  channel needs no recovery, and whenever a delta is between its validation and its write, the
  request of that revision was answered by a unit already on the wire. And `WireInOrder`, by
  `WireInv`: at most one send per channel is past its validation (`OneSender`); a send that the
  shared sequence accepted is above everything on its wire, because everything on it was merged by
  then; a send that has written is the last record (`SendsInStep`); and before `CHANNEL_EOS` the
  media state counts the wire as soon as the writing send finishes (`MediaInStep`), which is what
  makes `CHANNEL_EOS` name the record before it. And `RequestedEpochHonoured`, by `EpochInv`: the
  minimum epoch of a channel is never below what was asked of it (`MinimumCoversAsked`), and a send
  past its validation answers a request no newer than the present one and, if it answers that one,
  has the epoch asked for and, once written, its unit on the wire (`UnitsMeetRequest`). What was
  asked counts from the last `FLUSH`: `flush` puts its own epoch in the place of the minimum, a
  larger one too.
- `ChannelFlowProofs`: `WindowRespected`, `ReusableMeansFreed`, `NoStrandedFlow`, and `CreditSpec`,
  the refinement of `CreditWindow`. The invariant relates every quantity that travels: freed is at
  most read, read at most written, written at most charged, each maximum in the reverse socket and
  the one held at most the largest granted, and that one at most the window plus what was freed. A
  barrier's requirement is the window plus the total charged when it began, so it can only be met by
  a grant made after everything charged then was freed. The refinement maps a charge to `Charge`, a
  freed record to `Free`, a grant to `Grant`, any closing to `Close`, and every other step to a
  stutter.
- `BindingProofs`, on `InputGuard`: `NewestGrantOnly` by `CallsFollow` (no transition under way is
  newer than the guard, the one at the guard's epoch asked for what the newest epoch asked for, and a
  grant names its own epoch; closing the lane only takes transitions away), and `ExpiredNeverRearmed` as an action property of the same invariant:
  a step that makes the deadline later is a renewal, which `handle_renewal` refuses at or after the
  deadline, or replaces the grant, and then the old deadline stays and is still in the past. On
  `FileDrop`: `DropGrantNarrows` needs only the types, because `handle_bound` compares an answer with
  the request in force while it holds the guard. `FinishedIsWhole` is inductive with: the bytes kept
  are 0, 1, 2, ... in order; an offered generation resumes behind them; an open one expects the next
  offset to be their number, unless the file is full and the source went on beyond it.
- `LeaseControlProofs`: `RevokedIsGone`, because the presenter never leaves `revoked` and a reported
  revocation was carried out; and `GrantBindsItsSecret`, with `AskedOnce` (one issue per lease),
  `LateAgrees` (a late issue carries the secret of the call that still waits), `ReadyAgrees` (so does
  a lease that is ready) and `Bound` (a secret handed out belongs to a lease that exists). The secret
  is minted before the first attempt, which is what makes them inductive. And `ActiveLeaseAccounted`,
  by `Accounted`: an active lease was handed to a worker, and a lease handed over is always in one of
  three places: in a handle, under a revocation, or with a result the controller was told. A handle
  is given up only for the second, and the second ends only in the third.
- `ControlPlaneProofs`: `NoCallerForgotten`, `DrainedStaysEmpty`, `LossReportedLast` and
  `NoLaneOutlivesSession`, all from `PlaneInv`, whose parts say who still owes what: from its entry
  on, a request that got nothing is in a table that somebody will still drain (`EntriesServed`); a
  registered lane of a closed session is closed, or is in the hands of a closer, a reader or a sweep
  (`LanesAccounted`); a reader that ended has pushed its last event, and the report of the loss
  stands alone or is its next step (`ReportsFinal`). What makes it inductive is who may be closing
  what and what that thread has closed by then (`ClosersInStep`), and that no two requests have one
  identifier (`CallsApart`).
- `HelperProofs`. `SurfaceHandle`: `HandleInStep` is inductive as it stands with the types of the two
  records; its lemma is that both sides apply the same rule to equal mappings. `PythonHandle`:
  `RequestsUseOpenHandles`, by `GuardsMatch` (a guard is held by exactly the request that took it
  until its function ends). `MediaPipeline`: `NoLostWakeup` is a matter of counting, so its proof
  restates it with the number of threads at each place (`WakeCounts`): every method that makes a
  packet or a place available moves one sleeper, if there is one, to where it takes it, and a thread
  that leaves that place has taken one. `SenderContinues` follows from `SequenceInv`: wherever a packet is,
  with an encoder, in the queue, with a worker or in transport, the sender that numbered it is at or
  beyond it (`NumberedBy`), and so is the one that numbered the last identifier of the track; whether
  sends merge before, during or after a recovery does not matter. `VideoRate`:
  `DeliveredKeepsTarget`, because a target is the configured rate, the minimum or whole steps
  (`TargetInSteps`), which quantizing again does not lower.
- `SceneProofs`, on the requests that may fail. `SceneInStep` is inductive once it is said of the
  middle of a transaction too (`SceneKnown`). `PaneLeavesNothing`: `PaneHolds` says for each point of
  the programs of `present` and `clear` exactly what the presenter holds there, the way an annotated
  program is proved. `SlotsNameLiveTracks`, `OneIncarnation` and `ReportedIsShown` of a desktop: the
  fields of the object are of one connection in every state and not only between calls
  (`HeldTogether`), so are the locals of a call as far as it has got (`LocalsTogether`), a call on
  the object as it is took over its fields (`LocalsTaken`), video tracks are numbered in the order
  they were made, so the one destroyed is not the one shown (`TracksApart`), and the presenter shows
  what a call bound from its activation on (`ShownSinceActivation`). A call that asks nothing after a
  failed one is told apart from a success.

Only model-checked: liveness (`EverySendReturns`, `EveryWaitReturns`, `AbortWakesWaiters`,
`PlayReaches`, `EveryRequestReturns`, `CloseFreesLaneCallers`, `CallsReturn`, `LaneLossDisarms`,
`IdleLinkRecovers`), because fairness and `ENABLED` are beyond the prover. The properties of the
violation runs are false and have no theorem.

## 6. What the plan has left

1. Theorems: the modules proved apart are composed only where they are instances of one another
   (`PaneSession` and `DesktopSession` over `SessionObjects`, `ChannelFlow` over `CreditWindow`); an
   abstract specification of a track that `TrackMedia` implements would state its properties together.
2. `play`, `pause`, `wait_track` and the milestones in `TrackMedia`, with the presenter's side of a
   milestone; `send_image` and the bounded event queue of a channel.
3. The media epoch of a `TrackSender`, so that a recovery can be checked against a flush.
4. A composition of `TrackMedia` with the table and readers of `ControlPlane`, in place of the three
   steps that stand for a request now.

## 7. Not modelled, and why

Configuration and handshake are sequential validation and encoding done before any concurrency
exists. The offline backend writes the same records to a file. `wire.rs` is socket I/O; what its
blocking and failing mean is in `ChannelFlow` and `ControlPlane`. `target.rs` and the track builder of
`orch.rs` are pure validation of descriptors and claims. `lib.rs` declares and re-exports. The Python
package validates dataclasses and passes calls to an executor; the Node package drives another
process. The test presenter is not shipped.

Within the components modelled: the validation of configurations, claims, classes and geometry; the
text of diagnostics; the arithmetic of the rate buckets; discovery of the gateway; `ACTIVATE_TRACK` is
taken to name the complete set of slots, and the milestones it may require are on the presenter's
side. `PaneSession` and `DesktopSession` each run alone on their session.
