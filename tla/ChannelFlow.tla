------------------------------ MODULE ChannelFlow ------------------------------
(***************************************************************************)
(* The flow control and the shutdown of one track channel: application     *)
(* threads that send on clones of the channel or wait for its capacity,    *)
(* the reverse reader that publishes MAX_CHANNEL_DATA, the registration of *)
(* the flow with the session's lifecycle, and the threads that close that  *)
(* lifecycle.  Forward is the socket the media is written to, reverse the  *)
(* one the presenter returns capacity on; each holds a bounded number of   *)
(* records, and a write to a full one blocks.                              *)
(*                                                                         *)
(* A step is one critical section.  HeldInTransport names the locks that a *)
(* sender still holds while its write may block; every step that takes one *)
(* of them waits for it.                                                   *)
(***************************************************************************)
EXTENDS Integers, Sequences

CONSTANTS
  Senders,        \* threads sending on the channel
  Waiters,        \* threads in wait_for_reusable_media_capacity
  Closers,        \* threads that close the session's lifecycle
  Sizes,          \* body lengths, each at most the channel's maximum record body
  WindowBytes,    \* CHANNEL_ACCEPTED maximum_body_bytes
  WindowRecords,  \* CHANNEL_ACCEPTED maximum_media_records
  MaxSends,       \* bound: sends begun in a behaviour
  ForwardRoom,    \* bound: records the forward socket buffers
  ReverseRoom     \* bound: records the reverse socket buffers

ASSUME FlowAssumption ==
  /\ Sizes \subseteq Nat
  /\ WindowBytes \in Nat /\ WindowRecords \in Nat
  /\ MaxSends \in Nat /\ ForwardRoom \in Nat /\ ReverseRoom \in Nat

VARIABLES
  session,     \* SessionLifecycle.closed
  opener,      \* the thread registering this flow in track_flows
  closer,      \* per closer: its progress through SessionLifecycle::close
  flow,        \* FlowLocal: what was charged, the maxima, closed
  sender,      \* per sender: the send it is in
  waiter,      \* per waiter: the wait it is in
  begun,       \* sends begun, to bound them
  forward,     \* records written and not yet read by the presenter, each as
               \* the bytes and records written up to and including it
  reverse,     \* MAX_CHANNEL_DATA written and not yet read by the reader
  reader,      \* the reverse reader thread
  link,        \* the channel's transport
  presenter,   \* what the presenter has read, freed and granted
  controller,  \* an application thread that queries the track, then plays it
  returned     \* history: what sends that returned Ok had charged

threadVars == <<opener, closer, sender, waiter, reader, controller>>
wireVars   == <<forward, reverse, link, presenter>>
vars == <<session, flow, begun, returned, threadVars, wireVars>>

Credit == INSTANCE CreditWindow WITH
            sent <- flow.sent, freed <- presenter.freed,
            granted <- presenter.granted, closed <- flow.closed

Amounts == Credit!Amounts
Nothing == [bytes |-> 0, records |-> 0]
-----------------------------------------------------------------------------
\* ChannelFlow::admit and ChannelFlow::raise_maxima of the protocol crate.
Charged(amount, size) == Credit!Charged(amount, size)

\* Mutant of Fits: only the body bytes are compared.
FitsBytes(charged, maximum) == charged.bytes <= maximum.bytes

Fits(charged, maximum) == Credit!AtMost(charged, maximum)

Larger(a, b) == IF a < b THEN b ELSE a

\* Mutant of Raised: the cumulative maxima taken as an increment.
RaisedBy(maximum, received) == Credit!Sum(maximum, received)

Raised(maximum, received) ==
  [bytes   |-> Larger(maximum.bytes, received.bytes),
   records |-> Larger(maximum.records, received.records)]

\* Mutant of Required: the window left out of what must have been granted.
RequiredSent(sent) == sent

\* wait_for_reusable_media_capacity: the maxima that prove sent was freed.
Required(sent) == Credit!Sum(Credit!Window, sent)

\* Mutants of HeldInTransport: the flow or the sequence lock kept as well.
HeldWithFlow     == {"send_order", "flow"}
HeldWithSequence == {"send_order", "sequence"}

\* Locks held by write_charged_record while write_record may block.
HeldInTransport == {"send_order"}

LockFree(l) ==
  l \in HeldInTransport => \A s \in Senders : sender[s].at # "transport"

\* send_order is taken before the rate limiter and held to the end of the send.
SendOrderFree == \A s \in Senders : sender[s].at \in {"idle", "queued"}

Awake(s) == IF s.at = "asleep" THEN [s EXCEPT !.at = "admitting"] ELSE s

\* Mutant of NotifyAll: the condition variable is not signalled.
NotifyNobody == UNCHANGED <<sender, waiter>>

\* Condvar::notify_all on FlowSync.changed.
NotifyAll ==
  /\ sender' = [s \in Senders |-> Awake(sender[s])]
  /\ waiter' = [w \in Waiters |->
       IF waiter[w].at = "asleep" THEN [waiter[w] EXCEPT !.at = "woken"]
       ELSE waiter[w]]

\* Under the flow lock: closed, diagnostic, notify_all.
CloseFlow ==
  /\ flow' = [flow EXCEPT !.closed = TRUE]
  /\ NotifyAll
-----------------------------------------------------------------------------
SenderIdle == [at |-> "idle", size |-> 0]
WaiterIdle == [at |-> "idle", required |-> Nothing, handed |-> Nothing]

Init ==
  /\ session = [closed |-> FALSE]
  /\ opener = "start"
  /\ closer = [k \in Closers |-> "idle"]
  /\ flow = [sent |-> Nothing, maximum |-> Credit!Window, closed |-> FALSE]
  /\ sender = [s \in Senders |-> SenderIdle]
  /\ waiter = [w \in Waiters |-> WaiterIdle]
  /\ begun = 0
  /\ forward = <<>>
  /\ reverse = <<>>
  /\ reader = "off"
  /\ link = "up"
  /\ presenter = [mode |-> "paused", read |-> Nothing, freed |-> Nothing,
                  granted |-> Credit!Window, granting |-> FALSE]
  /\ controller = "idle"
  /\ returned = Nothing
-----------------------------------------------------------------------------
(* The flow's registration against the closing of the lifecycle. *)

\* register_track_flow, first ensure_active.
OpenChecks ==
  /\ opener = "start"
  /\ opener' = IF session.closed THEN "refused" ELSE "checked"
  /\ UNCHANGED <<session, flow, begun, returned, closer, sender, waiter, reader,
                 controller, wireVars>>

\* track_flows is locked.
OpenLocks ==
  /\ opener = "checked"
  /\ opener' = "locked"
  /\ UNCHANGED <<session, flow, begun, returned, closer, sender, waiter, reader,
                 controller, wireVars>>

\* Mutant of OpenRegisters: the check under the lock is dropped.
OpenRegistersUnchecked ==
  /\ opener = "locked"
  /\ opener' = "open" /\ reader' = "running"
  /\ UNCHANGED <<session, flow, begun, returned, closer, sender, waiter,
                 controller, wireVars>>

\* Second ensure_active, push, unlock; establish then spawns the reader.
OpenRegisters ==
  /\ opener = "locked"
  /\ IF session.closed
     THEN opener' = "refused" /\ UNCHANGED reader
     ELSE opener' = "open" /\ reader' = "running"
  /\ UNCHANGED <<session, flow, begun, returned, closer, sender, waiter,
                 controller, wireVars>>

\* SessionLifecycle::close (abort, close, drop, end of the control reader).
CloseStores(k) ==
  /\ closer[k] = "idle"
  /\ closer' = [closer EXCEPT ![k] = "stored"]
  /\ session' = [session EXCEPT !.closed = TRUE]
  /\ UNCHANGED <<flow, begun, returned, opener, sender, waiter, reader,
                 controller, wireVars>>

\* The registered flows are closed under the track_flows lock.
CloseFlows(k) ==
  /\ closer[k] = "stored"
  /\ opener # "locked"
  /\ closer' = [closer EXCEPT ![k] = "done"]
  /\ IF opener = "open"
     THEN LockFree("flow") /\ CloseFlow
     ELSE UNCHANGED <<flow, sender, waiter>>
  /\ UNCHANGED <<session, begun, returned, opener, reader, controller, wireVars>>

\* close_track_flow and TrackChannel::close: this channel only.
Retire ==
  /\ opener = "open" /\ ~flow.closed /\ LockFree("flow")
  /\ CloseFlow
  /\ UNCHANGED <<session, begun, returned, opener, closer, reader, controller,
                 wireVars>>
-----------------------------------------------------------------------------
(* A media send. *)

Moves(s, at) == sender' = [sender EXCEPT ![s].at = at]
Returns(s)   == sender' = [sender EXCEPT ![s] = SenderIdle]

Refused == session.closed \/ flow.closed

BeginSend(s) ==
  /\ opener = "open" /\ ~session.closed
  /\ sender[s].at = "idle" /\ begun < MaxSends
  /\ \E size \in Sizes : sender' = [sender EXCEPT ![s] = [at |-> "queued", size |-> size]]
  /\ begun' = begun + 1
  /\ UNCHANGED <<session, flow, returned, opener, closer, waiter, reader,
                 controller, wireVars>>

TakeSendOrder(s) ==
  /\ sender[s].at = "queued" /\ SendOrderFree
  /\ Moves(s, "limiting")
  /\ UNCHANGED <<session, flow, begun, returned, opener, closer, waiter, reader,
                 controller, wireVars>>

\* wait_for_rate: a size within the burst passes after some time, unless closed.
PassRate(s) ==
  /\ sender[s].at = "limiting" /\ LockFree("flow")
  /\ IF Refused THEN Returns(s) ELSE Moves(s, "admitting")
  /\ UNCHANGED <<session, flow, begun, returned, opener, closer, waiter, reader,
                 controller, wireVars>>

\* One turn of write_charged_record's loop, under the flow lock.
Admit(s) ==
  /\ sender[s].at = "admitting" /\ LockFree("flow")
  /\ LET charged == Charged(flow.sent, sender[s].size) IN
     \/ Refused /\ Returns(s) /\ UNCHANGED flow
     \/ /\ ~Refused /\ Fits(charged, flow.maximum)
        /\ Moves(s, "transport")
        /\ flow' = [flow EXCEPT !.sent = charged]
     \/ /\ ~Refused /\ ~Fits(charged, flow.maximum)
        /\ Moves(s, "asleep") /\ UNCHANGED flow
  /\ UNCHANGED <<session, begun, returned, opener, closer, waiter, reader,
                 controller, wireVars>>

\* write_record returns: Ok once the socket took the record.
TransportWrite(s) ==
  /\ sender[s].at = "transport"
  /\ link = "up" /\ Len(forward) < ForwardRoom
  /\ Returns(s)
  /\ returned' = Charged(returned, sender[s].size)
  /\ forward' = Append(forward, returned')
  /\ UNCHANGED <<session, flow, begun, opener, closer, waiter, reader,
                 controller, reverse, link, presenter>>

\* write_record fails: the charge stays.
TransportFails(s) ==
  /\ sender[s].at = "transport" /\ link = "down"
  /\ Returns(s)
  /\ UNCHANGED <<session, flow, begun, returned, opener, closer, waiter, reader,
                 controller, wireVars>>
-----------------------------------------------------------------------------
(* wait_for_reusable_media_capacity. *)

\* One turn of the wait's loop, under the flow lock.
WaitTurn(wait) ==
  IF Refused THEN WaiterIdle
  ELSE [wait EXCEPT !.at = IF Fits(wait.required, flow.maximum) THEN "reusable" ELSE "asleep"]

BeginWait(w) ==
  /\ opener = "open" /\ LockFree("flow")
  /\ waiter[w].at \notin {"asleep", "woken"}
  /\ waiter' = [waiter EXCEPT ![w] =
       WaitTurn([at |-> "woken", required |-> Required(flow.sent), handed |-> returned])]
  /\ UNCHANGED <<session, flow, begun, returned, opener, closer, sender, reader,
                 controller, wireVars>>

Recheck(w) ==
  /\ waiter[w].at = "woken" /\ LockFree("flow")
  /\ waiter' = [waiter EXCEPT ![w] = WaitTurn(waiter[w])]
  /\ UNCHANGED <<session, flow, begun, returned, opener, closer, sender, reader,
                 controller, wireVars>>
-----------------------------------------------------------------------------
(* The reverse reader. *)

\* Mutant of ReceiveGrant: the credit wakes the sends and not the barrier waits.
ReceiveGrantForSends ==
  /\ reader = "running" /\ reverse # <<>> /\ LockFree("flow")
  /\ flow' = [flow EXCEPT !.maximum = Raised(flow.maximum, Head(reverse))]
  /\ sender' = [s \in Senders |-> Awake(sender[s])]
  /\ reverse' = Tail(reverse)
  /\ UNCHANGED <<session, begun, returned, opener, closer, waiter, reader, controller,
                 forward, link, presenter>>

\* MAX_CHANNEL_DATA.
ReceiveGrant ==
  /\ reader = "running" /\ reverse # <<>> /\ LockFree("flow")
  /\ flow' = [flow EXCEPT !.maximum = Raised(flow.maximum, Head(reverse))]
  /\ NotifyAll
  /\ reverse' = Tail(reverse)
  /\ UNCHANGED <<session, begun, returned, opener, closer, reader, controller,
                 forward, link, presenter>>

\* Mutant of ReaderEnds: the reader returns without closing its flow.
ReaderEndsSilently ==
  /\ reader = "running" /\ link = "down"
  /\ reader' = "ended"
  /\ UNCHANGED <<session, flow, begun, returned, opener, closer, sender, waiter,
                 controller, wireVars>>

\* read_record fails: the thread closes the flow and returns.
ReaderEnds ==
  /\ reader = "running" /\ link = "down" /\ LockFree("flow")
  /\ reader' = "ended"
  /\ CloseFlow
  /\ UNCHANGED <<session, begun, returned, opener, closer, controller, wireVars>>

LinkLost ==
  /\ link = "up"
  /\ link' = "down"
  /\ UNCHANGED <<session, flow, begun, returned, threadVars, forward, reverse,
                 presenter>>
-----------------------------------------------------------------------------
(* The presenter, from how the SDK relies on it.  It serves one thing at a  *)
(* time: while it writes MAX_CHANNEL_DATA it does not read media.           *)

PresenterReads ==
  /\ presenter.mode # "stalled" /\ ~presenter.granting /\ forward # <<>>
  /\ presenter' = [presenter EXCEPT !.read = Head(forward)]
  /\ forward' = Tail(forward)
  /\ UNCHANGED <<session, flow, begun, returned, threadVars, reverse, link>>

PresenterFrees ==
  /\ presenter.mode # "stalled" /\ ~presenter.granting
  /\ presenter.read # presenter.freed
  /\ presenter' = [presenter EXCEPT !.freed = presenter.read, !.granting = TRUE]
  /\ UNCHANGED <<session, flow, begun, returned, threadVars, forward, reverse, link>>

PresenterGrants ==
  /\ presenter.mode # "stalled" /\ presenter.granting
  /\ link = "up" /\ Len(reverse) < ReverseRoom
  /\ LET maximum == Credit!Sum(Credit!Window, presenter.freed) IN
     /\ presenter' = [presenter EXCEPT !.granted = maximum, !.granting = FALSE]
     /\ reverse' = Append(reverse, maximum)
  /\ UNCHANGED <<session, flow, begun, returned, threadVars, forward, link>>

PresenterStalls ==
  /\ presenter.mode # "stalled"
  /\ presenter' = [presenter EXCEPT !.mode = "stalled"]
  /\ UNCHANGED <<session, flow, begun, returned, threadVars, forward, reverse, link>>

Presenter == PresenterReads \/ PresenterFrees \/ PresenterGrants
-----------------------------------------------------------------------------
(* A thread that queries the track and, seeing it paused, plays it. *)

QueryAnswered ==
  /\ controller = "idle" /\ opener = "open" /\ ~session.closed
  /\ controller' = "answered"
  /\ UNCHANGED <<session, flow, begun, returned, opener, closer, sender, waiter,
                 reader, wireVars>>

\* query_track's reconcile_status, under the media sequence lock.
Reconciles ==
  /\ controller = "answered" /\ LockFree("sequence")
  /\ controller' = "reconciled"
  /\ UNCHANGED <<session, flow, begun, returned, opener, closer, sender, waiter,
                 reader, wireVars>>

\* Session::play; it fails once the session is closed.
Plays ==
  /\ controller = "reconciled"
  /\ controller' = IF session.closed THEN "failed" ELSE "played"
  /\ presenter' = IF ~session.closed /\ presenter.mode = "paused"
                  THEN [presenter EXCEPT !.mode = "reading"] ELSE presenter
  /\ UNCHANGED <<session, flow, begun, returned, opener, closer, sender, waiter,
                 reader, forward, reverse, link>>
-----------------------------------------------------------------------------
Opener        == OpenChecks \/ OpenLocks \/ OpenRegisters
SenderStep(s) == \/ TakeSendOrder(s) \/ PassRate(s) \/ Admit(s)
                 \/ TransportWrite(s) \/ TransportFails(s)
Reader        == ReceiveGrant \/ ReaderEnds
Controller    == Reconciles \/ Plays

Next ==
  \/ Opener
  \/ \E k \in Closers : CloseStores(k) \/ CloseFlows(k)
  \/ Retire
  \/ \E s \in Senders : BeginSend(s) \/ SenderStep(s)
  \/ \E w \in Waiters : BeginWait(w) \/ Recheck(w)
  \/ Reader
  \/ LinkLost
  \/ Presenter \/ PresenterStalls
  \/ QueryAnswered \/ Controller

Spec == Init /\ [][Next]_vars

\* Threads that can run do run.  Nothing obliges an application to begin a
\* send, a wait or a shutdown, and a fault need not happen.  A presenter that
\* has neither stalled nor paused keeps serving the channel.
Fairness ==
  /\ WF_vars(Opener)
  /\ \A k \in Closers : WF_vars(CloseFlows(k))
  /\ \A s \in Senders : WF_vars(SenderStep(s))
  /\ \A w \in Waiters : WF_vars(Recheck(w))
  /\ WF_vars(Reader)
  /\ WF_vars(presenter.mode = "reading" /\ Presenter)
  /\ WF_vars(Controller)

FairSpec == Spec /\ Fairness
-----------------------------------------------------------------------------
(* Properties. *)

FlowState   == [sent : Amounts, maximum : Amounts, closed : BOOLEAN]
SenderState == [at : {"idle", "queued", "limiting", "admitting", "asleep",
                      "transport"}, size : Sizes \union {0}]
WaiterState == [at : {"idle", "woken", "asleep", "reusable"},
                required : Amounts, handed : Amounts]
PresenterState == [mode : {"paused", "reading", "stalled"}, read : Amounts,
                   freed : Amounts, granted : Amounts, granting : BOOLEAN]

\* The type invariant: every record of the state has its fields, and no queue
\* holds more than its socket.
TypeOK ==
  /\ session \in [closed : BOOLEAN]
  /\ opener \in {"start", "checked", "locked", "open", "refused"}
  /\ closer \in [Closers -> {"idle", "stored", "done"}]
  /\ flow \in FlowState
  /\ sender \in [Senders -> SenderState]
  /\ waiter \in [Waiters -> WaiterState]
  /\ begun \in 0..MaxSends
  /\ forward \in Seq(Amounts) /\ Len(forward) <= ForwardRoom
  /\ reverse \in Seq(Amounts) /\ Len(reverse) <= ReverseRoom
  /\ reader \in {"off", "running", "ended"}
  /\ link \in {"up", "down"}
  /\ presenter \in PresenterState
  /\ controller \in {"idle", "answered", "reconciled", "played", "failed"}
  /\ returned \in Amounts

\* The charge, the maxima and closed of one FlowLocal, against the storage the
\* presenter frees, behave as a credit window (admit at channel.rs:737,
\* raise_maxima at channel.rs:982).
CreditSpec == Credit!Spec

\* However sends, waits, credit and closure interleave, the presenter never
\* has to hold more than the window it announced in CHANNEL_ACCEPTED.
WindowRespected ==
  Credit!AtMost(flow.sent, Credit!Sum(Credit!Window, presenter.freed))

\* When wait_for_reusable_media_capacity returns Ok, the presenter has freed
\* everything that sends which had returned before the call had submitted
\* ("every media record already submitted on this channel", channel.rs:304).
ReusableMeansFreed ==
  \A w \in Waiters :
    waiter[w].at = "reusable" => Credit!AtMost(waiter[w].handed, presenter.freed)

\* A flow registered while the session closes is closed too: either the closer
\* finds it in track_flows or the registration sees closed.
NoStrandedFlow ==
  opener = "open" /\ (\E k \in Closers : closer[k] = "done") => flow.closed

\* With a presenter that reads, every send returns: neither a missed wake-up
\* nor a lock kept over a blocked write leaves producer and presenter waiting
\* on each other (comment at channel.rs:741).
EverySendReturns ==
  \A s \in Senders :
    sender[s].at # "idle" /\ presenter.mode # "paused"
      ~> sender[s].at = "idle" \/ presenter.mode = "stalled"

InWait(w) == waiter[w].at \in {"asleep", "woken"}

\* A barrier wait ends once its channel's transport is gone or its flow is closed,
\* and also when the presenter serves the channel: what it waits for is then read,
\* freed and granted, and the grant wakes it, unless the presenter stalls before
\* (wait_for_reusable_media_capacity, channel.rs:308).
EveryWaitReturns ==
  \A w \in Waiters :
    /\ InWait(w) /\ (flow.closed \/ link = "down") ~> ~InWait(w)
    /\ InWait(w) /\ presenter.mode = "reading"
         ~> ~InWait(w) \/ presenter.mode = "stalled"

InFlowWait(s) == sender[s].at \in {"limiting", "admitting", "asleep"}

\* Closing the lifecycle wakes every rate, credit and capacity wait even when
\* the presenter has stalled and another sender is stuck in its write.
AbortWakesWaiters ==
  /\ \A s \in Senders : session.closed /\ InFlowWait(s) ~> ~InFlowWait(s)
  /\ \A w \in Waiters : session.closed /\ InWait(w) ~> ~InWait(w)

\* A thread that queried the track gets to issue PLAY although a media write is
\* blocked by a presenter waiting for that PLAY (test at channel.rs:1180).
PlayReaches ==
  controller = "answered" ~> controller \in {"played", "failed"}
================================================================================
