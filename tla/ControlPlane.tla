---------------------------- MODULE ControlPlane ----------------------------
(***************************************************************************)
(* Requests, replies and events of a live session.  The control connection *)
(* and every interactive lane have the same machinery: a table of pending  *)
(* requests, a bounded queue of events, a closed flag, and one thread that *)
(* reads the connection.  SessionLifecycle ties them together: whoever     *)
(* closes it closes the lanes that are registered with it.                 *)
(*                                                                         *)
(* A plane is the control connection or a lane.  The flows, which the      *)
(* lifecycle closes too, are in ChannelFlow.                               *)
(*                                                                         *)
(* Sockets have no state of their own: a record is written when the        *)
(* presenter takes it (a blocked write is one that is not taken yet), and  *)
(* one the presenter sends is read at once or is not sent yet.             *)
(***************************************************************************)
EXTENDS Integers, Sequences, FiniteSets

CONSTANTS
  Callers,      \* application threads
  Control,      \* the control connection
  Lanes,        \* interactive lanes
  None,         \* no thread, no lane
  MaxEvents,    \* MAX_CONTROL_EVENTS and MAX_INPUT_EVENTS
  MaxRequests   \* bound: requests on one plane

ASSUME PlaneAssumption ==
  /\ Control \notin Lanes \union Callers /\ Lanes \intersect Callers = {}
  /\ None \notin Lanes \union Callers \union {Control}
ASSUME SizeAssumption ==
  MaxEvents \in Nat \ {0} /\ MaxRequests \in Nat

Planes == Lanes \union {Control}
\* The reader of a plane is named by its plane.
Threads == Callers \union Planes

VARIABLES
  up,         \* per plane: the connection carries records
  asked,      \* per plane: requests the presenter has and did not answer
  closed,     \* PendingControl.closed, PendingInput.closed
  requests,   \* the request table: identifiers with a sender
  events,     \* the event queue
  reader,     \* per plane: where its reader thread is
  nextId,     \* next_request_id
  lifecycle,  \* SessionLifecycle.closed
  lanes,      \* SessionLifecycle.input_lanes
  sweep,      \* who holds that registry to close its lanes, and which are left
  closing,    \* per thread: its progress in close_input_lane
  call,       \* per caller: the call it is in
  session     \* the application owns the Session

vars == <<up, asked, closed, requests, events, reader,
          nextId, lifecycle, lanes, sweep, closing, call, session>>
wires == <<up, asked>>

\* The last one is for GOODBYE.
Ids == 1 .. MaxRequests + 1
NoCall == [op |-> "none", at |-> "idle", plane |-> Control, id |-> 0, got |-> "nothing"]
NotClosing == [lane |-> None, step |-> "none"]

\* Calls that borrow the Session, and those that need it exclusively.
SessionOps == {"request", "open", "abort", "close"}
Exclusive == {"abort", "close"}
-----------------------------------------------------------------------------
Init ==
  /\ up = [p \in Planes |-> TRUE]
  /\ asked = [p \in Planes |-> {}]
  /\ closed = [p \in Planes |-> FALSE]
  /\ requests = [p \in Planes |-> {}]
  /\ events = [p \in Planes |-> <<>>]
  /\ reader = [p \in Planes |-> IF p = Control THEN "reading" ELSE "none"]
  /\ nextId = [p \in Planes |-> 1]
  /\ lifecycle = FALSE
  /\ lanes = {}
  /\ sweep = [by |-> None, left |-> {}]
  /\ closing = [t \in Threads |-> NotClosing]
  /\ call = [c \in Callers |-> NoCall]
  /\ session = TRUE

At(c, at) == call[c].at = at
Moves(c, at) == call' = [call EXCEPT ![c].at = at]

\* close consumes the Session.
Returns(c) ==
  /\ session' = (session /\ call[c].op # "close")
  /\ call' = [call EXCEPT ![c] = NoCall]

\* A fresh mpsc channel is made for the request, and its identifier taken.
Enters(c, op, p) ==
  /\ call' = [call EXCEPT ![c] = [op |-> op, at |-> "inserting", plane |-> p,
                                  id |-> nextId[p], got |-> "nothing"]]
  /\ nextId' = [nextId EXCEPT ![p] = @ + 1]

\* Borrow checking: &self calls overlap, &mut self calls do not.
MayBorrow(c, op) ==
  /\ session
  /\ \A d \in Callers \ {c} :
       call[d].op \in SessionOps => {op, call[d].op} \intersect Exclusive = {}
-----------------------------------------------------------------------------
\* Session::request_ok and Session::request, with next_request.
RequestStarts(c) ==
  /\ At(c, "idle") /\ MayBorrow(c, "request") /\ ~closed[Control]
  /\ nextId[Control] <= MaxRequests
  /\ Enters(c, "request", Control)
  /\ UNCHANGED <<wires, closed, requests, events, reader, lifecycle, lanes, sweep,
                 closing, session>>

\* InputLane::set_binding up to its request table.
SetBindingStarts(c, l) ==
  /\ At(c, "idle") /\ reader[l] # "none" /\ ~lifecycle /\ ~closed[l]
  /\ nextId[l] <= MaxRequests
  /\ Enters(c, "bind", l)
  /\ UNCHANGED <<wires, closed, requests, events, reader, lifecycle, lanes, sweep,
                 closing, session>>

\* Mutant: the flag is not read again under the lock of the table.
InsertsUnchecked(c) ==
  /\ At(c, "inserting")
  /\ requests' = [requests EXCEPT ![call[c].plane] = @ \union {call[c].id}]
  /\ Moves(c, "writing")
  /\ UNCHANGED <<wires, closed, events, reader, nextId, lifecycle, lanes, sweep,
                 closing, session>>

\* Under the lock of the table the flag is read again: an entry made before the
\* table is drained is drained, and none is made after.
Inserts(c) ==
  LET p == call[c].plane IN
  /\ At(c, "inserting")
  /\ \/ closed[p] /\ Returns(c) /\ UNCHANGED requests
     \/ /\ ~closed[p]
        /\ requests' = [requests EXCEPT ![p] = @ \union {call[c].id}]
        /\ Moves(c, "writing")
        /\ UNCHANGED session
  /\ UNCHANGED <<wires, closed, events, reader, nextId, lifecycle, lanes, sweep,
                 closing>>

\* A reader in its loop; nobody reads what is answered after it ends.
Listening == {"reading", "ponging", "pushing"}

\* The write blocks until the presenter takes the record.
Writes(c) ==
  LET p == call[c].plane IN
  /\ At(c, "writing") /\ up[p]
  /\ asked' = IF reader[p] \in Listening
                THEN [asked EXCEPT ![p] = @ \union {call[c].id}] ELSE asked
  /\ Moves(c, "waiting")
  /\ UNCHANGED <<up, closed, requests, events, reader,
                 nextId, lifecycle, lanes, sweep, closing, session>>

\* A write that fails takes its entry out of the table again.
WriteFails(c) ==
  LET p == call[c].plane IN
  /\ At(c, "writing") /\ ~up[p]
  /\ requests' = [requests EXCEPT ![p] = @ \ {call[c].id}]
  /\ Returns(c)
  /\ UNCHANGED <<wires, closed, events, reader, nextId, lifecycle, lanes, sweep,
                 closing>>

\* recv has no timeout.  A reply that is an ERROR or malformed is returned as an
\* error and changes nothing here.
Receives(c) ==
  /\ At(c, "waiting") /\ call[c].plane = Control /\ call[c].got # "nothing"
  /\ Returns(c)
  /\ UNCHANGED <<wires, closed, requests, events, reader, nextId, lifecycle, lanes,
                 sweep, closing>>

\* The same wait in set_binding, which goes on to validate INPUT_BOUND.
BindingReceives(c) ==
  /\ At(c, "waiting") /\ call[c].plane \in Lanes /\ call[c].got # "nothing"
  /\ Returns(c)
  /\ UNCHANGED <<wires, closed, requests, events, reader, nextId, lifecycle, lanes,
                 sweep, closing>>
-----------------------------------------------------------------------------
\* Session::open_input_lane: active when it starts, and again under the lock of
\* the registry once the presenter accepted the lane.
OpenStarts(c, l) ==
  /\ At(c, "idle") /\ MayBorrow(c, "open") /\ ~lifecycle /\ reader[l] = "none"
  /\ \A d \in Callers : call[d].op = "open" => call[d].plane # l
  /\ call' = [call EXCEPT ![c] = [NoCall EXCEPT !.op = "open", !.at = "opening",
                                                !.plane = l]]
  /\ UNCHANGED <<wires, closed, requests, events, reader, nextId, lifecycle, lanes,
                 sweep, closing, session>>

\* Mutant: registered without asking again whether the session is active.
RegistersUnchecked(c) ==
  /\ At(c, "opening") /\ sweep.by = None
  /\ lanes' = lanes \union {call[c].plane}
  /\ reader' = [reader EXCEPT ![call[c].plane] = "reading"]
  /\ Returns(c)
  /\ UNCHANGED <<wires, closed, requests, events, nextId, lifecycle, sweep, closing>>

Registers(c) ==
  /\ At(c, "opening") /\ sweep.by = None
  /\ Returns(c)
  /\ IF lifecycle
       THEN UNCHANGED <<lanes, reader>>
       ELSE /\ lanes' = lanes \union {call[c].plane}
            /\ reader' = [reader EXCEPT ![call[c].plane] = "reading"]
  /\ UNCHANGED <<wires, closed, requests, events, nextId, lifecycle, sweep, closing>>

\* InputLane::close, and its Drop.
LaneCloseStarts(c, l) ==
  /\ At(c, "idle") /\ reader[l] # "none"
  /\ call' = [call EXCEPT ![c] = [NoCall EXCEPT !.op = "closeLane", !.at = "closing",
                                                !.plane = l]]
  /\ closing' = [closing EXCEPT ![c] = [lane |-> l, step |-> "report"]]
  /\ UNCHANGED <<wires, closed, requests, events, reader, nextId, lifecycle, lanes,
                 sweep, session>>

LaneCloseReturns(c) ==
  /\ At(c, "closing") /\ closing[c] = NotClosing
  /\ Returns(c)
  /\ UNCHANGED <<wires, closed, requests, events, reader, nextId, lifecycle, lanes,
                 sweep, closing>>

\* Session::abort and close_inner begin with SessionLifecycle::close.  Dropping the
\* Session is abort by an application that calls it no more.
EndStarts(c, op) ==
  /\ At(c, "idle") /\ op \in Exclusive /\ MayBorrow(c, op)
  /\ lifecycle' = TRUE
  /\ call' = [call EXCEPT ![c] = [NoCall EXCEPT !.op = op, !.at = "sweeping"]]
  /\ UNCHANGED <<wires, closed, requests, events, reader, nextId, lanes, sweep,
                 closing, session>>

\* close_inner goes on with GOODBYE, an ordinary request; abort leaves a Session
\* that can still be closed.
EndSweeps(c) ==
  /\ At(c, "sweeping") /\ sweep.by = c /\ sweep.left = {} /\ closing[c] = NotClosing
  /\ sweep' = [sweep EXCEPT !.by = None]
  /\ \/ /\ call[c].op = "close" /\ ~closed[Control]
        /\ Enters(c, "close", Control)
        /\ UNCHANGED session
     \/ /\ call[c].op # "close" \/ closed[Control]
        /\ Returns(c)
        /\ UNCHANGED nextId
  /\ UNCHANGED <<wires, closed, requests, events, reader, lifecycle, lanes, closing>>
-----------------------------------------------------------------------------
\* SessionLifecycle::close holds the registry while it closes the lanes in it.
Sweeping(t) == IF t \in Callers THEN At(t, "sweeping") ELSE t = Control /\ reader[t] = "sweeping"

\* Mutant: the lanes are forgotten instead of closed.
TakesNothing(t) ==
  /\ Sweeping(t) /\ sweep.by = None
  /\ sweep' = [by |-> t, left |-> {}]
  /\ UNCHANGED <<wires, closed, requests, events, reader, nextId, lifecycle, lanes,
                 closing, call, session>>

TakesRegistry(t) ==
  /\ Sweeping(t) /\ sweep.by = None
  /\ sweep' = [by |-> t, left |-> lanes]
  /\ UNCHANGED <<wires, closed, requests, events, reader, nextId, lifecycle, lanes,
                 closing, call, session>>

ClosesNextLane(t) ==
  /\ sweep.by = t /\ closing[t] = NotClosing
  /\ \E l \in sweep.left :
       /\ sweep' = [sweep EXCEPT !.left = @ \ {l}]
       /\ closing' = [closing EXCEPT ![t] = [lane |-> l, step |-> "report"]]
  /\ UNCHANGED <<wires, closed, requests, events, reader, nextId, lifecycle, lanes,
                 call, session>>

\* Everybody with an entry in the table of p is sent an error.
Drains(p) ==
  /\ requests' = [requests EXCEPT ![p] = {}]
  /\ call' = [c \in Callers |->
       IF call[c].plane = p /\ call[c].id \in requests[p] /\ call[c].got = "nothing"
         THEN [call[c] EXCEPT !.got = "error"] ELSE call[c]]

\* close_input_lane: the flag and the queue, then the table under its lock.  No
\* thread reads both the flag and the queue, so the first two are one step.
LaneReports(t) ==
  LET l == closing[t].lane IN
  /\ closing[t].step = "report"
  /\ closed' = [closed EXCEPT ![l] = TRUE]
  /\ events' = [events EXCEPT ![l] = <<"closed">>]
  /\ closing' = [closing EXCEPT ![t].step = "table"]
  /\ UNCHANGED <<wires, requests, reader, nextId, lifecycle, lanes, sweep, call, session>>

\* Mutant: the table is forgotten without telling its callers.
LaneTableCleared(t) ==
  /\ closing[t].step = "table"
  /\ requests' = [requests EXCEPT ![closing[t].lane] = {}]
  /\ closing' = [closing EXCEPT ![t] = NotClosing]
  /\ UNCHANGED <<wires, closed, events, reader, nextId, lifecycle, lanes, sweep,
                 call, session>>

LaneTable(t) ==
  /\ closing[t].step = "table"
  /\ Drains(closing[t].lane)
  /\ closing' = [closing EXCEPT ![t] = NotClosing]
  /\ UNCHANGED <<wires, closed, events, reader, nextId, lifecycle, lanes, sweep,
                 session>>
-----------------------------------------------------------------------------
ReaderMoves(p, at) == reader' = [reader EXCEPT ![p] = at]
\* Mutant: the reader of a lane ends without close_input_lane.
LoopJustEnds(p) ==
  /\ reader' = [reader EXCEPT ![p] = "ended"]
  /\ closing' = closing

\* How the loop of a reader ends: a lane closes itself, the control reader goes on
\* to close the lifecycle.
LoopEnds(p) ==
  /\ reader' = [reader EXCEPT ![p] = "ended"]
  /\ closing' = IF p \in Lanes THEN [closing EXCEPT ![p] = [lane |-> p, step |-> "report"]]
                ELSE closing

\* A PING is answered by the reader itself, before it reads on.
ReadsPing(p) ==
  /\ reader[p] = "reading" /\ up[p]
  /\ ReaderMoves(p, "ponging")
  /\ UNCHANGED <<wires, closed, requests, events, nextId, lifecycle, lanes, sweep,
                 closing, call, session>>

\* A PONG that cannot be written ends the loop.
Pongs(p) ==
  /\ reader[p] = "ponging"
  /\ \/ up[p] /\ ReaderMoves(p, "reading") /\ UNCHANGED closing
     \/ ~up[p] /\ LoopEnds(p)
  /\ UNCHANGED <<wires, closed, requests, events, nextId, lifecycle, lanes, sweep, call,
                 session>>

\* A reply goes to the entry of its identifier; one without an entry ends the loop.
\* The presenter answers each request once, in any order.
ReadsReply(p) ==
  /\ reader[p] = "reading" /\ up[p]
  /\ \E id \in asked[p] :
       /\ asked' = [asked EXCEPT ![p] = @ \ {id}]
       /\ requests' = [requests EXCEPT ![p] = @ \ {id}]
       /\ IF id \in requests[p]
            THEN /\ call' = [c \in Callers |->
                      IF call[c].plane = p /\ call[c].id = id
                        THEN [call[c] EXCEPT !.got = "reply"] ELSE call[c]]
                 /\ UNCHANGED <<reader, closing>>
            ELSE LoopEnds(p) /\ UNCHANGED call
  /\ UNCHANGED <<up, closed, events, nextId, lifecycle, lanes, sweep, session>>

\* A full queue ends the loop.  Only this thread adds to the queue of the session.
ReadsEvent ==
  /\ reader[Control] = "reading" /\ up[Control]
  /\ IF Len(events[Control]) = MaxEvents
       THEN LoopEnds(Control) /\ UNCHANGED events
       ELSE /\ events' = [events EXCEPT ![Control] = Append(@, "event")]
            /\ UNCHANGED <<reader, closing>>
  /\ UNCHANGED <<wires, closed, requests, nextId, lifecycle, lanes, sweep, call, session>>

\* On a lane another thread may report the lane closed between the decoding of an
\* event and its push, which does not look at the flag.
DecodesInput(l) ==
  /\ l \in Lanes /\ reader[l] = "reading" /\ up[l]
  /\ ReaderMoves(l, "pushing")
  /\ UNCHANGED <<wires, closed, requests, events, nextId, lifecycle, lanes, sweep,
                 closing, call, session>>

Pushes(l) ==
  /\ reader[l] = "pushing"
  /\ IF Len(events[l]) = MaxEvents
       THEN LoopEnds(l) /\ UNCHANGED events
       ELSE /\ events' = [events EXCEPT ![l] = Append(@, "event")]
            /\ ReaderMoves(l, "reading")
            /\ UNCHANGED closing
  /\ UNCHANGED <<wires, closed, requests, nextId, lifecycle, lanes, sweep, call, session>>

ReadsEnd(p) ==
  /\ reader[p] = "reading" /\ ~up[p]
  /\ LoopEnds(p)
  /\ UNCHANGED <<wires, closed, requests, events, nextId, lifecycle, lanes, sweep,
                 call, session>>

\* A record the reader cannot decode or does not expect.
ReadsMalformed(p) ==
  /\ reader[p] = "reading" /\ up[p]
  /\ LoopEnds(p)
  /\ UNCHANGED <<wires, closed, requests, events, nextId, lifecycle, lanes, sweep,
                 call, session>>

LaneReaderStops(l) ==
  /\ l \in Lanes /\ reader[l] = "ended" /\ closing[l] = NotClosing
  /\ ReaderMoves(l, "done")
  /\ UNCHANGED <<wires, closed, requests, events, nextId, lifecycle, lanes, sweep,
                 closing, call, session>>

\* The end of the control reader: its flag, the lifecycle, the queue, the table.
ControlReaderCloses ==
  /\ reader[Control] = "ended"
  /\ closed' = [closed EXCEPT ![Control] = TRUE]
  /\ lifecycle' = TRUE
  /\ ReaderMoves(Control, "sweeping")
  /\ UNCHANGED <<wires, requests, events, nextId, lanes, sweep, closing, call, session>>

ControlReaderSwept ==
  /\ reader[Control] = "sweeping"
  /\ sweep.by = Control /\ sweep.left = {} /\ closing[Control] = NotClosing
  /\ sweep' = [sweep EXCEPT !.by = None]
  /\ ReaderMoves(Control, "draining")
  /\ UNCHANGED <<wires, closed, requests, events, nextId, lifecycle, lanes, closing,
                 call, session>>

\* The queue and the table have a lock each; no thread holds both.
ControlReaderDrains ==
  /\ reader[Control] = "draining"
  /\ events' = [events EXCEPT ![Control] = <<"closed">>]
  /\ Drains(Control)
  /\ ReaderMoves(Control, "done")
  /\ UNCHANGED <<wires, closed, nextId, lifecycle, lanes, sweep, closing, session>>

\* take_event of the session and of a lane.
Takes(p) ==
  /\ events[p] # <<>>
  /\ events' = [events EXCEPT ![p] = Tail(@)]
  /\ UNCHANGED <<wires, closed, requests, reader, nextId, lifecycle, lanes, sweep,
                 closing, call, session>>
-----------------------------------------------------------------------------
\* The connection ends.
Breaks(p) ==
  /\ up[p] /\ reader[p] \in Listening
  /\ up' = [up EXCEPT ![p] = FALSE]
  /\ asked' = [asked EXCEPT ![p] = {}]
  /\ UNCHANGED <<closed, requests, events, reader, nextId, lifecycle, lanes, sweep,
                 closing, call, session>>
-----------------------------------------------------------------------------
\* What a caller does inside a call without the presenter.
CallStep(c) ==
  \/ Inserts(c) \/ WriteFails(c) \/ Receives(c) \/ BindingReceives(c)
  \/ Registers(c) \/ LaneCloseReturns(c) \/ EndSweeps(c)

\* What a thread does inside SessionLifecycle::close and close_input_lane.
CloseStep(t) ==
  \/ TakesRegistry(t) \/ ClosesNextLane(t)
  \/ LaneReports(t) \/ LaneTable(t)

\* What a reader does without the presenter.
ReaderStep(p) == Pushes(p) \/ ReadsEnd(p) \/ LaneReaderStops(p)

ControlReaderStep ==
  ControlReaderCloses \/ ControlReaderSwept \/ ControlReaderDrains

\* What takes a presenter that reads, or one that sends.
Exchange ==
  \/ \E c \in Callers : Writes(c)
  \/ \E p \in Planes : Pongs(p) \/ ReadsReply(p) \/ ReadsPing(p) \/ ReadsMalformed(p)
  \/ ReadsEvent \/ \E l \in Lanes : DecodesInput(l)

Starts(c) ==
  \/ RequestStarts(c)
  \/ \E l \in Lanes : SetBindingStarts(c, l) \/ OpenStarts(c, l) \/ LaneCloseStarts(c, l)
  \/ \E op \in Exclusive : EndStarts(c, op)

Next ==
  \/ \E c \in Callers : Starts(c) \/ CallStep(c)
  \/ \E t \in Threads : CloseStep(t)
  \/ \E p \in Planes : ReaderStep(p) \/ Takes(p) \/ Breaks(p)
  \/ Exchange \/ ControlReaderStep

Spec == Init /\ [][Next]_vars

\* The threads of the SDK are scheduled and the application takes its events; the
\* presenter is owed nothing.
FairSpec ==
  /\ Spec
  /\ \A c \in Callers : WF_vars(CallStep(c))
  /\ \A t \in Threads : WF_vars(CloseStep(t))
  /\ \A p \in Planes : WF_vars(ReaderStep(p)) /\ WF_vars(Takes(p))
  /\ WF_vars(ControlReaderStep)
-----------------------------------------------------------------------------
Queues == UNION {[1 .. n -> {"event", "closed"}] : n \in 0 .. MaxEvents}

CallState == [op : SessionOps \union {"none", "bind", "closeLane"},
              at : {"idle", "inserting", "writing", "waiting", "opening",
                    "closing", "sweeping"},
              plane : Planes, id : Ids \union {0}, got : {"nothing", "reply", "error"}]

ClosingState == [lane : Lanes \union {None}, step : {"none", "report", "table"}]

\* Every variable keeps its type: event queues never exceed their bound and
\* identifiers stay within those handed out.
TypeOK ==
  /\ up \in [Planes -> BOOLEAN] /\ closed \in [Planes -> BOOLEAN]
  /\ asked \in [Planes -> SUBSET Ids] /\ requests \in [Planes -> SUBSET Ids]
  /\ events \in [Planes -> Queues]
  /\ reader \in [Planes -> {"none", "reading", "ponging", "pushing",
                            "ended", "sweeping", "draining", "done"}]
  /\ nextId \in [Planes -> 1 .. MaxRequests + 2]
  /\ lifecycle \in BOOLEAN /\ session \in BOOLEAN /\ lanes \subseteq Lanes
  /\ sweep \in [by : Threads \union {None}, left : SUBSET Lanes]
  /\ closing \in [Threads -> ClosingState]
  /\ call \in [Callers -> CallState]

Waits(c) == At(c, "waiting") /\ call[c].got = "nothing"

\* Somebody is still to empty the table of p.
TableOwed(p) ==
  \/ p = Control /\ reader[p] # "done"
  \/ p \in Lanes /\ (~closed[p] \/ \E t \in Threads : closing[t].lane = p)

\* A caller that waits for a reply is in the table of its plane, and the table is
\* still served: by the reader, or by a thread on its way to drain it.  Nobody can
\* be left in recv, which has no timeout, after the last drain (request and
\* set_binding against the ends of the readers and close_input_lane).
NoCallerForgotten ==
  \A c \in Callers :
    Waits(c) => /\ call[c].id \in requests[call[c].plane]
                /\ TableOwed(call[c].plane)

\* Nothing is entered in a table after its last drain.
DrainedStaysEmpty == \A p \in Planes : ~TableOwed(p) => requests[p] = {}

\* Once its reader has ended and nobody else is closing it, a plane has told its
\* application so, and nothing stands behind that event in the queue: for the
\* control connection for ever, for a lane although close and the lifecycle may
\* report it closed while its reader still pushes events.
LossReportedLast ==
  \A p \in Planes :
    (reader[p] = "done" /\ \A t \in Threads : closing[t].lane # p)
      => events[p] \in {<<>>, <<"closed">>}

\* A session that is closed has no open lane: one that registers while another
\* thread closes the lifecycle is either seen by it or refused.
NoLaneOutlivesSession ==
  (lifecycle /\ sweep.by = None /\ \A t \in Threads : closing[t] = NotClosing /\ ~Sweeping(t))
    => \A l \in lanes : closed[l]

\* Every request ends, if the presenter reads, and answers or hangs up.
PresenterServes ==
  /\ \A c \in Callers : WF_vars(Writes(c))
  /\ \A p \in Planes : WF_vars(Pongs(p)) /\ SF_vars(ReadsReply(p))
EveryRequestReturns ==
  PresenterServes => \A c \in Callers : ~At(c, "idle") ~> At(c, "idle")

\* Whatever the presenter does, a caller that waits for a reply on a lane is freed
\* when the session is closed.
CloseFreesLaneCallers ==
  \A c \in Callers :
    (lifecycle /\ At(c, "waiting") /\ call[c].plane \in Lanes) ~> ~At(c, "waiting")
-----------------------------------------------------------------------------
(* The strengthening that makes the safety properties inductive.           *)

\* Between the choice of an identifier and the end of the call.
Requesting(c) == call[c].at \in {"inserting", "writing", "waiting"}

\* Where a call can be, by what it is doing.
CallsInOrder ==
  \A c \in Callers :
    /\ call[c].op \in SessionOps => session
    /\ At(c, "idle") => call[c].op = "none"
    /\ Requesting(c) => call[c].id \in 1 .. nextId[call[c].plane] - 1
    /\ At(c, "opening") => /\ call[c].op = "open" /\ call[c].plane \in Lanes
                           /\ reader[call[c].plane] = "none"
    /\ At(c, "sweeping") => call[c].op \in Exclusive

\* The borrow checker, one open of a lane at a time, one identifier per request.
CallsApart ==
  \A c, d \in Callers : c # d =>
    /\ {call[c].op, call[d].op} \subseteq SessionOps =>
         {call[c].op, call[d].op} \intersect Exclusive = {}
    /\ At(c, "opening") /\ At(d, "opening") => call[c].plane # call[d].plane
    /\ Requesting(c) /\ Requesting(d) /\ call[c].plane = call[d].plane =>
         call[c].id # call[d].id

\* The identifier beyond the bound is the one of GOODBYE, which is sent once.
IdsBounded ==
  /\ \A l \in Lanes : nextId[l] <= MaxRequests + 1
  /\ \/ nextId[Control] <= MaxRequests + 1
     \/ ~session
     \/ \E c \in Callers : Requesting(c) /\ call[c].op = "close"

\* Who may be closing what, and what it has closed.
ClosersInStep ==
  /\ sweep.by # None => Sweeping(sweep.by)
  /\ \A c \in Callers : closing[c] # NotClosing => call[c].at \in {"closing", "sweeping"}
  /\ \A l \in Lanes :
       closing[l] # NotClosing => closing[l].lane = l /\ reader[l] = "ended"
  /\ closing[Control] # NotClosing => reader[Control] = "sweeping"
  /\ \A t \in Threads :
       \/ closing[t] = NotClosing
       \/ /\ closing[t].lane \in Lanes /\ closing[t].step \in {"report", "table"}
          /\ closing[t].step = "table" => closed[closing[t].lane]
  /\ reader[Control] \in {"sweeping", "draining", "done"} => closed[Control]

\* From its entry on, a request that got nothing is in a table somebody empties.
EntriesServed ==
  \A c \in Callers :
    call[c].at \in {"writing", "waiting"} /\ call[c].got = "nothing" =>
      call[c].id \in requests[call[c].plane] /\ TableOwed(call[c].plane)

\* A reader that has ended pushes nothing, and has reported its plane closed
\* unless that report is its next step.
ReportsFinal ==
  /\ \A l \in Lanes : reader[l] \in {"ended", "done"} /\ closing[l].step # "report" =>
       events[l] \in {<<>>, <<"closed">>}
  /\ reader[Control] = "done" => events[Control] \in {<<>>, <<"closed">>}

\* A registered lane of a closed session is closed, or somebody will close it.
LanesAccounted ==
  lifecycle => \A l \in lanes :
    \/ closed[l]
    \/ \E t \in Threads : closing[t].lane = l
    \/ sweep.by # None /\ l \in sweep.left
    \/ \E t \in Threads : Sweeping(t) /\ sweep.by # t

PlaneInv ==
  /\ TypeOK /\ CallsInOrder /\ CallsApart /\ IdsBounded /\ ClosersInStep
  /\ EntriesServed /\ DrainedStaysEmpty /\ ReportsFinal /\ LanesAccounted
=============================================================================
