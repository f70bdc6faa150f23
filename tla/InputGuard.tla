----------------------------- MODULE InputGuard -----------------------------
(***************************************************************************)
(* InputBindingGuard: whether a desktop producer may inject input.  Setter  *)
(* threads enable and disable the binding (advance the epoch, send          *)
(* SET_INPUT_BINDING on the lane, give the answer to handle_bound); one     *)
(* thread takes the events of the lane (renewals, revocations, the loss of  *)
(* the lane).  The guard is behind a mutex, held for each of its methods    *)
(* and not over the request.  Answers and events come on one connection,    *)
(* but an answer goes to its setter and an event to the queue.              *)
(*                                                                          *)
(* The lane is closed by its owner, by the session, or by its reader when   *)
(* the reader ends; the reader of a lane that somebody else closed goes on  *)
(* until then, and closes the lane once more.                               *)
(*                                                                          *)
(* The presenter is external: its renewals count up over the whole lane.    *)
(***************************************************************************)
EXTENDS Naturals, Sequences

CONSTANTS
  Setters,    \* threads that enable and disable the binding
  Watchdog,   \* watchdog of a grant, in ticks
  Absent,     \* no deadline, no grant
  MaxEpoch,   \* bound: epochs
  MaxQueued,  \* bound: events in the queue
  MaxRenewal, \* bound: renewals sent
  MaxTime     \* bound: the clock

ASSUME WatchdogAssumption == Watchdog \in Nat \ {0} /\ Absent \notin Nat
ASSUME GuardBoundsAssumption ==
  MaxEpoch \in Nat /\ MaxQueued \in Nat /\ MaxRenewal \in Nat /\ MaxTime \in Nat

VARIABLES
  guard,      \* InputBindingGuard: epoch, state, grant, deadline, last_renewal_sequence
  ready,      \* DesktopPreconditions, as the application set them last
  change,     \* per setter: the transition it is carrying out
  events,     \* PendingInput.events
  lane,       \* PendingInput.closed is not set; the reader runs; requests are to be drained
  granter,    \* the grant in force there, and the renewals it sent
  now,        \* the monotonic clock
  intent,     \* what the latest epoch asked for: history
  answered    \* the newest epoch whose answer the guard accepted: history

guardVars == <<guard, ready, change, events, lane, granter, now, intent, answered>>

Idle == [phase |-> "idle", epoch |-> 0, enable |-> FALSE, state |-> 0, grant |-> Absent]
Begun(e, on) == [phase |-> "ready", epoch |-> e, enable |-> on, state |-> 0, grant |-> Absent]
Renew(n) == [kind |-> "renew", number |-> n]
RevokedEvent == [kind |-> "revoked", number |-> 0]
LaneClosed == [kind |-> "closed", number |-> 0]

GuardInit ==
  /\ guard = [epoch |-> 0, state |-> "Fresh", grant |-> Absent, deadline |-> Absent, last |-> 0]
  /\ ready = TRUE /\ now = 0
  /\ lane = [open |-> TRUE, reading |-> TRUE, draining |-> FALSE]
  /\ change = [s \in Setters |-> Idle]
  /\ events = <<>>
  /\ granter = [grant |-> Absent, sent |-> 0]
  /\ intent = FALSE /\ answered = 0
-----------------------------------------------------------------------------
Expired == guard.deadline # Absent /\ now >= guard.deadline
Armed == guard.state = "Active" /\ ~Expired

\* release, and what a disable or a refusal does to the state.
Released == [guard EXCEPT !.state = "Inactive", !.grant = Absent, !.deadline = Absent]

\* enable_for_context: a second enable keeps the grant and the deadline of the first.
Enables(s) ==
  /\ change[s] = Idle /\ ready /\ guard.epoch < MaxEpoch
  /\ guard' = [guard EXCEPT !.epoch = @ + 1]
  /\ change' = [change EXCEPT ![s] = Begun(guard.epoch + 1, TRUE)]
  /\ intent' = TRUE
  /\ UNCHANGED <<ready, events, lane, granter, now, answered>>

Disables(s) ==
  /\ change[s] = Idle /\ guard.epoch < MaxEpoch
  /\ guard' = [Released EXCEPT !.epoch = @ + 1]
  /\ change' = [change EXCEPT ![s] = Begun(guard.epoch + 1, FALSE)]
  /\ intent' = FALSE
  /\ UNCHANGED <<ready, events, lane, granter, now, answered>>

\* set_binding: the request goes out, or the lane is closed already.
Sends(s) ==
  /\ change[s].phase = "ready"
  /\ change' = [change EXCEPT ![s] = IF lane.open THEN [@ EXCEPT !.phase = "sent"] ELSE Idle]
  /\ UNCHANGED <<guard, ready, events, lane, granter, now, intent, answered>>

\* set_binding: an ERROR, a status that names another epoch, grants what was not asked
\* for or has no generation, and the loss of the lane are errors; the guard is not told.
BindingFails(s) ==
  /\ change[s].phase = "sent"
  /\ change' = [change EXCEPT ![s] = Idle]
  /\ UNCHANGED <<guard, ready, events, lane, granter, now, intent, answered>>

\* The state of an answer: 0 is disabled, 1 is enabled, 2 is refused; one that grants
\* what was not requested is an error of set_binding.
StatesFor(s) == IF change[s].enable THEN {0, 1, 2} ELSE {0, 2}

\* The reader of the lane finds the request in the table, which a lane that closes has
\* not drained yet.
Binds(s) ==
  /\ change[s].phase = "sent" /\ lane.reading
  /\ \E st \in StatesFor(s) :
       /\ change' = [change EXCEPT ![s].phase = "answered", ![s].state = st,
                               ![s].grant = IF st = 1 THEN change[s].epoch ELSE Absent]
       /\ granter' = [granter EXCEPT !.grant = IF st = 1 THEN change[s].epoch ELSE Absent]
  /\ UNCHANGED <<guard, ready, events, lane, now, intent, answered>>

\* Mutant: handle_bound without its test of the epoch.
HandlesAnyBound(s) ==
  /\ change[s].phase = "answered"
  /\ change' = [change EXCEPT ![s] = Idle]
  /\ guard' = IF change[s].state = 1
                THEN [guard EXCEPT !.state = "Active", !.grant = change[s].grant] ELSE Released
  /\ answered' = IF change[s].epoch > answered THEN change[s].epoch ELSE answered
  /\ UNCHANGED <<ready, events, lane, granter, now, intent>>

\* handle_bound: an answer to an older epoch is an error; a grant keeps the deadline.
HandlesBound(s) ==
  /\ change[s].phase = "answered"
  /\ change' = [change EXCEPT ![s] = Idle]
  /\ \/ /\ change[s].epoch # guard.epoch
        /\ UNCHANGED <<guard, answered>>
     \/ /\ change[s].epoch = guard.epoch
        /\ answered' = guard.epoch
        /\ guard' = IF change[s].state = 1
                      THEN [guard EXCEPT !.state = "Active", !.grant = change[s].grant]
                      ELSE Released
  /\ UNCHANGED <<ready, events, lane, granter, now, intent>>
-----------------------------------------------------------------------------
\* Mutant: handle_renewal takes a renewal that comes after the deadline.
RenewedLate(n) ==
  IF guard.state = "Active" /\ n > guard.last
    THEN [guard EXCEPT !.last = n, !.deadline = now + Watchdog] ELSE guard

\* handle_renewal: of an active grant, in sequence, before the deadline.  Which grant
\* the renewal names is not looked at; one with another watchdog is refused (TakesEvent).
Renewed(n) ==
  IF guard.state = "Active" /\ n > guard.last /\ ~Expired
    THEN [guard EXCEPT !.last = n, !.deadline = now + Watchdog] ELSE guard

\* Mutant: the loss of the lane is only a diagnostic.
HandledKeeping(e) ==
  IF e.kind = "renew" THEN Renewed(e.number) ELSE IF e = LaneClosed THEN guard ELSE Released

\* What the application does with an event: handle_renewal, handle_revocation, release.
Handled(e) == IF e.kind = "renew" THEN Renewed(e.number) ELSE Released

TakesEvent ==
  /\ events # <<>>
  /\ events' = Tail(events)
  /\ \/ guard' = Handled(Head(events))
     \/ Head(events).kind = "renew" /\ UNCHANGED guard
  /\ ready' = (ready /\ Head(events) # LaneClosed)
  /\ UNCHANGED <<change, lane, granter, now, intent, answered>>

\* set_preconditions: the surface, its presentation and the lane come and go.
SetsPreconditions ==
  /\ ready' \in BOOLEAN
  /\ UNCHANGED <<guard, change, events, lane, granter, now, intent, answered>>
-----------------------------------------------------------------------------
\* The reader queues what the presenter sends as long as it runs and there is room,
\* whether the lane was closed meanwhile or not.
RenewsGrant ==
  /\ lane.reading /\ granter.grant # Absent
  /\ granter.sent < MaxRenewal /\ Len(events) < MaxQueued
  /\ granter' = [granter EXCEPT !.sent = @ + 1]
  /\ events' = Append(events, Renew(granter.sent + 1))
  /\ UNCHANGED <<guard, ready, change, lane, now, intent, answered>>

RevokesGrant ==
  /\ lane.reading /\ granter.grant # Absent /\ Len(events) < MaxQueued
  /\ granter' = [granter EXCEPT !.grant = Absent]
  /\ events' = Append(events, RevokedEvent)
  /\ UNCHANGED <<guard, ready, change, lane, now, intent, answered>>

\* close_input_lane: the flag, then LaneClosed in the place of what is queued, then the
\* requests that wait for an answer, which fail.
Closes(reading) ==
  /\ lane' = [open |-> FALSE, reading |-> reading, draining |-> TRUE]
  /\ events' = <<LaneClosed>>
  /\ UNCHANGED <<guard, ready, change, now, intent, answered>>

\* InputLane::close and its Drop, and the lifecycle of the session: each of them, whether
\* another one closed the lane before or not.
ClosesLane == Closes(lane.reading) /\ UNCHANGED granter

\* The reader ends: the transport, a record it does not accept, a full queue.
ReaderEnds ==
  /\ lane.reading /\ Closes(FALSE)
  /\ granter' = [granter EXCEPT !.grant = Absent]

DrainsRequests ==
  /\ lane.draining /\ lane' = [lane EXCEPT !.draining = FALSE]
  /\ change' = [s \in Setters |-> IF change[s].phase = "sent" THEN Idle ELSE change[s]]
  /\ UNCHANGED <<guard, ready, events, granter, now, intent, answered>>

Ticks ==
  /\ now < MaxTime /\ now' = now + 1
  /\ UNCHANGED <<guard, ready, change, events, lane, granter, intent, answered>>

GuardNext ==
  \/ \E s \in Setters : \/ Enables(s) \/ Disables(s) \/ Sends(s)
                        \/ BindingFails(s) \/ Binds(s) \/ HandlesBound(s)
  \/ TakesEvent \/ SetsPreconditions
  \/ RenewsGrant \/ RevokesGrant \/ Ticks
  \/ ClosesLane \/ ReaderEnds \/ DrainsRequests

GuardSpec == GuardInit /\ [][GuardNext]_guardVars

\* The event thread keeps taking events.
GuardFairness == WF_guardVars(TakesEvent)
GuardFairSpec == GuardSpec /\ GuardFairness
-----------------------------------------------------------------------------
Epochs == 0 .. MaxEpoch
Ran(q) == {q[i] : i \in DOMAIN q}

GuardTypeOK ==
  /\ guard \in [epoch : Epochs, state : {"Fresh", "Active", "Inactive"},
                grant : Epochs \union {Absent}, deadline : Nat \union {Absent},
                last : 0 .. MaxRenewal]
  /\ ready \in BOOLEAN /\ intent \in BOOLEAN
  /\ lane \in [open : BOOLEAN, reading : BOOLEAN, draining : BOOLEAN]
  /\ change \in [Setters -> [phase : {"idle", "ready", "sent", "answered"}, epoch : Epochs,
                           enable : BOOLEAN, state : 0 .. 2, grant : Epochs \union {Absent}]]
  /\ events \in Seq([kind : {"renew", "revoked", "closed"}, number : 0 .. MaxRenewal])
  /\ granter \in [grant : Epochs \union {Absent}, sent : 0 .. MaxRenewal]
  /\ now \in 0 .. MaxTime /\ answered \in Epochs
  /\ guard.state = "Active" <=> guard.grant # Absent
  /\ guard.deadline # Absent => guard.state = "Active"

\* The grant in force is the newest one that was accepted, and after a disable there is
\* none until a later enable, in whatever order two setters hand over their answers
\* (InputBindingGuard::handle_bound, InputBindingGuard::disable).
NewestGrantOnly ==
  /\ guard.state = "Active" => guard.grant = answered
  /\ ~intent => guard.state # "Active"

\* A grant whose watchdog ran out is not armed again by a renewal that comes late: it
\* takes a release first (the comment in InputBindingGuard::handle_renewal).
ExpiredNeverRearmed ==
  [][(guard.state = "Active" /\ Expired) => ~Armed']_guardVars

\* Lane loss never recreates an old grant (the comment on open_input_lane): once LaneClosed
\* was queued, no grant accepted before that stays in force or comes back, not by a renewal
\* still queued or pushed behind the event either.  Only the answer to a newer epoch that
\* is handed over afterwards arms the guard again (InputBindingGuard::release, handle_bound).
LaneLossDisarms ==
  \A e \in Epochs \ {0} :
    (LaneClosed \in Ran(events) /\ answered = e) ~> [](Armed => guard.grant > e)

\* What the README of the SDK says of an interactive lane, fail-closed lane loss: once
\* LaneClosed is queued injection ends, until a lane is opened anew.
LaneLossFailsClosed == LaneClosed \in Ran(events) ~> []~Armed
=============================================================================
