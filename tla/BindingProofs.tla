----------------------------- MODULE BindingProofs -----------------------------
(***************************************************************************)
(* Theorems about the two things a worker binds on an interactive lane: its *)
(* input (InputGuard) and its file drops (FileDrop), for any number of      *)
(* threads and epochs and any limits.                                       *)
(***************************************************************************)
EXTENDS InputGuard, FileDrop, SequenceTheorems, TLAPS

(* InputGuard: the newest grant, and the watchdog.                         *)

GuardRecord == [epoch : Epochs, state : {"Fresh", "Active", "Inactive"},
                grant : Epochs \union {Absent}, deadline : Nat \union {Absent},
                last : 0 .. MaxRenewal]
CallRecord == [phase : {"idle", "ready", "sent", "answered"}, epoch : Epochs,
               enable : BOOLEAN, state : 0 .. 2, grant : Epochs \union {Absent}]
Event == [kind : {"renew", "revoked", "closed"}, number : 0 .. MaxRenewal]
Granting == [grant : Epochs \union {Absent}, sent : 0 .. MaxRenewal]
LaneRecord == [open : BOOLEAN, reading : BOOLEAN, draining : BOOLEAN]

\* A binding is active with a grant, and has a deadline only while it is.
Whole(g) == /\ g \in GuardRecord
            /\ g.state = "Active" <=> g.grant # Absent
            /\ g.deadline # Absent => g.state = "Active"

LEMMA TypeByParts ==
  GuardTypeOK <=>
    /\ Whole(guard) /\ change \in [Setters -> CallRecord] /\ events \in Seq(Event)
    /\ granter \in Granting /\ now \in 0 .. MaxTime /\ answered \in Epochs
    /\ ready \in BOOLEAN /\ lane \in LaneRecord /\ intent \in BOOLEAN
  BY Zenon DEF GuardTypeOK, Whole, GuardRecord, CallRecord, Event, Granting, LaneRecord
-----------------------------------------------------------------------------
\* What the methods of the guard make of it.
LEMMA EpochsAreNumbers == Epochs \subseteq Nat /\ 0 \in Epochs /\ Absent \notin Epochs
  BY GuardBoundsAssumption, WatchdogAssumption DEF Epochs

LEMMA ReleasedWhole ==
  ASSUME Whole(guard)
  PROVE  /\ Whole(Released) /\ Released.state = "Inactive" /\ Released.epoch = guard.epoch
         /\ \A e \in Epochs : LET d == [Released EXCEPT !.epoch = e]
                              IN  Whole(d) /\ d.state = "Inactive" /\ d.epoch = e
  BY EpochsAreNumbers DEF Whole, Released, GuardRecord

LEMMA AdvancedWhole ==
  ASSUME NEW g, Whole(g), NEW e \in Epochs
  PROVE  LET d == [g EXCEPT !.epoch = e]
         IN  /\ Whole(d) /\ d.state = g.state /\ d.grant = g.grant /\ d.deadline = g.deadline
             /\ d.epoch = e
  BY DEF Whole, GuardRecord

LEMMA GrantedWhole ==
  ASSUME NEW g, Whole(g), NEW e \in Epochs
  PROVE  LET d == [g EXCEPT !.state = "Active", !.grant = e]
         IN  /\ Whole(d) /\ d.state = "Active" /\ d.grant = e /\ d.deadline = g.deadline
             /\ d.epoch = g.epoch
  BY EpochsAreNumbers DEF Whole, GuardRecord

LEMMA RenewedWhole ==
  ASSUME Whole(guard), now \in Nat, NEW n \in 0 .. MaxRenewal
  PROVE  /\ Whole(Renewed(n)) /\ Renewed(n).state = guard.state
         /\ Renewed(n).grant = guard.grant /\ Renewed(n).epoch = guard.epoch
         /\ Expired => Renewed(n) = guard
<1>1. now + Watchdog \in Nat
      BY WatchdogAssumption
<1>2. CASE guard.state = "Active" /\ n > guard.last /\ ~Expired
  <2>1. Renewed(n) = [guard EXCEPT !.last = n, !.deadline = now + Watchdog]
        BY <1>2 DEF Renewed
  <2> QED
      BY <1>1, <1>2, <2>1 DEF Whole, GuardRecord
<1>3. CASE ~(guard.state = "Active" /\ n > guard.last /\ ~Expired)
      BY <1>3 DEF Renewed
<1> QED
    BY <1>2, <1>3
-----------------------------------------------------------------------------
\* The transitions in progress: none is newer than the guard, the one with the guard's
\* epoch asked for what the latest epoch asked for, and a grant names its own epoch.
CallsFollow ==
  \A s \in Setters : change[s].phase # "idle" =>
    /\ change[s].epoch <= guard.epoch
    /\ change[s].epoch = guard.epoch => change[s].enable = intent
    /\ change[s].phase = "answered" /\ change[s].state = 1 =>
         change[s].enable /\ change[s].grant = change[s].epoch

GuardInv == GuardTypeOK /\ CallsFollow /\ NewestGrantOnly

LEMMA GuardInitially == GuardInit => GuardInv
<1> SUFFICES ASSUME GuardInit PROVE GuardInv
    OBVIOUS
<1>1. Whole(guard) /\ granter \in Granting
      BY GuardBoundsAssumption, EpochsAreNumbers DEF GuardInit, Whole, GuardRecord, Granting
<1>2. change \in [Setters -> CallRecord] /\ events \in Seq(Event)
      BY EpochsAreNumbers DEF GuardInit, Idle, CallRecord
<1>3. now \in 0 .. MaxTime /\ answered \in Epochs
      BY GuardBoundsAssumption, EpochsAreNumbers DEF GuardInit
<1>4. ready \in BOOLEAN /\ lane \in LaneRecord /\ intent \in BOOLEAN
      BY DEF GuardInit, LaneRecord
<1>5. GuardTypeOK
      BY <1>1, <1>2, <1>3, <1>4, TypeByParts
<1>6. CallsFollow
      BY DEF GuardInit, CallsFollow, Idle
<1>7. NewestGrantOnly
      BY DEF GuardInit, NewestGrantOnly
<1> QED
    BY <1>5, <1>6, <1>7 DEF GuardInv

\* Typing, by the variables a step writes.
LEMMA TypedAgain ==
  ASSUME Whole(guard)', (change \in [Setters -> CallRecord])', (events \in Seq(Event))',
         (granter \in Granting)', (now \in 0 .. MaxTime)', (answered \in Epochs)',
         (ready \in BOOLEAN)', (lane \in LaneRecord)', (intent \in BOOLEAN)'
  PROVE  GuardTypeOK'
  BY TypeByParts, PTL

\* enable_for_context and disable: the epoch advances past every transition in progress.
LEMMA EnablesPreserves == ASSUME NEW s \in Setters, GuardInv, Enables(s) PROVE GuardInv'
<1>1. /\ Whole(guard) /\ change \in [Setters -> CallRecord] /\ events \in Seq(Event)
      /\ granter \in Granting /\ now \in 0 .. MaxTime /\ answered \in Epochs
      /\ ready \in BOOLEAN /\ lane \in LaneRecord /\ intent \in BOOLEAN
      BY TypeByParts DEF GuardInv
<1> DEFINE e == guard.epoch + 1
           c == Begun(e, TRUE)
<1>2. e \in Epochs /\ guard.epoch \in Nat
      BY <1>1, GuardBoundsAssumption DEF Enables, Epochs, Whole, GuardRecord
<1>3. guard' = [guard EXCEPT !.epoch = e] /\ change' = [change EXCEPT ![s] = c]
      BY DEF Enables
<1>4. c \in CallRecord
      BY <1>2, EpochsAreNumbers DEF CallRecord, Begun
<1>5. /\ change' \in [Setters -> CallRecord] /\ change'[s] = c
      /\ \A u \in Setters : u # s => change'[u] = change[u]
      BY <1>1, <1>3, <1>4
<1>6. /\ Whole(guard)' /\ guard'.state = guard.state /\ guard'.grant = guard.grant
      /\ guard'.epoch = e
      BY <1>1, <1>2, <1>3, AdvancedWhole DEF Whole
<1> HIDE DEF e
<1>7. /\ UNCHANGED <<ready, events, lane, granter, now, answered>> /\ intent' = TRUE
      BY DEF Enables
<1>8. GuardTypeOK'
      BY <1>1, <1>5, <1>6, <1>7, TypedAgain
<1>9. CallsFollow'
  <2> SUFFICES ASSUME NEW u \in Setters, change'[u].phase # "idle"
               PROVE  /\ change'[u].epoch <= e
                      /\ change'[u].epoch = e => change'[u].enable = TRUE
                      /\ change'[u].phase = "answered" /\ change'[u].state = 1 =>
                           change'[u].enable /\ change'[u].grant = change'[u].epoch
      BY <1>6, <1>7 DEF CallsFollow
  <2>1. CASE u = s
        BY <1>2, <1>5, <2>1, EpochsAreNumbers DEF Begun
  <2>2. CASE u # s
    <3>1. change'[u] = change[u] /\ change[u].epoch <= guard.epoch /\ change[u].epoch \in Nat
          BY <1>1, <1>5, <2>2, EpochsAreNumbers DEF GuardInv, CallsFollow, CallRecord
    <3>2. change[u].epoch < e
          BY <1>2, <3>1 DEF e
    <3> QED
        BY <1>2, <3>1, <3>2, EpochsAreNumbers DEF GuardInv, CallsFollow
  <2> QED
      BY <2>1, <2>2
<1>10. NewestGrantOnly'
       BY <1>6, <1>7 DEF GuardInv, NewestGrantOnly
<1> QED
    BY <1>8, <1>9, <1>10 DEF GuardInv

LEMMA DisablesPreserves == ASSUME NEW s \in Setters, GuardInv, Disables(s) PROVE GuardInv'
<1>1. /\ Whole(guard) /\ change \in [Setters -> CallRecord] /\ events \in Seq(Event)
      /\ granter \in Granting /\ now \in 0 .. MaxTime /\ answered \in Epochs
      /\ ready \in BOOLEAN /\ lane \in LaneRecord /\ intent \in BOOLEAN
      BY TypeByParts DEF GuardInv
<1> DEFINE e == guard.epoch + 1
           c == Begun(e, FALSE)
<1>2. e \in Epochs /\ guard.epoch \in Nat
      BY <1>1, GuardBoundsAssumption DEF Disables, Epochs, Whole, GuardRecord
<1>3. guard' = [Released EXCEPT !.epoch = Released.epoch + 1] /\ change' = [change EXCEPT ![s] = c]
      BY DEF Disables
<1>4. c \in CallRecord
      BY <1>2, EpochsAreNumbers DEF CallRecord, Begun
<1>5. /\ change' \in [Setters -> CallRecord] /\ change'[s] = c
      /\ \A u \in Setters : u # s => change'[u] = change[u]
      BY <1>1, <1>3, <1>4
<1>6. Whole(guard)' /\ guard'.state = "Inactive" /\ guard'.epoch = e
  <2>1. guard' = [Released EXCEPT !.epoch = e]
        BY <1>1, <1>3, ReleasedWhole
  <2> QED
      BY <1>1, <1>2, <2>1, ReleasedWhole DEF Whole
<1> HIDE DEF e
<1>7. /\ UNCHANGED <<ready, events, lane, granter, now, answered>> /\ intent' = FALSE
      BY DEF Disables
<1>8. GuardTypeOK'
      BY <1>1, <1>5, <1>6, <1>7, TypedAgain
<1>9. CallsFollow'
  <2> SUFFICES ASSUME NEW u \in Setters, change'[u].phase # "idle"
               PROVE  /\ change'[u].epoch <= e
                      /\ change'[u].epoch = e => change'[u].enable = FALSE
                      /\ change'[u].phase = "answered" /\ change'[u].state = 1 =>
                           change'[u].enable /\ change'[u].grant = change'[u].epoch
      BY <1>6, <1>7 DEF CallsFollow
  <2>1. CASE u = s
        BY <1>2, <1>5, <2>1, EpochsAreNumbers DEF Begun
  <2>2. CASE u # s
    <3>1. change'[u] = change[u] /\ change[u].epoch <= guard.epoch /\ change[u].epoch \in Nat
          BY <1>1, <1>5, <2>2, EpochsAreNumbers DEF GuardInv, CallsFollow, CallRecord
    <3>2. change[u].epoch < e
          BY <1>2, <3>1 DEF e
    <3> QED
        BY <1>2, <3>1, <3>2, EpochsAreNumbers DEF GuardInv, CallsFollow
  <2> QED
      BY <2>1, <2>2
<1>10. NewestGrantOnly'
       BY <1>6 DEF NewestGrantOnly
<1> QED
    BY <1>8, <1>9, <1>10 DEF GuardInv

\* Transitions that go on or are given up, under the same epoch, stay as they have to be.
LEMMA CallsKept ==
  ASSUME CallsFollow, guard'.epoch = guard.epoch, UNCHANGED intent,
         \A u \in Setters : change'[u] = change[u] \/ change'[u].phase = "idle"
  PROVE  CallsFollow'
  BY DEF CallsFollow

LEMMA IdleCall == Idle \in CallRecord /\ Idle.phase = "idle"
  BY EpochsAreNumbers DEF Idle, CallRecord

AnsweredBy(r, st, g) == [r EXCEPT !.phase = "answered", !.state = st, !.grant = g]

LEMMA AnsweredCall ==
  ASSUME NEW r \in CallRecord, NEW st \in 0 .. 2, NEW g \in Epochs \union {Absent}
  PROVE  LET c == AnsweredBy(r, st, g)
         IN  /\ c \in CallRecord /\ c.phase = "answered" /\ c.epoch = r.epoch
             /\ c.enable = r.enable /\ c.state = st /\ c.grant = g
  BY DEF CallRecord, AnsweredBy

\* set_binding: the request and its answer.
LEMMA RequestPreserves ==
  ASSUME NEW s \in Setters, GuardInv, Sends(s) \/ BindingFails(s) \/ Binds(s)
  PROVE  GuardInv'
<1>1. /\ Whole(guard) /\ change \in [Setters -> CallRecord] /\ events \in Seq(Event)
      /\ granter \in Granting /\ now \in 0 .. MaxTime /\ answered \in Epochs
      /\ ready \in BOOLEAN /\ lane \in LaneRecord /\ intent \in BOOLEAN
      BY TypeByParts DEF GuardInv
<1>2. UNCHANGED <<guard, ready, events, lane, now, intent, answered>>
      BY DEF Sends, BindingFails, Binds
<1>3. change[s].phase \in {"ready", "sent"}
      BY DEF Sends, BindingFails, Binds
<1> DEFINE Follows(c) == /\ c.epoch = change[s].epoch /\ c.enable = change[s].enable
                         /\ c.phase = "answered" /\ c.state = 1 => c.enable /\ c.grant = c.epoch
<1>4. PICK c \in CallRecord : change' = [change EXCEPT ![s] = c] /\ (c = Idle \/ Follows(c))
  <2>1. CASE Sends(s)
    <3>1. CASE lane.open
      <4> DEFINE c == [change[s] EXCEPT !.phase = "sent"]
      <4>1. c \in CallRecord /\ c.phase = "sent" /\ c.epoch = change[s].epoch
            /\ c.enable = change[s].enable
            BY <1>1 DEF CallRecord
      <4>2. change' = [change EXCEPT ![s] = c]
            BY <2>1, <3>1 DEF Sends
      <4> HIDE DEF c
      <4> QED
          BY <4>1, <4>2
    <3>2. CASE ~lane.open
          BY <2>1, <3>2, IdleCall DEF Sends
    <3> QED
        BY <3>1, <3>2
  <2>2. CASE BindingFails(s)
        BY <2>2, IdleCall DEF BindingFails
  <2>3. CASE Binds(s)
    <3> PICK st \in StatesFor(s) :
          change' = [change EXCEPT ![s].phase = "answered", ![s].state = st,
                               ![s].grant = IF st = 1 THEN change[s].epoch ELSE Absent]
        BY <2>3 DEF Binds
    <3> DEFINE g == IF st = 1 THEN change[s].epoch ELSE Absent
               c == AnsweredBy(change[s], st, g)
    <3>1. st \in 0 .. 2 /\ (st = 1 => change[s].enable)
          BY DEF StatesFor
    <3>2. change[s] \in CallRecord /\ g \in Epochs \union {Absent}
          BY <1>1 DEF CallRecord
    <3>3. change' = [change EXCEPT ![s] = c]
          BY DEF AnsweredBy
    <3> HIDE DEF g
    <3>4. /\ c \in CallRecord /\ c.phase = "answered" /\ c.epoch = change[s].epoch
          /\ c.enable = change[s].enable /\ c.state = st /\ c.grant = g
          BY <3>1, <3>2, AnsweredCall
    <3> HIDE DEF c
    <3>5. Follows(c)
          BY <3>1, <3>4 DEF g
    <3> QED
        BY <3>3, <3>4, <3>5
  <2> QED
      BY <2>1, <2>2, <2>3
<1>5. granter' \in Granting
  <2>1. CASE Sends(s) \/ BindingFails(s)
        BY <1>1, <2>1 DEF Sends, BindingFails
  <2>2. CASE Binds(s)
    <3> PICK g \in Epochs \union {Absent} : granter' = [granter EXCEPT !.grant = g]
        BY <1>1, <2>2 DEF Binds, CallRecord
    <3> QED
        BY <1>1 DEF Granting
  <2> QED
      BY <2>1, <2>2
<1>6. /\ change' \in [Setters -> CallRecord] /\ change'[s] = c
      /\ \A u \in Setters : u # s => change'[u] = change[u]
      BY <1>1, <1>4
<1>7. GuardTypeOK'
  <2>1. Whole(guard)'
        BY <1>1, <1>2 DEF Whole
  <2> QED
      BY <1>1, <1>2, <1>5, <1>6, <2>1, TypedAgain
<1>8. CallsFollow'
  <2>1. CASE c = Idle
        BY <1>2, <1>6, <2>1, IdleCall, CallsKept DEF GuardInv
  <2>2. CASE Follows(c)
        BY <1>2, <1>3, <1>6, <2>2 DEF GuardInv, CallsFollow
  <2> QED
      BY <1>4, <2>1, <2>2
<1>9. NewestGrantOnly'
      BY <1>2 DEF GuardInv, NewestGrantOnly
<1> QED
    BY <1>7, <1>8, <1>9 DEF GuardInv

\* handle_bound: an answer takes effect only for the newest epoch, and a grant then is what
\* that epoch asked for.
LEMMA BoundPreserves == ASSUME NEW s \in Setters, GuardInv, HandlesBound(s) PROVE GuardInv'
<1>1. /\ Whole(guard) /\ change \in [Setters -> CallRecord] /\ events \in Seq(Event)
      /\ granter \in Granting /\ now \in 0 .. MaxTime /\ answered \in Epochs
      /\ ready \in BOOLEAN /\ lane \in LaneRecord /\ intent \in BOOLEAN
      BY TypeByParts DEF GuardInv
<1>2. UNCHANGED <<ready, events, lane, granter, now, intent>> /\ change[s].phase = "answered"
      BY DEF HandlesBound
<1>3. /\ change' \in [Setters -> CallRecord]
      /\ \A u \in Setters : change'[u] = change[u] \/ change'[u].phase = "idle"
  <2>1. change' = [change EXCEPT ![s] = Idle]
        BY DEF HandlesBound
  <2> QED
      BY <1>1, <2>1, IdleCall
<1>4. CASE change[s].epoch # guard.epoch
  <2>1. UNCHANGED <<guard, answered>>
        BY <1>4 DEF HandlesBound
  <2>2. Whole(guard)' /\ (answered \in Epochs)'
        BY <1>1, <2>1 DEF Whole
  <2>3. GuardTypeOK'
        BY <1>1, <1>2, <1>3, <2>2, TypedAgain
  <2>4. CallsFollow'
        BY <1>2, <1>3, <2>1, CallsKept DEF GuardInv
  <2>5. NewestGrantOnly'
        BY <1>2, <2>1 DEF GuardInv, NewestGrantOnly
  <2> QED
      BY <2>3, <2>4, <2>5 DEF GuardInv
<1>5. CASE change[s].epoch = guard.epoch /\ change[s].state = 1
  <2>1. change[s].grant = guard.epoch /\ intent = TRUE /\ guard.epoch \in Epochs
        BY <1>1, <1>2, <1>5 DEF GuardInv, CallsFollow, Whole, GuardRecord
  <2>2. answered' = guard.epoch /\ guard' = [guard EXCEPT !.state = "Active",
                                                          !.grant = guard.epoch]
        BY <1>5, <2>1 DEF HandlesBound
  <2>3. /\ Whole(guard)' /\ guard'.grant = guard.epoch /\ guard'.epoch = guard.epoch
        BY <1>1, <2>1, <2>2, GrantedWhole DEF Whole
  <2>4. GuardTypeOK'
        BY <1>1, <1>2, <1>3, <2>1, <2>2, <2>3, TypedAgain
  <2>5. CallsFollow'
        BY <1>2, <1>3, <2>3, CallsKept DEF GuardInv
  <2>6. NewestGrantOnly'
        BY <1>2, <2>1, <2>2, <2>3 DEF NewestGrantOnly
  <2> QED
      BY <2>4, <2>5, <2>6 DEF GuardInv
<1>6. CASE change[s].epoch = guard.epoch /\ change[s].state # 1
  <2>1. answered' = guard.epoch /\ guard' = Released /\ guard.epoch \in Epochs
        BY <1>1, <1>6 DEF HandlesBound, Whole, GuardRecord
  <2>2. Whole(guard)' /\ guard'.state = "Inactive" /\ guard'.epoch = guard.epoch
        BY <1>1, <2>1, ReleasedWhole DEF Whole
  <2>3. GuardTypeOK'
        BY <1>1, <1>2, <1>3, <2>1, <2>2, TypedAgain
  <2>4. CallsFollow'
        BY <1>2, <1>3, <2>2, CallsKept DEF GuardInv
  <2>5. NewestGrantOnly'
        BY <2>2 DEF NewestGrantOnly
  <2> QED
      BY <2>3, <2>4, <2>5 DEF GuardInv
<1> QED
    BY <1>4, <1>5, <1>6

\* handle_renewal, handle_revocation and release: an event keeps the grant or ends it.
LEMMA EventPreserves == GuardInv /\ TakesEvent => GuardInv'
<1> SUFFICES ASSUME GuardInv, TakesEvent PROVE GuardInv'
    OBVIOUS
<1>1. /\ Whole(guard) /\ change \in [Setters -> CallRecord] /\ events \in Seq(Event)
      /\ granter \in Granting /\ now \in 0 .. MaxTime /\ answered \in Epochs
      /\ ready \in BOOLEAN /\ lane \in LaneRecord /\ intent \in BOOLEAN
      BY TypeByParts DEF GuardInv
<1>2. /\ UNCHANGED <<change, lane, granter, now, intent, answered>>
      /\ events # <<>> /\ events' = Tail(events)
      /\ guard' = Handled(Head(events)) \/ guard' = guard
      BY DEF TakesEvent
<1>3. Head(events) \in Event /\ events' \in Seq(Event)
      BY <1>1, <1>2, HeadTailProperties
<1>4. ready' \in BOOLEAN
      BY <1>1 DEF TakesEvent
<1>5. /\ Whole(guard)' /\ guard'.epoch = guard.epoch
      /\ guard'.state = "Active" => guard.state = "Active" /\ guard'.grant = guard.grant
  <2>1. CASE guard' = Handled(Head(events)) /\ Head(events).kind = "renew"
    <3>1. guard' = Renewed(Head(events).number) /\ Head(events).number \in 0 .. MaxRenewal
          BY <1>3, <2>1 DEF Handled, Event
    <3> QED
        BY <1>1, <3>1, RenewedWhole DEF Whole
  <2>2. CASE guard' = Handled(Head(events)) /\ Head(events).kind # "renew"
    <3>1. guard' = Released
          BY <2>2 DEF Handled
    <3> QED
        BY <1>1, <3>1, ReleasedWhole DEF Whole
  <2>3. CASE guard' = guard
        BY <1>1, <2>3 DEF Whole
  <2> QED
      BY <1>2, <2>1, <2>2, <2>3
<1>6. GuardTypeOK'
      BY <1>1, <1>2, <1>3, <1>4, <1>5, TypedAgain
<1>7. CallsFollow'
      BY <1>2, <1>5, CallsKept DEF GuardInv
<1>8. NewestGrantOnly'
      BY <1>2, <1>5 DEF GuardInv, NewestGrantOnly
<1> QED
    BY <1>6, <1>7, <1>8 DEF GuardInv

\* What the presenter, the clock and the preconditions do leaves the guard alone.
LEMMA OutsidePreserves ==
  /\ GuardInv
  /\ \/ SetsPreconditions \/ RenewsGrant \/ RevokesGrant \/ Ticks
     \/ UNCHANGED guardVars
  => GuardInv'
<1> SUFFICES ASSUME GuardInv,
                    SetsPreconditions \/ RenewsGrant \/ RevokesGrant \/ Ticks
                      \/ UNCHANGED guardVars
             PROVE  GuardInv'
    OBVIOUS
<1>1. /\ Whole(guard) /\ change \in [Setters -> CallRecord] /\ events \in Seq(Event)
      /\ granter \in Granting /\ now \in 0 .. MaxTime /\ answered \in Epochs
      /\ ready \in BOOLEAN /\ lane \in LaneRecord /\ intent \in BOOLEAN
      BY TypeByParts DEF GuardInv
<1>2. UNCHANGED <<guard, intent, answered>>
      BY DEF SetsPreconditions, RenewsGrant, RevokesGrant, Ticks, guardVars
<1>3. Whole(guard)'
      BY <1>1, <1>2 DEF Whole
<1>4. /\ change' \in [Setters -> CallRecord]
      /\ \A u \in Setters : change'[u] = change[u] \/ change'[u].phase = "idle"
      BY <1>1 DEF SetsPreconditions, RenewsGrant, RevokesGrant, Ticks, guardVars
<1>5. events' \in Seq(Event) /\ granter' \in Granting
  <2>1. CASE RenewsGrant
    <3> DEFINE n == granter.sent + 1
    <3>1. n \in 0 .. MaxRenewal
          BY <1>1, <2>1, GuardBoundsAssumption DEF RenewsGrant, Granting
    <3>2. Renew(n) \in Event
          BY <3>1 DEF Renew, Event
    <3>3. granter' = [granter EXCEPT !.sent = n] /\ events' = Append(events, Renew(n))
          BY <2>1 DEF RenewsGrant
    <3> HIDE DEF n
    <3>4. granter' \in Granting
          BY <1>1, <3>1, <3>3 DEF Granting
    <3> QED
        BY <1>1, <3>2, <3>3, <3>4, AppendProperties
  <2>2. CASE RevokesGrant
    <3>1. RevokedEvent \in Event
          BY GuardBoundsAssumption DEF RevokedEvent, Event
    <3>2. granter' \in Granting
          BY <1>1, <2>2 DEF RevokesGrant, Granting
    <3> QED
        BY <1>1, <2>2, <3>1, <3>2, AppendProperties DEF RevokesGrant
  <2>3. CASE UNCHANGED <<events, granter>>
        BY <1>1, <2>3
  <2> QED
      BY <2>1, <2>2, <2>3 DEF SetsPreconditions, Ticks, guardVars
<1>6. now' \in 0 .. MaxTime
      BY <1>1, GuardBoundsAssumption
         DEF SetsPreconditions, RenewsGrant, RevokesGrant, Ticks, guardVars
<1>7. ready' \in BOOLEAN /\ lane' \in LaneRecord
      BY <1>1, Zenon DEF SetsPreconditions, RenewsGrant, RevokesGrant, Ticks, guardVars
<1>8. GuardTypeOK'
      BY <1>1, <1>2, <1>3, <1>4, <1>5, <1>6, <1>7, TypedAgain
<1>9. CallsFollow'
      BY <1>2, <1>4, CallsKept DEF GuardInv
<1>10. NewestGrantOnly'
       BY <1>2 DEF GuardInv, NewestGrantOnly
<1> QED
    BY <1>8, <1>9, <1>10 DEF GuardInv

\* close_input_lane and the end of the reader: the events, the lane and the requests that
\* wait for an answer go, and the guard is not told.
LEMMA LosesPreserves == GuardInv /\ (ClosesLane \/ ReaderEnds \/ DrainsRequests) => GuardInv'
<1> SUFFICES ASSUME GuardInv, ClosesLane \/ ReaderEnds \/ DrainsRequests PROVE GuardInv'
    OBVIOUS
<1>1. /\ Whole(guard) /\ change \in [Setters -> CallRecord] /\ events \in Seq(Event)
      /\ granter \in Granting /\ now \in 0 .. MaxTime /\ answered \in Epochs
      /\ ready \in BOOLEAN /\ lane \in LaneRecord /\ intent \in BOOLEAN
      BY TypeByParts DEF GuardInv
<1>2. UNCHANGED <<guard, ready, now, intent, answered>>
      BY DEF ClosesLane, ReaderEnds, Closes, DrainsRequests
<1>3. Whole(guard)'
      BY <1>1, <1>2 DEF Whole
<1>4. LaneClosed \in Event
      BY GuardBoundsAssumption DEF LaneClosed, Event
<1>5. events' \in Seq(Event)
  <2>1. events' = <<LaneClosed>> \/ events' = events
        BY DEF ClosesLane, ReaderEnds, Closes, DrainsRequests
  <2> HIDE DEF LaneClosed
  <2>2. <<LaneClosed>> \in Seq(Event)
        BY <1>4
  <2> QED
      BY <1>1, <2>1, <2>2
<1>6. granter' \in Granting
  <2>1. granter' = granter \/ granter' = [granter EXCEPT !.grant = Absent]
        BY DEF ClosesLane, ReaderEnds, DrainsRequests
  <2> QED
      BY <1>1, <2>1 DEF Granting
<1>7. lane' \in LaneRecord
  <2>1. CASE lane' = [lane EXCEPT !.draining = FALSE]
        BY <1>1, <2>1 DEF LaneRecord
  <2>2. ASSUME NEW r \in BOOLEAN, Closes(r) PROVE lane' \in LaneRecord
        BY <2>2 DEF Closes, LaneRecord
  <2>3. lane.reading \in BOOLEAN
        BY <1>1 DEF LaneRecord
  <2> QED
      BY <2>1, <2>2, <2>3 DEF ClosesLane, ReaderEnds, DrainsRequests
<1>8. /\ change' \in [Setters -> CallRecord]
      /\ \A u \in Setters : change'[u] = change[u] \/ change'[u].phase = "idle"
  <2>1. CASE change' = [s \in Setters |-> IF change[s].phase = "sent" THEN Idle ELSE change[s]]
        BY <1>1, <2>1, IdleCall
  <2>2. CASE UNCHANGED change
        BY <1>1, <2>2
  <2> QED
      BY <2>1, <2>2 DEF ClosesLane, ReaderEnds, Closes, DrainsRequests
<1>9. GuardTypeOK'
      BY <1>1, <1>2, <1>3, <1>5, <1>6, <1>7, <1>8, TypedAgain
<1>10. CallsFollow'
       BY <1>2, <1>8, CallsKept DEF GuardInv
<1>11. NewestGrantOnly'
       BY <1>2 DEF GuardInv, NewestGrantOnly
<1> QED
    BY <1>9, <1>10, <1>11 DEF GuardInv

LEMMA GuardPreserved == GuardInv /\ [GuardNext]_guardVars => GuardInv'
  BY EnablesPreserves, DisablesPreserves, RequestPreserves, BoundPreserves, EventPreserves,
     OutsidePreserves, LosesPreserves DEF GuardNext

\* Every variable keeps its type, and a binding is active exactly while it has a grant.
THEOREM GuardTypeCorrect == GuardSpec => []GuardTypeOK
<1>1. GuardInv => GuardTypeOK
      BY DEF GuardInv
<1> QED
    BY <1>1, GuardInitially, GuardPreserved, PTL DEF GuardSpec

\* The grant in force is the newest that was accepted, and none after a disable, for any
\* number of setters and whatever the order in which they hand their answers over
\* (InputBindingGuard::handle_bound, InputBindingGuard::disable).
THEOREM OnlyNewestGrant == GuardSpec => []NewestGrantOnly
<1>1. GuardInv => NewestGrantOnly
      BY DEF GuardInv
<1> QED
    BY <1>1, GuardInitially, GuardPreserved, PTL DEF GuardSpec
-----------------------------------------------------------------------------
\* The deadline of an expired grant moves only with the grant: no method sets one, but a
\* renewal that comes in time.
LEMMA ExpiredStays ==
  ASSUME GuardInv, [GuardNext]_guardVars, guard.state = "Active", Expired
  PROVE  ~Armed'
<1>1. /\ Whole(guard) /\ change \in [Setters -> CallRecord] /\ events \in Seq(Event)
      /\ now \in Nat /\ MaxTime \in Nat
      BY TypeByParts, GuardBoundsAssumption DEF GuardInv
<1>2. now' \in Nat /\ now <= now'
  <2>1. now' = now \/ now' = now + 1
        BY Zenon DEF GuardNext, guardVars, Enables, Disables, Sends, BindingFails, Binds,
                     HandlesBound, TakesEvent, SetsPreconditions, RenewsGrant, RevokesGrant,
                     ClosesLane, ReaderEnds, Closes, DrainsRequests, Ticks
  <2> QED
      BY <1>1, <2>1
<1>3. guard.deadline \in Nat /\ now >= guard.deadline
      BY <1>1 DEF Expired, Whole, GuardRecord
<1>4. guard'.state # "Active" \/ guard'.deadline = guard.deadline
  <2>1. ASSUME NEW s \in Setters, Enables(s) PROVE guard'.deadline = guard.deadline
    <3>1. guard.epoch + 1 \in Epochs /\ guard' = [guard EXCEPT !.epoch = guard.epoch + 1]
          BY <1>1, <2>1, GuardBoundsAssumption DEF Enables, Epochs, Whole, GuardRecord
    <3> QED
        BY <1>1, <3>1, AdvancedWhole
  <2>2. ASSUME NEW s \in Setters, Disables(s) PROVE guard'.state # "Active"
    <3>1. guard.epoch + 1 \in Epochs
          BY <1>1, <2>2, GuardBoundsAssumption DEF Disables, Epochs, Whole, GuardRecord
    <3>2. guard' = [Released EXCEPT !.epoch = guard.epoch + 1]
          BY <1>1, <2>2, ReleasedWhole DEF Disables
    <3> QED
        BY <1>1, <3>1, <3>2, ReleasedWhole
  <2>3. ASSUME NEW s \in Setters, HandlesBound(s)
        PROVE  guard'.state # "Active" \/ guard'.deadline = guard.deadline
    <3>1. CASE guard' = guard
          BY <3>1
    <3>2. CASE guard' = Released
          BY <1>1, <3>2, ReleasedWhole
    <3>3. CASE change[s].state = 1 /\ change[s].epoch = guard.epoch
      <4>1. guard.epoch \in Epochs /\ change[s].grant = guard.epoch
            BY <1>1, <2>3, <3>3 DEF HandlesBound, GuardInv, CallsFollow, Whole, GuardRecord
      <4>2. guard' = [guard EXCEPT !.state = "Active", !.grant = guard.epoch]
            BY <2>3, <3>3, <4>1 DEF HandlesBound
      <4> QED
          BY <1>1, <4>1, <4>2, GrantedWhole
    <3> QED
        BY <2>3, <3>1, <3>2, <3>3 DEF HandlesBound
  <2>4. CASE TakesEvent
    <3>1. Head(events) \in Event /\ (guard' = Handled(Head(events)) \/ guard' = guard)
          BY <1>1, <2>4, HeadTailProperties DEF TakesEvent
    <3>2. CASE guard' = Handled(Head(events)) /\ Head(events).kind = "renew"
      <4>1. guard' = Renewed(Head(events).number) /\ Head(events).number \in 0 .. MaxRenewal
            BY <3>1, <3>2 DEF Handled, Event
      <4> QED
          BY <1>1, <4>1, RenewedWhole
    <3>3. CASE guard' = Handled(Head(events)) /\ Head(events).kind # "renew"
          BY <1>1, <3>1, <3>3, ReleasedWhole DEF Handled
    <3> QED
        BY <3>1, <3>2, <3>3
  <2>5. guard' = guard => guard'.deadline = guard.deadline
        OBVIOUS
  <2> QED
      BY <2>1, <2>2, <2>3, <2>4, <2>5
         DEF GuardNext, guardVars, Sends, BindingFails, Binds, SetsPreconditions, RenewsGrant,
             RevokesGrant, ClosesLane, ReaderEnds, Closes, DrainsRequests, Ticks
<1>5. guard'.deadline = guard.deadline => guard'.deadline # Absent /\ now' >= guard'.deadline
  <2>1. guard.deadline # Absent
        BY <1>3, WatchdogAssumption
  <2>2. now' >= guard.deadline
        BY <1>1, <1>2, <1>3
  <2> QED
      BY <2>1, <2>2
<1> QED
    BY <1>4, <1>5 DEF Armed, Expired

\* An expired grant is not armed again by a renewal or an answer that comes late, for any
\* watchdog and number of setters (InputBindingGuard::handle_renewal).
THEOREM ExpiredStaysExpired == GuardSpec => ExpiredNeverRearmed
<1>1. GuardInv /\ [GuardNext]_guardVars
        => [(guard.state = "Active" /\ Expired) => ~Armed']_guardVars
      BY ExpiredStays
<1> QED
    BY <1>1, GuardInitially, GuardPreserved, PTL DEF GuardSpec, ExpiredNeverRearmed
-----------------------------------------------------------------------------
(* FileDrop: the grant that narrows, and the transfer.                      *)

RequestRecord == [epoch : Nat, enabled : BOOLEAN, limit : Nat]

Asking == [phase : {"idle", "asked", "answered"}, epoch : Nat, enabled : BOOLEAN, limit : Nat]

BindingTyped ==
  /\ binding \in [epoch : Nat, requested : RequestRecord, grant : RequestRecord]
  /\ asking \in [Binders -> Asking]

\* The grant needs nothing remembered about the threads: handle_bound compares an answer
\* with the request in force while it holds the guard.
BindingInv == BindingTyped /\ DropGrantNarrows

LEMMA BindingInitially == DropInit => BindingInv
<1> SUFFICES ASSUME DropInit PROVE BindingInv
    OBVIOUS
<1>1. BindingTyped
      BY DEF DropInit, BindingTyped, RequestRecord, Nothing, Request, Quiet, Asking
<1>2. DropGrantNarrows
      BY DEF DropInit, DropGrantNarrows
<1> QED
    BY <1>1, <1>2 DEF BindingInv

\* The actions of the transfer leave the binding alone.
LEMMA BindingAlone == BindingInv /\ UNCHANGED bindVars => BindingInv'
  BY DEF BindingInv, BindingTyped, DropGrantNarrows, bindVars

\* set_file_drop_binding's answer is a record of the same kind as the request.
LEMMA AnsweredRecord ==
  ASSUME NEW f \in [Binders -> Asking], NEW b \in Binders, NEW on \in BOOLEAN, NEW n \in Nat
  PROVE  [f EXCEPT ![b].phase = "answered", ![b].enabled = on, ![b].limit = n]
           \in [Binders -> Asking]
<1>1. [f[b] EXCEPT !.phase = "answered", !.enabled = on, !.limit = n] \in Asking
      BY DEF Asking
<1> QED
    BY <1>1

LEMMA BindingPreserved == BindingInv /\ [DropNext]_dropVars => BindingInv'
<1> SUFFICES ASSUME BindingInv, [DropNext]_dropVars PROVE BindingInv'
    OBVIOUS
<1> USE DropAssumption DEF BindingInv, BindingTyped, RequestRecord, Request, Nothing, Quiet,
                       Asking
<1>1. ASSUME NEW b \in Binders, EnablesDrop(b) PROVE BindingInv'
  <2>1. CASE binding' = [binding EXCEPT !.epoch = @ + 1] /\ UNCHANGED asking
        BY <2>1 DEF DropGrantNarrows
  <2>2. ASSUME NEW n \in Limits,
               LET r == Request(binding.epoch + 1, TRUE, n)
               IN  /\ binding' = [epoch |-> r.epoch, requested |-> r, grant |-> Nothing]
                   /\ Asks(b, r)
        PROVE  BindingInv'
    <3>1. BindingTyped'
          BY <2>2 DEF Asks
    <3>2. binding'.grant = Nothing
          BY <2>2
    <3> QED
        BY <3>1, <3>2 DEF DropGrantNarrows
  <2> QED
      BY <1>1, <2>1, <2>2 DEF EnablesDrop
<1>2. ASSUME NEW b \in Binders, DisablesDrop(b) PROVE BindingInv'
  <2>1. BindingTyped'
        BY <1>2 DEF DisablesDrop, Asks
  <2>2. binding'.grant = Nothing
        BY <1>2 DEF DisablesDrop
  <2> QED
      BY <2>1, <2>2 DEF DropGrantNarrows
<1>3. ASSUME NEW b \in Binders, BindsDrop(b) PROVE BindingInv'
  <2>1. asking' \in [Binders -> Asking]
    <3>1. CASE asking' = [asking EXCEPT ![b] = Quiet]
          BY <3>1
    <3>2. ASSUME NEW on \in BOOLEAN, NEW n \in Limits,
                 asking' = [asking EXCEPT ![b].phase = "answered", ![b].enabled = on,
                                          ![b].limit = n]
          PROVE  asking' \in [Binders -> Asking]
          BY <3>2, AnsweredRecord
    <3> QED
        BY <1>3, <3>1, <3>2 DEF BindsDrop
  <2> QED
      BY <1>3, <2>1 DEF BindsDrop, DropGrantNarrows
<1>4. ASSUME NEW b \in Binders, HandlesDropBound(b) PROVE BindingInv'
  <2>1. Answer(b) \in RequestRecord
        BY DEF Answer
  <2>2. asking' \in [Binders -> Asking]
        BY <1>4 DEF HandlesDropBound
  <2>3. CASE Acceptable(binding.requested, Answer(b)) /\ Answer(b).enabled
    <3>1. binding' = [binding EXCEPT !.grant = Answer(b)]
          BY <1>4, <2>3 DEF HandlesDropBound
    <3>2. /\ binding.requested.enabled /\ Answer(b).limit <= binding.requested.limit
          /\ Answer(b).epoch = binding.requested.epoch
          BY <2>3 DEF Acceptable
    <3> QED
        BY <2>1, <2>2, <2>3, <3>1, <3>2 DEF DropGrantNarrows
  <2>4. CASE ~(Acceptable(binding.requested, Answer(b)) /\ Answer(b).enabled)
    <3>1. binding' = binding \/ binding' = [binding EXCEPT !.grant = Nothing]
          BY <1>4, <2>4 DEF HandlesDropBound
    <3>2. CASE binding' = binding
          BY <2>2, <3>2 DEF DropGrantNarrows
    <3>3. CASE binding' = [binding EXCEPT !.grant = Nothing]
          BY <2>2, <3>3 DEF DropGrantNarrows
    <3> QED
        BY <3>1, <3>2, <3>3
  <2> QED
      BY <2>3, <2>4
<1>5. CASE ReleasesDrop
      BY <1>5 DEF ReleasesDrop, DropGrantNarrows
<1>6. CASE UNCHANGED bindVars
      BY <1>6, BindingAlone
<1>7. CASE AcceptsDrop \/ Opens \/ Streams \/ ReadsData \/ ReadsFinish \/ ReadsAbort
             \/ Grants \/ Ends \/ Loses \/ Advances
      BY <1>7, <1>6 DEF AcceptsDrop, Opens, Streams, ReadsData, ReadsFinish, ReadsAbort,
                        Grants, Ends, Loses, Advances
<1>8. UNCHANGED dropVars => UNCHANGED bindVars
      BY DEF dropVars, bindVars
<1> QED
    BY <1>1, <1>2, <1>3, <1>4, <1>5, <1>6, <1>7, <1>8 DEF DropNext, BindingNext, TransferNext

\* A live grant answers the request in force and stays within it, for any number of
\* threads that change the binding (FileDropBindingGuard::handle_bound).
THEOREM GrantStaysNarrow == DropSpec => []DropGrantNarrows
<1>1. BindingInv => DropGrantNarrows
      BY DEF BindingInv
<1> QED
    BY <1>1, BindingInitially, BindingPreserved, PTL DEF DropSpec
-----------------------------------------------------------------------------
Transfer == [phase : {"none", "offered", "open", "lost", "ended"}, generation : Nat,
             resume : Nat, next : Nat, max : Nat]

\* What is kept is a prefix of the declared bytes, and the flow of an open transfer is as
\* far as what is kept, or beyond the declared length.  A transfer that is offered again
\* resumes at its end.  Once Finished was read the whole file is there, and the transfer
\* stays open at its end or is over: nothing advances it again.
FileInv ==
  /\ transfer \in Transfer
  /\ file \in Seq(Nat) /\ Len(file) <= Length /\ \A i \in 1 .. Len(file) : file[i] = i - 1
  /\ transfer.phase = "none" => Len(file) = 0 /\ transfer.resume = 0
  /\ transfer.phase = "offered" => Len(file) = transfer.resume
  /\ transfer.phase = "open" => \/ Len(file) = transfer.next
                                \/ Len(file) = Length /\ Length < transfer.next
  /\ finished \in BOOLEAN
  /\ finished => /\ Len(file) = Length /\ transfer.phase \in {"open", "ended"}
                 /\ transfer.phase = "open" => Length <= transfer.next

\* What opening a generation, and advancing to one, make of the transfer.
LEMMA OpenedRecord ==
  ASSUME NEW t \in Transfer
  PROVE  LET u == [t EXCEPT !.phase = "open", !.next = t.resume, !.max = t.resume + 1]
         IN  u \in Transfer /\ u.phase = "open" /\ u.next = t.resume
<1> DEFINE m == t.resume + 1
<1>1. m \in Nat /\ t.resume \in Nat
      BY DEF Transfer
<1> HIDE DEF m
<1>2. LET u == [t EXCEPT !.phase = "open", !.next = t.resume, !.max = m]
      IN  u \in Transfer /\ u.phase = "open" /\ u.next = t.resume
      BY <1>1 DEF Transfer
<1> QED
    BY <1>2 DEF m

LEMMA AdvancedRecord ==
  ASSUME NEW t \in Transfer, NEW n \in Nat
  PROVE  LET u == [t EXCEPT !.phase = "offered", !.generation = @ + 1, !.resume = n]
         IN  u \in Transfer /\ u.phase = "offered" /\ u.resume = n
<1> DEFINE m == t.generation + 1
<1>1. m \in Nat
      BY DEF Transfer
<1> HIDE DEF m
<1>2. LET u == [t EXCEPT !.phase = "offered", !.generation = m, !.resume = n]
      IN  u \in Transfer /\ u.phase = "offered" /\ u.resume = n
      BY <1>1 DEF Transfer
<1> QED
    BY <1>2 DEF m

LEMMA FileInitially == DropInit => FileInv
<1> SUFFICES ASSUME DropInit PROVE FileInv
    OBVIOUS
<1>1. transfer \in Transfer /\ transfer.phase = "none" /\ transfer.resume = 0
      BY DEF DropInit, Transfer
<1>2. file = <<>> /\ finished = FALSE
      BY DEF DropInit
<1>3. file \in Seq(Nat) /\ Len(file) = 0
      BY <1>2
<1>4. \A i \in 1 .. Len(file) : file[i] = i - 1
      BY <1>3
<1>5. finished \in BOOLEAN /\ ~finished
      BY <1>2
<1> QED
    BY DropAssumption, <1>1, <1>3, <1>4, <1>5 DEF FileInv

\* read_event keeps a byte where it belongs; the byte beyond the declared length moves the
\* flow and is not kept.
LEMMA ReadingData == FileInv /\ ReadsData => FileInv'
<1> SUFFICES ASSUME FileInv, ReadsData PROVE FileInv'
    OBVIOUS
<1> USE DropAssumption
<1> DEFINE r == Head(records)
<1>1. /\ transfer.phase = "open" /\ r.at = transfer.next
      /\ transfer' = [transfer EXCEPT !.next = transfer.next + 1]
      /\ file' = IF r.at + 1 > Length THEN file ELSE Append(file, r.at)
      /\ finished' = finished
      BY DEF ReadsData, Reads
<1>2. /\ transfer' \in Transfer /\ transfer'.phase = "open"
      /\ transfer'.next = transfer.next + 1 /\ transfer.next \in Nat
      BY <1>1 DEF FileInv, Transfer
<1>3. CASE transfer.next + 1 > Length
  <2>1. file' = file /\ Len(file) = Length
        BY <1>1, <1>2, <1>3 DEF FileInv
  <2> QED
      BY <1>1, <1>2, <1>3, <2>1 DEF FileInv
<1>4. CASE transfer.next + 1 <= Length
  <2>1. file' = Append(file, transfer.next) /\ Len(file) = transfer.next /\ ~finished
        BY <1>1, <1>2, <1>4 DEF FileInv
  <2>2. /\ file' \in Seq(Nat) /\ Len(file') = transfer.next + 1
        /\ \A i \in 1 .. Len(file) : file'[i] = file[i]
        /\ file'[Len(file) + 1] = transfer.next
        BY <1>2, <2>1, AppendProperties DEF FileInv
  <2>3. \A i \in 1 .. Len(file') : file'[i] = i - 1
        BY <1>2, <2>1, <2>2 DEF FileInv
  <2> QED
      BY <1>1, <1>2, <1>4, <2>1, <2>2, <2>3 DEF FileInv
<1> QED
    BY <1>2, <1>3, <1>4

\* advance_file_transfer: the application names a prefix of what it has.
LEMMA Advancing == FileInv /\ Advances => FileInv'
<1> SUFFICES ASSUME FileInv, Advances PROVE FileInv'
    OBVIOUS
<1> USE DropAssumption
<1> PICK n \in 0 .. Len(file) :
      /\ file' = SubSeq(file, 1, n)
      /\ \/ transfer' = [transfer EXCEPT !.phase = "offered", !.generation = @ + 1,
                                         !.resume = n]
         \/ UNCHANGED transfer
    BY DEF Advances
<1>1. transfer.phase = "lost" /\ ~finished /\ finished' = finished /\ n \in Nat
      BY DEF Advances, FileInv
<1>2. \A i \in 1 .. n : file[i] \in Nat
      BY DEF FileInv
<1>3. /\ file' \in Seq(Nat) /\ Len(file') = n
      /\ \A i \in 1 .. n : file'[i] = file[i]
      BY <1>1, <1>2, SubSeqProperties
<1>4. /\ transfer' \in Transfer
      /\ \/ transfer'.phase = "lost"
         \/ transfer'.phase = "offered" /\ transfer'.resume = n
  <2>1. CASE transfer' = [transfer EXCEPT !.phase = "offered", !.generation = @ + 1,
                                          !.resume = n]
        BY <1>1, <2>1, AdvancedRecord DEF FileInv
  <2>2. CASE UNCHANGED transfer
        BY <1>1, <2>2 DEF FileInv
  <2> QED
      BY <2>1, <2>2
<1> QED
    BY <1>1, <1>3, <1>4 DEF FileInv

LEMMA FilePreserved == FileInv /\ [DropNext]_dropVars => FileInv'
<1> SUFFICES ASSUME FileInv, [DropNext]_dropVars PROVE FileInv'
    OBVIOUS
<1> USE DropAssumption
<1>1. CASE UNCHANGED transferVars
      BY <1>1 DEF transferVars, FileInv
<1>2. ASSUME NEW b \in Binders,
             EnablesDrop(b) \/ DisablesDrop(b) \/ BindsDrop(b) \/ HandlesDropBound(b)
      PROVE  FileInv'
      BY <1>1, <1>2 DEF EnablesDrop, DisablesDrop, BindsDrop, HandlesDropBound
<1>3. CASE ReleasesDrop
      BY <1>1, <1>3 DEF ReleasesDrop
<1>4. CASE AcceptsDrop
      BY <1>4 DEF AcceptsDrop, FileInv, Transfer
<1>5. CASE Opens
  <2>1. /\ transfer.phase = "offered" /\ transfer.resume \in Nat
        /\ transfer' = [transfer EXCEPT !.phase = "open", !.next = transfer.resume,
                                        !.max = transfer.resume + 1]
        /\ file' = file /\ finished' = finished
        BY <1>5 DEF Opens, FileInv, Transfer
  <2>2. transfer' \in Transfer /\ transfer'.phase = "open" /\ transfer'.next = transfer.resume
        BY <2>1, OpenedRecord DEF FileInv
  <2> QED
      BY <2>1, <2>2 DEF FileInv
<1>6. CASE Streams
      BY <1>6 DEF Streams, FileInv
<1>7. CASE ReadsData
      BY <1>7, ReadingData
<1>8. CASE ReadsFinish
  <2>1. /\ transfer' = transfer /\ file' = file /\ transfer.phase = "open"
        /\ finished' = (finished \/ (Head(records).at = Length
                                      /\ Head(records).at = transfer.next))
        BY <1>8 DEF ReadsFinish, Reads
  <2>2. CASE Head(records).at = Length /\ Head(records).at = transfer.next
    <3>1. finished' = TRUE /\ Length = transfer.next
          BY <2>1, <2>2
    <3> QED
        BY <2>1, <3>1 DEF FileInv
  <2>3. CASE ~(Head(records).at = Length /\ Head(records).at = transfer.next)
    <3>1. finished' = finished
          BY <2>1, <2>3 DEF FileInv
    <3> QED
        BY <2>1, <3>1 DEF FileInv
  <2> QED
      BY <2>2, <2>3
<1>9. CASE ReadsAbort
      BY <1>9 DEF ReadsAbort, Reads, FileInv, Transfer
<1>10. CASE Grants
      BY <1>10 DEF Grants, FileInv, Transfer
<1>11. CASE Ends
      BY <1>11 DEF Ends, FileInv, Transfer
<1>12. CASE Loses
      BY <1>12 DEF Loses, FileInv, Transfer
<1>13. CASE Advances
      BY <1>13, Advancing
<1>14. CASE UNCHANGED dropVars
      BY <1>1, <1>14 DEF dropVars, transferVars
<1> QED
    BY <1>2, <1>3, <1>4, <1>5, <1>6, <1>7, <1>8, <1>9, <1>10, <1>11, <1>12, <1>13, <1>14
       DEF DropNext, BindingNext, TransferNext

\* A transfer that was read to Finished holds every declared byte once and in order, for
\* every declared length, source and number of generations
\* (IncomingFileTransfer::read_event, Session::advance_file_transfer).
THEOREM FinishedHoldsAll == DropSpec => []FinishedIsWhole
<1>1. FileInv => FinishedIsWhole
  <2> SUFFICES ASSUME FileInv, finished PROVE file = [i \in 1 .. Length |-> i - 1]
      BY DEF FinishedIsWhole
  <2>1. file \in [1 .. Len(file) -> Nat] /\ Len(file) = Length
        BY LenProperties DEF FileInv
  <2> QED
      BY <2>1 DEF FileInv
<1> QED
    BY <1>1, FileInitially, FilePreserved, PTL DEF DropSpec
===============================================================================
