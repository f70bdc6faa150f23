------------------------- MODULE ControlPlaneProofs -------------------------
(***************************************************************************)
(* Theorems about ControlPlane for any number of callers and lanes: no     *)
(* caller is left waiting behind the last drain of its table, nothing is   *)
(* entered after that drain, the report of a closed plane is the last      *)
(* event, and a closed session has no open lane.                           *)
(***************************************************************************)
EXTENDS ControlPlane, TLAPS

-----------------------------------------------------------------------------
(* Threads, queues and the operators the actions share.                    *)

LEMMA Names ==
  /\ Control \in Planes /\ Control \in Threads /\ Control \notin Callers
  /\ Control \notin Lanes /\ None \notin Threads /\ None \notin Lanes
  /\ Lanes \subseteq Planes /\ Lanes \subseteq Threads /\ Callers \subseteq Threads
  /\ \A l \in Lanes : l \notin Callers
  /\ \A p \in Planes : p = Control \/ p \in Lanes
BY PlaneAssumption DEF Planes, Threads

LEMMA QueueShape ==
  ASSUME NEW q
  PROVE  q \in Queues <=> /\ q \in Seq({"event", "closed"})
                          /\ Len(q) <= MaxEvents
<1>1. ASSUME q \in Queues
      PROVE  q \in Seq({"event", "closed"}) /\ Len(q) <= MaxEvents
  <2>1. PICK n \in 0 .. MaxEvents : q \in [1 .. n -> {"event", "closed"}]
    BY <1>1 DEF Queues
  <2>2. n \in Nat /\ n <= MaxEvents
    BY SizeAssumption
  <2>3. q \in Seq({"event", "closed"}) /\ Len(q) = n
    BY <2>1, <2>2
  <2>4. QED
    BY <2>2, <2>3
<1>2. ASSUME q \in Seq({"event", "closed"}), Len(q) <= MaxEvents
      PROVE  q \in Queues
  <2>1. Len(q) \in 0 .. MaxEvents /\ q \in [1 .. Len(q) -> {"event", "closed"}]
    BY <1>2, SizeAssumption
  <2>2. QED
    BY <2>1 DEF Queues
<1>3. QED
  BY <1>1, <1>2

LEMMA QueueSteps ==
  /\ <<"closed">> \in Queues /\ <<>> \in Queues
  /\ \A q \in Queues : /\ Len(q) # MaxEvents => Append(q, "event") \in Queues
                       /\ q # <<>> => Tail(q) \in Queues
<1>. DEFINE S == Seq({"event", "closed"})
<1>0. MaxEvents \in Nat /\ MaxEvents >= 1
  BY SizeAssumption
<1>1. <<"closed">> \in Queues
  <2>1. <<"closed">> \in S /\ Len(<<"closed">>) = 1
    OBVIOUS
  <2>2. QED
    BY <1>0, <2>1, QueueShape
<1>2. <<>> \in Queues
  <2>1. ASSUME NEW q \in S, Len(q) = 0 PROVE q \in Queues
    <3>1. Len(q) <= MaxEvents
      BY <1>0, <2>1
    <3>2. QED
      BY <3>1, QueueShape
  <2>2. <<>> \in S /\ Len(<<>>) = 0
    OBVIOUS
  <2>3. QED
    BY <2>1, <2>2
<1>3. ASSUME NEW q \in Queues, Len(q) # MaxEvents
      PROVE  Append(q, "event") \in Queues
  <2>1. q \in S /\ Len(q) <= MaxEvents
    BY QueueShape
  <2>2. Append(q, "event") \in S /\ Len(Append(q, "event")) = Len(q) + 1 /\ Len(q) \in Nat
    BY <2>1
  <2>3. Len(Append(q, "event")) <= MaxEvents
    BY <1>0, <1>3, <2>1, <2>2
  <2>4. QED
    BY <2>2, <2>3, QueueShape
<1>4. ASSUME NEW q \in Queues, q # <<>> PROVE Tail(q) \in Queues
  <2>1. q \in S /\ Len(q) <= MaxEvents
    BY QueueShape
  <2>2. Tail(q) \in S /\ Len(Tail(q)) = Len(q) - 1 /\ Len(q) \in Nat
    BY <1>4, <2>1
  <2>3. Len(Tail(q)) <= MaxEvents
    BY <1>0, <2>1, <2>2
  <2>4. QED
    BY <2>2, <2>3, QueueShape
<1>5. QED
  BY <1>1, <1>2, <1>3, <1>4

LEMMA NoCallTyped == NoCall \in CallState
BY Names DEF NoCall, CallState

\* The fields of a call: everything but what it got.
SameCall(c) == /\ call'[c].op = call[c].op /\ call'[c].at = call[c].at
               /\ call'[c].plane = call[c].plane /\ call'[c].id = call[c].id

OthersKept(c) == \A d \in Callers : d # c => call'[d] = call[d]

LEMMA MovesFields ==
  ASSUME TypeOK, NEW c \in Callers, NEW at, Moves(c, at)
  PROVE  /\ call'[c].at = at /\ OthersKept(c)
         /\ call'[c].op = call[c].op /\ call'[c].plane = call[c].plane
         /\ call'[c].id = call[c].id /\ call'[c].got = call[c].got
<1>1. call'[c] = [call[c] EXCEPT !.at = at] /\ call[c] \in CallState
  BY DEF Moves, TypeOK
<1>2. OthersKept(c)
  BY DEF Moves, OthersKept, TypeOK
<1>3. QED
  BY <1>1, <1>2 DEF CallState

LEMMA ReturnsFields ==
  ASSUME TypeOK, NEW c \in Callers, Returns(c)
  PROVE  /\ call'[c] = NoCall /\ OthersKept(c)
         /\ call'[c].op = "none" /\ call'[c].at = "idle"
         /\ session' = (session /\ call[c].op # "close")
BY DEF Returns, OthersKept, NoCall, TypeOK

LEMMA EntersFields ==
  ASSUME TypeOK, NEW c \in Callers, NEW op, NEW p, Enters(c, op, p)
  PROVE  /\ call'[c] = [op |-> op, at |-> "inserting", plane |-> p,
                        id |-> nextId[p], got |-> "nothing"]
         /\ OthersKept(c)
         /\ nextId' = [nextId EXCEPT ![p] = @ + 1]
BY DEF Enters, OthersKept, TypeOK

LEMMA DrainsFields ==
  ASSUME TypeOK, NEW p, Drains(p)
  PROVE  /\ call' \in [Callers -> CallState]
         /\ \A c \in Callers :
              /\ SameCall(c)
              /\ call'[c].got =
                   IF /\ call[c].plane = p /\ call[c].id \in requests[p]
                      /\ call[c].got = "nothing"
                   THEN "error" ELSE call[c].got
         /\ requests' = [requests EXCEPT ![p] = {}]
<1>1. ASSUME NEW c \in Callers
      PROVE  /\ call'[c] \in CallState /\ SameCall(c)
             /\ call'[c].got =
                   IF /\ call[c].plane = p /\ call[c].id \in requests[p]
                      /\ call[c].got = "nothing"
                   THEN "error" ELSE call[c].got
  <2>1. call[c] \in CallState
    BY DEF TypeOK
  <2>2. call'[c] = IF /\ call[c].plane = p /\ call[c].id \in requests[p]
                      /\ call[c].got = "nothing"
                   THEN [call[c] EXCEPT !.got = "error"] ELSE call[c]
    BY DEF Drains
  <2>3. QED
    BY <2>1, <2>2 DEF SameCall, CallState
<1>2. call' = [c \in Callers |-> call'[c]]
  BY Zenon DEF Drains
<1>3. QED
  BY <1>1, <1>2 DEF Drains
-----------------------------------------------------------------------------
(* What the steps do to the calls.                                         *)

CallerStep(c) == Starts(c) \/ CallStep(c) \/ Writes(c)

\* A step of a thread of the SDK or of the presenter.
PlaneStep(p) ==
  \/ ReaderStep(p) \/ Takes(p) \/ Breaks(p)
  \/ Pongs(p) \/ ReadsReply(p) \/ ReadsPing(p) \/ ReadsMalformed(p)
SystemStep ==
  \/ \E t \in Threads : CloseStep(t)
  \/ \E p \in Planes : PlaneStep(p)
  \/ ReadsEvent \/ \E l \in Lanes : DecodesInput(l)
  \/ ControlReaderStep

LEMMA StepSplit ==
  ASSUME [Next]_vars
  PROVE  (\E c \in Callers : CallerStep(c)) \/ SystemStep \/ UNCHANGED vars
BY Zenon DEF Next, Exchange, CallerStep, SystemStep, PlaneStep

LEMMA RepliesFields ==
  ASSUME TypeOK, NEW p, NEW i,
         call' = [c \in Callers |->
                    IF call[c].plane = p /\ call[c].id = i
                      THEN [call[c] EXCEPT !.got = "reply"] ELSE call[c]]
  PROVE  /\ call' \in [Callers -> CallState]
         /\ \A c \in Callers :
              /\ SameCall(c)
              /\ call'[c].got = IF call[c].plane = p /\ call[c].id = i
                                 THEN "reply" ELSE call[c].got
<1>1. ASSUME NEW c \in Callers
      PROVE  /\ call'[c] \in CallState /\ SameCall(c)
             /\ call'[c].got = IF call[c].plane = p /\ call[c].id = i
                                THEN "reply" ELSE call[c].got
  <2>1. call[c] \in CallState
    BY DEF TypeOK
  <2>2. call'[c] = IF call[c].plane = p /\ call[c].id = i
                   THEN [call[c] EXCEPT !.got = "reply"] ELSE call[c]
    OBVIOUS
  <2>3. QED
    BY <2>1, <2>2 DEF SameCall, CallState
<1>2. call' = [c \in Callers |-> call'[c]]
  BY Zenon
<1>3. QED
  BY <1>1, <1>2

\* The threads and the presenter end no call, start none and take no identifier.
LEMMA SystemKeeps ==
  ASSUME TypeOK, SystemStep \/ UNCHANGED vars
  PROVE  /\ session' = session /\ nextId' = nextId
         /\ call' \in [Callers -> CallState]
         /\ \A c \in Callers : SameCall(c)
         /\ \A l \in Lanes : reader[l] = "none" <=> reader'[l] = "none"
<1>. DEFINE Kept == /\ session' = session /\ nextId' = nextId
                    /\ call' \in [Callers -> CallState]
                    /\ \A c \in Callers : SameCall(c)
<1>. DEFINE Openings == \A l \in Lanes : reader[l] = "none" <=> reader'[l] = "none"
<1>1. ASSUME call' = call PROVE call' \in [Callers -> CallState] /\ \A c \in Callers : SameCall(c)
  BY <1>1 DEF TypeOK, SameCall
<1>2. CASE UNCHANGED vars
  BY <1>1, <1>2 DEF vars
<1>3. ASSUME NEW t \in Threads, CloseStep(t) PROVE Kept /\ Openings
  <2>1. CASE TakesRegistry(t) \/ ClosesNextLane(t) \/ LaneReports(t)
    BY <1>1, <2>1 DEF TakesRegistry, ClosesNextLane, LaneReports
  <2>2. CASE LaneTable(t)
    <3>1. Kept
      BY <2>2, DrainsFields DEF LaneTable
    <3>2. QED
      BY <2>2, <3>1 DEF LaneTable
  <2>3. QED
    BY <1>3, <2>1, <2>2 DEF CloseStep
<1>4. ASSUME NEW p \in Planes, PlaneStep(p) PROVE Kept /\ Openings
  <2>1. CASE ReaderStep(p) \/ Takes(p) \/ Breaks(p) \/ Pongs(p) \/ ReadsPing(p)
             \/ ReadsMalformed(p)
    <3>1. Kept
      BY <1>1, <2>1 DEF ReaderStep, Pushes, ReadsEnd, LaneReaderStops, Takes, Breaks,
         Pongs, ReadsPing, ReadsMalformed
    <3>2. Openings
      <4>1. \/ reader' = reader
            \/ reader[p] # "none" /\ \E at : at # "none" /\ reader' = [reader EXCEPT ![p] = at]
        <5>1. CASE ReaderStep(p)
          BY <5>1 DEF ReaderStep, Pushes, ReadsEnd, LaneReaderStops, LoopEnds, ReaderMoves
        <5>2. CASE Takes(p) \/ Breaks(p)
          BY <5>2 DEF Takes, Breaks
        <5>3. CASE Pongs(p) \/ ReadsPing(p) \/ ReadsMalformed(p)
          BY <5>3 DEF Pongs, ReadsPing, ReadsMalformed, LoopEnds, ReaderMoves
        <5>4. QED
          BY <2>1, <5>1, <5>2, <5>3
      <4>2. QED
        BY <4>1, Names DEF TypeOK
    <3>3. QED
      BY <3>1, <3>2
  <2>2. CASE ReadsReply(p)
    <3>0. session' = session /\ nextId' = nextId /\ reader[p] = "reading"
      BY <2>2 DEF ReadsReply
    <3>1. PICK i \in asked[p] :
            IF i \in requests[p]
              THEN /\ call' = [c \in Callers |->
                        IF call[c].plane = p /\ call[c].id = i
                          THEN [call[c] EXCEPT !.got = "reply"] ELSE call[c]]
                   /\ UNCHANGED <<reader, closing>>
              ELSE LoopEnds(p) /\ UNCHANGED call
      BY <2>2 DEF ReadsReply
    <3>2. Kept
      <4>1. CASE i \in requests[p]
        <5>1. call' = [c \in Callers |->
                         IF call[c].plane = p /\ call[c].id = i
                           THEN [call[c] EXCEPT !.got = "reply"] ELSE call[c]]
          BY <3>1, <4>1
        <5>2. call' \in [Callers -> CallState] /\ \A c \in Callers : SameCall(c)
          BY <5>1, RepliesFields
        <5>3. QED
          BY <3>0, <5>2
      <4>2. CASE i \notin requests[p]
        BY <1>1, <3>0, <3>1, <4>2
      <4>3. QED
        BY <4>1, <4>2
    <3>3. Openings
      BY <3>0, <3>1, Names DEF LoopEnds, TypeOK
    <3>4. QED
      BY <3>2, <3>3
  <2>3. QED
    BY <1>4, <2>1, <2>2 DEF PlaneStep
<1>5. CASE ReadsEvent \/ \E l \in Lanes : DecodesInput(l)
  BY <1>1, <1>5, Names DEF ReadsEvent, DecodesInput, LoopEnds, ReaderMoves, TypeOK
<1>6. CASE ControlReaderStep
  <2>1. CASE ControlReaderCloses \/ ControlReaderSwept
    BY <1>1, <2>1, Names DEF ControlReaderCloses, ControlReaderSwept, ReaderMoves, TypeOK
  <2>2. CASE ControlReaderDrains
    <3>1. Kept
      BY <2>2, Names, DrainsFields DEF ControlReaderDrains
    <3>2. Openings
      BY <2>2, Names DEF ControlReaderDrains, ReaderMoves, TypeOK
    <3>3. QED
      BY <3>1, <3>2
  <2>3. QED
    BY <1>6, <2>1, <2>2 DEF ControlReaderStep
<1>7. QED
  BY <1>2, <1>3, <1>4, <1>5, <1>6 DEF SystemStep
\* What a step of a caller does to its call: it takes an identifier, goes on with
\* its request, returns, or starts a call that is not a request.
Asks(c, op, p) ==
  /\ Enters(c, op, p) /\ UNCHANGED <<reader, session>>
  /\ \/ /\ op = "request" /\ p = Control
        /\ At(c, "idle") /\ MayBorrow(c, op) /\ nextId[p] <= MaxRequests
     \/ op = "bind" /\ p \in Lanes /\ At(c, "idle") /\ nextId[p] <= MaxRequests
     \/ op = "close" /\ p = Control /\ At(c, "sweeping") /\ call[c].op = "close"
Proceeds(c) ==
  /\ Requesting(c) /\ (Moves(c, "writing") \/ Moves(c, "waiting"))
  /\ UNCHANGED <<nextId, session, reader>>
Leaves(c) ==
  /\ Returns(c) /\ UNCHANGED nextId
  /\ \/ UNCHANGED reader
     \/ At(c, "opening") /\ reader' = [reader EXCEPT ![call[c].plane] = "reading"]
Opens(c, l) ==
  /\ At(c, "idle") /\ MayBorrow(c, "open") /\ reader[l] = "none"
  /\ \A d \in Callers : call[d].op = "open" => call[d].plane # l
  /\ call' = [call EXCEPT ![c] = [NoCall EXCEPT !.op = "open", !.at = "opening", !.plane = l]]
  /\ UNCHANGED <<nextId, session, reader>>
ClosesLane(c, l) ==
  /\ At(c, "idle")
  /\ call' = [call EXCEPT ![c] = [NoCall EXCEPT !.op = "closeLane", !.at = "closing",
                                                !.plane = l]]
  /\ UNCHANGED <<nextId, session, reader>>
Ends(c, op) ==
  /\ At(c, "idle") /\ MayBorrow(c, op)
  /\ call' = [call EXCEPT ![c] = [NoCall EXCEPT !.op = op, !.at = "sweeping"]]
  /\ UNCHANGED <<nextId, session, reader>>

CallerEffect(c) ==
  \/ \E op, p : Asks(c, op, p)
  \/ Proceeds(c) \/ Leaves(c)
  \/ \E l \in Lanes : Opens(c, l) \/ ClosesLane(c, l)
  \/ \E op \in Exclusive : Ends(c, op)

LEMMA CallerEffects ==
  ASSUME NEW c \in Callers, CallerStep(c)
  PROVE  CallerEffect(c)
<1>1. CASE RequestStarts(c)
  <2>1. Asks(c, "request", Control)
    BY <1>1 DEF RequestStarts, Asks
  <2>2. QED
    BY <2>1 DEF CallerEffect
<1>2. ASSUME NEW l \in Lanes, SetBindingStarts(c, l) PROVE CallerEffect(c)
  <2>1. Asks(c, "bind", l)
    BY <1>2 DEF SetBindingStarts, Asks
  <2>2. QED
    BY <2>1 DEF CallerEffect
<1>3. ASSUME NEW l \in Lanes, OpenStarts(c, l) \/ LaneCloseStarts(c, l) PROVE CallerEffect(c)
  BY <1>3 DEF OpenStarts, LaneCloseStarts, Opens, ClosesLane, CallerEffect
<1>4. ASSUME NEW op \in Exclusive, EndStarts(c, op) PROVE CallerEffect(c)
  BY <1>4 DEF EndStarts, Ends, CallerEffect
<1>5. CASE Inserts(c) \/ Writes(c)
  BY <1>5 DEF Inserts, Writes, Proceeds, Leaves, Requesting, At, CallerEffect
<1>6. CASE WriteFails(c) \/ Receives(c) \/ BindingReceives(c) \/ LaneCloseReturns(c)
           \/ Registers(c)
  BY <1>6 DEF WriteFails, Receives, BindingReceives, LaneCloseReturns, Registers,
     Leaves, CallerEffect
<1>7. CASE EndSweeps(c)
  <2>1. Asks(c, "close", Control) \/ Leaves(c)
    BY <1>7 DEF EndSweeps, Asks, Leaves
  <2>2. QED
    BY <2>1 DEF CallerEffect
<1>8. QED
  BY <1>1, <1>2, <1>3, <1>4, <1>5, <1>6, <1>7 DEF CallerStep, Starts, CallStep
CallsInv == TypeOK /\ CallsInOrder /\ CallsApart /\ IdsBounded

LEMMA IdBelowBound ==
  ASSUME CallsInv, NEW c \in Callers, NEW op, NEW p, Asks(c, op, p)
  PROVE  /\ p \in Planes /\ op \in SessionOps \union {"bind"} /\ ~Requesting(c)
         /\ nextId[p] \in Ids
         /\ nextId[p] <= MaxRequests \/ (op = "close" /\ p = Control)
         /\ op \in SessionOps => session
<1>1. p \in Planes /\ op \in SessionOps \union {"bind"} /\ ~Requesting(c)
  BY Names DEF Asks, SessionOps, Requesting, At
<1>2. nextId[p] \in 1 .. MaxRequests + 2 /\ MaxRequests \in Nat
  BY <1>1, SizeAssumption DEF CallsInv, TypeOK
<1>3. op \in SessionOps => session
  BY Names DEF CallsInv, CallsInOrder, Asks, MayBorrow, At, SessionOps
<1>4. CASE nextId[p] <= MaxRequests
  BY <1>1, <1>2, <1>3, <1>4 DEF Ids
<1>5. CASE op = "close" /\ p = Control /\ At(c, "sweeping") /\ call[c].op = "close"
  <2>1. \A d \in Callers : ~(Requesting(d) /\ call[d].op = "close")
    BY <1>1, <1>5 DEF CallsInv, CallsApart, SessionOps, Exclusive
  <2>2. nextId[p] <= MaxRequests + 1
    BY <1>3, <1>5, <2>1 DEF CallsInv, IdsBounded, SessionOps
  <2>3. QED
    BY <1>1, <1>2, <1>3, <1>5, <2>2 DEF Ids
<1>6. QED
  BY <1>4, <1>5 DEF Asks

LEMMA CallTypes ==
  ASSUME CallsInv, [Next]_vars
  PROVE  /\ call' \in [Callers -> CallState]
         /\ nextId' \in [Planes -> 1 .. MaxRequests + 2]
         /\ session' \in BOOLEAN
<1>1. CASE SystemStep \/ UNCHANGED vars
  BY <1>1, SystemKeeps DEF CallsInv, TypeOK
<1>2. ASSUME NEW c \in Callers, CallerEffect(c)
      PROVE  /\ call' \in [Callers -> CallState]
             /\ nextId' \in [Planes -> 1 .. MaxRequests + 2]
             /\ session' \in BOOLEAN
  <2>0. TypeOK
    BY DEF CallsInv
  <2>1. ASSUME NEW op, NEW p, Asks(c, op, p)
        PROVE  /\ call' \in [Callers -> CallState]
               /\ nextId' \in [Planes -> 1 .. MaxRequests + 2]
               /\ session' \in BOOLEAN
    <3>1. p \in Planes /\ op \in SessionOps \union {"bind"} /\ nextId[p] \in Ids
      BY <2>1, IdBelowBound
    <3>2. [op |-> op, at |-> "inserting", plane |-> p, id |-> nextId[p], got |-> "nothing"]
            \in CallState
      BY <3>1 DEF CallState
    <3>3. nextId[p] + 1 \in 1 .. MaxRequests + 2
      BY <3>1, SizeAssumption DEF Ids
    <3>4. QED
      BY <2>0, <2>1, <3>2, <3>3 DEF Asks, Enters, TypeOK
  <2>2. CASE Proceeds(c)
    <3>1. \A at \in {"writing", "waiting"} : [call[c] EXCEPT !.at = at] \in CallState
      BY <2>0 DEF TypeOK, CallState
    <3>2. QED
      BY <2>0, <2>2, <3>1 DEF Proceeds, Moves, TypeOK
  <2>3. CASE Leaves(c)
    BY <2>0, <2>3, NoCallTyped DEF Leaves, Returns, TypeOK
  <2>4. ASSUME NEW l \in Lanes, Opens(c, l) \/ ClosesLane(c, l)
        PROVE  /\ call' \in [Callers -> CallState]
               /\ nextId' \in [Planes -> 1 .. MaxRequests + 2]
               /\ session' \in BOOLEAN
    <3>1. /\ [NoCall EXCEPT !.op = "open", !.at = "opening", !.plane = l] \in CallState
          /\ [NoCall EXCEPT !.op = "closeLane", !.at = "closing", !.plane = l] \in CallState
      BY NoCallTyped, Names DEF CallState, SessionOps
    <3>2. QED
      BY <2>0, <2>4, <3>1 DEF Opens, ClosesLane, TypeOK
  <2>5. ASSUME NEW op \in Exclusive, Ends(c, op)
        PROVE  /\ call' \in [Callers -> CallState]
               /\ nextId' \in [Planes -> 1 .. MaxRequests + 2]
               /\ session' \in BOOLEAN
    <3>1. [NoCall EXCEPT !.op = op, !.at = "sweeping"] \in CallState
      BY NoCallTyped DEF CallState, SessionOps, Exclusive
    <3>2. QED
      BY <2>0, <2>5, <3>1 DEF Ends, TypeOK
  <2>6. QED
    BY <1>2, <2>1, <2>2, <2>3, <2>4, <2>5 DEF CallerEffect
<1>3. QED
  BY <1>1, <1>2, StepSplit, CallerEffects
\* What a caller effect leaves its own call with; the other calls are kept.
LEMMA EffectFields ==
  ASSUME CallsInv, NEW c \in Callers
  PROVE  /\ \A op, p : Asks(c, op, p) =>
              /\ OthersKept(c)
              /\ call'[c].op = op /\ call'[c].at = "inserting" /\ call'[c].plane = p
              /\ call'[c].id = nextId[p] /\ call'[c].got = "nothing"
              /\ nextId'[p] = nextId[p] + 1
              /\ \A q \in Planes \ {p} : nextId'[q] = nextId[q]
         /\ Proceeds(c) =>
              /\ OthersKept(c)
              /\ call'[c].op = call[c].op /\ call'[c].at \in {"writing", "waiting"}
              /\ call'[c].plane = call[c].plane /\ call'[c].id = call[c].id
              /\ call'[c].got = call[c].got
         /\ Leaves(c) =>
              /\ OthersKept(c)
              /\ call'[c].op = "none" /\ call'[c].at = "idle"
         /\ \A l \in Lanes : Opens(c, l) =>
              /\ OthersKept(c)
              /\ call'[c].op = "open" /\ call'[c].at = "opening" /\ call'[c].plane = l
         /\ \A l \in Lanes : ClosesLane(c, l) =>
              /\ OthersKept(c)
              /\ call'[c].op = "closeLane" /\ call'[c].at = "closing"
         /\ \A op : Ends(c, op) =>
              OthersKept(c) /\ call'[c].op = op /\ call'[c].at = "sweeping"
<1>0. TypeOK
  BY DEF CallsInv
<1>1. ASSUME NEW op, NEW p, Asks(c, op, p)
      PROVE  /\ OthersKept(c)
             /\ call'[c].op = op /\ call'[c].at = "inserting" /\ call'[c].plane = p
             /\ call'[c].id = nextId[p] /\ call'[c].got = "nothing"
             /\ nextId'[p] = nextId[p] + 1
             /\ \A q \in Planes \ {p} : nextId'[q] = nextId[q]
  <2>1. p \in Planes
    BY <1>1, IdBelowBound
  <2>2. Enters(c, op, p)
    BY <1>1 DEF Asks
  <2>3. /\ call'[c] = [op |-> op, at |-> "inserting", plane |-> p,
                       id |-> nextId[p], got |-> "nothing"]
        /\ OthersKept(c)
        /\ nextId' = [nextId EXCEPT ![p] = @ + 1]
    BY <1>0, <2>2, EntersFields
  <2>4. /\ nextId'[p] = nextId[p] + 1
        /\ \A q \in Planes \ {p} : nextId'[q] = nextId[q]
    BY <1>0, <2>1, <2>3 DEF TypeOK
  <2>5. QED
    BY <2>3, <2>4
<1>2. ASSUME Proceeds(c)
      PROVE  /\ OthersKept(c)
             /\ call'[c].op = call[c].op /\ call'[c].at \in {"writing", "waiting"}
             /\ call'[c].plane = call[c].plane /\ call'[c].id = call[c].id
             /\ call'[c].got = call[c].got
  BY <1>0, <1>2, MovesFields DEF Proceeds
<1>3. ASSUME Leaves(c)
      PROVE  OthersKept(c) /\ call'[c].op = "none" /\ call'[c].at = "idle"
  BY <1>0, <1>3, ReturnsFields DEF Leaves
<1>4. ASSUME NEW l \in Lanes, Opens(c, l)
      PROVE  /\ OthersKept(c)
             /\ call'[c].op = "open" /\ call'[c].at = "opening" /\ call'[c].plane = l
  BY <1>0, <1>4 DEF Opens, NoCall, OthersKept, TypeOK
<1>5. ASSUME NEW l \in Lanes, ClosesLane(c, l)
      PROVE  OthersKept(c) /\ call'[c].op = "closeLane" /\ call'[c].at = "closing"
  BY <1>0, <1>5 DEF ClosesLane, NoCall, OthersKept, TypeOK
<1>6. ASSUME NEW op, Ends(c, op)
      PROVE  OthersKept(c) /\ call'[c].op = op /\ call'[c].at = "sweeping"
  BY <1>0, <1>6 DEF Ends, NoCall, OthersKept, TypeOK
<1>7. QED
  BY <1>1, <1>2, <1>3, <1>4, <1>5, <1>6

LEMMA OpeningsKept ==
  ASSUME CallsInv, NEW c \in Callers, CallerEffect(c)
  PROVE  \A l \in Lanes : reader[l] = "none" =>
           reader'[l] = "none" \/ (At(c, "opening") /\ call[c].plane = l /\ call'[c].at = "idle")
<1>1. CASE Leaves(c)
  BY <1>1, EffectFields, Names DEF Leaves, CallsInv, TypeOK
<1>2. CASE ~Leaves(c)
  BY <1>2 DEF CallerEffect, Asks, Proceeds, Opens, ClosesLane, Ends
<1>3. QED
  BY <1>1, <1>2

LEMMA CallsKept ==
  ASSUME CallsInv, [Next]_vars
  PROVE  CallsInOrder' /\ CallsApart' /\ IdsBounded'
<1>0. /\ TypeOK /\ CallsInOrder /\ CallsApart /\ IdsBounded
      /\ \A c \in Callers : call[c] \in CallState
      /\ \A p \in Planes : nextId[p] \in Nat
  BY SizeAssumption DEF CallsInv, TypeOK
<1>1. CASE SystemStep \/ UNCHANGED vars
  <2>1. /\ session' = session /\ nextId' = nextId
        /\ \A c \in Callers : SameCall(c)
        /\ \A l \in Lanes : reader[l] = "none" <=> reader'[l] = "none"
    BY <1>0, <1>1, SystemKeeps
  <2>2. CallsInOrder'
    BY <1>0, <2>1 DEF CallsInOrder, SameCall, At, Requesting
  <2>3. CallsApart'
    BY <1>0, <2>1 DEF CallsApart, SameCall, At, Requesting
  <2>4. IdsBounded'
    BY <1>0, <2>1 DEF IdsBounded, SameCall, Requesting
  <2>5. QED
    BY <2>2, <2>3, <2>4
<1>2. ASSUME NEW c \in Callers, CallerEffect(c)
      PROVE  CallsInOrder' /\ CallsApart' /\ IdsBounded'
  <2>0. \A l \in Lanes : reader[l] = "none" =>
           reader'[l] = "none" \/ (At(c, "opening") /\ call[c].plane = l /\ call'[c].at = "idle")
    BY <1>2, OpeningsKept
  <2>1. ASSUME NEW op, NEW p, Asks(c, op, p)
        PROVE  CallsInOrder' /\ CallsApart' /\ IdsBounded'
    <3>1. /\ p \in Planes /\ op \in SessionOps \union {"bind"} /\ ~Requesting(c)
          /\ nextId[p] \in Ids
          /\ nextId[p] <= MaxRequests \/ (op = "close" /\ p = Control)
          /\ op \in SessionOps => session
      BY <1>0, <2>1, IdBelowBound
    <3>2. /\ OthersKept(c)
          /\ call'[c].op = op /\ call'[c].at = "inserting" /\ call'[c].plane = p
          /\ call'[c].id = nextId[p]
          /\ nextId'[p] = nextId[p] + 1
          /\ \A q \in Planes \ {p} : nextId'[q] = nextId[q]
      BY <2>1, EffectFields
    <3>3. session' = session /\ reader' = reader
      BY <2>1 DEF Asks
    <3>4. op \in SessionOps => \A d \in Callers \ {c} :
             call[d].op \in SessionOps => {op, call[d].op} \intersect Exclusive = {}
      BY <1>0, <2>1 DEF Asks, MayBorrow, CallsApart, SessionOps, Exclusive
    <3>5. \A q \in Planes : nextId[q] <= nextId'[q]
      BY <1>0, <3>1, <3>2
    <3>6. CallsInOrder'
      BY <1>0, <3>1, <3>2, <3>3, <3>5
         DEF CallsInOrder, OthersKept, At, Requesting, CallState, Ids, SessionOps
    <3>7. \A d \in Callers \ {c} :
            Requesting(d) /\ call[d].plane = p => call[d].id # nextId[p]
      BY <1>0, <3>1 DEF CallsInOrder, CallState, Ids
    <3>8. CallsApart'
      BY <1>0, <3>1, <3>2, <3>4, <3>7 DEF CallsApart, OthersKept, At, Requesting
    <3>9. IdsBounded'
      BY <1>0, <3>1, <3>2, <3>3, SizeAssumption, Names
         DEF IdsBounded, OthersKept, Requesting
    <3>10. QED
      BY <3>6, <3>8, <3>9
  <2>2. CASE Proceeds(c)
    <3>1. /\ OthersKept(c) /\ Requesting(c)
          /\ call'[c].op = call[c].op /\ call'[c].at \in {"writing", "waiting"}
          /\ call'[c].plane = call[c].plane /\ call'[c].id = call[c].id
          /\ session' = session /\ nextId' = nextId /\ reader' = reader
      BY <2>2, EffectFields DEF Proceeds
    <3>2. CallsInOrder'
      BY <1>0, <3>1 DEF CallsInOrder, OthersKept, At, Requesting
    <3>3. CallsApart'
      BY <1>0, <3>1 DEF CallsApart, OthersKept, At, Requesting
    <3>4. IdsBounded'
      BY <1>0, <3>1 DEF IdsBounded, OthersKept, Requesting
    <3>5. QED
      BY <3>2, <3>3, <3>4
  <2>3. CASE Leaves(c)
    <3>1. /\ OthersKept(c) /\ call'[c].op = "none" /\ call'[c].at = "idle"
          /\ session' = (session /\ call[c].op # "close") /\ nextId' = nextId
      BY <1>0, <2>3, EffectFields, ReturnsFields DEF Leaves
    <3>2. CallsInOrder'
      <4>1. \A d \in Callers \ {c} : call[d].op \in SessionOps => session'
        BY <1>0, <3>1 DEF CallsInOrder, CallsApart, SessionOps, Exclusive
      <4>2. \A d \in Callers \ {c} : At(d, "opening") => reader'[call[d].plane] = "none"
        BY <1>0, <2>0, <3>1 DEF CallsInOrder, CallsApart
      <4>3. QED
        BY <1>0, <3>1, <4>1, <4>2 DEF CallsInOrder, OthersKept, At, Requesting, SessionOps
    <3>3. CallsApart'
      BY <1>0, <3>1 DEF CallsApart, OthersKept, At, Requesting, SessionOps
    <3>4. IdsBounded'
      BY <1>0, <3>1 DEF IdsBounded, OthersKept, Requesting
    <3>5. QED
      BY <3>2, <3>3, <3>4
  <2>4. ASSUME NEW op, NEW at,
               /\ At(c, "idle") /\ OthersKept(c)
               /\ call'[c].op = op /\ call'[c].at = at
               /\ session' = session /\ nextId' = nextId /\ reader' = reader,
               \/ op = "closeLane" /\ at = "closing"
               \/ op \in Exclusive /\ at = "sweeping" /\ MayBorrow(c, op)
               \/ \E l \in Lanes : /\ op = "open" /\ at = "opening" /\ MayBorrow(c, op)
                                   /\ call'[c].plane = l /\ reader[l] = "none"
                                   /\ \A d \in Callers : call[d].op = "open" => call[d].plane # l
        PROVE  CallsInOrder' /\ CallsApart' /\ IdsBounded'
    <3>1. CallsInOrder'
      BY <1>0, <2>4 DEF CallsInOrder, OthersKept, At, Requesting, SessionOps, Exclusive, MayBorrow
    <3>2. CallsApart'
      BY <1>0, <2>4 DEF CallsApart, CallsInOrder, OthersKept, At, Requesting, SessionOps,
         Exclusive, MayBorrow
    <3>3. IdsBounded'
      BY <1>0, <2>4 DEF IdsBounded, OthersKept, At, Requesting
    <3>4. QED
      BY <3>1, <3>2, <3>3
  <2>5. ASSUME NEW l \in Lanes, Opens(c, l) \/ ClosesLane(c, l)
        PROVE  CallsInOrder' /\ CallsApart' /\ IdsBounded'
    <3>1. CASE Opens(c, l)
      BY <2>4, <3>1, EffectFields DEF Opens
    <3>2. CASE ClosesLane(c, l)
      BY <2>4, <3>2, EffectFields DEF ClosesLane
    <3>3. QED
      BY <2>5, <3>1, <3>2
  <2>6. ASSUME NEW op \in Exclusive, Ends(c, op)
        PROVE  CallsInOrder' /\ CallsApart' /\ IdsBounded'
    BY <2>4, <2>6, EffectFields DEF Ends
  <2>7. QED
    BY <1>2, <2>1, <2>2, <2>3, <2>5, <2>6 DEF CallerEffect
<1>3. QED
  BY <1>1, <1>2, StepSplit, CallerEffects
-----------------------------------------------------------------------------
(* Types.                                                                  *)

\* The part of TypeOK that is not about calls.
PlanesTyped ==
  /\ up \in [Planes -> BOOLEAN] /\ closed \in [Planes -> BOOLEAN]
  /\ asked \in [Planes -> SUBSET Ids] /\ requests \in [Planes -> SUBSET Ids]
  /\ events \in [Planes -> Queues]
  /\ reader \in [Planes -> {"none", "reading", "ponging", "pushing",
                            "ended", "sweeping", "draining", "done"}]
  /\ lifecycle \in BOOLEAN /\ lanes \subseteq Lanes
  /\ sweep \in [by : Threads \union {None}, left : SUBSET Lanes]
  /\ closing \in [Threads -> ClosingState]

LEMMA TypeSplit ==
  /\ TypeOK => PlanesTyped
  /\ (PlanesTyped /\ call \in [Callers -> CallState]
       /\ nextId \in [Planes -> 1 .. MaxRequests + 2] /\ session \in BOOLEAN) => TypeOK
BY DEF TypeOK, PlanesTyped

\* A request that is entered or sent carries an identifier of its table.
LEMMA RequestId ==
  ASSUME CallsInv, NEW c \in Callers, Requesting(c)
  PROVE  call[c].id \in Ids
BY SizeAssumption DEF CallsInv, TypeOK, CallsInOrder, CallState, Ids, At, Requesting

LEMMA TypeKept ==
  ASSUME CallsInv, [Next]_vars
  PROVE  TypeOK'
<1>0. PlanesTyped /\ TypeOK
  BY TypeSplit DEF CallsInv
<1>1. ASSUME UNCHANGED vars PROVE PlanesTyped'
  BY <1>0, <1>1 DEF PlanesTyped, vars
<1>2. ASSUME NEW c \in Callers, CallerStep(c)
      PROVE  PlanesTyped'
  <2>1. CASE Starts(c)
    <3>1. ASSUME NEW l \in Lanes, LaneCloseStarts(c, l) PROVE PlanesTyped'
      <4>1. [lane |-> l, step |-> "report"] \in ClosingState
        BY DEF ClosingState
      <4>2. QED
        BY <1>0, <3>1, <4>1, Names DEF PlanesTyped, LaneCloseStarts, wires
    <3>2. CASE RequestStarts(c) \/ \E l \in Lanes : SetBindingStarts(c, l) \/ OpenStarts(c, l)
      BY <1>0, <3>2 DEF PlanesTyped, RequestStarts, SetBindingStarts, OpenStarts, wires
    <3>3. CASE \E op \in Exclusive : EndStarts(c, op)
      BY <1>0, <3>3 DEF PlanesTyped, EndStarts, wires
    <3>4. QED
      BY <2>1, <3>1, <3>2, <3>3 DEF Starts
  <2>2. CASE Inserts(c) \/ Writes(c)
    <3>1. call[c].id \in Ids
      BY <2>2, RequestId DEF Inserts, Writes, Requesting, At
    <3>2. CASE Inserts(c)
      BY <1>0, <3>1, <3>2 DEF PlanesTyped, Inserts, wires
    <3>3. CASE Writes(c)
      BY <1>0, <3>1, <3>3 DEF PlanesTyped, Writes, wires
    <3>4. QED
      BY <2>2, <3>2, <3>3
  <2>3. CASE WriteFails(c) \/ Receives(c) \/ BindingReceives(c) \/ LaneCloseReturns(c)
    BY <1>0, <2>3 DEF PlanesTyped, WriteFails, Receives, BindingReceives, LaneCloseReturns, wires
  <2>4. CASE Registers(c)
    <3>1. call[c].plane \in Lanes
      BY <2>4 DEF Registers, CallsInv, CallsInOrder
    <3>2. QED
      BY <1>0, <2>4, <3>1 DEF PlanesTyped, Registers, wires
  <2>5. CASE EndSweeps(c)
    BY <1>0, <2>5 DEF PlanesTyped, EndSweeps, wires
  <2>6. QED
    BY <1>2, <2>1, <2>2, <2>3, <2>4, <2>5 DEF CallerStep, CallStep
<1>3. ASSUME NEW t \in Threads, CloseStep(t)
      PROVE  PlanesTyped'
  <2>1. CASE TakesRegistry(t)
    BY <1>0, <2>1 DEF PlanesTyped, TakesRegistry, wires
  <2>2. CASE ClosesNextLane(t)
    <3>1. PICK l \in sweep.left :
            /\ sweep' = [sweep EXCEPT !.left = @ \ {l}]
            /\ closing' = [closing EXCEPT ![t] = [lane |-> l, step |-> "report"]]
      BY <2>2 DEF ClosesNextLane
    <3>2. [lane |-> l, step |-> "report"] \in ClosingState
      BY <1>0 DEF PlanesTyped, ClosingState
    <3>3. QED
      BY <1>0, <2>2, <3>1, <3>2 DEF PlanesTyped, ClosesNextLane, wires
  <2>3. CASE LaneReports(t)
    <3>1. [closing[t] EXCEPT !.step = "table"] \in ClosingState
      BY <1>0 DEF PlanesTyped, ClosingState
    <3>2. QED
      BY <1>0, <2>3, <3>1, QueueSteps DEF PlanesTyped, LaneReports, wires
  <2>4. CASE LaneTable(t)
    <3>1. NotClosing \in ClosingState
      BY DEF NotClosing, ClosingState
    <3>2. QED
      BY <1>0, <2>4, <3>1 DEF PlanesTyped, LaneTable, Drains, wires
  <2>5. QED
    BY <1>3, <2>1, <2>2, <2>3, <2>4 DEF CloseStep
<1>4. ASSUME NEW p \in Planes, LoopEnds(p)
      PROVE  /\ reader' \in [Planes -> {"none", "reading", "ponging", "pushing",
                            "ended", "sweeping", "draining", "done"}]
             /\ closing' \in [Threads -> ClosingState]
  <2>1. p \in Lanes => [lane |-> p, step |-> "report"] \in ClosingState
    BY DEF ClosingState
  <2>2. QED
    BY <1>0, <1>4, <2>1 DEF LoopEnds, PlanesTyped
<1>pushed. ASSUME NEW p \in Planes, Len(events[p]) # MaxEvents
      PROVE  Append(events[p], "event") \in Queues
  BY <1>0, <1>pushed, QueueSteps DEF PlanesTyped
<1>5. ASSUME NEW p \in Planes, PlaneStep(p)
      PROVE  PlanesTyped'
  <2>1. CASE Pushes(p)
    <3>1. events' \in [Planes -> Queues]
      BY <1>0, <1>pushed, <2>1 DEF Pushes, PlanesTyped
    <3>2. QED
      BY <1>0, <1>4, <2>1, <3>1 DEF PlanesTyped, Pushes, ReaderMoves, wires
  <2>2. CASE ReadsEnd(p) \/ ReadsMalformed(p)
    BY <1>0, <1>4, <2>2 DEF PlanesTyped, ReadsEnd, ReadsMalformed, wires
  <2>3. CASE Pongs(p) \/ ReadsPing(p) \/ LaneReaderStops(p)
    BY <1>0, <1>4, <2>3 DEF PlanesTyped, Pongs, ReadsPing, LaneReaderStops, ReaderMoves, wires
  <2>4. CASE Takes(p)
    <3>1. events' \in [Planes -> Queues]
      BY <1>0, <2>4, QueueSteps DEF Takes, PlanesTyped
    <3>2. QED
      BY <1>0, <2>4, <3>1 DEF PlanesTyped, Takes, wires
  <2>5. CASE Breaks(p)
    BY <1>0, <2>5 DEF PlanesTyped, Breaks
  <2>6. CASE ReadsReply(p)
    <3>1. /\ asked' \in [Planes -> SUBSET Ids] /\ requests' \in [Planes -> SUBSET Ids]
          /\ LoopEnds(p) \/ UNCHANGED <<reader, closing>>
      BY <1>0, <2>6 DEF PlanesTyped, ReadsReply
    <3>2. QED
      BY <1>0, <1>4, <2>6, <3>1 DEF PlanesTyped, ReadsReply
  <2>7. QED
    BY <1>5, <2>1, <2>2, <2>3, <2>4, <2>5, <2>6 DEF PlaneStep, ReaderStep
<1>6. ASSUME ReadsEvent PROVE PlanesTyped'
  <2>0. Len(events[Control]) # MaxEvents => Append(events[Control], "event") \in Queues
    BY <1>pushed, Names
  <2>1. events' \in [Planes -> Queues]
    BY <1>0, <1>6, <2>0 DEF ReadsEvent, PlanesTyped
  <2>2. LoopEnds(Control) \/ UNCHANGED <<reader, closing>>
    BY <1>6 DEF ReadsEvent
  <2>3. /\ reader' \in [Planes -> {"none", "reading", "ponging", "pushing",
                                  "ended", "sweeping", "draining", "done"}]
        /\ closing' \in [Threads -> ClosingState]
    BY <1>0, <1>4, <2>2, Names DEF PlanesTyped
  <2>4. QED
    BY <1>0, <1>6, <2>1, <2>3 DEF PlanesTyped, ReadsEvent, wires
<1>7. ASSUME NEW l \in Lanes, DecodesInput(l) PROVE PlanesTyped'
  BY <1>0, <1>7, Names DEF PlanesTyped, DecodesInput, ReaderMoves, wires
<1>8. ASSUME ControlReaderStep PROVE PlanesTyped'
  <2>1. CASE ControlReaderCloses
    BY <1>0, <2>1, Names DEF PlanesTyped, ControlReaderCloses, ReaderMoves, wires
  <2>2. CASE ControlReaderSwept
    BY <1>0, <2>2, Names DEF PlanesTyped, ControlReaderSwept, ReaderMoves, wires
  <2>3. CASE ControlReaderDrains
    BY <1>0, <2>3, QueueSteps, Names
       DEF PlanesTyped, ControlReaderDrains, ReaderMoves, Drains, wires
  <2>4. QED
    BY <1>8, <2>1, <2>2, <2>3 DEF ControlReaderStep
<1>9. PlanesTyped'
  <2>1. CASE \E c \in Callers : CallerStep(c)
    BY <1>2, <2>1
  <2>2. CASE SystemStep
    BY <1>3, <1>5, <1>6, <1>7, <1>8, <2>2 DEF SystemStep
  <2>3. QED
    BY <1>1, <2>1, <2>2, StepSplit
<1>10. /\ call' \in [Callers -> CallState]
       /\ nextId' \in [Planes -> 1 .. MaxRequests + 2]
       /\ session' \in BOOLEAN
  BY CallTypes
<1>11. QED
  BY <1>9, <1>10 DEF TypeOK, PlanesTyped
-----------------------------------------------------------------------------
(* Who closes what.                                                        *)

LEMMA Parts ==
  ASSUME PlaneInv
  PROVE  /\ CallsInv /\ TypeOK /\ CallsInOrder /\ CallsApart /\ IdsBounded /\ ClosersInStep
         /\ EntriesServed /\ DrainedStaysEmpty /\ ReportsFinal /\ LanesAccounted
BY DEF PlaneInv, CallsInv

\* The callers' part of the registry, the closings and the flags.
LEMMA CallerKeeps ==
  ASSUME PlaneInv, NEW c \in Callers, CallerStep(c)
  PROVE  /\ closed' = closed /\ events' = events /\ OthersKept(c)
         /\ \/ sweep' = sweep /\ closing' = closing /\ ~At(c, "sweeping")
               /\ (At(c, "closing") => closing[c] = NotClosing)
            \/ /\ At(c, "idle") /\ sweep' = sweep /\ call'[c].at = "closing"
               /\ \E l \in Lanes : closing' = [closing EXCEPT ![c] = [lane |-> l, step |-> "report"]]
            \/ /\ At(c, "sweeping") /\ sweep.by = c /\ sweep.left = {} /\ closing[c] = NotClosing
               /\ sweep' = [sweep EXCEPT !.by = None] /\ closing' = closing
               /\ call'[c].at # "sweeping"
         /\ \A p \in Planes : reader'[p] # reader[p] => p \in Lanes /\ reader[p] = "none"
<1>0. TypeOK /\ CallsInv /\ CallsInOrder
  BY Parts
<1>1. OthersKept(c)
  BY <1>0, CallerEffects, EffectFields DEF CallerEffect
<1>2. CASE RequestStarts(c) \/ \E l \in Lanes : SetBindingStarts(c, l) \/ OpenStarts(c, l)
  BY <1>1, <1>2 DEF RequestStarts, SetBindingStarts, OpenStarts, At
<1>3. CASE \E op \in Exclusive : EndStarts(c, op)
  BY <1>1, <1>3 DEF EndStarts, At
<1>4. ASSUME NEW l \in Lanes, LaneCloseStarts(c, l)
      PROVE  /\ At(c, "idle") /\ sweep' = sweep /\ call'[c].at = "closing"
             /\ closing' = [closing EXCEPT ![c] = [lane |-> l, step |-> "report"]]
             /\ closed' = closed /\ events' = events /\ reader' = reader
  BY <1>0, <1>4 DEF LaneCloseStarts, TypeOK, NoCall
<1>5. CASE Inserts(c) \/ Writes(c) \/ WriteFails(c) \/ Receives(c) \/ BindingReceives(c)
           \/ LaneCloseReturns(c)
  BY <1>1, <1>5 DEF Inserts, Writes, WriteFails, Receives, BindingReceives, LaneCloseReturns, At
<1>6. CASE Registers(c)
  <2>1. call[c].plane \in Lanes /\ reader[call[c].plane] = "none"
    BY <1>0, <1>6 DEF Registers, CallsInOrder
  <2>2. QED
    BY <1>0, <1>1, <1>6, <2>1, Names DEF Registers, At, TypeOK
<1>7. CASE EndSweeps(c)
  <2>1. call'[c].at # "sweeping"
    <3>1. Enters(c, "close", Control) \/ Returns(c)
      BY <1>7 DEF EndSweeps
    <3>2. Enters(c, "close", Control) => call'[c].at = "inserting"
      BY <1>0 DEF Enters, TypeOK
    <3>3. Returns(c) => call'[c].at = "idle"
      BY <1>0, ReturnsFields
    <3>4. QED
      BY <3>1, <3>2, <3>3
  <2>2. QED
    BY <1>1, <1>7, <2>1 DEF EndSweeps
<1>8. QED
  BY <1>1, <1>2, <1>3, <1>4, <1>5, <1>6, <1>7 DEF CallerStep, Starts, CallStep

\* Whom the closing threads and the readers leave where they are.
LEMMA ClosersKept ==
  ASSUME PlaneInv, [Next]_vars
  PROVE  ClosersInStep'
<1>0. /\ TypeOK /\ CallsInv /\ CallsInOrder /\ ClosersInStep
      /\ \A t \in Threads : closing[t] \in ClosingState
      /\ sweep \in [by : Threads \union {None}, left : SUBSET Lanes]
  BY Parts DEF TypeOK
<1>1. ASSUME NEW c \in Callers, CallerStep(c) PROVE ClosersInStep'
  <2>0. /\ closed' = closed /\ OthersKept(c)
        /\ \A p \in Planes : reader'[p] # reader[p] => p \in Lanes /\ reader[p] = "none"
    BY <1>1, CallerKeeps
  <2>1. CASE /\ sweep' = sweep /\ closing' = closing /\ ~At(c, "sweeping")
             /\ (At(c, "closing") => closing[c] = NotClosing)
    BY <1>0, <2>0, <2>1, Names DEF ClosersInStep, Sweeping, At, OthersKept
  <2>2. CASE /\ At(c, "idle") /\ sweep' = sweep /\ call'[c].at = "closing"
             /\ \E l \in Lanes : closing' = [closing EXCEPT ![c] = [lane |-> l, step |-> "report"]]
    <3>1. PICK l \in Lanes : closing' = [closing EXCEPT ![c] = [lane |-> l, step |-> "report"]]
      BY <2>2
    <3>2. /\ closing'[c] = [lane |-> l, step |-> "report"]
          /\ \A t \in Threads \ {c} : closing'[t] = closing[t]
      BY <1>0, <3>1, Names DEF TypeOK
    <3>3. QED
      BY <1>0, <2>0, <2>2, <3>2, Names DEF ClosersInStep, Sweeping, At, OthersKept
  <2>3. CASE /\ At(c, "sweeping") /\ sweep.by = c /\ sweep.left = {} /\ closing[c] = NotClosing
             /\ sweep' = [sweep EXCEPT !.by = None] /\ closing' = closing
             /\ call'[c].at # "sweeping"
    <3>1. sweep'.by = None
      BY <1>0, <2>3
    <3>2. QED
      BY <1>0, <2>0, <2>3, <3>1, Names DEF ClosersInStep, Sweeping, At, OthersKept
  <2>4. QED
    BY <1>1, <2>1, <2>2, <2>3, CallerKeeps
<1>2. ASSUME SystemStep \/ UNCHANGED vars
      PROVE  \A c \in Callers : call'[c].at = call[c].at
  BY <1>0, <1>2, SystemKeeps DEF SameCall
<1>3. ASSUME UNCHANGED vars PROVE ClosersInStep'
  BY <1>0, <1>3 DEF ClosersInStep, Sweeping, At, vars
<1>4. ASSUME NEW t \in Threads, CloseStep(t) PROVE ClosersInStep'
  <2>0. \A c \in Callers : call'[c].at = call[c].at
    BY <1>2, <1>4 DEF SystemStep
  <2>1. CASE TakesRegistry(t)
    <3>1. sweep'.by = t /\ Sweeping(t) /\ closing' = closing /\ closed' = closed /\ reader' = reader
      BY <1>0, <2>1 DEF TakesRegistry
    <3>2. QED
      BY <1>0, <2>0, <3>1, Names DEF ClosersInStep, Sweeping, At
  <2>2. CASE ClosesNextLane(t)
    <3>1. PICK l \in sweep.left :
             closing' = [closing EXCEPT ![t] = [lane |-> l, step |-> "report"]]
      BY <2>2 DEF ClosesNextLane
    <3>2. /\ closing'[t] = [lane |-> l, step |-> "report"] /\ l \in Lanes
          /\ \A u \in Threads \ {t} : closing'[u] = closing[u]
          /\ sweep'.by = sweep.by /\ sweep.by = t /\ closed' = closed /\ reader' = reader
      BY <1>0, <2>2, <3>1 DEF TypeOK, ClosesNextLane
    <3>3. QED
      BY <1>0, <2>0, <3>2, Names DEF ClosersInStep, Sweeping, At
  <2>3. CASE LaneReports(t)
    <3>1. /\ closing[t].step = "report" /\ closing[t] # NotClosing /\ closing[t].lane \in Planes
      BY <1>0, <2>3, Names DEF LaneReports, NotClosing, ClosersInStep
    <3>2. /\ closing'[t].lane = closing[t].lane /\ closing'[t].step = "table"
          /\ \A u \in Threads \ {t} : closing'[u] = closing[u]
          /\ closed'[closing[t].lane] /\ \A p \in Planes : closed[p] => closed'[p]
          /\ sweep' = sweep /\ reader' = reader
      BY <1>0, <2>3, <3>1 DEF TypeOK, LaneReports, ClosingState
    <3>3. QED
      BY <1>0, <2>0, <3>1, <3>2, Names DEF ClosersInStep, Sweeping, At
  <2>4. CASE LaneTable(t)
    <3>1. /\ closing'[t] = NotClosing /\ \A u \in Threads \ {t} : closing'[u] = closing[u]
          /\ closed' = closed /\ sweep' = sweep /\ reader' = reader
      BY <1>0, <2>4 DEF TypeOK, LaneTable
    <3>2. QED
      BY <1>0, <2>0, <3>1, Names DEF ClosersInStep, Sweeping, At
  <2>5. QED
    BY <1>4, <2>1, <2>2, <2>3, <2>4 DEF CloseStep
<1>5. ASSUME NEW p \in Planes, SystemStep, reader[p] \in Listening, LoopEnds(p), 
             closed' = closed, sweep' = sweep
      PROVE  ClosersInStep'
  <2>0. \A c \in Callers : call'[c].at = call[c].at
    BY <1>2, <1>5
  <2>1. reader'[p] = "ended" /\ \A q \in Planes \ {p} : reader'[q] = reader[q]
    BY <1>0, <1>5 DEF LoopEnds, TypeOK
  <2>2. CASE p \in Lanes
    <3>1. /\ closing'[p] = [lane |-> p, step |-> "report"]
          /\ \A t \in Threads \ {p} : closing'[t] = closing[t]
      BY <1>0, <1>5, <2>2, Names DEF LoopEnds, TypeOK
    <3>2. QED
      BY <1>0, <1>5, <2>0, <2>1, <2>2, <3>1, Names DEF ClosersInStep, Sweeping, At, Listening
  <2>3. CASE p = Control
    <3>1. closing' = closing
      BY <1>5, <2>3, Names DEF LoopEnds
    <3>2. QED
      BY <1>0, <1>5, <2>0, <2>1, <2>3, <3>1, Names DEF ClosersInStep, Sweeping, At, Listening
  <2>4. QED
    BY <2>2, <2>3, Names
<1>6. ASSUME NEW p \in Planes, NEW at, SystemStep, ReaderMoves(p, at), closing' = closing,
             closed' = closed, sweep' = sweep,
             \/ reader[p] \in Listening /\ at \in Listening
             \/ p \in Lanes /\ closing[p] = NotClosing /\ at \in Listening \union {"done"}
      PROVE  ClosersInStep'
  <2>0. \A c \in Callers : call'[c].at = call[c].at
    BY <1>2, <1>6
  <2>1. reader'[p] = at /\ \A q \in Planes \ {p} : reader'[q] = reader[q]
    BY <1>0, <1>6 DEF ReaderMoves, TypeOK
  <2>2. QED
    BY <1>0, <1>6, <2>0, <2>1, Names DEF ClosersInStep, Sweeping, At, Listening
<1>7. ASSUME SystemStep, UNCHANGED <<closing, closed, sweep, reader>> PROVE ClosersInStep'
  BY <1>0, <1>2, <1>7 DEF ClosersInStep, Sweeping, At
<1>8. ASSUME NEW p \in Planes, PlaneStep(p) PROVE ClosersInStep'
  <2>0. SystemStep
    BY <1>8 DEF SystemStep
  <2>1. CASE Takes(p) \/ Breaks(p)
    BY <1>7, <2>0, <2>1 DEF Takes, Breaks
  <2>2. CASE ReadsEnd(p) \/ ReadsMalformed(p)
    BY <1>5, <2>0, <2>2 DEF ReadsEnd, ReadsMalformed, Listening
  <2>3. CASE ReadsPing(p) \/ LaneReaderStops(p)
    BY <1>6, <2>0, <2>3 DEF ReadsPing, LaneReaderStops, Listening
  <2>4. CASE Pongs(p)
    <3>1. reader[p] \in Listening /\ closed' = closed /\ sweep' = sweep
      BY <2>4 DEF Pongs, Listening
    <3>2. (ReaderMoves(p, "reading") /\ closing' = closing) \/ LoopEnds(p)
      BY <2>4 DEF Pongs
    <3>3. QED
      BY <1>5, <1>6, <2>0, <3>1, <3>2 DEF Listening
  <2>5. CASE Pushes(p)
    <3>1. reader[p] \in Listening /\ closed' = closed /\ sweep' = sweep
      BY <2>5 DEF Pushes, Listening
    <3>2. (ReaderMoves(p, "reading") /\ closing' = closing) \/ LoopEnds(p)
      BY <2>5 DEF Pushes
    <3>3. QED
      BY <1>5, <1>6, <2>0, <3>1, <3>2 DEF Listening
  <2>6. CASE ReadsReply(p)
    <3>1. reader[p] \in Listening /\ closed' = closed /\ sweep' = sweep
      BY <2>6 DEF ReadsReply, Listening
    <3>2. UNCHANGED <<reader, closing>> \/ LoopEnds(p)
      BY <2>6 DEF ReadsReply
    <3>3. QED
      BY <1>5, <1>7, <2>0, <3>1, <3>2
  <2>7. QED
    BY <1>8, <2>1, <2>2, <2>3, <2>4, <2>5, <2>6 DEF PlaneStep, ReaderStep
<1>9. ASSUME ReadsEvent PROVE ClosersInStep'
  <2>1. reader[Control] \in Listening /\ closed' = closed /\ sweep' = sweep /\ SystemStep
    BY <1>9 DEF ReadsEvent, Listening, SystemStep
  <2>2. UNCHANGED <<reader, closing>> \/ LoopEnds(Control)
    BY <1>9 DEF ReadsEvent
  <2>3. QED
    BY <1>5, <1>7, <2>1, <2>2, Names
<1>10. ASSUME NEW l \in Lanes, DecodesInput(l) PROVE ClosersInStep'
  BY <1>6, <1>10, Names DEF DecodesInput, Listening, SystemStep
<1>11. ASSUME ControlReaderStep PROVE ClosersInStep'
  <2>0. \A c \in Callers : call'[c].at = call[c].at
    BY <1>2, <1>11 DEF SystemStep
  <2>1. CASE ControlReaderCloses
    <3>1. /\ reader[Control] = "ended" /\ reader'[Control] = "sweeping"
          /\ \A l \in Lanes : reader'[l] = reader[l]
          /\ closed'[Control] /\ \A p \in Planes : closed[p] => closed'[p]
          /\ closing' = closing /\ sweep' = sweep
      BY <1>0, <2>1, Names DEF ControlReaderCloses, ReaderMoves, TypeOK
    <3>2. QED
      BY <1>0, <2>0, <3>1, Names DEF ClosersInStep, Sweeping, At
  <2>2. CASE ControlReaderSwept
    <3>1. /\ reader[Control] = "sweeping" /\ reader'[Control] = "draining"
          /\ \A l \in Lanes : reader'[l] = reader[l]
          /\ closing[Control] = NotClosing /\ sweep'.by = None
          /\ closing' = closing /\ closed' = closed
      BY <1>0, <2>2, Names DEF ControlReaderSwept, ReaderMoves, TypeOK
    <3>2. QED
      BY <1>0, <2>0, <3>1, Names DEF ClosersInStep, Sweeping, At
  <2>3. CASE ControlReaderDrains
    <3>1. /\ reader[Control] = "draining" /\ reader'[Control] = "done"
          /\ \A l \in Lanes : reader'[l] = reader[l]
          /\ closing' = closing /\ closed' = closed /\ sweep' = sweep
      BY <1>0, <2>3, Names DEF ControlReaderDrains, ReaderMoves, TypeOK
    <3>2. QED
      BY <1>0, <2>0, <3>1, Names DEF ClosersInStep, Sweeping, At
  <2>4. QED
    BY <1>11, <2>1, <2>2, <2>3 DEF ControlReaderStep
<1>12. CASE SystemStep
  BY <1>4, <1>8, <1>9, <1>10, <1>11, <1>12 DEF SystemStep
<1>13. QED
  BY <1>1, <1>3, <1>12, StepSplit
-----------------------------------------------------------------------------
(* The tables.                                                             *)

\* Who is closing a lane goes on until the table is drained.
LEMMA ClosingStep ==
  ASSUME PlaneInv, [Next]_vars, NEW t \in Threads, closing[t] # NotClosing
  PROVE  \/ closing'[t] = closing[t]
         \/ LaneReports(t) /\ closing'[t] = [closing[t] EXCEPT !.step = "table"]
         \/ LaneTable(t) /\ SystemStep
<1>0. TypeOK /\ ClosersInStep
  BY Parts
<1>1. ASSUME NEW c \in Callers, CallerStep(c) PROVE closing'[t] = closing[t]
  <2>1. closing' = closing \/ (At(c, "idle") /\ \E l \in Lanes :
           closing' = [closing EXCEPT ![c] = [lane |-> l, step |-> "report"]])
    BY <1>1, CallerKeeps
  <2>2. At(c, "idle") => t # c
    BY <1>0 DEF ClosersInStep, At
  <2>3. QED
    BY <1>0, <2>1, <2>2 DEF TypeOK
<1>2. ASSUME UNCHANGED vars PROVE closing'[t] = closing[t]
  BY <1>2 DEF vars
<1>3. ASSUME NEW u \in Threads, CloseStep(u)
      PROVE  \/ closing'[t] = closing[t]
             \/ LaneReports(t) /\ closing'[t] = [closing[t] EXCEPT !.step = "table"]
             \/ LaneTable(t)
  <2>1. CASE u = t
    BY <1>0, <1>3, <2>1
       DEF CloseStep, TakesRegistry, ClosesNextLane, LaneReports, TypeOK
  <2>2. CASE u # t
    BY <1>0, <1>3, <2>2
       DEF CloseStep, TakesRegistry, ClosesNextLane, LaneReports, LaneTable, TypeOK
  <2>3. QED
    BY <2>1, <2>2
<1>4. ASSUME NEW p \in Planes, PlaneStep(p) PROVE closing'[t] = closing[t]
  <2>1. closing' = closing \/ (reader[p] \in Listening /\ LoopEnds(p))
    BY <1>4 DEF PlaneStep, ReaderStep, Pushes, ReadsEnd, LaneReaderStops, Takes, Breaks,
       Pongs, ReadsReply, ReadsPing, ReadsMalformed, Listening
  <2>2. reader[p] \in Listening /\ p \in Lanes => closing[p] = NotClosing
    BY <1>0 DEF ClosersInStep, Listening
  <2>3. QED
    BY <1>0, <2>1, <2>2 DEF LoopEnds, TypeOK
<1>5. ASSUME ReadsEvent \/ \E l \in Lanes : DecodesInput(l) PROVE closing'[t] = closing[t]
  BY <1>5, Names DEF ReadsEvent, DecodesInput, LoopEnds
<1>6. ASSUME ControlReaderStep PROVE closing'[t] = closing[t]
  BY <1>6 DEF ControlReaderStep, ControlReaderCloses, ControlReaderSwept, ControlReaderDrains
<1>7. CASE SystemStep
  BY <1>3, <1>4, <1>5, <1>6, <1>7 DEF SystemStep
<1>8. QED
  BY <1>1, <1>2, <1>7, StepSplit

\* A plane is closed once, by its reader or by close_input_lane.
LEMMA ClosedStep ==
  ASSUME PlaneInv, [Next]_vars, NEW p \in Planes
  PROVE  /\ closed[p] => closed'[p]
         /\ p \in Lanes /\ closed'[p] /\ ~closed[p] =>
              \E t \in Threads : closing'[t] # NotClosing /\ closing'[t].lane = p
<1>0. TypeOK /\ ClosersInStep
  BY Parts
<1>1. CASE closed' = closed
  BY <1>1
<1>2. ASSUME NEW t \in Threads, LaneReports(t)
      PROVE  /\ closed' = [closed EXCEPT ![closing[t].lane] = TRUE]
             /\ closing'[t] # NotClosing /\ closing'[t].lane = closing[t].lane
  <2>1. closing[t] \in ClosingState /\ closing' = [closing EXCEPT ![t].step = "table"]
    BY <1>0, <1>2 DEF TypeOK, LaneReports
  <2>2. closing'[t] = [closing[t] EXCEPT !.step = "table"]
    BY <1>0, <2>1 DEF TypeOK
  <2>3. QED
    BY <1>2, <2>1, <2>2 DEF LaneReports, ClosingState, NotClosing
<1>3. CASE ControlReaderCloses
  BY <1>0, <1>3, Names DEF ControlReaderCloses, TypeOK
<1>4. CASE \E t \in Threads : LaneReports(t)
  BY <1>0, <1>2, <1>4 DEF TypeOK
<1>5. \/ closed' = closed \/ ControlReaderCloses
      \/ \E t \in Threads : LaneReports(t)
  <2>1. ASSUME NEW c \in Callers, CallerStep(c) PROVE closed' = closed
    BY <2>1, CallerKeeps
  <2>2. UNCHANGED vars => closed' = closed
    BY DEF vars
  <2>3. ASSUME NEW t \in Threads, CloseStep(t), ~LaneReports(t) PROVE closed' = closed
    BY <2>3 DEF CloseStep, TakesRegistry, ClosesNextLane, LaneTable
  <2>4. ASSUME NEW q \in Planes, PlaneStep(q) PROVE closed' = closed
    BY <2>4 DEF PlaneStep, ReaderStep, Pushes, ReadsEnd, LaneReaderStops, Takes, Breaks,
       Pongs, ReadsReply, ReadsPing, ReadsMalformed
  <2>5. ReadsEvent \/ (\E l \in Lanes : DecodesInput(l)) => closed' = closed
    BY DEF ReadsEvent, DecodesInput
  <2>6. ControlReaderStep => closed' = closed \/ ControlReaderCloses
    BY DEF ControlReaderStep, ControlReaderSwept, ControlReaderDrains
  <2>7. QED
    BY <2>1, <2>2, <2>3, <2>4, <2>5, <2>6, StepSplit DEF SystemStep
<1>6. QED
  BY <1>1, <1>3, <1>4, <1>5

\* The control reader is done when it has drained the table, and not before.
LEMMA DoneStep ==
  ASSUME PlaneInv, [Next]_vars, reader[Control] # "done", reader'[Control] = "done"
  PROVE  SystemStep /\ Drains(Control)
<1>0. TypeOK
  BY Parts
<1>1. ASSUME NEW c \in Callers, CallerStep(c) PROVE reader'[Control] = reader[Control]
  BY <1>1, CallerKeeps, Names
<1>2. UNCHANGED vars => reader' = reader
  BY DEF vars
<1>3. ASSUME NEW t \in Threads, CloseStep(t) PROVE reader' = reader
  BY <1>3 DEF CloseStep, TakesRegistry, ClosesNextLane, LaneReports, LaneTable
<1>4. ASSUME NEW p \in Planes, PlaneStep(p) PROVE reader'[Control] # "done"
  <2>1. \/ reader' = reader \/ (\E at \in Listening : ReaderMoves(p, at)) \/ LoopEnds(p)
        \/ LaneReaderStops(p)
    BY <1>4 DEF PlaneStep, ReaderStep, Pushes, ReadsEnd, Takes, Breaks,
       Pongs, ReadsReply, ReadsPing, ReadsMalformed, Listening
  <2>2. QED
    BY <1>0, <2>1, Names DEF LoopEnds, ReaderMoves, LaneReaderStops, Listening, TypeOK
<1>5. ReadsEvent \/ (\E l \in Lanes : DecodesInput(l)) => reader'[Control] # "done"
  BY <1>0, Names DEF ReadsEvent, DecodesInput, LoopEnds, ReaderMoves, TypeOK
<1>6. ControlReaderCloses \/ ControlReaderSwept => reader'[Control] # "done"
  BY <1>0, Names DEF ControlReaderCloses, ControlReaderSwept, ReaderMoves, TypeOK
<1>7. ControlReaderDrains => SystemStep /\ Drains(Control)
  BY DEF ControlReaderDrains, SystemStep, ControlReaderStep
<1>8. QED
  BY <1>1, <1>2, <1>3, <1>4, <1>5, <1>6, <1>7, StepSplit DEF SystemStep, ControlReaderStep

LEMMA OwedKept ==
  ASSUME PlaneInv, [Next]_vars, NEW p \in Planes, TableOwed(p)
  PROVE  TableOwed(p)' \/ (SystemStep /\ Drains(p))
<1>1. CASE p = Control
  BY <1>1, DoneStep, Names DEF TableOwed
<1>2. CASE p \in Lanes /\ ~closed[p]
  BY <1>2, ClosedStep DEF TableOwed
<1>3. CASE p \in Lanes /\ \E t \in Threads : closing[t].lane = p
  <2>1. PICK t \in Threads : closing[t].lane = p
    BY <1>3
  <2>2. closing[t] # NotClosing /\ closing[t] \in ClosingState
    BY <1>3, <2>1, Names, Parts DEF NotClosing, TypeOK
  <2>3. CASE closing'[t] = closing[t]
    BY <1>3, <2>1, <2>3 DEF TableOwed
  <2>4. CASE closing'[t] = [closing[t] EXCEPT !.step = "table"]
    BY <1>3, <2>1, <2>2, <2>4 DEF TableOwed, ClosingState
  <2>5. CASE LaneTable(t) /\ SystemStep
    BY <2>1, <2>5 DEF LaneTable
  <2>6. QED
    BY <2>2, <2>3, <2>4, <2>5, ClosingStep
<1>4. QED
  BY <1>1, <1>2, <1>3 DEF TableOwed

\* A thread or the presenter takes an entry out of a table only with an answer.
LEMMA AnsweredOut ==
  ASSUME PlaneInv, SystemStep \/ UNCHANGED vars
  PROVE  /\ \A p \in Planes : requests'[p] \subseteq requests[p]
         /\ \A p \in Planes : Drains(p) => requests'[p] = {}
         /\ \A c \in Callers : call'[c].got = "nothing" =>
              /\ call[c].got = "nothing"
              /\ call[c].plane \in Planes
              /\ call[c].id \in requests[call[c].plane] =>
                   call[c].id \in requests'[call[c].plane] /\ ~Drains(call[c].plane)
<1>0. TypeOK /\ \A c \in Callers : call[c].plane \in Planes
  BY Parts DEF TypeOK, CallState
<1>. DEFINE Out == /\ \A p \in Planes : requests'[p] \subseteq requests[p]
                   /\ \A c \in Callers : call'[c].got = "nothing" =>
                        /\ call[c].got = "nothing"
                        /\ call[c].id \in requests[call[c].plane] =>
                             call[c].id \in requests'[call[c].plane]
<1>1. ASSUME NEW p \in Planes, Drains(p)
      PROVE  /\ Out /\ requests'[p] = {}
             /\ \A c \in Callers : call'[c].got = "nothing" /\ call[c].plane = p =>
                  call[c].id \notin requests[p]
  <2>1. /\ \A c \in Callers :
             call'[c].got = IF /\ call[c].plane = p /\ call[c].id \in requests[p]
                               /\ call[c].got = "nothing"
                            THEN "error" ELSE call[c].got
        /\ requests' = [requests EXCEPT ![p] = {}]
    BY <1>0, <1>1, DrainsFields
  <2>2. requests'[p] = {} /\ \A q \in Planes \ {p} : requests'[q] = requests[q]
    BY <1>0, <2>1 DEF TypeOK
  <2>3. QED
    BY <1>0, <2>1, <2>2
<1>2. ASSUME UNCHANGED <<requests, call>> PROVE Out
  BY <1>2
<1>3. ASSUME NEW t \in Threads, CloseStep(t) PROVE Out
  <2>1. CASE LaneTable(t)
    <3>1. closing[t].lane \in Planes
      BY <2>1, Names, Parts DEF LaneTable, ClosersInStep, NotClosing
    <3>2. QED
      BY <1>1, <2>1, <3>1 DEF LaneTable
  <2>2. CASE ~LaneTable(t)
    BY <1>2, <1>3, <2>2 DEF CloseStep, TakesRegistry, ClosesNextLane, LaneReports
  <2>3. QED
    BY <2>1, <2>2
<1>4. ASSUME NEW p \in Planes, PlaneStep(p) PROVE Out
  <2>1. CASE ReadsReply(p)
    <3>1. PICK i \in asked[p] :
            /\ requests' = [requests EXCEPT ![p] = @ \ {i}]
            /\ IF i \in requests[p]
                 THEN call' = [c \in Callers |->
                        IF call[c].plane = p /\ call[c].id = i
                          THEN [call[c] EXCEPT !.got = "reply"] ELSE call[c]]
                 ELSE UNCHANGED call
      BY <2>1 DEF ReadsReply
    <3>2. /\ requests'[p] = requests[p] \ {i}
          /\ \A q \in Planes \ {p} : requests'[q] = requests[q]
      BY <1>0, <3>1 DEF TypeOK
    <3>3. CASE i \in requests[p]
      <4>1. call' = [c \in Callers |->
                        IF call[c].plane = p /\ call[c].id = i
                          THEN [call[c] EXCEPT !.got = "reply"] ELSE call[c]]
        BY <3>1, <3>3
      <4>2. \A c \in Callers : call'[c].got =
               IF call[c].plane = p /\ call[c].id = i THEN "reply" ELSE call[c].got
        BY <1>0, <4>1, RepliesFields
      <4>3. QED
        BY <1>0, <3>2, <4>2
    <3>4. CASE i \notin requests[p]
      BY <1>0, <3>1, <3>2, <3>4
    <3>5. QED
      BY <3>3, <3>4
  <2>2. CASE ~ReadsReply(p)
    BY <1>2, <1>4, <2>2 DEF PlaneStep, ReaderStep, Pushes, ReadsEnd, LaneReaderStops, Takes,
       Breaks, Pongs, ReadsPing, ReadsMalformed
  <2>3. QED
    BY <2>1, <2>2
<1>5. ASSUME ReadsEvent \/ \E l \in Lanes : DecodesInput(l) PROVE Out
  BY <1>2, <1>5 DEF ReadsEvent, DecodesInput
<1>6. ASSUME ControlReaderStep PROVE Out
  <2>1. CASE ControlReaderDrains
    BY <1>1, <2>1, Names DEF ControlReaderDrains
  <2>2. CASE ControlReaderCloses \/ ControlReaderSwept
    BY <1>2, <2>2 DEF ControlReaderCloses, ControlReaderSwept
  <2>3. QED
    BY <1>6, <2>1, <2>2 DEF ControlReaderStep
<1>7. Out
  <2>1. CASE UNCHANGED vars
    BY <1>2, <2>1 DEF vars
  <2>2. CASE SystemStep
    BY <1>3, <1>4, <1>5, <1>6, <2>2 DEF SystemStep
  <2>3. QED
    BY <2>1, <2>2
<1>8. QED
  BY <1>0, <1>1, <1>7

\* What a caller does to the tables: it enters its request while the plane is
\* open, and takes it out when it cannot send it.
LEMMA CallerTables ==
  ASSUME PlaneInv, NEW c \in Callers, CallerStep(c)
  PROVE  /\ \A p \in Planes : requests'[p] \subseteq requests[p] \/ TableOwed(p)
         /\ \A d \in Callers \ {c} : Requesting(d) =>
              (call[d].id \in requests[call[d].plane] =>
                 call[d].id \in requests'[call[d].plane])
         /\ call'[c].at \in {"writing", "waiting"} =>
              \/ /\ call[c].id \in requests'[call[c].plane] /\ TableOwed(call[c].plane)
                 /\ call'[c].plane = call[c].plane /\ call'[c].id = call[c].id
              \/ At(c, "writing") /\ requests' = requests /\ Moves(c, "waiting")
<1>0. /\ TypeOK /\ CallsInv /\ CallsApart /\ CallsInOrder /\ ClosersInStep
      /\ call[c].plane \in Planes
  BY Parts DEF TypeOK, CallState
<1>1. CASE Inserts(c)
  <2>1. CASE closed[call[c].plane]
    <3>1. requests' = requests /\ call'[c].at = "idle"
      BY <1>0, <1>1, <2>1, ReturnsFields DEF Inserts
    <3>2. QED
      BY <3>1
  <2>2. CASE ~closed[call[c].plane]
    <3>1. /\ requests' = [requests EXCEPT ![call[c].plane] = @ \union {call[c].id}]
          /\ Moves(c, "writing")
      BY <1>1, <2>2 DEF Inserts
    <3>2. TableOwed(call[c].plane)
      BY <1>0, <2>2, Names DEF TableOwed, ClosersInStep
    <3>3. /\ requests'[call[c].plane] = requests[call[c].plane] \union {call[c].id}
          /\ \A q \in Planes \ {call[c].plane} : requests'[q] = requests[q]
      BY <1>0, <3>1 DEF TypeOK
    <3>4. /\ call'[c].plane = call[c].plane /\ call'[c].id = call[c].id
      BY <1>0, <3>1, MovesFields
    <3>5. \A d \in Callers : call[d].plane \in Planes
      BY <1>0 DEF TypeOK, CallState
    <3>6. QED
      BY <1>0, <3>2, <3>3, <3>4, <3>5
  <2>3. QED
    BY <2>1, <2>2
<1>2. CASE WriteFails(c)
  <2>1. /\ requests' = [requests EXCEPT ![call[c].plane] = @ \ {call[c].id}]
        /\ call'[c].at = "idle" /\ Requesting(c)
    BY <1>0, <1>2, ReturnsFields DEF WriteFails, At, Requesting
  <2>2. /\ requests'[call[c].plane] = requests[call[c].plane] \ {call[c].id}
        /\ \A q \in Planes \ {call[c].plane} : requests'[q] = requests[q]
    BY <1>0, <2>1 DEF TypeOK
  <2>3. \A d \in Callers : call[d].plane \in Planes
    BY <1>0 DEF TypeOK, CallState
  <2>4. QED
    BY <1>0, <2>1, <2>2, <2>3 DEF CallsApart
<1>3. CASE Writes(c)
  BY <1>3 DEF Writes, At
<1>4. CASE Starts(c) \/ Receives(c) \/ BindingReceives(c) \/ Registers(c) \/ LaneCloseReturns(c)
           \/ EndSweeps(c)
  <2>1. requests' = requests
    BY <1>4 DEF Starts, RequestStarts, SetBindingStarts, OpenStarts, LaneCloseStarts,
       EndStarts, Receives, BindingReceives, Registers, LaneCloseReturns, EndSweeps
  <2>2. call'[c].at \notin {"writing", "waiting"}
    <3>1. CallerEffect(c) /\ (Proceeds(c) => FALSE) 
      <4>1. Proceeds(c) => Requesting(c) /\ call'[c].at \in {"writing", "waiting"}
        BY <1>0, EffectFields DEF Proceeds
      <4>2. CASE Starts(c) \/ Registers(c) \/ LaneCloseReturns(c) \/ EndSweeps(c)
        BY <4>1, <4>2, CallerEffects DEF Starts, RequestStarts, SetBindingStarts, OpenStarts,
           LaneCloseStarts, EndStarts, Registers, LaneCloseReturns, EndSweeps, At, Requesting,
           CallerStep, CallStep
      <4>3. CASE Receives(c) \/ BindingReceives(c)
        <5>1. call'[c].at = "idle"
          BY <1>0, <4>3, ReturnsFields DEF Receives, BindingReceives
        <5>2. QED
          BY <4>1, <5>1, CallerEffects
      <4>4. QED
        BY <1>4, <4>2, <4>3
    <3>2. QED
      BY <1>0, <3>1, EffectFields DEF CallerEffect
  <2>3. QED
    BY <2>1, <2>2
<1>5. QED
  BY <1>1, <1>2, <1>3, <1>4 DEF CallerStep, CallStep

LEMMA TablesKept ==
  ASSUME PlaneInv, [Next]_vars
  PROVE  EntriesServed' /\ DrainedStaysEmpty'
<1>0. /\ TypeOK /\ CallsInv /\ EntriesServed /\ DrainedStaysEmpty
      /\ \A c \in Callers : call[c].plane \in Planes
  BY Parts DEF TypeOK, CallState
<1>1. CASE SystemStep \/ UNCHANGED vars
  <2>1. /\ \A p \in Planes : requests'[p] \subseteq requests[p]
        /\ \A p \in Planes : Drains(p) => requests'[p] = {}
        /\ \A c \in Callers : call'[c].got = "nothing" =>
              /\ call[c].got = "nothing"
              /\ call[c].id \in requests[call[c].plane] =>
                   call[c].id \in requests'[call[c].plane] /\ ~Drains(call[c].plane)
    BY <1>1, AnsweredOut
  <2>2. \A c \in Callers : SameCall(c)
    BY <1>0, <1>1, SystemKeeps
  <2>3. \A p \in Planes : TableOwed(p) => TableOwed(p)' \/ Drains(p)
    BY OwedKept
  <2>4. EntriesServed'
    <3>1. SUFFICES ASSUME NEW c \in Callers, call'[c].at \in {"writing", "waiting"},
                          call'[c].got = "nothing"
                   PROVE  call'[c].id \in requests'[call'[c].plane] /\ TableOwed(call[c].plane)'
      BY <2>2 DEF EntriesServed, SameCall
    <3>2. call[c].id \in requests[call[c].plane] /\ TableOwed(call[c].plane)
      BY <1>0, <2>1, <2>2, <3>1 DEF EntriesServed, SameCall
    <3>3. QED
      BY <1>0, <2>1, <2>2, <2>3, <3>1, <3>2 DEF SameCall
  <2>5. DrainedStaysEmpty'
    BY <1>0, <2>1, <2>3 DEF DrainedStaysEmpty
  <2>6. QED
    BY <2>4, <2>5
<1>2. ASSUME NEW c \in Callers, CallerStep(c)
      PROVE  EntriesServed' /\ DrainedStaysEmpty'
  <2>1. /\ \A p \in Planes : requests'[p] \subseteq requests[p] \/ TableOwed(p)
        /\ \A d \in Callers \ {c} : Requesting(d) =>
              (call[d].id \in requests[call[d].plane] =>
                 call[d].id \in requests'[call[d].plane])
        /\ OthersKept(c)
    BY <1>2, CallerTables, CallerKeeps
  <2>2. \A p \in Planes : TableOwed(p) => TableOwed(p)'
    <3>1. /\ closed' = closed
          /\ \A p \in Planes : reader'[p] # reader[p] => p \in Lanes /\ reader[p] = "none"
          /\ closing' = closing \/ (At(c, "idle") /\ \E l \in Lanes :
               closing' = [closing EXCEPT ![c] = [lane |-> l, step |-> "report"]])
      BY <1>2, CallerKeeps
    <3>2. At(c, "idle") => closing[c] = NotClosing
      BY Parts DEF ClosersInStep, At
    <3>3. \A t \in Threads : closing[t] # NotClosing => closing'[t] = closing[t]
      BY <1>0, <3>1, <3>2 DEF TypeOK
    <3>4. QED
      BY <3>1, <3>3, Names DEF TableOwed, NotClosing
  <2>3. DrainedStaysEmpty'
    BY <1>0, <2>1, <2>2 DEF DrainedStaysEmpty
  <2>4. ASSUME call'[c].at \in {"writing", "waiting"}, call'[c].got = "nothing"
        PROVE  call'[c].id \in requests'[call'[c].plane] /\ TableOwed(call[c].plane)'
    <3>1. CASE /\ call[c].id \in requests'[call[c].plane] /\ TableOwed(call[c].plane)
               /\ call'[c].plane = call[c].plane /\ call'[c].id = call[c].id
      BY <1>0, <2>2, <3>1
    <3>2. CASE At(c, "writing") /\ requests' = requests /\ Moves(c, "waiting")
      <4>1. /\ call'[c].plane = call[c].plane /\ call'[c].id = call[c].id
            /\ call'[c].got = call[c].got
        BY <1>0, <3>2, MovesFields
      <4>2. call[c].id \in requests[call[c].plane] /\ TableOwed(call[c].plane)
        BY <1>0, <2>4, <3>2, <4>1 DEF EntriesServed, At
      <4>3. QED
        BY <1>0, <2>2, <3>2, <4>1, <4>2
    <3>3. QED
      BY <1>2, <2>4, <3>1, <3>2, CallerTables
  <2>5. EntriesServed'
    <3>1. ASSUME NEW d \in Callers \ {c}, call'[d].at \in {"writing", "waiting"},
                 call'[d].got = "nothing"
          PROVE  call'[d].id \in requests'[call'[d].plane] /\ TableOwed(call[d].plane)'
      BY <1>0, <2>1, <2>2, <3>1 DEF EntriesServed, OthersKept, Requesting
    <3>2. QED
      BY <2>4, <3>1 DEF EntriesServed
  <2>6. QED
    BY <2>3, <2>5
<1>3. QED
  BY <1>1, <1>2, StepSplit
-----------------------------------------------------------------------------
(* The reports.                                                            *)

\* A queue is kept, taken from, replaced by the report, or pushed to by a reader
\* that goes on.
LEMMA EventsStep ==
  ASSUME PlaneInv, [Next]_vars, NEW p \in Planes
  PROVE  \/ events'[p] = events[p] \/ events'[p] = <<"closed">>
         \/ events[p] # <<>> /\ events'[p] = Tail(events[p])
         \/ reader'[p] \in Listening
<1>0. TypeOK
  BY Parts
<1>. DEFINE Kept == \/ events'[p] = events[p] \/ events'[p] = <<"closed">>
                    \/ events[p] # <<>> /\ events'[p] = Tail(events[p])
                    \/ reader'[p] \in Listening
<1>1. ASSUME NEW c \in Callers, CallerStep(c) PROVE Kept
  BY <1>1, CallerKeeps
<1>2. ASSUME UNCHANGED events PROVE Kept
  BY <1>2
<1>3. ASSUME NEW t \in Threads, CloseStep(t) PROVE Kept
  <2>1. events' = events \/ events' = [events EXCEPT ![closing[t].lane] = <<"closed">>]
    BY <1>3 DEF CloseStep, TakesRegistry, ClosesNextLane, LaneReports, LaneTable
  <2>2. QED
    BY <1>0, <2>1 DEF TypeOK
<1>4. ASSUME NEW q \in Planes, PlaneStep(q) PROVE Kept
  <2>1. CASE Takes(q)
    BY <1>0, <2>1 DEF Takes, TypeOK
  <2>2. CASE Pushes(q)
    <3>1. CASE Len(events[q]) = MaxEvents
      BY <2>2, <3>1 DEF Pushes
    <3>2. CASE Len(events[q]) # MaxEvents
      <4>1. /\ events' = [events EXCEPT ![q] = Append(@, "event")]
            /\ reader' = [reader EXCEPT ![q] = "reading"]
        BY <2>2, <3>2 DEF Pushes, ReaderMoves
      <4>2. QED
        BY <1>0, <4>1 DEF TypeOK, Listening
    <3>3. QED
      BY <3>1, <3>2
  <2>3. CASE ~Takes(q) /\ ~Pushes(q)
    <3>1. events' = events
      BY <1>4, <2>3 DEF PlaneStep, ReaderStep, ReadsEnd, LaneReaderStops,
         Breaks, Pongs, ReadsReply, ReadsPing, ReadsMalformed
    <3>2. QED
      BY <3>1
  <2>4. QED
    BY <2>1, <2>2, <2>3
<1>5. ASSUME ReadsEvent PROVE Kept
  <2>1. CASE Len(events[Control]) = MaxEvents
    BY <1>5, <2>1 DEF ReadsEvent
  <2>2. CASE Len(events[Control]) # MaxEvents
    <3>1. /\ events' = [events EXCEPT ![Control] = Append(@, "event")]
          /\ reader' = reader /\ reader[Control] = "reading"
      BY <1>5, <2>2 DEF ReadsEvent
    <3>2. QED
      BY <1>0, <3>1 DEF TypeOK, Listening
  <2>3. QED
    BY <2>1, <2>2
<1>6. ASSUME NEW l \in Lanes, DecodesInput(l) PROVE Kept
  BY <1>6 DEF DecodesInput
<1>7. ASSUME ControlReaderStep PROVE Kept
  BY <1>0, <1>7, Names
     DEF ControlReaderStep, ControlReaderCloses, ControlReaderSwept, ControlReaderDrains, TypeOK
<1>8. CASE SystemStep
  BY <1>3, <1>4, <1>5, <1>6, <1>7, <1>8 DEF SystemStep
<1>9. QED
  BY <1>1, <1>2, <1>8, StepSplit DEF vars

\* A reader ends through LoopEnds; the control reader reports as it finishes.
LEMMA EndsStep ==
  ASSUME PlaneInv, [Next]_vars
  PROVE  /\ \A l \in Lanes : reader'[l] \in {"ended", "done"} =>
              reader[l] \in {"ended", "done"} \/ closing'[l].step = "report"
         /\ reader'[Control] = "done" /\ reader[Control] # "done" =>
              events'[Control] = <<"closed">>
<1>0. TypeOK
  BY Parts
<1>. DEFINE Ended == \A l \in Lanes : reader'[l] \in {"ended", "done"} =>
                       reader[l] \in {"ended", "done"} \/ closing'[l].step = "report"
<1>. DEFINE Done == reader'[Control] = "done" => reader[Control] = "done"
<1>1. ASSUME NEW c \in Callers, CallerStep(c) PROVE Ended /\ Done
  <2>1. reader' = reader \/ (\E l \in Lanes : reader' = [reader EXCEPT ![l] = "reading"])
    <3>1. CASE Registers(c)
      <4>1. call[c].plane \in Lanes
        BY <3>1, Parts DEF Registers, CallsInOrder
      <4>2. QED
        BY <3>1, <4>1 DEF Registers
    <3>2. CASE ~Registers(c)
      BY <1>1, <3>2 DEF CallerStep, Starts, CallStep, RequestStarts, SetBindingStarts,
         OpenStarts, LaneCloseStarts, EndStarts, Inserts, Writes, WriteFails, Receives,
         BindingReceives, LaneCloseReturns, EndSweeps
    <3>3. QED
      BY <3>1, <3>2
  <2>2. QED
    BY <1>0, <2>1, Names DEF TypeOK
<1>2. ASSUME reader' = reader PROVE Ended /\ Done
  BY <1>2
<1>3. ASSUME NEW t \in Threads, CloseStep(t) PROVE reader' = reader
  BY <1>3 DEF CloseStep, TakesRegistry, ClosesNextLane, LaneReports, LaneTable
<1>4. ASSUME NEW p \in Planes, LoopEnds(p) PROVE Ended /\ Done
  <2>1. CASE p \in Lanes
    <3>1. closing'[p] = [lane |-> p, step |-> "report"]
      BY <1>0, <1>4, <2>1, Names DEF LoopEnds, TypeOK
    <3>2. QED
      BY <1>0, <1>4, <2>1, <3>1, Names DEF LoopEnds, TypeOK
  <2>2. CASE p = Control
    BY <1>0, <1>4, <2>2, Names DEF LoopEnds, TypeOK
  <2>3. QED
    BY <2>1, <2>2, Names
<1>5. ASSUME NEW p \in Planes, NEW at \in Listening, ReaderMoves(p, at) PROVE Ended /\ Done
  BY <1>0, <1>5, Names DEF ReaderMoves, Listening, TypeOK
<1>6. ASSUME NEW p \in Planes, PlaneStep(p) PROVE Ended /\ Done
  <2>1. CASE LaneReaderStops(p)
    BY <1>0, <2>1, Names DEF LaneReaderStops, ReaderMoves, TypeOK
  <2>2. CASE ~LaneReaderStops(p)
    <3>1. reader' = reader \/ (\E at \in Listening : ReaderMoves(p, at)) \/ LoopEnds(p)
      BY <1>6, <2>2 DEF PlaneStep, ReaderStep, Pushes, ReadsEnd, Takes, Breaks,
         Pongs, ReadsReply, ReadsPing, ReadsMalformed, Listening
    <3>2. QED
      BY <1>2, <1>4, <1>5, <3>1
  <2>3. QED
    BY <2>1, <2>2
<1>7. ASSUME ReadsEvent \/ \E l \in Lanes : DecodesInput(l) PROVE Ended /\ Done
  <2>1. \/ reader' = reader \/ LoopEnds(Control)
        \/ \E l \in Lanes : ReaderMoves(l, "pushing")
    BY <1>7 DEF ReadsEvent, DecodesInput
  <2>2. QED
    BY <1>2, <1>4, <1>5, <2>1, Names DEF Listening
<1>8. ASSUME ControlReaderStep PROVE Ended /\ (Done \/ events'[Control] = <<"closed">>)
  <2>1. CASE ControlReaderCloses \/ ControlReaderSwept
    BY <1>0, <2>1, Names DEF ControlReaderCloses, ControlReaderSwept, ReaderMoves, TypeOK
  <2>2. CASE ControlReaderDrains
    BY <1>0, <2>2, Names DEF ControlReaderDrains, ReaderMoves, TypeOK
  <2>3. QED
    BY <1>8, <2>1, <2>2 DEF ControlReaderStep
<1>9. CASE SystemStep
  BY <1>2, <1>3, <1>6, <1>7, <1>8, <1>9 DEF SystemStep
<1>10. QED
  BY <1>1, <1>2, <1>9, StepSplit DEF vars

LEMMA ReportsKept ==
  ASSUME PlaneInv, [Next]_vars
  PROVE  ReportsFinal'
<1>0. /\ TypeOK /\ ClosersInStep /\ ReportsFinal
      /\ \A p \in Planes : events[p] \in Seq({"event", "closed"})
  BY Parts, QueueShape DEF TypeOK
<1>1. ASSUME NEW p \in Planes, events[p] \in {<<>>, <<"closed">>}, reader'[p] \notin Listening
      PROVE  events'[p] \in {<<>>, <<"closed">>}
  <2>1. Tail(<<"closed">>) = <<>>
    OBVIOUS
  <2>2. QED
    BY <1>1, <2>1, EventsStep
<1>2. ASSUME NEW l \in Lanes, reader'[l] \in {"ended", "done"}, closing'[l].step # "report"
      PROVE  events'[l] \in {<<>>, <<"closed">>}
  <2>1. reader[l] \in {"ended", "done"}
    BY <1>2, EndsStep
  <2>2. CASE closing[l].step = "report"
    <3>1. closing[l] # NotClosing /\ closing[l].lane = l
      BY <1>0, <2>2 DEF NotClosing, ClosersInStep
    <3>2. LaneReports(l)
      BY <1>2, <2>2, <3>1, ClosingStep, Names DEF LaneTable
    <3>3. QED
      BY <1>0, <3>1, <3>2, Names DEF LaneReports, TypeOK
  <2>3. CASE closing[l].step # "report"
    BY <1>0, <1>1, <1>2, <2>1, <2>3, Names DEF ReportsFinal, Listening
  <2>4. QED
    BY <2>2, <2>3
<1>3. ASSUME reader'[Control] = "done"
      PROVE  events'[Control] \in {<<>>, <<"closed">>}
  BY <1>0, <1>1, <1>3, EndsStep, Names DEF ReportsFinal, Listening
<1>4. QED
  BY <1>2, <1>3 DEF ReportsFinal
-----------------------------------------------------------------------------
(* The lanes of a closed session.                                          *)

\* How the lifecycle and the registry change.
LEMMA LifecycleStep ==
  ASSUME PlaneInv, [Next]_vars
  PROVE  /\ \/ lifecycle' = lifecycle
            \/ \E t \in Threads : Sweeping(t)' /\ ~Sweeping(t) /\ sweep' = sweep
         /\ lanes' = lanes \/ (~lifecycle /\ ~lifecycle')
<1>0. TypeOK
  BY Parts
<1>. DEFINE Kept == lifecycle' = lifecycle /\ lanes' = lanes
<1>1. ASSUME NEW c \in Callers, CallerStep(c)
      PROVE  \/ Kept \/ (~lifecycle /\ lifecycle' = lifecycle)
             \/ lanes' = lanes /\ Sweeping(c)' /\ ~Sweeping(c) /\ sweep' = sweep
  <2>1. ASSUME NEW op \in Exclusive, EndStarts(c, op)
        PROVE  lanes' = lanes /\ Sweeping(c)' /\ ~Sweeping(c) /\ sweep' = sweep
    <3>1. call'[c].at = "sweeping"
      BY <1>0, <2>1 DEF EndStarts, NoCall, TypeOK
    <3>2. QED
      BY <2>1, <3>1 DEF EndStarts, Sweeping, At
  <2>2. CASE Registers(c)
    BY <1>0, <2>2 DEF Registers, TypeOK
  <2>3. CASE ~Registers(c) /\ ~\E op \in Exclusive : EndStarts(c, op)
    BY <1>1, <2>3 DEF CallerStep, Starts, CallStep, RequestStarts, SetBindingStarts,
         OpenStarts, LaneCloseStarts, Inserts, Writes, WriteFails, Receives,
         BindingReceives, LaneCloseReturns, EndSweeps
  <2>4. QED
    BY <2>1, <2>2, <2>3
<1>2. ASSUME SystemStep, ~ControlReaderCloses PROVE Kept
  <2>1. ASSUME NEW t \in Threads, CloseStep(t) PROVE Kept
    BY <2>1 DEF CloseStep, TakesRegistry, ClosesNextLane, LaneReports, LaneTable
  <2>2. ASSUME NEW p \in Planes, PlaneStep(p) PROVE Kept
    BY <2>2 DEF PlaneStep, ReaderStep, Pushes, ReadsEnd, LaneReaderStops, Takes, Breaks,
       Pongs, ReadsReply, ReadsPing, ReadsMalformed
  <2>3. QED
    BY <1>2, <2>1, <2>2 DEF SystemStep, ReadsEvent, DecodesInput, ControlReaderStep,
       ControlReaderSwept, ControlReaderDrains
<1>3. ASSUME ControlReaderCloses
      PROVE  lanes' = lanes /\ Sweeping(Control)' /\ ~Sweeping(Control) /\ sweep' = sweep
  <2>1. reader[Control] = "ended" /\ reader'[Control] = "sweeping"
    BY <1>0, <1>3, Names DEF ControlReaderCloses, ReaderMoves, TypeOK
  <2>2. QED
    BY <1>3, <2>1, Names DEF ControlReaderCloses, Sweeping
<1>4. CASE \E c \in Callers : CallerStep(c)
  <2>1. PICK c \in Callers : CallerStep(c)
    BY <1>4
  <2>2. c \in Threads
    BY Names
  <2>3. \/ Kept \/ (~lifecycle /\ lifecycle' = lifecycle)
        \/ lanes' = lanes /\ Sweeping(c)' /\ ~Sweeping(c) /\ sweep' = sweep
    BY <1>1, <2>1
  <2>4. QED
    BY <1>0, <2>2, <2>3 DEF TypeOK
<1>5. CASE ControlReaderCloses
  BY <1>3, <1>5, Names
<1>6. CASE UNCHANGED vars
  BY <1>6 DEF vars
<1>7. QED
  BY <1>2, <1>4, <1>5, <1>6, StepSplit

\* A thread at the close of the lifecycle stays there until it has closed the lanes.
LEMMA SweepingStep ==
  ASSUME PlaneInv, [Next]_vars, NEW t \in Threads, Sweeping(t)
  PROVE  \/ Sweeping(t)'
         \/ sweep.by = t /\ sweep.left = {} /\ closing[t] = NotClosing
<1>0. TypeOK /\ CallsInv
  BY Parts
<1>1. CASE t \in Callers
  <2>1. At(t, "sweeping")
    BY <1>1 DEF Sweeping
  <2>2. ASSUME NEW c \in Callers, CallerStep(c), c # t PROVE call'[t].at = call[t].at
    BY <1>1, <2>2, CallerKeeps DEF OthersKept
  <2>3. CASE CallerStep(t)
    BY <1>1, <2>1, <2>3, CallerKeeps DEF At
  <2>4. CASE SystemStep \/ UNCHANGED vars
    BY <1>0, <1>1, <2>1, <2>4, SystemKeeps DEF SameCall, Sweeping, At
  <2>5. QED
    BY <1>1, <2>1, <2>2, <2>3, <2>4, StepSplit DEF Sweeping, At
<1>2. CASE t = Control
  <2>1. reader[Control] = "sweeping"
    BY <1>2, Names DEF Sweeping
  <2>2. ASSUME NEW c \in Callers, CallerStep(c) PROVE reader'[Control] = reader[Control]
    BY <2>2, CallerKeeps, Names
  <2>3. ASSUME NEW u \in Threads, CloseStep(u) PROVE reader' = reader
    BY <2>3 DEF CloseStep, TakesRegistry, ClosesNextLane, LaneReports, LaneTable
  <2>4. ASSUME NEW p \in Planes, PlaneStep(p) PROVE reader'[Control] = reader[Control]
    <3>1. \/ reader' = reader
          \/ reader[p] # "sweeping" /\ \E at : reader' = [reader EXCEPT ![p] = at]
      <4>1. CASE ReaderStep(p)
        BY <4>1 DEF ReaderStep, Pushes, ReadsEnd, LaneReaderStops, LoopEnds, ReaderMoves
      <4>2. CASE Takes(p) \/ Breaks(p)
        BY <4>2 DEF Takes, Breaks
      <4>3. CASE Pongs(p) \/ ReadsReply(p) \/ ReadsPing(p) \/ ReadsMalformed(p)
        BY <4>3 DEF Pongs, ReadsReply, ReadsPing, ReadsMalformed, LoopEnds, ReaderMoves
      <4>4. QED
        BY <2>4, <4>1, <4>2, <4>3 DEF PlaneStep
    <3>2. QED
      BY <1>0, <2>1, <3>1, Names DEF TypeOK
  <2>5. ASSUME NEW l \in Lanes, DecodesInput(l) PROVE reader'[Control] = reader[Control]
    BY <1>0, <2>5, Names DEF DecodesInput, ReaderMoves, TypeOK
  <2>6. ~ReadsEvent /\ ~ControlReaderCloses /\ ~ControlReaderDrains
    BY <2>1 DEF ReadsEvent, ControlReaderCloses, ControlReaderDrains
  <2>7. CASE ControlReaderSwept
    BY <1>2, <2>7 DEF ControlReaderSwept
  <2>8. CASE ~ControlReaderSwept
    <3>1. reader'[Control] = reader[Control]
      BY <2>2, <2>3, <2>4, <2>5, <2>6, <2>8, StepSplit
         DEF SystemStep, ControlReaderStep, vars
    <3>2. QED
      BY <1>2, <2>1, <3>1, Names DEF Sweeping
  <2>9. QED
    BY <2>7, <2>8
<1>3. QED
  BY <1>1, <1>2, Names DEF Sweeping

\* Who holds the registry gives it up when nothing is left in it; what it takes out
\* of it is closed next.
LEMMA SweepStep ==
  ASSUME PlaneInv, [Next]_vars
  PROVE  \/ sweep' = sweep
         \/ \E t \in Threads : /\ Sweeping(t) /\ sweep.by = None
                               /\ sweep'.by = t /\ sweep'.left = lanes
         \/ \E t \in Threads : /\ sweep.by = t /\ sweep'.by = t
                               /\ \E l \in sweep.left : /\ sweep'.left = sweep.left \ {l}
                                                        /\ closing'[t].lane = l
         \/ sweep.by # None /\ sweep.left = {} /\ sweep'.by = None
<1>0. TypeOK /\ sweep \in [by : Threads \union {None}, left : SUBSET Lanes]
  BY Parts DEF TypeOK
<1>. DEFINE Kept ==
         \/ sweep' = sweep
         \/ \E t \in Threads : /\ Sweeping(t) /\ sweep.by = None
                               /\ sweep'.by = t /\ sweep'.left = lanes
         \/ \E t \in Threads : /\ sweep.by = t /\ sweep'.by = t
                               /\ \E l \in sweep.left : /\ sweep'.left = sweep.left \ {l}
                                                        /\ closing'[t].lane = l
         \/ sweep.by # None /\ sweep.left = {} /\ sweep'.by = None
<1>1. ASSUME NEW c \in Callers, CallerStep(c) PROVE Kept
  <2>1. \/ sweep' = sweep
        \/ sweep.by = c /\ sweep.left = {} /\ sweep' = [sweep EXCEPT !.by = None]
    BY <1>1, CallerKeeps
  <2>2. QED
    BY <1>0, <2>1, Names
<1>2. ASSUME NEW t \in Threads, CloseStep(t) PROVE Kept
  <2>1. CASE TakesRegistry(t)
    <3>1. Sweeping(t) /\ sweep.by = None /\ sweep' = [by |-> t, left |-> lanes]
      BY <2>1 DEF TakesRegistry
    <3>2. QED
      BY <3>1
  <2>2. CASE ClosesNextLane(t)
    <3>1. PICK l \in sweep.left :
            /\ sweep' = [sweep EXCEPT !.left = @ \ {l}]
            /\ closing' = [closing EXCEPT ![t] = [lane |-> l, step |-> "report"]]
      BY <2>2 DEF ClosesNextLane
    <3>2. /\ sweep.by = t /\ sweep'.by = t /\ sweep'.left = sweep.left \ {l}
          /\ closing'[t].lane = l
      BY <1>0, <2>2, <3>1 DEF ClosesNextLane, TypeOK
    <3>3. QED
      BY <3>1, <3>2
  <2>3. CASE LaneReports(t) \/ LaneTable(t)
    BY <2>3 DEF LaneReports, LaneTable
  <2>4. QED
    BY <1>2, <2>1, <2>2, <2>3 DEF CloseStep
<1>3. ASSUME NEW p \in Planes, PlaneStep(p) PROVE Kept
  <2>1. sweep' = sweep
    BY <1>3 DEF PlaneStep, ReaderStep, Pushes, ReadsEnd, LaneReaderStops, Takes, Breaks,
       Pongs, ReadsReply, ReadsPing, ReadsMalformed
  <2>2. QED
    BY <2>1
<1>4. ASSUME ReadsEvent \/ (\E l \in Lanes : DecodesInput(l)) \/ ControlReaderCloses
             \/ ControlReaderDrains \/ UNCHANGED vars
      PROVE  Kept
  BY <1>4 DEF ReadsEvent, DecodesInput, ControlReaderCloses, ControlReaderDrains, vars
<1>5. ASSUME ControlReaderSwept PROVE Kept
  <2>1. sweep'.by = None /\ sweep.by = Control /\ sweep.left = {}
    BY <1>0, <1>5 DEF ControlReaderSwept
  <2>2. QED
    BY <2>1, Names
<1>6. CASE SystemStep
  BY <1>2, <1>3, <1>4, <1>5, <1>6 DEF SystemStep, ControlReaderStep
<1>7. QED
  BY <1>1, <1>4, <1>6, StepSplit

LEMMA LanesKept ==
  ASSUME PlaneInv, [Next]_vars
  PROVE  LanesAccounted'
<1>0. /\ TypeOK /\ ClosersInStep /\ LanesAccounted
      /\ sweep \in [by : Threads \union {None}, left : SUBSET Lanes]
  BY Parts DEF TypeOK
<1>1. SUFFICES ASSUME lifecycle', NEW l \in lanes'
               PROVE  \/ closed'[l]
                      \/ \E t \in Threads : closing'[t].lane = l
                      \/ sweep'.by # None /\ l \in sweep'.left
                      \/ \E t \in Threads : Sweeping(t)' /\ sweep'.by # t
  BY DEF LanesAccounted
<1>2. CASE ~lifecycle
  <2>1. PICK t \in Threads : Sweeping(t)' /\ ~Sweeping(t) /\ sweep' = sweep
    BY <1>0, <1>1, <1>2, LifecycleStep DEF TypeOK
  <2>2. sweep.by # t
    BY <1>0, <2>1, Names DEF ClosersInStep
  <2>3. QED
    BY <2>1, <2>2
<1>3. CASE lifecycle
  <2>0. l \in lanes /\ l \in Lanes
    BY <1>0, <1>3, LifecycleStep DEF TypeOK
  <2>1. CASE closed[l]
    BY <2>0, <2>1, ClosedStep, Names
  <2>2. ASSUME NEW t \in Threads, closing[t].lane = l
        PROVE  closed'[l] \/ closing'[t].lane = l
    <3>1. closing[t] # NotClosing /\ closing[t] \in ClosingState
      BY <1>0, <2>0, <2>2, Names DEF NotClosing, TypeOK
    <3>2. CASE closing'[t] = [closing[t] EXCEPT !.step = "table"]
      BY <2>2, <3>1, <3>2 DEF ClosingState
    <3>3. CASE LaneTable(t)
      BY <1>0, <2>0, <2>2, <3>1, <3>3, ClosedStep, Names DEF LaneTable, ClosersInStep
    <3>4. QED
      BY <2>2, <3>1, <3>2, <3>3, ClosingStep
  <2>3. CASE sweep.by # None /\ l \in sweep.left
    BY <1>0, <2>3, SweepStep, Names
  <2>4. ASSUME NEW t \in Threads, Sweeping(t), sweep.by # t
        PROVE  \/ sweep'.by # None /\ l \in sweep'.left
               \/ Sweeping(t)' /\ sweep'.by # t
    <3>1. Sweeping(t)'
      BY <2>4, SweepingStep
    <3>2. QED
      BY <1>0, <2>0, <2>4, <3>1, SweepStep, Names
  <2>5. QED
    BY <1>0, <1>3, <2>0, <2>1, <2>2, <2>3, <2>4 DEF LanesAccounted
<1>4. QED
  BY <1>2, <1>3
-----------------------------------------------------------------------------
(* The theorems.                                                           *)

LEMMA PlaneInit == Init => PlaneInv
<1>. SUFFICES ASSUME Init PROVE PlaneInv
  OBVIOUS
<1>1. TypeOK
  <2>1. NotClosing \in ClosingState
    BY DEF NotClosing, ClosingState
  <2>2. closing \in [Threads -> ClosingState] /\ call \in [Callers -> CallState]
    BY <2>1, NoCallTyped DEF Init
  <2>3. events \in [Planes -> Queues]
    BY QueueSteps DEF Init
  <2>4. nextId \in [Planes -> 1 .. MaxRequests + 2]
    BY SizeAssumption DEF Init
  <2>5. sweep \in [by : Threads \union {None}, left : SUBSET Lanes]
    BY DEF Init
  <2>6. /\ up \in [Planes -> BOOLEAN] /\ closed \in [Planes -> BOOLEAN]
        /\ asked \in [Planes -> SUBSET Ids] /\ requests \in [Planes -> SUBSET Ids]
        /\ reader \in [Planes -> {"none", "reading", "ponging", "pushing",
                                  "ended", "sweeping", "draining", "done"}]
        /\ lifecycle \in BOOLEAN /\ session \in BOOLEAN /\ lanes \subseteq Lanes
    BY DEF Init
  <2>7. QED
    BY <2>2, <2>3, <2>4, <2>5, <2>6 DEF TypeOK
<1>2. CallsInOrder /\ CallsApart /\ IdsBounded
  BY SizeAssumption, Names DEF Init, CallsInOrder, CallsApart, IdsBounded, At, Requesting,
     NoCall, SessionOps
<1>3. ClosersInStep
  BY Names DEF Init, ClosersInStep
<1>4. EntriesServed /\ DrainedStaysEmpty /\ ReportsFinal /\ LanesAccounted
  BY Names DEF Init, EntriesServed, DrainedStaysEmpty, ReportsFinal, LanesAccounted, NoCall
<1>5. QED
  BY <1>1, <1>2, <1>3, <1>4 DEF PlaneInv

LEMMA PlaneStepKept == PlaneInv /\ [Next]_vars => PlaneInv'
<1>. SUFFICES ASSUME PlaneInv, [Next]_vars PROVE PlaneInv'
  OBVIOUS
<1>1. CallsInv
  BY Parts
<1>2. QED
  BY <1>1, TypeKept, CallsKept, ClosersKept, TablesKept, ReportsKept, LanesKept DEF PlaneInv

\* The strengthening is an invariant of the control connection and the lanes.
THEOREM PlaneInvariant == Spec => []PlaneInv
BY PlaneInit, PlaneStepKept, PTL DEF Spec

\* Queues stay within MAX_CONTROL_EVENTS and MAX_INPUT_EVENTS, and no plane hands out
\* an identifier beyond the requests made on it.
THEOREM PlaneTypeCorrect == Spec => []TypeOK
<1>1. PlaneInv => TypeOK
  BY DEF PlaneInv
<1>2. QED
  BY <1>1, PlaneInvariant, PTL

\* Nobody is left in recv behind the last drain of its table, for any number of
\* callers, of lanes and of threads that close them at once.
THEOREM CallersServed == Spec => []NoCallerForgotten
<1>1. PlaneInv => NoCallerForgotten
  BY Parts DEF NoCallerForgotten, EntriesServed, Waits, At
<1>2. QED
  BY <1>1, PlaneInvariant, PTL

\* Nothing is entered in a table after its last drain.
THEOREM TablesStayDrained == Spec => []DrainedStaysEmpty
<1>1. PlaneInv => DrainedStaysEmpty
  BY DEF PlaneInv
<1>2. QED
  BY <1>1, PlaneInvariant, PTL

\* The report that a plane is lost is the last event of its queue.
THEOREM LossIsLastEvent == Spec => []LossReportedLast
<1>1. ASSUME PlaneInv PROVE LossReportedLast
  <2>1. SUFFICES ASSUME NEW p \in Planes, reader[p] = "done",
                        \A t \in Threads : closing[t].lane # p
                 PROVE  events[p] \in {<<>>, <<"closed">>}
    BY DEF LossReportedLast
  <2>2. CASE p = Control
    BY <1>1, <2>1, <2>2, Parts DEF ReportsFinal
  <2>3. CASE p \in Lanes
    <3>1. closing[p] = NotClosing
      BY <1>1, <2>1, <2>3, Parts, Names DEF ClosersInStep
    <3>2. QED
      BY <1>1, <2>1, <2>3, <3>1, Parts DEF ReportsFinal, NotClosing
  <2>4. QED
    BY <2>2, <2>3, Names
<1>2. QED
  BY <1>1, PlaneInvariant, PTL

\* Once nobody is closing it any more, a closed session has no open lane.
THEOREM ClosedSessionHasNoLane == Spec => []NoLaneOutlivesSession
<1>1. ASSUME PlaneInv PROVE NoLaneOutlivesSession
  <2>1. SUFFICES ASSUME lifecycle, sweep.by = None,
                        \A t \in Threads : closing[t] = NotClosing /\ ~Sweeping(t),
                        NEW l \in lanes
                 PROVE  closed[l]
    BY DEF NoLaneOutlivesSession
  <2>2. l \in Lanes
    BY <1>1, Parts DEF TypeOK
  <2>3. QED
    BY <1>1, <2>1, <2>2, Parts, Names DEF LanesAccounted, NotClosing
<1>2. QED
  BY <1>1, PlaneInvariant, PTL
=============================================================================
