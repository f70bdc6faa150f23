--------------------------- MODULE ChannelFlowProofs ---------------------------
(***************************************************************************)
(* Theorems about ChannelFlow, for any number of threads and any window:   *)
(* type correctness, the window as a bound on what the presenter holds,    *)
(* the barrier of wait_for_reusable_media_capacity, no flow left open by a *)
(* closed session, and the implementation of CreditWindow.                 *)
(***************************************************************************)
EXTENDS ChannelFlow, TLAPS

W == Credit!Window
Backing == Credit!Sum(W, presenter.freed)
-----------------------------------------------------------------------------
(* Amounts: the order and the sums of pairs of bytes and records. *)

LEMMA WindowType == W \in Amounts /\ Nothing \in Amounts
BY FlowAssumption DEF W, Nothing, Amounts, Credit!Window, Credit!Amounts

LEMMA SumType ==
  ASSUME NEW a \in Amounts, NEW b \in Amounts
  PROVE  Credit!Sum(a, b) \in Amounts
BY DEF Amounts, Credit!Sum, Credit!Amounts

LEMMA ChargedType ==
  ASSUME NEW a \in Amounts, NEW size \in Nat
  PROVE  Charged(a, size) \in Amounts /\ Credit!AtMost(a, Charged(a, size))
BY DEF Amounts, Charged, Credit!Charged, Credit!Sum, Credit!Amounts, Credit!AtMost

LEMMA ChargedMonotone ==
  ASSUME NEW a \in Amounts, NEW b \in Amounts, NEW size \in Nat,
         Credit!AtMost(a, b)
  PROVE  Credit!AtMost(Charged(a, size), Charged(b, size))
BY DEF Amounts, Charged, Credit!Charged, Credit!Sum, Credit!Amounts, Credit!AtMost

LEMMA AtMostSelf == ASSUME NEW a \in Amounts PROVE Credit!AtMost(a, a)
BY DEF Amounts, Credit!Amounts, Credit!AtMost

LEMMA AtMostTrans ==
  ASSUME NEW a \in Amounts, NEW b \in Amounts, NEW c \in Amounts,
         Credit!AtMost(a, b), Credit!AtMost(b, c)
  PROVE  Credit!AtMost(a, c)
BY DEF Amounts, Credit!Amounts, Credit!AtMost

LEMMA NothingLeast == ASSUME NEW a \in Amounts PROVE Credit!AtMost(Nothing, a)
BY DEF Amounts, Credit!Amounts, Credit!AtMost, Nothing

\* Adding the window to both sides neither hides nor creates room.
LEMMA WindowShift ==
  ASSUME NEW a \in Amounts, NEW b \in Amounts
  PROVE  Credit!AtMost(Credit!Sum(W, a), Credit!Sum(W, b)) <=> Credit!AtMost(a, b)
BY FlowAssumption DEF W, Amounts, Credit!Window, Credit!Amounts, Credit!AtMost, Credit!Sum

LEMMA WindowOfNothing == Credit!Sum(W, Nothing) = W
BY FlowAssumption DEF W, Nothing, Credit!Window, Credit!Sum

LEMMA RaisedBounds ==
  ASSUME NEW a \in Amounts, NEW b \in Amounts
  PROVE  /\ Raised(a, b) \in Amounts
         /\ Credit!AtMost(a, Raised(a, b))
         /\ \A c \in Amounts : Credit!AtMost(a, c) /\ Credit!AtMost(b, c)
                                 => Credit!AtMost(Raised(a, b), c)
BY DEF Amounts, Raised, Larger, Credit!Amounts, Credit!AtMost
-----------------------------------------------------------------------------
(* Type correctness. *)

LEMMA SizeType == ASSUME NEW state \in SenderState PROVE state.size \in Nat
<1>1. state.size \in Sizes \union {0}
  BY DEF SenderState
<1>2. Sizes \union {0} \subseteq Nat
  <2>1. Sizes \subseteq Nat
    BY FlowAssumption
  <2>2. QED
    BY <2>1
<1>3. QED
  BY <1>1, <1>2

LEMMA NotifyType ==
  ASSUME TypeOK, NotifyAll
  PROVE  /\ sender' \in [Senders -> SenderState]
         /\ waiter' \in [Waiters -> WaiterState]
BY DEF TypeOK, NotifyAll, Awake, SenderState, WaiterState

LEMMA CloseFlowType ==
  ASSUME TypeOK, CloseFlow
  PROVE  /\ flow' \in FlowState
         /\ sender' \in [Senders -> SenderState]
         /\ waiter' \in [Waiters -> WaiterState]
BY NotifyType DEF TypeOK, CloseFlow, FlowState

LEMMA TypeInit == Init => TypeOK
<1> SUFFICES ASSUME Init PROVE TypeOK
  OBVIOUS
<1>1. flow \in FlowState /\ presenter \in PresenterState /\ returned \in Amounts
  BY WindowType DEF Init, FlowState, PresenterState, W
<1>2. sender \in [Senders -> SenderState] /\ waiter \in [Waiters -> WaiterState]
  BY WindowType DEF Init, SenderIdle, WaiterIdle, SenderState, WaiterState
<1>3. QED
  BY <1>1, <1>2, FlowAssumption DEF Init, TypeOK

LEMMA OpenerType == ASSUME TypeOK, Opener PROVE TypeOK'
BY DEF TypeOK, Opener, OpenChecks, OpenLocks, OpenRegisters, threadVars, wireVars

LEMMA CloserType ==
  ASSUME TypeOK, NEW k \in Closers, CloseStores(k) \/ CloseFlows(k)
  PROVE  TypeOK'
<1>1. CASE CloseStores(k)
  BY <1>1 DEF TypeOK, CloseStores, wireVars
<1>2. CASE CloseFlows(k)
  <2>1. flow' \in FlowState /\ sender' \in [Senders -> SenderState]
        /\ waiter' \in [Waiters -> WaiterState]
    BY <1>2, CloseFlowType DEF CloseFlows, TypeOK
  <2>2. QED
    BY <1>2, <2>1 DEF TypeOK, CloseFlows, wireVars
<1>3. QED
  BY <1>1, <1>2

LEMMA BeginType ==
  ASSUME TypeOK, NEW s \in Senders, BeginSend(s)
  PROVE  TypeOK'
<1>1. sender' \in [Senders -> SenderState]
  BY DEF BeginSend, TypeOK, SenderState
<1>2. begun' \in 0..MaxSends
  BY FlowAssumption DEF BeginSend, TypeOK
<1>3. QED
  BY <1>1, <1>2 DEF TypeOK, BeginSend, wireVars

LEMMA SenderType ==
  ASSUME TypeOK, NEW s \in Senders, SenderStep(s)
  PROVE  TypeOK'
<1>1. ASSUME Returns(s) \/ \E at \in {"limiting", "admitting", "asleep", "transport"} :
                              Moves(s, at)
      PROVE  sender' \in [Senders -> SenderState]
  <2>1. SenderIdle \in SenderState
    BY DEF SenderIdle, SenderState
  <2>2. CASE Returns(s)
    BY <2>1, <2>2 DEF Returns, TypeOK
  <2>3. ASSUME NEW at \in {"limiting", "admitting", "asleep", "transport"},
               Moves(s, at)
        PROVE  sender' \in [Senders -> SenderState]
    BY <2>3 DEF Moves, TypeOK, SenderState
  <2>4. QED
    BY <1>1, <2>2, <2>3
<1>2. CASE TakeSendOrder(s) \/ PassRate(s) \/ TransportFails(s)
  BY <1>1, <1>2 DEF TypeOK, TakeSendOrder, PassRate, TransportFails, wireVars
<1>3. sender[s].size \in Nat
  BY SizeType DEF TypeOK
<1>4. CASE Admit(s)
  <2>1. Charged(flow.sent, sender[s].size) \in Amounts /\ flow \in FlowState
    BY <1>3, ChargedType DEF TypeOK, FlowState
  <2>2. flow' \in FlowState
    BY <1>4, <2>1 DEF Admit, FlowState
  <2>3. sender' \in [Senders -> SenderState]
    BY <1>1, <1>4 DEF Admit
  <2>4. QED
    BY <1>4, <2>2, <2>3 DEF TypeOK, Admit, wireVars
<1>5. CASE TransportWrite(s)
  <2>1. returned' \in Amounts
    BY <1>3, <1>5, ChargedType DEF TransportWrite, TypeOK
  <2>2. forward' \in Seq(Amounts) /\ Len(forward') <= ForwardRoom
    BY <1>5, <2>1, FlowAssumption DEF TransportWrite, TypeOK
  <2>3. sender' \in [Senders -> SenderState]
    BY <1>1, <1>5 DEF TransportWrite
  <2>4. QED
    BY <1>5, <2>1, <2>2, <2>3 DEF TypeOK, TransportWrite
<1>6. QED
  BY <1>2, <1>4, <1>5 DEF SenderStep

LEMMA WaiterType ==
  ASSUME TypeOK, NEW w \in Waiters, BeginWait(w) \/ Recheck(w)
  PROVE  TypeOK'
<1>1. \A wait \in WaiterState : WaitTurn(wait) \in WaiterState
  BY WindowType DEF WaitTurn, WaiterIdle, WaiterState
<1>2. flow.sent \in Amounts /\ Required(flow.sent) \in Amounts
  BY WindowType, SumType DEF TypeOK, FlowState, Required, W
<1>3. [at |-> "woken", required |-> Required(flow.sent), handed |-> returned]
        \in WaiterState
  BY <1>2 DEF TypeOK, WaiterState
<1>4. waiter' \in [Waiters -> WaiterState]
  BY <1>1, <1>3 DEF BeginWait, Recheck, TypeOK
<1>5. QED
  BY <1>4 DEF TypeOK, BeginWait, Recheck, wireVars

LEMMA ReaderType == ASSUME TypeOK, Reader PROVE TypeOK'
<1>1. CASE ReaderEnds
  BY <1>1, CloseFlowType DEF TypeOK, ReaderEnds, wireVars
<1>2. CASE ReceiveGrant
  <2>1. Head(reverse) \in Amounts /\ flow.maximum \in Amounts /\ flow \in FlowState
    BY <1>2 DEF ReceiveGrant, TypeOK, FlowState
  <2>2. flow' \in FlowState
    BY <1>2, <2>1, RaisedBounds DEF ReceiveGrant, FlowState
  <2>3. reverse' \in Seq(Amounts) /\ Len(reverse') <= ReverseRoom
    BY <1>2, FlowAssumption DEF ReceiveGrant, TypeOK
  <2>4. QED
    BY <1>2, <2>2, <2>3, NotifyType DEF TypeOK, ReceiveGrant
<1>3. QED
  BY <1>1, <1>2 DEF Reader

LEMMA PresenterType ==
  ASSUME TypeOK, Presenter \/ PresenterStalls
  PROVE  TypeOK'
<1>0. presenter \in PresenterState /\ presenter.freed \in Amounts
      /\ presenter.read \in Amounts
  BY DEF TypeOK, PresenterState
<1>1. CASE PresenterReads
  <2>1. Head(forward) \in Amounts /\ forward' \in Seq(Amounts)
        /\ Len(forward') <= ForwardRoom
    BY <1>1, FlowAssumption DEF PresenterReads, TypeOK
  <2>2. presenter' \in PresenterState
    BY <1>0, <1>1, <2>1 DEF PresenterReads, PresenterState
  <2>3. QED
    BY <1>1, <2>1, <2>2 DEF TypeOK, PresenterReads, threadVars
<1>2. CASE PresenterFrees
  <2>1. presenter' \in PresenterState
    BY <1>0, <1>2 DEF PresenterFrees, PresenterState
  <2>2. QED
    BY <1>2, <2>1 DEF TypeOK, PresenterFrees, threadVars
<1>3. CASE PresenterGrants
  <2>1. Backing \in Amounts
    BY <1>0, WindowType, SumType DEF Backing
  <2>2. presenter' \in PresenterState
    BY <1>0, <1>3, <2>1 DEF PresenterGrants, PresenterState, Backing, W
  <2>3. reverse' \in Seq(Amounts) /\ Len(reverse') <= ReverseRoom
    BY <1>3, <2>1, FlowAssumption DEF PresenterGrants, TypeOK, Backing, W
  <2>4. QED
    BY <1>3, <2>2, <2>3 DEF TypeOK, PresenterGrants, threadVars
<1>4. CASE PresenterStalls
  <2>1. presenter' \in PresenterState
    BY <1>0, <1>4 DEF PresenterStalls, PresenterState
  <2>2. QED
    BY <1>4, <2>1 DEF TypeOK, PresenterStalls, threadVars
<1>5. QED
  BY <1>1, <1>2, <1>3, <1>4 DEF Presenter

LEMMA ControllerType ==
  ASSUME TypeOK, QueryAnswered \/ Controller
  PROVE  TypeOK'
<1>1. presenter' \in PresenterState
  BY DEF TypeOK, QueryAnswered, Controller, Reconciles, Plays, PresenterState,
         wireVars
<1>2. QED
  BY <1>1 DEF TypeOK, QueryAnswered, Controller, Reconciles, Plays, wireVars

LEMMA TypeStep == ASSUME TypeOK, [Next]_vars PROVE TypeOK'
<1>1. CASE Retire
  BY <1>1, CloseFlowType DEF TypeOK, Retire, wireVars
<1>2. CASE LinkLost
  BY <1>2 DEF TypeOK, LinkLost, threadVars
<1>3. CASE UNCHANGED vars
  BY <1>3 DEF TypeOK, vars, threadVars, wireVars
<1>4. QED
  BY <1>1, <1>2, <1>3, OpenerType, CloserType, BeginType, SenderType, WaiterType,
     ReaderType, PresenterType, ControllerType DEF Next

\* Type correctness for every number of threads, window and bound.
THEOREM TypeCorrect == Spec => []TypeOK
BY TypeInit, TypeStep, PTL DEF Spec
-----------------------------------------------------------------------------
(* The inductive invariant. *)

HoldsOrder(s) == sender[s].at \notin {"idle", "queued"}

\* One sender at a time is past send_order, and a send has a size.
SendsOrdered ==
  /\ \A s, r \in Senders : HoldsOrder(s) /\ HoldsOrder(r) => s = r
  /\ \A s \in Senders : sender[s].at # "idle" => sender[s].size \in Sizes

\* What returned, and the record in the transport, was charged before.
Accounted ==
  /\ Credit!AtMost(returned, flow.sent)
  /\ \A s \in Senders : sender[s].at = "transport" =>
       Credit!AtMost(Charged(returned, sender[s].size), flow.sent)

\* The presenter frees what it read, of what was written, in order.
Delivered ==
  /\ Credit!AtMost(presenter.freed, presenter.read)
  /\ Credit!AtMost(presenter.read, returned)
  /\ \A i \in 1..Len(forward) :
       Credit!AtMost(presenter.read, forward[i]) /\ Credit!AtMost(forward[i], returned)
  /\ \A i, j \in 1..Len(forward) : i <= j => Credit!AtMost(forward[i], forward[j])

\* Every allowance, held, in flight or announced, is backed by free storage.
Backed ==
  /\ Credit!AtMost(flow.sent, flow.maximum)
  /\ Credit!AtMost(flow.maximum, presenter.granted)
  /\ Credit!AtMost(presenter.granted, Backing)
  /\ \A i \in 1..Len(reverse) : Credit!AtMost(reverse[i], presenter.granted)

\* A wait asks for the window plus what had returned when it began.
WaitsCovered ==
  \A w \in Waiters :
    /\ waiter[w].at # "idle" =>
         Credit!AtMost(Credit!Sum(W, waiter[w].handed), waiter[w].required)
    /\ waiter[w].at = "reusable" => Credit!AtMost(waiter[w].handed, presenter.freed)

\* A closer stores closed before it closes the flows.
ClosedFirst ==
  /\ (\E k \in Closers : closer[k] # "idle") => session.closed
  /\ NoStrandedFlow

IInv == /\ TypeOK /\ SendsOrdered /\ Accounted /\ Delivered /\ Backed
        /\ WaitsCovered /\ ClosedFirst
-----------------------------------------------------------------------------
(* What steps keep. *)

KeepsSends ==
  \A s \in Senders :
    /\ sender'[s].size = sender[s].size
    /\ sender'[s].at \in {"idle", "queued"} <=> sender[s].at \in {"idle", "queued"}
    /\ sender'[s].at = "transport" <=> sender[s].at = "transport"
    /\ sender'[s].at = "idle" <=> sender[s].at = "idle"

KeepsWaits ==
  \A w \in Waiters :
    /\ waiter'[w].required = waiter[w].required
    /\ waiter'[w].handed = waiter[w].handed
    /\ waiter'[w].at = "idle" <=> waiter[w].at = "idle"
    /\ waiter'[w].at = "reusable" <=> waiter[w].at = "reusable"

KeepsFlow == flow'.sent = flow.sent /\ flow'.maximum = flow.maximum

LEMMA NotifyKeeps == ASSUME TypeOK, NotifyAll PROVE KeepsSends /\ KeepsWaits
<1>1. KeepsSends
  <2> SUFFICES ASSUME NEW s \in Senders
               PROVE  /\ sender'[s].size = sender[s].size
                      /\ sender'[s].at = sender[s].at
                         \/ (sender[s].at = "asleep" /\ sender'[s].at = "admitting")
    BY DEF KeepsSends
  <2>1. sender'[s] = Awake(sender[s]) /\ sender[s] \in SenderState
    BY DEF NotifyAll, TypeOK
  <2>2. CASE sender[s].at # "asleep"
    <3>1. sender'[s] = sender[s]
      BY <2>1, <2>2 DEF Awake
    <3>2. QED
      BY <3>1
  <2>3. CASE sender[s].at = "asleep"
    <3>1. sender'[s] = [sender[s] EXCEPT !.at = "admitting"]
      BY <2>1, <2>3 DEF Awake
    <3>2. QED
      BY <2>1, <2>3, <3>1 DEF SenderState
  <2>4. QED
    BY <2>2, <2>3
<1>2. KeepsWaits
  <2> SUFFICES ASSUME NEW w \in Waiters
               PROVE  /\ waiter'[w].required = waiter[w].required
                      /\ waiter'[w].handed = waiter[w].handed
                      /\ waiter'[w].at = waiter[w].at
                         \/ (waiter[w].at = "asleep" /\ waiter'[w].at = "woken")
    BY DEF KeepsWaits
  <2>1. waiter'[w] = (IF waiter[w].at = "asleep"
                      THEN [waiter[w] EXCEPT !.at = "woken"] ELSE waiter[w])
        /\ waiter[w] \in WaiterState
    BY DEF NotifyAll, TypeOK
  <2>2. CASE waiter[w].at # "asleep"
    <3>1. waiter'[w] = waiter[w]
      BY <2>1, <2>2
    <3>2. QED
      BY <3>1
  <2>3. CASE waiter[w].at = "asleep"
    <3>1. waiter'[w] = [waiter[w] EXCEPT !.at = "woken"]
      BY <2>1, <2>3
    <3>2. QED
      BY <2>1, <2>3, <3>1 DEF WaiterState
  <2>4. QED
    BY <2>2, <2>3
<1>3. QED
  BY <1>1, <1>2

LEMMA CloseFlowKeeps ==
  ASSUME TypeOK, CloseFlow
  PROVE  KeepsSends /\ KeepsWaits /\ KeepsFlow /\ flow'.closed
<1>1. flow' = [flow EXCEPT !.closed = TRUE] /\ flow \in FlowState
  BY DEF CloseFlow, TypeOK
<1>2. KeepsFlow /\ flow'.closed
  BY <1>1 DEF KeepsFlow, FlowState
<1>3. QED
  BY <1>2, NotifyKeeps DEF CloseFlow

LEMMA SameKeeps ==
  /\ sender' = sender => KeepsSends
  /\ waiter' = waiter => KeepsWaits
  /\ flow' = flow => KeepsFlow
BY DEF KeepsSends, KeepsWaits, KeepsFlow

\* Every step but a sender's own.
LEMMA OthersKeepSends ==
  ASSUME TypeOK, [Next]_vars,
         \A s \in Senders : ~BeginSend(s) /\ ~SenderStep(s)
  PROVE  /\ KeepsSends /\ flow'.sent = flow.sent
         /\ returned' = returned
<1>1. CASE ReceiveGrant
  <2>1. flow'.sent = flow.sent
    BY <1>1 DEF ReceiveGrant, TypeOK, FlowState
  <2>2. QED
    BY <1>1, <2>1, NotifyKeeps DEF ReceiveGrant
<1>2. CASE Retire \/ ReaderEnds \/ \E k \in Closers : CloseFlows(k)
  <2>1. returned' = returned
    BY <1>2 DEF Retire, ReaderEnds, CloseFlows
  <2>2. CloseFlow \/ UNCHANGED <<flow, sender>>
    BY <1>2 DEF Retire, ReaderEnds, CloseFlows
  <2>3. QED
    BY <2>1, <2>2, CloseFlowKeeps, SameKeeps DEF KeepsFlow
<1>3. CASE Opener \/ Presenter \/ PresenterStalls \/ QueryAnswered \/ Controller
           \/ LinkLost \/ UNCHANGED vars \/ (\E k \in Closers : CloseStores(k))
           \/ \E w \in Waiters : BeginWait(w) \/ Recheck(w)
  <2>1. UNCHANGED <<sender, flow, returned>>
    BY <1>3 DEF Opener, OpenChecks, OpenLocks, OpenRegisters, Presenter,
         PresenterReads, PresenterFrees, PresenterGrants, PresenterStalls,
         QueryAnswered, Controller, Reconciles, Plays, LinkLost, vars, threadVars,
         CloseStores, BeginWait, Recheck
  <2>2. QED
    BY <2>1, SameKeeps
<1>4. QED
  BY <1>1, <1>2, <1>3 DEF Next, Reader

\* A sender's step leaves the other senders where they are.
LEMMA SenderAlone ==
  ASSUME TypeOK, NEW s \in Senders, BeginSend(s) \/ SenderStep(s)
  PROVE  /\ \A r \in Senders : r # s => sender'[r] = sender[r]
         /\ UNCHANGED waiter
BY DEF BeginSend, SenderStep, TakeSendOrder, PassRate, Admit, TransportWrite,
       TransportFails, Moves, Returns, TypeOK, wireVars

\* Where the stages of a send leave the sender.
LEMMA SenderStages ==
  ASSUME TypeOK, NEW s \in Senders
  PROVE  /\ BeginSend(s) => /\ sender'[s].at = "queued"
                            /\ sender'[s].size \in Sizes
         /\ SenderStep(s) =>
              \/ sender'[s].at = "idle"
              \/ /\ sender'[s].at \in {"limiting", "admitting", "asleep"}
                 /\ sender'[s].size = sender[s].size /\ sender[s].at # "idle"
              \/ /\ Admit(s) /\ sender'[s].at = "transport"
                 /\ sender'[s].size = sender[s].size
<1>0. sender[s] \in SenderState
  BY DEF TypeOK
<1>1. BeginSend(s) => sender'[s].at = "queued" /\ sender'[s].size \in Sizes
  <2> SUFFICES ASSUME BeginSend(s)
               PROVE  sender'[s].at = "queued" /\ sender'[s].size \in Sizes
    OBVIOUS
  <2>1. PICK size \in Sizes :
          sender' = [sender EXCEPT ![s] = [at |-> "queued", size |-> size]]
    BY DEF BeginSend
  <2>2. sender'[s] = [at |-> "queued", size |-> size]
    BY <2>1 DEF TypeOK
  <2>3. QED
    BY <2>2
<1>2. Returns(s) => sender'[s].at = "idle"
  BY DEF Returns, SenderIdle, TypeOK
<1>3. ASSUME NEW at, Moves(s, at)
      PROVE  sender'[s].at = at /\ sender'[s].size = sender[s].size
  <2>1. sender'[s] = [sender[s] EXCEPT !.at = at]
    BY <1>3 DEF Moves, TypeOK
  <2>2. QED
    BY <1>0, <2>1 DEF SenderState
<1>4. CASE TakeSendOrder(s)
  BY <1>3, <1>4 DEF TakeSendOrder, BeginSend
<1>5. CASE PassRate(s)
  BY <1>2, <1>3, <1>5 DEF PassRate, BeginSend
<1>6. CASE Admit(s)
  <2>1. Returns(s) \/ Moves(s, "transport") \/ Moves(s, "asleep")
    BY <1>6 DEF Admit
  <2>2. sender[s].at = "admitting"
    BY <1>6 DEF Admit
  <2>3. QED
    BY <1>1, <1>2, <1>3, <1>6, <2>1, <2>2
<1>7. CASE TransportWrite(s) \/ TransportFails(s)
  BY <1>1, <1>2, <1>7 DEF TransportWrite, TransportFails
<1>8. QED
  BY <1>1, <1>4, <1>5, <1>6, <1>7 DEF SenderStep
-----------------------------------------------------------------------------
(* Each part of the invariant, one step at a time. *)

LEMMA SendsOrderedStep ==
  ASSUME TypeOK, SendsOrdered, [Next]_vars
  PROVE  SendsOrdered'
<1>1. CASE \A s \in Senders : ~BeginSend(s) /\ ~SenderStep(s)
  BY <1>1, OthersKeepSends DEF SendsOrdered, HoldsOrder, KeepsSends
<1>2. ASSUME NEW s \in Senders, BeginSend(s)
      PROVE  SendsOrdered'
  BY <1>2, SenderAlone, SenderStages DEF SendsOrdered, HoldsOrder
<1>3. ASSUME NEW s \in Senders, SenderStep(s)
      PROVE  SendsOrdered'
  <2>1. HoldsOrder(s)' => HoldsOrder(s) \/ SendOrderFree
    BY <1>3 DEF SenderStep, HoldsOrder, TakeSendOrder, PassRate, Admit,
         TransportWrite, TransportFails
  <2>2. \A r \in Senders : r # s => HoldsOrder(r)' = HoldsOrder(r)
    BY <1>3, SenderAlone DEF HoldsOrder
  <2>3. \A r, q \in Senders : HoldsOrder(r)' /\ HoldsOrder(q)' => r = q
    BY <2>1, <2>2 DEF SendsOrdered, SendOrderFree, HoldsOrder
  <2>4. sender[s].at # "idle"
    BY <1>3 DEF SenderStep, TakeSendOrder, PassRate, Admit, TransportWrite,
         TransportFails
  <2>5. \A r \in Senders : sender'[r].at # "idle" => sender'[r].size \in Sizes
    BY <1>3, <2>4, SenderAlone, SenderStages DEF SendsOrdered
  <2>6. QED
    BY <2>3, <2>5 DEF SendsOrdered
<1>4. QED
  BY <1>1, <1>2, <1>3

\* Only Admit charges, and it charges at most the maximum.
LEMMA AdmitCharges ==
  ASSUME TypeOK, NEW s \in Senders, Admit(s)
  PROVE  /\ UNCHANGED <<returned, wireVars, reader>>
         /\ flow'.maximum = flow.maximum /\ flow'.closed = flow.closed
         /\ \/ flow'.sent = flow.sent /\ sender'[s].at # "transport"
            \/ /\ ~flow.closed
               /\ flow'.sent = Charged(flow.sent, sender[s].size)
               /\ Credit!AtMost(flow'.sent, flow.maximum)
<1>0. flow \in FlowState
  BY DEF TypeOK
<1>1. UNCHANGED <<returned, wireVars, reader>>
  BY DEF Admit
<1>2. CASE UNCHANGED flow /\ (Returns(s) \/ Moves(s, "asleep"))
  <2>1. sender'[s].at # "transport"
    BY <1>2 DEF Returns, Moves, SenderIdle, TypeOK, SenderState
  <2>2. QED
    BY <1>1, <1>2, <2>1
<1>3. CASE /\ ~Refused /\ Fits(Charged(flow.sent, sender[s].size), flow.maximum)
           /\ flow' = [flow EXCEPT !.sent = Charged(flow.sent, sender[s].size)]
  <2>1. /\ flow'.sent = Charged(flow.sent, sender[s].size)
        /\ flow'.maximum = flow.maximum /\ flow'.closed = flow.closed
    BY <1>0, <1>3 DEF FlowState
  <2>2. QED
    BY <1>1, <1>3, <2>1 DEF Refused, Fits
<1>4. QED
  BY <1>2, <1>3 DEF Admit

LEMMA AccountedStep ==
  ASSUME TypeOK, TypeOK', SendsOrdered, Accounted, [Next]_vars
  PROVE  Accounted'
<1>0. returned \in Amounts /\ flow.sent \in Amounts
      /\ \A s \in Senders : sender[s].size \in Nat
  BY SizeType DEF TypeOK, FlowState
<1>1. CASE \A s \in Senders : ~BeginSend(s) /\ ~SenderStep(s)
  BY <1>1, OthersKeepSends DEF Accounted, KeepsSends
<1>2. ASSUME NEW s \in Senders, BeginSend(s)
      PROVE  Accounted'
  <2>1. UNCHANGED <<flow, returned>>
    BY <1>2 DEF BeginSend
  <2>2. QED
    BY <1>2, <2>1, SenderAlone, SenderStages DEF Accounted
<1>3. ASSUME NEW s \in Senders, Admit(s)
      PROVE  Accounted'
  <2>1. \A r \in Senders : r # s => sender'[r].at # "transport"
    BY <1>3, SenderAlone DEF SendsOrdered, HoldsOrder, SenderStep, Admit
  <2>2. CASE flow'.sent = flow.sent /\ sender'[s].at # "transport"
    BY <1>3, <2>1, <2>2, AdmitCharges DEF Accounted
  <2>3. CASE flow'.sent = Charged(flow.sent, sender[s].size)
    <3>1. Credit!AtMost(returned, flow'.sent)
      BY <1>0, <2>3, ChargedType, AtMostTrans DEF Accounted
    <3>2. Credit!AtMost(Charged(returned, sender[s].size), flow'.sent)
      BY <1>0, <2>3, ChargedMonotone DEF Accounted
    <3>3. sender'[s].at = "transport" => sender'[s].size = sender[s].size
      BY <1>3, SenderStages DEF SenderStep
    <3>4. returned' = returned
      BY <1>3, AdmitCharges
    <3>5. QED
      BY <2>1, <3>1, <3>2, <3>3, <3>4 DEF Accounted
  <2>4. QED
    BY <1>3, <2>2, <2>3, AdmitCharges
<1>4. ASSUME NEW s \in Senders, TransportWrite(s)
      PROVE  Accounted'
  <2>1. \A r \in Senders : sender'[r].at # "transport"
    BY <1>4, SenderAlone, SenderStages
       DEF SendsOrdered, HoldsOrder, SenderStep, TransportWrite, Admit
  <2>2. returned' = Charged(returned, sender[s].size) /\ flow' = flow
        /\ sender[s].at = "transport"
    BY <1>4 DEF TransportWrite
  <2>3. QED
    BY <2>1, <2>2 DEF Accounted
<1>5. ASSUME NEW s \in Senders, TakeSendOrder(s) \/ PassRate(s) \/ TransportFails(s)
      PROVE  Accounted'
  <2>1. UNCHANGED <<flow, returned>> /\ ~Admit(s)
    BY <1>5 DEF TakeSendOrder, PassRate, TransportFails, Admit
  <2>2. sender'[s].at # "transport"
    BY <1>5, <2>1, SenderStages DEF SenderStep
  <2>3. QED
    BY <1>5, <2>1, <2>2, SenderAlone DEF Accounted, SenderStep
<1>6. QED
  BY <1>1, <1>2, <1>3, <1>4, <1>5 DEF SenderStep

LEMMA DeliveredStep ==
  ASSUME TypeOK, TypeOK', Delivered, [Next]_vars
  PROVE  Delivered'
<1>0. /\ presenter \in PresenterState /\ presenter.read \in Amounts
      /\ presenter.freed \in Amounts /\ returned \in Amounts
      /\ forward \in Seq(Amounts) /\ Len(forward) \in Nat
      /\ \A i \in 1..Len(forward) : forward[i] \in Amounts
  BY DEF TypeOK, PresenterState
<1>1. ASSUME NEW s \in Senders, TransportWrite(s)
      PROVE  Delivered'
  <2>1. /\ forward' = Append(forward, returned') /\ presenter' = presenter
        /\ returned' \in Amounts
    BY <1>1 DEF TransportWrite, TypeOK
  <2>2. Credit!AtMost(returned, returned')
    <3>1. sender[s].size \in Nat
      BY SizeType DEF TypeOK
    <3>2. QED
      BY <1>0, <1>1, <3>1, ChargedType DEF TransportWrite
  <2>3. Credit!AtMost(presenter.read, returned')
    BY <1>0, <2>1, <2>2, AtMostTrans DEF Delivered
  <2>4. \A i \in 1..Len(forward) : Credit!AtMost(forward[i], returned')
    BY <1>0, <2>1, <2>2, AtMostTrans DEF Delivered
  <2>5. Credit!AtMost(returned', returned')
    BY <2>1, AtMostSelf
  <2>6. /\ Len(forward') = Len(forward) + 1
        /\ \A i \in 1..Len(forward) : forward'[i] = forward[i]
        /\ forward'[Len(forward) + 1] = returned'
    BY <1>0, <2>1
  <2>7. \A i \in 1..Len(forward') :
          i \in 1..Len(forward) \/ i = Len(forward) + 1
    BY <1>0, <2>6
  <2>8. \A i \in 1..Len(forward') :
          /\ Credit!AtMost(presenter.read, forward'[i])
          /\ Credit!AtMost(forward'[i], returned')
    BY <2>3, <2>4, <2>5, <2>6, <2>7 DEF Delivered
  <2>9. \A i, j \in 1..Len(forward') :
          i <= j => Credit!AtMost(forward'[i], forward'[j])
    <3> SUFFICES ASSUME NEW i \in 1..Len(forward'), NEW j \in 1..Len(forward'), i <= j
                 PROVE  Credit!AtMost(forward'[i], forward'[j])
      OBVIOUS
    <3>1. CASE j \in 1..Len(forward)
      <4>1. i \in 1..Len(forward)
        BY <1>0, <3>1
      <4>2. QED
        BY <2>6, <3>1, <4>1 DEF Delivered
    <3>2. CASE j = Len(forward) + 1
      BY <2>6, <2>8, <3>2
    <3>3. QED
      BY <2>7, <3>1, <3>2
  <2>10. QED
    BY <2>1, <2>3, <2>8, <2>9 DEF Delivered
<1>2. CASE PresenterReads
  <2>1. /\ forward # <<>> /\ forward' = Tail(forward) /\ returned' = returned
        /\ presenter' = [presenter EXCEPT !.read = Head(forward)]
    BY <1>2 DEF PresenterReads
  <2>2. /\ presenter'.read = forward[1] /\ presenter'.freed = presenter.freed
        /\ 1 \in 1..Len(forward)
    BY <1>0, <2>1 DEF PresenterState
  <2>3. /\ Len(forward') = Len(forward) - 1
        /\ \A i \in 1..Len(forward') : forward'[i] = forward[i + 1]
                                       /\ i + 1 \in 1..Len(forward)
    BY <1>0, <2>1
  <2>4. Credit!AtMost(presenter.freed, forward[1])
    BY <1>0, <2>2, AtMostTrans DEF Delivered
  <2>5. \A i \in 1..Len(forward') :
          Credit!AtMost(forward[1], forward'[i]) /\ Credit!AtMost(forward'[i], returned)
    BY <1>0, <2>2, <2>3 DEF Delivered
  <2>6. \A i, j \in 1..Len(forward') :
          i <= j => Credit!AtMost(forward'[i], forward'[j])
    BY <1>0, <2>3 DEF Delivered
  <2>7. QED
    BY <2>1, <2>2, <2>4, <2>5, <2>6 DEF Delivered
<1>3. CASE PresenterFrees
  <2>1. presenter'.freed = presenter.read /\ presenter'.read = presenter.read
        /\ UNCHANGED <<forward, returned>>
    BY <1>0, <1>3 DEF PresenterFrees, PresenterState
  <2>2. QED
    BY <1>0, <2>1, AtMostSelf DEF Delivered
<1>4. CASE /\ ~PresenterReads /\ ~PresenterFrees
           /\ \A s \in Senders : ~TransportWrite(s)
  <2>1. UNCHANGED <<forward, returned>>
    BY <1>4 DEF Next, vars, Opener, OpenChecks, OpenLocks, OpenRegisters,
         CloseStores, CloseFlows, Retire, BeginSend, SenderStep, TakeSendOrder,
         PassRate, Admit, TransportFails, BeginWait, Recheck, Reader, ReceiveGrant,
         ReaderEnds, LinkLost, Presenter, PresenterGrants, PresenterStalls,
         QueryAnswered, Controller, Reconciles, Plays, wireVars
  <2>2. presenter'.read = presenter.read /\ presenter'.freed = presenter.freed
    <3>1. CASE PresenterGrants \/ PresenterStalls \/ Plays
      BY <1>0, <3>1 DEF PresenterGrants, PresenterStalls, Plays, PresenterState
    <3>2. CASE ~PresenterGrants /\ ~PresenterStalls /\ ~Plays
      BY <1>4, <3>2 DEF Next, vars, Opener, OpenChecks, OpenLocks, OpenRegisters,
         CloseStores, CloseFlows, Retire, BeginSend, SenderStep, TakeSendOrder,
         PassRate, Admit, TransportFails, BeginWait, Recheck, Reader, ReceiveGrant,
         ReaderEnds, LinkLost, Presenter, QueryAnswered, Controller, Reconciles,
         wireVars
    <3>3. QED
      BY <3>1, <3>2
  <2>3. QED
    BY <2>1, <2>2 DEF Delivered
<1>5. QED
  BY <1>1, <1>2, <1>3, <1>4

\* Which steps change the credit: nothing but these touch it.
LEMMA CreditFrame ==
  ASSUME TypeOK, [Next]_vars, ~ReceiveGrant, ~PresenterFrees, ~PresenterGrants,
         \A s \in Senders : ~Admit(s)
  PROVE  /\ KeepsFlow /\ reverse' = reverse
         /\ presenter'.granted = presenter.granted
         /\ presenter'.freed = presenter.freed
<1>0. presenter \in PresenterState
  BY DEF TypeOK
<1>1. CASE Retire \/ ReaderEnds \/ \E k \in Closers : CloseFlows(k)
  <2>1. UNCHANGED <<reverse, presenter>> /\ (CloseFlow \/ flow' = flow)
    BY <1>1 DEF Retire, ReaderEnds, CloseFlows, wireVars
  <2>2. QED
    BY <2>1, CloseFlowKeeps, SameKeeps
<1>2. CASE PresenterReads \/ PresenterStalls \/ Plays
  <2>1. UNCHANGED <<reverse, flow>>
    BY <1>2 DEF PresenterReads, PresenterStalls, Plays
  <2>2. presenter'.granted = presenter.granted /\ presenter'.freed = presenter.freed
    BY <1>0, <1>2 DEF PresenterReads, PresenterStalls, Plays, PresenterState
  <2>3. QED
    BY <2>1, <2>2, SameKeeps
<1>3. CASE /\ ~Retire /\ ~ReaderEnds /\ ~PresenterReads /\ ~PresenterStalls
           /\ ~Plays /\ \A k \in Closers : ~CloseFlows(k)
  <2>1. UNCHANGED <<flow, reverse, presenter>>
    BY <1>3 DEF Next, vars, Opener, OpenChecks, OpenLocks, OpenRegisters,
       CloseStores, BeginSend, SenderStep, TakeSendOrder, PassRate,
       TransportWrite, TransportFails, BeginWait, Recheck, Reader, LinkLost,
       Presenter, QueryAnswered, Controller, Reconciles, wireVars
  <2>2. QED
    BY <2>1, SameKeeps
<1>4. QED
  BY <1>1, <1>2, <1>3

LEMMA BackedStep ==
  ASSUME TypeOK, TypeOK', Delivered, Backed, [Next]_vars
  PROVE  Backed'
<1>0. /\ flow \in FlowState /\ flow.sent \in Amounts /\ flow.maximum \in Amounts
      /\ presenter \in PresenterState /\ presenter.read \in Amounts
      /\ presenter.freed \in Amounts /\ presenter.granted \in Amounts
      /\ reverse \in Seq(Amounts) /\ Len(reverse) \in Nat
      /\ \A i \in 1..Len(reverse) : reverse[i] \in Amounts
      /\ Backing \in Amounts
  BY WindowType, SumType DEF TypeOK, FlowState, PresenterState, Backing
<1>1. CASE /\ ~ReceiveGrant /\ ~PresenterFrees /\ ~PresenterGrants
           /\ \A s \in Senders : ~Admit(s)
  BY <1>1, CreditFrame DEF Backed, Backing, KeepsFlow
<1>2. ASSUME NEW s \in Senders, Admit(s)
      PROVE  Backed'
  <2>1. UNCHANGED <<reverse, presenter>> /\ flow'.maximum = flow.maximum
    BY <1>2, AdmitCharges DEF wireVars
  <2>2. Credit!AtMost(flow'.sent, flow.maximum)
    BY <1>2, AdmitCharges DEF Backed
  <2>3. QED
    BY <2>1, <2>2 DEF Backed, Backing
<1>3. CASE ReceiveGrant
  <2>1. /\ reverse # <<>> /\ reverse' = Tail(reverse) /\ presenter' = presenter
        /\ flow' = [flow EXCEPT !.maximum = Raised(flow.maximum, Head(reverse))]
    BY <1>3 DEF ReceiveGrant
  <2>2. 1 \in 1..Len(reverse) /\ Head(reverse) = reverse[1]
    BY <1>0, <2>1
  <2>3. flow'.sent = flow.sent
        /\ flow'.maximum = Raised(flow.maximum, reverse[1])
    BY <1>0, <2>1, <2>2 DEF FlowState
  <2>4. Credit!AtMost(flow'.maximum, presenter.granted)
    BY <1>0, <2>2, <2>3, RaisedBounds DEF Backed
  <2>5. Credit!AtMost(flow.sent, flow'.maximum)
    <3>1. Credit!AtMost(flow.maximum, flow'.maximum) /\ flow'.maximum \in Amounts
      BY <1>0, <2>2, <2>3, RaisedBounds
    <3>2. QED
      BY <1>0, <3>1, AtMostTrans DEF Backed
  <2>6. \A i \in 1..Len(reverse') : Credit!AtMost(reverse'[i], presenter.granted)
    <3>1. \A i \in 1..Len(reverse') :
            reverse'[i] = reverse[i + 1] /\ i + 1 \in 1..Len(reverse)
      BY <1>0, <2>1
    <3>2. QED
      BY <3>1 DEF Backed
  <2>7. QED
    BY <2>1, <2>3, <2>4, <2>5, <2>6 DEF Backed, Backing
<1>4. CASE PresenterFrees
  <2>1. /\ UNCHANGED <<flow, reverse>> /\ presenter'.granted = presenter.granted
        /\ presenter'.freed = presenter.read
    BY <1>0, <1>4 DEF PresenterFrees, PresenterState
  <2>2. Credit!Sum(W, presenter.read) \in Amounts
    BY <1>0, WindowType, SumType
  <2>3. Credit!AtMost(Backing, Credit!Sum(W, presenter.read))
    BY <1>0, WindowShift DEF Delivered, Backing
  <2>4. Credit!AtMost(presenter.granted, Credit!Sum(W, presenter.read))
    BY <1>0, <2>2, <2>3, AtMostTrans DEF Backed
  <2>5. QED
    BY <2>1, <2>4 DEF Backed, Backing, W
<1>5. CASE PresenterGrants
  <2>1. /\ flow' = flow /\ reverse' = Append(reverse, Backing)
        /\ presenter'.granted = Backing /\ presenter'.freed = presenter.freed
    BY <1>0, <1>5 DEF PresenterGrants, PresenterState, Backing, W
  <2>2. Credit!AtMost(Backing, Backing)
    BY <1>0, AtMostSelf
  <2>3. Credit!AtMost(flow.maximum, Backing)
    BY <1>0, AtMostTrans DEF Backed
  <2>4. \A i \in 1..Len(reverse) : Credit!AtMost(reverse[i], Backing)
    BY <1>0, AtMostTrans DEF Backed
  <2>5. \A i \in 1..Len(reverse') : Credit!AtMost(reverse'[i], Backing)
    <3>1. \A i \in 1..Len(reverse') :
            reverse'[i] = Backing \/ (i \in 1..Len(reverse) /\ reverse'[i] = reverse[i])
      BY <1>0, <2>1
    <3>2. QED
      BY <2>2, <2>4, <3>1
  <2>6. Backing' = Backing
    BY <2>1 DEF Backing, W, Credit!Window
  <2>7. QED
    BY <2>1, <2>2, <2>3, <2>5, <2>6 DEF Backed
<1>6. QED
  BY <1>1, <1>2, <1>3, <1>4, <1>5

\* A turn of the wait that finds the maxima large enough proves the storage free.
LEMMA TurnCovered ==
  ASSUME TypeOK, Backed, NEW wait \in WaiterState,
         Credit!AtMost(Credit!Sum(W, wait.handed), wait.required)
  PROVE  LET turn == WaitTurn(wait) IN
         /\ turn.at # "idle" => Credit!AtMost(Credit!Sum(W, turn.handed), turn.required)
         /\ turn.at = "reusable" => Credit!AtMost(turn.handed, presenter.freed)
<1> DEFINE turn == WaitTurn(wait)
<1>0. /\ wait.required \in Amounts /\ wait.handed \in Amounts
      /\ flow.maximum \in Amounts /\ presenter.granted \in Amounts
      /\ presenter.freed \in Amounts /\ Backing \in Amounts
      /\ Credit!Sum(W, wait.handed) \in Amounts
  BY WindowType, SumType DEF TypeOK, WaiterState, FlowState, PresenterState, Backing
<1>1. CASE Refused
  BY <1>1 DEF WaitTurn, WaiterIdle
<1>2. CASE ~Refused
  <2>1. /\ turn.required = wait.required /\ turn.handed = wait.handed
        /\ turn.at = "reusable" => Fits(wait.required, flow.maximum)
    BY <1>2 DEF WaitTurn, WaiterState
  <2>2. ASSUME Fits(wait.required, flow.maximum)
        PROVE  Credit!AtMost(wait.handed, presenter.freed)
    <3>1. Credit!AtMost(wait.required, presenter.granted)
      BY <1>0, <2>2, AtMostTrans DEF Fits, Backed
    <3>2. Credit!AtMost(wait.required, Backing)
      BY <1>0, <3>1, AtMostTrans DEF Backed
    <3>3. Credit!AtMost(Credit!Sum(W, wait.handed), Backing)
      BY <1>0, <3>2, AtMostTrans
    <3>4. QED
      BY <1>0, <3>3, WindowShift DEF Backing
  <2>3. QED
    BY <2>1, <2>2
<1>3. QED
  BY <1>1, <1>2

LEMMA FreedGrows ==
  ASSUME TypeOK, Delivered, [Next]_vars
  PROVE  Credit!AtMost(presenter.freed, presenter'.freed)
<1>0. presenter \in PresenterState /\ presenter.freed \in Amounts
  BY DEF TypeOK, PresenterState
<1>1. CASE PresenterFrees
  <2>1. presenter'.freed = presenter.read
    BY <1>0, <1>1 DEF PresenterFrees, PresenterState
  <2>2. QED
    BY <2>1 DEF Delivered
<1>2. CASE PresenterGrants
  BY <1>0, <1>2, AtMostSelf DEF PresenterGrants, PresenterState
<1>3. CASE ReceiveGrant
  BY <1>0, <1>3, AtMostSelf DEF ReceiveGrant
<1>4. ASSUME NEW s \in Senders, Admit(s)
      PROVE  Credit!AtMost(presenter.freed, presenter'.freed)
  BY <1>0, <1>4, AtMostSelf DEF Admit, wireVars
<1>5. QED
  BY <1>0, <1>1, <1>2, <1>3, <1>4, CreditFrame, AtMostSelf

LEMMA WaitsCoveredStep ==
  ASSUME TypeOK, TypeOK', Accounted, Delivered, Backed, WaitsCovered, [Next]_vars
  PROVE  WaitsCovered'
<1>0. /\ flow.sent \in Amounts /\ returned \in Amounts
      /\ presenter.freed \in Amounts /\ presenter'.freed \in Amounts
      /\ \A w \in Waiters : waiter[w] \in WaiterState /\ waiter[w].handed \in Amounts
  BY DEF TypeOK, FlowState, PresenterState, WaiterState
<1>1. ASSUME KeepsWaits PROVE WaitsCovered'
  <2>1. \A w \in Waiters : waiter[w].at = "reusable" =>
          Credit!AtMost(waiter[w].handed, presenter'.freed)
    BY <1>0, FreedGrows, AtMostTrans DEF WaitsCovered
  <2>2. QED
    BY <1>1, <2>1 DEF WaitsCovered, KeepsWaits
<1>2. ASSUME NEW w \in Waiters, BeginWait(w) \/ Recheck(w)
      PROVE  WaitsCovered'
  <2> DEFINE new == [at |-> "woken", required |-> Required(flow.sent),
                     handed |-> returned]
  <2>1. presenter' = presenter
    BY <1>2 DEF BeginWait, Recheck, wireVars
  <2>2. \A v \in Waiters : v # w => waiter'[v] = waiter[v]
    BY <1>2 DEF BeginWait, Recheck, TypeOK
  <2>3. PICK wait \in WaiterState :
          /\ waiter'[w] = WaitTurn(wait)
          /\ Credit!AtMost(Credit!Sum(W, wait.handed), wait.required)
    <3>1. CASE Recheck(w)
      <4>1. waiter'[w] = WaitTurn(waiter[w]) /\ waiter[w].at # "idle"
        BY <3>1 DEF Recheck, TypeOK
      <4>2. QED
        BY <1>0, <4>1 DEF WaitsCovered
    <3>2. CASE BeginWait(w)
      <4>1. waiter'[w] = WaitTurn(new)
        BY <3>2 DEF BeginWait, TypeOK
      <4>2. new.required = Credit!Sum(W, flow.sent) /\ new.handed = returned
        BY DEF Required, W
      <4>3. new \in WaiterState
        BY <1>0, WindowType, SumType DEF WaiterState, Required, W
      <4>4. Credit!AtMost(Credit!Sum(W, returned), Credit!Sum(W, flow.sent))
        BY <1>0, WindowShift DEF Accounted
      <4> HIDE DEF new
      <4>5. QED
        BY <4>1, <4>2, <4>3, <4>4
    <3>3. QED
      BY <1>2, <3>1, <3>2
  <2>4. /\ waiter'[w].at # "idle" =>
             Credit!AtMost(Credit!Sum(W, waiter'[w].handed), waiter'[w].required)
        /\ waiter'[w].at = "reusable" =>
             Credit!AtMost(waiter'[w].handed, presenter.freed)
    BY <2>3, TurnCovered
  <2>5. QED
    BY <2>1, <2>2, <2>4 DEF WaitsCovered
<1>3. CASE ReceiveGrant \/ Retire \/ ReaderEnds \/ \E k \in Closers : CloseFlows(k)
  <2>1. NotifyAll \/ waiter' = waiter
    BY <1>3 DEF ReceiveGrant, Retire, ReaderEnds, CloseFlows, CloseFlow
  <2>2. QED
    BY <1>1, <2>1, NotifyKeeps, SameKeeps
<1>4. CASE /\ ~ReceiveGrant /\ ~Retire /\ ~ReaderEnds
           /\ \A k \in Closers : ~CloseFlows(k)
           /\ \A w \in Waiters : ~BeginWait(w) /\ ~Recheck(w)
  <2>1. waiter' = waiter
    BY <1>4 DEF Next, vars, Opener, OpenChecks, OpenLocks, OpenRegisters,
       CloseStores, BeginSend, SenderStep, TakeSendOrder, PassRate, Admit,
       TransportWrite, TransportFails, Reader, LinkLost, Presenter,
       PresenterReads, PresenterFrees, PresenterGrants, PresenterStalls,
       QueryAnswered, Controller, Reconciles, Plays, threadVars
  <2>2. QED
    BY <1>1, <2>1, SameKeeps
<1>5. QED
  BY <1>2, <1>3, <1>4

LEMMA ClosedStays ==
  ASSUME TypeOK, [Next]_vars, flow.closed
  PROVE  flow'.closed
<1>0. flow \in FlowState
  BY DEF TypeOK
<1>1. CASE Retire \/ ReaderEnds \/ \E k \in Closers : CloseFlows(k)
  <2>1. CloseFlow \/ flow' = flow
    BY <1>1 DEF Retire, ReaderEnds, CloseFlows
  <2>2. QED
    BY <2>1, CloseFlowKeeps
<1>2. ASSUME NEW s \in Senders, Admit(s) PROVE flow'.closed
  BY <1>2, AdmitCharges
<1>3. CASE ReceiveGrant
  BY <1>0, <1>3 DEF ReceiveGrant, FlowState
<1>4. CASE /\ ~ReceiveGrant /\ ~Retire /\ ~ReaderEnds
           /\ \A k \in Closers : ~CloseFlows(k)
           /\ \A s \in Senders : ~Admit(s)
  BY <1>4 DEF Next, vars, Opener, OpenChecks, OpenLocks, OpenRegisters,
     CloseStores, BeginSend, SenderStep, TakeSendOrder, PassRate,
     TransportWrite, TransportFails, BeginWait, Recheck, Reader, LinkLost,
     Presenter, PresenterReads, PresenterFrees, PresenterGrants, PresenterStalls,
     QueryAnswered, Controller, Reconciles, Plays
<1>5. QED
  BY <1>1, <1>2, <1>3, <1>4

LEMMA ClosedFirstStep ==
  ASSUME TypeOK, ClosedFirst, [Next]_vars
  PROVE  ClosedFirst'
<1>1. CASE OpenRegisters
  BY <1>1 DEF OpenRegisters, ClosedFirst, NoStrandedFlow
<1>2. ASSUME NEW k \in Closers, CloseStores(k)
      PROVE  ClosedFirst'
  <2>1. session'.closed /\ flow' = flow /\ opener' = opener
    BY <1>2 DEF CloseStores, TypeOK, threadVars
  <2>2. \A j \in Closers : closer'[j] = "done" => closer[j] = "done"
    BY <1>2 DEF CloseStores, TypeOK
  <2>3. QED
    BY <2>1, <2>2 DEF ClosedFirst, NoStrandedFlow
<1>3. ASSUME NEW k \in Closers, CloseFlows(k)
      PROVE  ClosedFirst'
  <2>1. session' = session /\ opener' = opener /\ closer[k] # "idle"
    BY <1>3 DEF CloseFlows
  <2>2. opener = "open" => flow'.closed
    BY <1>3, CloseFlowKeeps DEF CloseFlows
  <2>3. QED
    BY <2>1, <2>2 DEF ClosedFirst, NoStrandedFlow
<1>4. CASE /\ ~OpenRegisters
           /\ \A k \in Closers : ~CloseStores(k) /\ ~CloseFlows(k)
  <2>1. session' = session /\ closer' = closer
    BY <1>4 DEF Next, vars, Opener, OpenChecks, OpenLocks, Retire, BeginSend,
       SenderStep, TakeSendOrder, PassRate, Admit, TransportWrite, TransportFails,
       BeginWait, Recheck, Reader, ReceiveGrant, ReaderEnds, LinkLost, Presenter,
       PresenterReads, PresenterFrees, PresenterGrants, PresenterStalls,
       QueryAnswered, Controller, Reconciles, Plays, threadVars
  <2>2. opener' = "open" => opener = "open"
    BY <1>4 DEF Next, vars, Opener, OpenChecks, OpenLocks, Retire, BeginSend,
       SenderStep, TakeSendOrder, PassRate, Admit, TransportWrite, TransportFails,
       BeginWait, Recheck, Reader, ReceiveGrant, ReaderEnds, LinkLost, Presenter,
       PresenterReads, PresenterFrees, PresenterGrants, PresenterStalls,
       QueryAnswered, Controller, Reconciles, Plays, threadVars
  <2>3. QED
    BY <2>1, <2>2, ClosedStays DEF ClosedFirst, NoStrandedFlow
<1>5. QED
  BY <1>1, <1>2, <1>3, <1>4
-----------------------------------------------------------------------------
(* Theorems. *)

LEMMA InvInit == Init => IInv
<1> SUFFICES ASSUME Init PROVE IInv
  OBVIOUS
<1>1. TypeOK
  BY TypeInit
<1>2. SendsOrdered /\ ClosedFirst
  BY DEF Init, SenderIdle, SendsOrdered, HoldsOrder, ClosedFirst, NoStrandedFlow
<1>3. /\ flow.sent = Nothing /\ flow.maximum = W /\ returned = Nothing
      /\ presenter.read = Nothing /\ presenter.freed = Nothing
      /\ presenter.granted = W /\ forward = <<>> /\ reverse = <<>>
      /\ \A s \in Senders : sender[s].at = "idle"
      /\ \A w \in Waiters : waiter[w].at = "idle"
  BY DEF Init, SenderIdle, WaiterIdle, W
<1>4. Credit!AtMost(Nothing, Nothing) /\ Credit!AtMost(Nothing, W)
      /\ Credit!AtMost(W, W)
  BY WindowType, AtMostSelf, NothingLeast
<1>5. Backing = W
  BY <1>3, WindowOfNothing DEF Backing
<1>6. Accounted /\ Delivered /\ Backed /\ WaitsCovered
  BY <1>3, <1>4, <1>5 DEF Accounted, Delivered, Backed, WaitsCovered
<1>7. QED
  BY <1>1, <1>2, <1>6 DEF IInv

LEMMA InvStep == IInv /\ [Next]_vars => IInv'
<1> SUFFICES ASSUME IInv, [Next]_vars PROVE IInv'
  OBVIOUS
<1>1. TypeOK'
  BY TypeStep DEF IInv
<1>2. QED
  BY <1>1, SendsOrderedStep, AccountedStep, DeliveredStep, BackedStep,
     WaitsCoveredStep, ClosedFirstStep DEF IInv

\* The strengthening that the theorems below rest on.
THEOREM Invariance == Spec => []IInv
BY InvInit, InvStep, PTL DEF Spec

LEMMA InvWindow == ASSUME IInv PROVE WindowRespected
<1>1. /\ flow.sent \in Amounts /\ flow.maximum \in Amounts
      /\ presenter.granted \in Amounts /\ Backing \in Amounts
  BY WindowType, SumType DEF IInv, TypeOK, FlowState, PresenterState, Backing
<1>2. Credit!AtMost(flow.sent, presenter.granted)
  BY <1>1, AtMostTrans DEF IInv, Backed
<1>3. Credit!AtMost(flow.sent, Backing)
  BY <1>1, <1>2, AtMostTrans DEF IInv, Backed
<1>4. QED
  BY <1>3 DEF WindowRespected, Backing, W

\* The presenter never holds more than the window it announced, for any number
\* of senders, any sizes and any window.
THEOREM WindowHolds == Spec => []WindowRespected
BY Invariance, InvWindow, PTL

\* wait_for_reusable_media_capacity is a barrier: when it returns Ok, everything
\* that had been submitted when it was called is free at the presenter.
THEOREM BarrierHolds == Spec => []ReusableMeansFreed
<1>1. IInv => ReusableMeansFreed
  BY DEF IInv, WaitsCovered, ReusableMeansFreed
<1>2. QED
  BY <1>1, Invariance, PTL

\* No flow stays open in a session whose closing has finished, however its
\* registration raced the closer.
THEOREM NoFlowStranded == Spec => []NoStrandedFlow
<1>1. IInv => NoStrandedFlow
  BY DEF IInv, ClosedFirst
<1>2. QED
  BY <1>1, Invariance, PTL
-----------------------------------------------------------------------------
(* ChannelFlow implements CreditWindow. *)

LEMMA CreditInit == Init => Credit!Init
BY DEF Init, Credit!Init, Nothing

LEMMA CreditStutter ==
  ASSUME flow'.sent = flow.sent, flow'.closed = flow.closed,
         presenter'.freed = presenter.freed, presenter'.granted = presenter.granted
  PROVE  UNCHANGED Credit!vars
BY DEF Credit!vars

LEMMA ClosedFrame ==
  ASSUME TypeOK, [Next]_vars
  PROVE  \/ flow'.closed = flow.closed
         \/ CloseFlow /\ presenter' = presenter
<1>0. flow \in FlowState
  BY DEF TypeOK
<1>1. CASE Retire \/ ReaderEnds \/ \E k \in Closers : CloseFlows(k)
  BY <1>1 DEF Retire, ReaderEnds, CloseFlows, wireVars
<1>2. ASSUME NEW s \in Senders, Admit(s) PROVE flow'.closed = flow.closed
  BY <1>2, AdmitCharges
<1>3. CASE ReceiveGrant
  BY <1>0, <1>3 DEF ReceiveGrant, FlowState
<1>4. CASE /\ ~ReceiveGrant /\ ~Retire /\ ~ReaderEnds
           /\ \A k \in Closers : ~CloseFlows(k)
           /\ \A s \in Senders : ~Admit(s)
  BY <1>4 DEF Next, vars, Opener, OpenChecks, OpenLocks, OpenRegisters,
     CloseStores, BeginSend, SenderStep, TakeSendOrder, PassRate,
     TransportWrite, TransportFails, BeginWait, Recheck, Reader, LinkLost,
     Presenter, PresenterReads, PresenterFrees, PresenterGrants, PresenterStalls,
     QueryAnswered, Controller, Reconciles, Plays
<1>5. QED
  BY <1>1, <1>2, <1>3, <1>4

LEMMA CreditStep ==
  ASSUME IInv, [Next]_vars
  PROVE  Credit!Next \/ UNCHANGED Credit!vars
<1>0. /\ TypeOK /\ flow \in FlowState /\ presenter \in PresenterState
      /\ flow.sent \in Amounts /\ flow.maximum \in Amounts
      /\ presenter.granted \in Amounts /\ presenter.read \in Amounts
      /\ returned \in Amounts
  BY DEF IInv, TypeOK, FlowState, PresenterState
<1>1. ASSUME NEW s \in Senders, Admit(s)
      PROVE  Credit!Charge \/ UNCHANGED Credit!vars
  <2>1. /\ UNCHANGED presenter /\ flow'.closed = flow.closed
    BY <1>0, <1>1, AdmitCharges DEF wireVars
  <2>2. CASE flow'.sent = flow.sent
    BY <2>1, <2>2, CreditStutter
  <2>3. CASE /\ ~flow.closed
             /\ flow'.sent = Charged(flow.sent, sender[s].size)
             /\ Credit!AtMost(flow'.sent, flow.maximum)
    <3>1. sender[s].size \in Sizes /\ sender[s].size \in Nat
      BY <1>1, SizeType DEF IInv, SendsOrdered, Admit, TypeOK
    <3>2. flow'.sent \in Amounts
      BY <1>0, <2>3, <3>1, ChargedType
    <3>3. Credit!AtMost(flow'.sent, presenter.granted)
      BY <1>0, <2>3, <3>2, AtMostTrans DEF IInv, Backed
    <3>4. QED
      BY <2>1, <2>3, <3>1, <3>3 DEF Credit!Charge, Charged
  <2>4. QED
    BY <1>0, <1>1, <2>2, <2>3, AdmitCharges
<1>2. CASE ReceiveGrant
  <2>1. flow'.sent = flow.sent /\ flow'.closed = flow.closed
        /\ presenter' = presenter
    BY <1>0, <1>2 DEF ReceiveGrant, FlowState
  <2>2. QED
    BY <2>1, CreditStutter
<1>3. CASE PresenterFrees
  <2>1. /\ flow' = flow /\ presenter'.granted = presenter.granted
        /\ presenter'.freed = presenter.read
    BY <1>0, <1>3 DEF PresenterFrees, PresenterState
  <2>2. /\ Credit!AtMost(presenter.freed, presenter.read)
        /\ Credit!AtMost(presenter.read, flow.sent)
    BY <1>0, AtMostTrans DEF IInv, Delivered, Accounted
  <2>3. presenter.read \in Credit!Amounts
    BY <1>0 DEF Amounts
  <2>4. Credit!Free
    BY <2>1, <2>2, <2>3 DEF Credit!Free
  <2>5. QED
    BY <2>4 DEF Credit!Next
<1>4. CASE PresenterGrants
  <2>1. /\ flow' = flow /\ presenter'.freed = presenter.freed
        /\ presenter'.granted = Credit!Sum(Credit!Window, presenter.freed)
    BY <1>0, <1>4 DEF PresenterGrants, PresenterState
  <2>2. Credit!Grant
    BY <2>1 DEF Credit!Grant
  <2>3. QED
    BY <2>2 DEF Credit!Next
<1>5. CASE /\ ~ReceiveGrant /\ ~PresenterFrees /\ ~PresenterGrants
           /\ \A s \in Senders : ~Admit(s)
  <2>1. /\ flow'.sent = flow.sent /\ presenter'.granted = presenter.granted
        /\ presenter'.freed = presenter.freed
    BY <1>0, <1>5, CreditFrame DEF KeepsFlow
  <2>2. CASE flow'.closed = flow.closed
    BY <2>1, <2>2, CreditStutter
  <2>3. CASE CloseFlow
    <3>1. flow' = [flow EXCEPT !.closed = TRUE]
      BY <2>3 DEF CloseFlow
    <3>2. flow'.closed = TRUE
      BY <1>0, <3>1 DEF FlowState
    <3>3. Credit!Close
      BY <2>1, <3>2 DEF Credit!Close
    <3>4. QED
      BY <3>3 DEF Credit!Next
  <2>4. QED
    BY <1>0, <2>2, <2>3, ClosedFrame
<1>6. QED
  BY <1>1, <1>2, <1>3, <1>4, <1>5 DEF Credit!Next

\* Channel flow control with its threads, locks and sockets is a credit window:
\* every step of ChannelFlow is a step of CreditWindow or changes none of it.
THEOREM ImplementsCredit == Spec => CreditSpec
<1>1. Init => Credit!Init
  BY CreditInit
<1>2. IInv /\ [Next]_vars => [Credit!Next]_(Credit!vars)
  BY CreditStep
<1>3. QED
  BY <1>1, <1>2, Invariance, PTL DEF Spec, CreditSpec, Credit!Spec
================================================================================
