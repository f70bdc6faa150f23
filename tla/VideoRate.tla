----------------------------- MODULE VideoRate -----------------------------
(***************************************************************************)
(* VideoRateControl: the media worker reports what it sent and where it     *)
(* waited, the audio worker reports its backlog, and the encoder polls for  *)
(* a new target once per window.  Each method holds the mutex.  Rates are   *)
(* in units of which RATE_STEP and the minimum are multiples; a window      *)
(* keeps the rate it achieved and the percentage it spent in the transport. *)
(***************************************************************************)
EXTENDS Naturals

CONSTANTS
  Configured,   \* configured_bits_per_second
  Step,         \* RATE_STEP_BITS_PER_SECOND
  Minimum,      \* MINIMUM_TARGET_BITS_PER_SECOND
  Rates,        \* what one send adds to the achieved rate
  Waits         \* what one send adds to the transport percentage

ASSUME RateAssumption ==
  /\ Step \in Nat \ {0} /\ Minimum \in Nat \ {0} /\ Configured \in Nat
  /\ Minimum <= Configured /\ Rates \subseteq Nat /\ Waits \subseteq Nat

VARIABLES
  target,  \* target_bits_per_second
  window   \* RateWindow: achieved, transport, backlog

rateVars == <<target, window>>

Congested == 10       \* CONGESTED_TRANSPORT_PERCENT
Uncongested == 2      \* UNCONGESTED_TRANSPORT_PERCENT
DeliveredShare == 90  \* DELIVERED_TARGET_PERCENT
EmptyWindow == [achieved |-> 0, transport |-> 0, backlog |-> FALSE]

RateInit == target = Configured /\ window = EmptyWindow
-----------------------------------------------------------------------------
AtMost(n, bound) == IF n < bound THEN n ELSE bound
AtLeast(n, bound) == IF n > bound THEN n ELSE bound

\* quantize_target: whole steps below the configured rate, never under the minimum.
Quantized(candidate) ==
  LET clamped == AtMost(AtLeast(candidate, Minimum), Configured)
  IN  IF clamped >= Configured THEN Configured
      ELSE AtLeast((clamped \div Step) * Step, Minimum)

\* Mutant: the target counts as congestion even when it is delivered.
DeliveringNever(w) == FALSE

Delivering(w) == w.achieved * 100 >= target * DeliveredShare
LinkFull(w) == w.transport >= Congested /\ ~Delivering(w)

\* Mutant: growth by one step of what is in use.
GrownByShare == target + target \div 8

\* next_target, the branch of an uncongested link.
Grown == target + Configured \div 8

\* next_target: back off from what was carried, grow on an uncongested link, or stay.
Candidate(w) ==
  IF LinkFull(w) \/ w.backlog
    THEN ((IF w.achieved > 0 THEN AtMost(target, w.achieved) ELSE target) * 7) \div 8
    ELSE IF w.transport <= Uncongested THEN Grown ELSE target

\* observe_send and observe_audio_backlog; the percentage ends at 100.
ObservesSend ==
  /\ \E r \in Rates, p \in Waits :
       window' = [window EXCEPT !.achieved = AtMost(@ + r, Configured),
                                !.transport = AtMost(@ + p, 100)]
  /\ UNCHANGED target
ObservesBacklog ==
  /\ ~window.backlog /\ window' = [window EXCEPT !.backlog = TRUE]
  /\ UNCHANGED target

\* poll, when the window is due.
Polls ==
  /\ target' = Quantized(Candidate(window))
  /\ window' = EmptyWindow

RateNext == ObservesSend \/ ObservesBacklog \/ Polls
RateSpec == RateInit /\ [][RateNext]_rateVars /\ WF_rateVars(Polls)
-----------------------------------------------------------------------------
\* A rate that reaches the presenter is not lowered: only audio that backs up lowers it,
\* so the loop does not decay to the floor behind a slow encoder or presenter (the
\* comment above VideoRateControl and the one in next_target).
DeliveredKeepsTarget ==
  [][Polls /\ window.achieved * 100 >= target * DeliveredShare /\ ~window.backlog
       => target' >= target]_rateVars

\* On a link that stays uncongested the target climbs back to the configured rate.  It
\* takes a configured rate of at least eight steps: below that a step is lost to the
\* rounding of quantize_target and the target stays where it is.
IdleLinkRecovers ==
  (Configured >= 8 * Step /\ <>[](window.transport <= Uncongested /\ ~window.backlog))
    => []<>(target = Configured)
=============================================================================
