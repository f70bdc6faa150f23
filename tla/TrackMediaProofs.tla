-------------------------- MODULE TrackMediaProofs --------------------------
(***************************************************************************)
(* Theorems about TrackMedia for any number of senders, controllers and    *)
(* channels: type correctness, that a channel able to send is the active   *)
(* channel of the track's current generation, and that the session's       *)
(* revision never runs ahead of the presenter's.                           *)
(***************************************************************************)
EXTENDS TrackMedia, TLAPS

-----------------------------------------------------------------------------
(* The operators the actions share.                                        *)

LEMMA LargerTyped == ASSUME NEW a \in Nat, NEW b \in Nat
                     PROVE  Larger(a, b) \in Nat
BY DEF Larger

LEMMA IdleTyped == CallIdle \in CallState /\ SenderIdle \in SendState
BY DEF CallIdle, CallState, NoAnswer, Answer, SenderIdle, SendState

LEMMA AnswerTyped ==
  ASSUME NEW g \in Nat, NEW r \in Nat, NEW d \in BOOLEAN, NEW i \in Nat,
         NEW e \in Nat, NEW n \in Nat
  PROVE  [generation |-> g, revision |-> r, dead |-> d,
          id |-> i, epoch |-> e, record |-> n] \in Answer
BY DEF Answer

LEMMA NewMediaTyped == ASSUME NEW e \in Nat PROVE NewMedia(e) \in MediaState
BY DEF NewMedia, MediaState

\* The field types of the presenter's state and of a channel's media state.
LEMMA PresenterFields ==
  ASSUME TypeOK
  PROVE  /\ presenter.generation \in Nat /\ presenter.revision \in Nat
         /\ presenter.generation + 1 \in Nat /\ presenter.revision + 1 \in Nat
<1>1. presenter.generation \in Nat /\ presenter.revision \in Nat
  BY DEF TypeOK, PresenterState
<1>2. QED
  BY <1>1

LEMMA PresenterUpdates ==
  ASSUME NEW p \in PresenterState, NEW g \in Nat, NEW r \in Nat,
         NEW st \in {"none", "live", "lost", "destroyed"}
  PROVE  /\ [p EXCEPT !.generation = g, !.revision = r] \in PresenterState
         /\ [p EXCEPT !.state = st, !.revision = r] \in PresenterState
         /\ [p EXCEPT !.revision = r] \in PresenterState
BY DEF PresenterState

LEMMA MediaFields ==
  ASSUME TypeOK, NEW c \in Channels
  PROVE  /\ media[c] \in MediaState
         /\ media[c].last_sequence \in Nat
         /\ media[c].needs_recovery \in BOOLEAN
         /\ media[c].minimum_recovery_epoch \in Nat
         /\ media[c].recovery_revision \in Nat
         /\ media[c].recovery_revision + 1 \in Nat
<1>1. /\ media[c] \in MediaState
      /\ media[c].last_sequence \in Nat
      /\ media[c].needs_recovery \in BOOLEAN
      /\ media[c].minimum_recovery_epoch \in Nat
      /\ media[c].recovery_revision \in Nat
  BY DEF TypeOK, MediaState
<1>2. QED
  BY <1>1

LEMMA MediaUpdates ==
  ASSUME NEW m \in MediaState, NEW q \in Nat, NEW b \in BOOLEAN, NEW e \in Nat
  PROVE  /\ [m EXCEPT !.recovery_revision = q, !.needs_recovery = TRUE,
                      !.minimum_recovery_epoch = e] \in MediaState
         /\ [m EXCEPT !.recovery_revision = q, !.needs_recovery = TRUE]
              \in MediaState
         /\ [m EXCEPT !.needs_recovery = TRUE, !.minimum_recovery_epoch = e]
              \in MediaState
         /\ [m EXCEPT !.last_sequence = q, !.needs_recovery = b,
                      !.minimum_recovery_epoch = e] \in MediaState
         /\ [m EXCEPT !.eos = TRUE] \in MediaState
BY DEF MediaState

LEMMA CloseFlowTyped == ASSUME TypeOK, NEW c \in Channels \union {None}
                        PROVE  CloseFlow(c) \in [Channels -> Flow]
BY DEF TypeOK, CloseFlow, Flow

\* A sender steps to a well typed state; the rest of the state is untouched.
LEMMA SenderSteps ==
  ASSUME TypeOK, NEW s \in Senders, NEW r \in SendState,
         r.at # "idle" => r.channel \in Channels,
         sender' = [sender EXCEPT ![s] = r]
  PROVE  /\ sender' \in [Senders -> SendState]
         /\ \A t \in Senders :
              sender'[t].at # "idle" => sender'[t].channel \in Channels
BY DEF TypeOK

LEMMA SenderEnds ==
  ASSUME TypeOK, NEW s \in Senders, sender' = [sender EXCEPT ![s] = SenderIdle]
  PROVE  /\ sender' \in [Senders -> SendState]
         /\ \A t \in Senders :
              sender'[t].at # "idle" => sender'[t].channel \in Channels
BY IdleTyped, SenderSteps DEF SenderIdle

LEMMA MediaSteps ==
  ASSUME TypeOK, NEW c \in Channels, NEW m \in MediaState,
         media' = [media EXCEPT ![c] = m]
  PROVE  media' \in [Channels -> MediaState]
BY DEF TypeOK

LEMMA ReturnsTyped == ASSUME TypeOK, NEW k \in Controllers, Returns(k)
                      PROVE  call' \in [Controllers -> CallState]
BY IdleTyped DEF Returns, TypeOK

LEMMA AnswersTyped ==
  ASSUME TypeOK, NEW k \in Controllers, NEW a \in Answer, Answers(k, a)
  PROVE  call' \in [Controllers -> CallState]
<1>1. [call[k] EXCEPT !.at = "answered", !.answer = a] \in CallState
  BY DEF TypeOK, CallState
<1>2. QED
  BY <1>1 DEF Answers, TypeOK

LEMMA CallsTyped == ASSUME TypeOK, NEW k \in Controllers, NEW epoch \in Nat,
                           NEW op \in Exclusive \union {"query", "open"},
                           Calls(k, op, epoch)
                    PROVE  TypeOK'
<1>1. [CallIdle EXCEPT !.op = op, !.at = "called", !.generation = generation,
                       !.epoch = epoch, !.channel = active] \in CallState
  BY IdleTyped DEF CallState, TypeOK
<1>2. call' \in [Controllers -> CallState]
  BY <1>1 DEF Calls, TypeOK
<1>3. QED
  BY <1>2 DEF Calls, TypeOK, trackVars, historyVars

LEMMA PresenterDoesTyped ==
  ASSUME TypeOK, NEW k \in Controllers, NEW op, NEW new \in PresenterState,
         PresenterDoes(k, op, new)
  PROVE  TypeOK'
<1>1. PresenterAnswer \in Answer
  BY DEF PresenterDoes, PresenterAnswer, NoAnswer, Answer, PresenterState
<1>2. QED
  BY <1>1, AnswersTyped DEF PresenterDoes, TypeOK, trackVars, historyVars

-----------------------------------------------------------------------------
(* Type correctness: one lemma for each group of actions.                  *)

LEMMA InitTyped == Init => TypeOK
<1> SUFFICES ASSUME Init PROVE TypeOK
  OBVIOUS
<1>1. chan \in [Channels -> Flow] /\ wire \in [Channels -> Seq(Record)]
  BY DEF Init, Flow
<1>2. sequence \in Sequence /\ presenter \in PresenterState
  BY DEF Init, Sequence, PresenterState
<1>3. /\ media \in [Channels -> MediaState]
      /\ sender \in [Senders -> SendState]
      /\ \A s \in Senders : sender[s].at = "idle"
      /\ call \in [Controllers -> CallState]
  BY IdleTyped, NewMediaTyped DEF Init, SenderIdle
<1>4. QED
  BY <1>1, <1>2, <1>3 DEF Init, TypeOK, None

LEMMA TakesTyped ==
  ASSUME TypeOK, NEW k \in Controllers, TakesActive(k)
  PROVE  call' \in [Controllers -> CallState] /\ active' \in Channels \union {None}
<1>1. [call[k] EXCEPT !.at = "closing", !.channel = active] \in CallState
  BY DEF TypeOK, CallState
<1>2. QED
  BY <1>1 DEF TakesActive, TypeOK

LEMMA ClosesTyped ==
  ASSUME TypeOK, NEW k \in Controllers
  PROVE  CloseFlow(call[k].channel) \in [Channels -> Flow]
<1>1. call[k].channel \in Channels \union {None}
  BY DEF TypeOK, CallState
<1>2. QED
  BY <1>1, CloseFlowTyped

LEMMA StageTyped ==
  ASSUME TypeOK, NEW k \in Controllers, NEW st \in {"accepted", "flushing"},
         call' = [call EXCEPT ![k].at = st]
  PROVE  call' \in [Controllers -> CallState]
<1>1. [call[k] EXCEPT !.at = st] \in CallState
  BY DEF TypeOK, CallState
<1>2. QED
  BY <1>1 DEF TypeOK

LEMMA CreateTyped == ASSUME TypeOK, NEW k \in Controllers, Create(k)
                     PROVE  TypeOK'
<1>1. CASE CreateCall(k)
  BY <1>1, CallsTyped DEF CreateCall, Exclusive
<1>2. CASE CreateAnswer(k)
  BY <1>2, PresenterDoesTyped DEF CreateAnswer, PresenterState
<1>3. CASE CreateReturn(k)
  <2>1. generation' \in Nat /\ revision' \in Nat
    BY <1>3 DEF CreateReturn, TypeOK, CallState, Answer
  <2>2. QED
    BY <1>3, <2>1, ReturnsTyped DEF CreateReturn, TypeOK, historyVars
<1>4. QED
  BY <1>1, <1>2, <1>3 DEF Create

LEMMA QueryTyped == ASSUME TypeOK, NEW k \in Controllers, Query(k)
                    PROVE  TypeOK'
<1>1. CASE QueryCall(k)
  BY <1>1, CallsTyped DEF QueryCall
<1>2. CASE QueryAnswer(k)
  <2>1. ASSUME NEW c \in Channels, NEW n \in 0..Len(wire[c])
        PROVE  Status(c, n) \in Answer
    <3>1. n # 0 => wire[c][n] \in Record
      BY DEF TypeOK
    <3>2. /\ (IF n = 0 THEN 0 ELSE wire[c][n].id) \in Nat
          /\ (IF n = 0 THEN 0 ELSE wire[c][n].epoch) \in Nat
      BY <3>1 DEF Record
    <3>3. (IF chan[c].generation = presenter.generation THEN n ELSE 0) \in Nat
      BY DEF TypeOK
    <3>4. (presenter.state # "live") \in BOOLEAN
      OBVIOUS
    <3>5. QED
      BY <3>2, <3>3, <3>4, PresenterFields, AnswerTyped DEF Status
  <2>2. PICK a \in Answer : Answers(k, a)
    BY <1>2, <2>1 DEF QueryAnswer
  <2>3. QED
    BY <1>2, <2>2, AnswersTyped DEF QueryAnswer, TypeOK, trackVars, historyVars
<1>3. CASE QueryReturn(k)
  <2>1. call[k].answer \in Answer
    BY DEF TypeOK, CallState
  <2>2. sequence' \in Sequence
    BY <1>3, <2>1, LargerTyped
       DEF QueryReturn, Reconciled, TypeOK, Answer, Sequence
  <2>3. active' \in Channels \union {None} /\ chan' \in [Channels -> Flow]
    BY <1>3, CloseFlowTyped DEF QueryReturn, TypeOK
  <2>4. generation' \in Nat /\ revision' \in Nat /\ destroyed' \in BOOLEAN
    BY <1>3, <2>1 DEF QueryReturn, Answer
  <2>5. QED
    BY <1>3, <2>2, <2>3, <2>4, ReturnsTyped DEF QueryReturn, TypeOK, historyVars
<1>4. QED
  BY <1>1, <1>2, <1>3 DEF Query

LEMMA AdvanceTyped == ASSUME TypeOK, NEW k \in Controllers, Advance(k)
                      PROVE  TypeOK'
<1>1. CASE AdvanceCall(k)
  BY <1>1, CallsTyped DEF AdvanceCall, Exclusive
<1>2. CASE AdvanceAnswer(k)
  BY <1>2, PresenterDoesTyped, PresenterFields, PresenterUpdates
     DEF AdvanceAnswer, TypeOK
<1>3. CASE AdvanceReturn(k)
  <2>1. generation' \in Nat /\ revision' \in Nat
    BY <1>3 DEF AdvanceReturn, TypeOK, CallState, Answer
  <2>2. sequence' \in Sequence
    BY <1>3 DEF AdvanceReturn, TypeOK, Sequence
  <2>3. QED
    BY <1>3, <2>1, <2>2, TakesTyped DEF AdvanceReturn, TypeOK, historyVars
<1>4. CASE AdvanceCloses(k)
  BY <1>4, ClosesTyped, ReturnsTyped
     DEF AdvanceCloses, TypeOK, trackVars, historyVars
<1>5. QED
  BY <1>1, <1>2, <1>3, <1>4 DEF Advance

LEMMA FlushTyped == ASSUME TypeOK, NEW k \in Controllers, Flush(k)
                    PROVE  TypeOK'
<1>1. ASSUME NEW e \in Epochs, FlushCall(k, e) PROVE TypeOK'
  BY <1>1, CallsTyped, BoundsAssumption DEF FlushCall, Exclusive, Epochs
<1>2. CASE FlushAnswer(k)
  BY <1>2, PresenterDoesTyped DEF FlushAnswer, TypeOK
<1>3. CASE FlushReturn(k)
  <2>1. call[k].epoch \in Nat
    BY DEF TypeOK, CallState
  <2>2. sequence' \in Sequence
    BY <1>3, <2>1 DEF FlushReturn, TypeOK, Sequence
  <2>3. QED
    BY <1>3, <2>2, StageTyped DEF FlushReturn, TypeOK, trackVars, historyVars
<1>4. CASE FlushResets(k)
  <2>1. call[k].epoch \in Nat
    BY DEF TypeOK, CallState
  <2>2. ASSUME NEW c \in Channels, NEW e \in Nat
        PROVE  [media[c] EXCEPT !.needs_recovery = TRUE,
                                !.minimum_recovery_epoch = e] \in MediaState
    BY MediaFields, MediaUpdates
  <2>3. CASE call[k].channel = None
    BY <1>4, <2>3, ReturnsTyped DEF FlushResets, TypeOK, trackVars, historyVars
  <2>4. CASE call[k].channel # None
    <3>1. call[k].channel \in Channels
      BY <2>4 DEF TypeOK, CallState
    <3>2. PICK m \in MediaState : media' = [media EXCEPT ![call[k].channel] = m]
      BY <1>4, <2>1, <2>2, <2>4, <3>1, Zenon DEF FlushResets
    <3>3. media' \in [Channels -> MediaState]
      BY <3>1, <3>2, MediaSteps
    <3>4. flushed' \in [Channels -> Nat] /\ asked' \in [Channels -> Nat]
      <4>1. /\ flushed' = [flushed EXCEPT ![call[k].channel] = call[k].epoch]
            /\ asked' = [asked EXCEPT ![call[k].channel] = 0]
        BY <1>4, <2>4 DEF FlushResets
      <4>2. QED
        BY <2>1, <3>1, <4>1 DEF TypeOK
    <3>5. QED
      BY <1>4, <3>3, <3>4, ReturnsTyped DEF FlushResets, TypeOK, trackVars
  <2>5. QED
    BY <2>3, <2>4
<1>5. QED
  BY <1>1, <1>2, <1>3, <1>4 DEF Flush

LEMMA DestroyTyped == ASSUME TypeOK, NEW k \in Controllers, Destroy(k)
                      PROVE  TypeOK'
<1>1. CASE DestroyCall(k)
  BY <1>1, CallsTyped DEF DestroyCall, Exclusive
<1>2. CASE DestroyAnswer(k)
  BY <1>2, PresenterDoesTyped, PresenterFields, PresenterUpdates
     DEF DestroyAnswer, TypeOK
<1>3. CASE DestroyReturn(k)
  BY <1>3, TakesTyped DEF DestroyReturn, TypeOK, historyVars
<1>4. CASE DestroyCloses(k)
  BY <1>4, ClosesTyped, ReturnsTyped DEF DestroyCloses, TypeOK, historyVars
<1>5. QED
  BY <1>1, <1>2, <1>3, <1>4 DEF Destroy

LEMMA OpenTyped == ASSUME TypeOK, NEW k \in Controllers, Open(k)
                   PROVE  TypeOK'
<1>1. CASE OpenCall(k)
  BY <1>1, CallsTyped DEF OpenCall
<1>2. CASE OpenAnswer(k)
  BY <1>2, PresenterDoesTyped, PresenterFields, PresenterUpdates
     DEF OpenAnswer, TypeOK
<1>3. CASE OpenAccepted(k)
  <2>1. revision' \in Nat
    BY <1>3 DEF OpenAccepted, AcceptedRevision, TypeOK, CallState, Answer
  <2>2. QED
    BY <1>3, <2>1, StageTyped DEF OpenAccepted, TypeOK, historyVars
<1>6. CASE OpenCreates(k)
  <2>1. PICK c \in Channels :
          /\ chan' = [chan EXCEPT ![c] = [@ EXCEPT !.state = "opening",
                                     !.generation = call[k].generation]]
          /\ media' = [media EXCEPT ![c] = NewMedia(sequence.last_epoch)]
          /\ call' = [call EXCEPT ![k] = [@ EXCEPT !.at = "created",
                                                   !.channel = c]]
    BY <1>6 DEF OpenCreates
  <2>2. [chan[c] EXCEPT !.state = "opening", !.generation = call[k].generation]
          \in Flow
    <3>1. call[k].generation \in Nat /\ chan[c] \in Flow
      BY DEF TypeOK, CallState
    <3>2. QED
      BY <3>1 DEF Flow
  <2>3. [call[k] EXCEPT !.at = "created", !.channel = c] \in CallState
    BY DEF TypeOK, CallState
  <2>4. NewMedia(sequence.last_epoch) \in MediaState
    BY NewMediaTyped DEF TypeOK, Sequence
  <2>5. QED
    BY <1>6, <2>1, <2>2, <2>3, <2>4
       DEF OpenCreates, TypeOK, trackVars, historyVars
<1>4. CASE OpenInstalls(k)
  <2>1. active' \in Channels \union {None}
    BY <1>4 DEF OpenInstalls, TypeOK, CallState
  <2>2. ASSUME NEW c \in Channels
        PROVE  [chan EXCEPT ![c].state = "open"] \in [Channels -> Flow]
    BY DEF TypeOK, Flow
  <2>3. chan' \in [Channels -> Flow]
    <3>1. CASE call[k].channel \in Channels
      BY <1>4, <2>2, <3>1 DEF OpenInstalls
    <3>2. CASE call[k].channel \notin Channels
      BY <1>4, <3>2 DEF OpenInstalls, TypeOK
    <3>3. QED
      BY <3>1, <3>2
  <2>4. QED
    BY <1>4, <2>1, <2>3, ReturnsTyped DEF OpenInstalls, TypeOK, historyVars
<1>5. CASE OpenRefused(k)
  <2>1. ASSUME NEW c \in Channels
        PROVE  [chan[c] EXCEPT !.state = "discarded", !.closed = TRUE] \in Flow
    BY DEF TypeOK, Flow
  <2>2. chan' \in [Channels -> Flow]
    BY <1>5, <2>1 DEF OpenRefused, TypeOK
  <2>3. QED
    BY <1>5, <2>2, ReturnsTyped DEF OpenRefused, TypeOK, trackVars, historyVars
<1>7. QED
  BY <1>1, <1>2, <1>3, <1>4, <1>5, <1>6 DEF Open

LEMMA ControlTyped == ASSUME TypeOK, NEW k \in Controllers, Control(k)
                      PROVE  TypeOK'
<1>1. CASE RequestFails(k)
  BY <1>1, ReturnsTyped DEF RequestFails, TypeOK, trackVars, historyVars
<1>2. QED
  BY <1>1, CreateTyped, QueryTyped, AdvanceTyped, FlushTyped, DestroyTyped,
     OpenTyped DEF Control

LEMMA SendTyped == ASSUME TypeOK, NEW s \in Senders, Send(s)
                   PROVE  TypeOK'
<1>1. ASSUME NEW c \in Channels, NEW id \in Nat, NEW e \in Nat,
             NEW recovery \in BOOLEAN, NEW base \in Nat,
             Validates(s, c, id, e, recovery, base)
      PROVE  TypeOK'
  <2>1. media[c].recovery_revision \in Nat
    BY MediaFields
  <2> DEFINE r == [at |-> "checked", channel |-> c, id |-> id, epoch |-> e,
                   recovery |-> recovery, base |-> base,
                   revision |-> media[c].recovery_revision, record |-> 0]
  <2>2. r \in SendState /\ r.channel \in Channels
    BY <2>1 DEF SendState
  <2>3. sender' = [sender EXCEPT ![s] = r]
    BY <1>1 DEF Validates
  <2> HIDE DEF r
  <2>4. QED
    BY <1>1, <2>2, <2>3, SenderSteps DEF Validates, TypeOK, trackVars, historyVars
<1>2. ASSUME NEW c \in Channels, NEW id \in Ids, NEW e \in Epochs,
             NEW recovery \in BOOLEAN, BeginSend(s, c, id, e, recovery)
      PROVE  TypeOK'
  BY <1>1, <1>2, BoundsAssumption DEF BeginSend, Ids, Epochs
<1>3. ASSUME NEW c \in Channels, PlanDelta(s, c) PROVE TypeOK'
  <2> DEFINE r == [SenderIdle EXCEPT !.at = "planned", !.channel = c,
                                     !.base = sequence.last_id]
  <2>1. r \in SendState /\ r.channel \in Channels
    BY IdleTyped DEF TypeOK, Sequence, SendState
  <2>2. sender' = [sender EXCEPT ![s] = r]
    BY <1>3 DEF PlanDelta
  <2> HIDE DEF r
  <2>3. QED
    BY <1>3, <2>1, <2>2, SenderSteps DEF PlanDelta, TypeOK, trackVars, historyVars
<1>4. ASSUME NEW c \in Channels, BeginEos(s, c) PROVE TypeOK'
  <2> DEFINE r == [SenderIdle EXCEPT !.at = "eos", !.channel = c,
                                     !.epoch = sequence.last_epoch,
                                     !.record = media[c].last_sequence]
  <2>1. r \in SendState /\ r.channel \in Channels
    BY IdleTyped DEF TypeOK, Sequence, MediaState, SendState
  <2>2. sender' = [sender EXCEPT ![s] = r]
    BY <1>4 DEF BeginEos
  <2> HIDE DEF r
  <2>3. QED
    BY <1>4, <2>1, <2>2, SenderSteps DEF BeginEos, TypeOK, trackVars, historyVars
<1>5. ASSUME NEW id \in Ids, NEW e \in Epochs, SendDelta(s, id, e)
      PROVE  TypeOK'
  <2>1. sender[s].channel \in Channels /\ sender[s].base \in Nat
    BY <1>5 DEF SendDelta, TypeOK, SendState
  <2>2. id \in Nat /\ e \in Nat
    BY BoundsAssumption DEF Ids, Epochs
  <2>3. Validates(s, sender[s].channel, id, e, FALSE, sender[s].base)
    BY <1>5 DEF SendDelta
  <2>4. QED
    BY <1>1, <2>1, <2>2, <2>3
<1>6. CASE EndsSend(s) /\ UNCHANGED media
  BY <1>6, SenderEnds DEF EndsSend, TypeOK, trackVars, historyVars
<1>7. CASE WriteRecord(s)
  <2>1. sender[s] \in SendState /\ sender[s].channel \in Channels
    BY <1>7 DEF WriteRecord, TypeOK
  <2> DEFINE c == sender[s].channel
             r == [sender[s] EXCEPT !.at = "written", !.record = Len(wire[c]) + 1]
             w == [kind |-> "media", id |-> sender[s].id,
                   epoch |-> sender[s].epoch, recovery |-> sender[s].recovery,
                   base |-> sender[s].base, revision |-> sender[s].revision,
                   last |-> 0]
  <2>2. wire[c] \in Seq(Record) /\ Len(wire[c]) + 1 \in Nat
    BY <2>1 DEF TypeOK
  <2>3. r \in SendState /\ r.channel \in Channels
    BY <2>1, <2>2 DEF SendState
  <2>4. w \in Record
    BY <2>1 DEF SendState, Record
  <2>5. sender' = [sender EXCEPT ![s] = r] /\ wire' = [wire EXCEPT ![c] = Append(@, w)]
    BY <1>7, Zenon DEF WriteRecord
  <2> HIDE DEF r, w
  <2>6. wire' \in [Channels -> Seq(Record)]
    BY <2>1, <2>2, <2>4, <2>5 DEF TypeOK
  <2>7. QED
    BY <1>7, <2>3, <2>5, <2>6, SenderSteps
       DEF WriteRecord, TypeOK, trackVars, historyVars
<1>8. CASE MergeSequence(s)
  <2>1. sequence' \in Sequence
    BY <1>8, LargerTyped DEF MergeSequence, TypeOK, Sequence, SendState
  <2>2. [sender[s] EXCEPT !.at = "merged"] \in SendState
        /\ [sender[s] EXCEPT !.at = "merged"].channel \in Channels
    BY <1>8 DEF MergeSequence, TypeOK, SendState
  <2>3. sender' = [sender EXCEPT ![s] = [sender[s] EXCEPT !.at = "merged"]]
    BY <1>8 DEF MergeSequence
  <2>4. QED
    BY <1>8, <2>1, <2>2, <2>3, SenderSteps
       DEF MergeSequence, TypeOK, trackVars, historyVars
<1>9. CASE FinishSend(s)
  <2> DEFINE c == sender[s].channel
  <2>1. c \in Channels /\ sender[s].record \in Nat /\ sender[s].epoch \in Nat
    BY <1>9 DEF FinishSend, TypeOK, SendState
  <2>2. /\ (media[c].needs_recovery /\ ~Recovered(s)) \in BOOLEAN
        /\ (IF Recovered(s) THEN sender[s].epoch
                            ELSE media[c].minimum_recovery_epoch) \in Nat
    BY <2>1, MediaFields
  <2> DEFINE m == [media[c] EXCEPT !.last_sequence = sender[s].record,
                     !.needs_recovery = @ /\ ~Recovered(s),
                     !.minimum_recovery_epoch =
                       IF Recovered(s) THEN sender[s].epoch ELSE @]
  <2>3. m \in MediaState
    BY <2>1, <2>2, MediaFields, MediaUpdates
  <2>4. media' = [media EXCEPT ![c] = m]
    BY <1>9 DEF FinishSend
  <2> HIDE DEF m
  <2>5. QED
    BY <1>9, <2>1, <2>3, <2>4, MediaSteps, SenderEnds
       DEF FinishSend, EndsSend, TypeOK, trackVars, historyVars
<1>10. CASE WriteEos(s)
  <2> DEFINE c == sender[s].channel
             w == [kind |-> "eos", id |-> 0, epoch |-> sender[s].epoch,
                   recovery |-> FALSE, base |-> 0, revision |-> 0,
                   last |-> sender[s].record]
  <2>1. sender[s] \in SendState /\ c \in Channels
    BY <1>10 DEF WriteEos, TypeOK
  <2>2. w \in Record
    BY <2>1 DEF SendState, Record
  <2>3. wire' = [wire EXCEPT ![c] = Append(@, w)]
    BY <1>10, Zenon DEF WriteEos
  <2> HIDE DEF w
  <2>4. wire' \in [Channels -> Seq(Record)]
    BY <2>1, <2>2, <2>3 DEF TypeOK
  <2>5. media' \in [Channels -> MediaState]
    BY <1>10, <2>1 DEF WriteEos, TypeOK, MediaState
  <2>6. QED
    BY <1>10, <2>4, <2>5, SenderEnds DEF WriteEos, TypeOK, trackVars, historyVars
<1>11. CASE AdmitRecord(s)
  <2>1. [sender[s] EXCEPT !.at = "admitted"] \in SendState
        /\ [sender[s] EXCEPT !.at = "admitted"].channel \in Channels
    BY <1>11 DEF AdmitRecord, TypeOK, SendState
  <2>2. sender' = [sender EXCEPT ![s] = [sender[s] EXCEPT !.at = "admitted"]]
    BY <1>11 DEF AdmitRecord
  <2>3. QED
    BY <1>11, <2>1, <2>2, SenderSteps
       DEF AdmitRecord, TypeOK, trackVars, historyVars
<1>12. CASE AcceptId(s)
  <2>1. [sender[s] EXCEPT !.at = "accepted"] \in SendState
        /\ [sender[s] EXCEPT !.at = "accepted"].channel \in Channels
    BY <1>12 DEF AcceptId, TypeOK, SendState
  <2>2. sender' = [sender EXCEPT ![s] = [sender[s] EXCEPT !.at = "accepted"]]
    BY <1>12 DEF AcceptId
  <2>3. QED
    BY <1>12, <2>1, <2>2, SenderSteps
       DEF AcceptId, TypeOK, trackVars, historyVars
<1>13. QED
  BY <1>2, <1>3, <1>4, <1>5, <1>6, <1>7, <1>8, <1>9, <1>10, <1>11, <1>12
     DEF Send, DeltaRefused, SendFails

LEMMA TrackLostTyped == ASSUME TypeOK, TrackLost PROVE TypeOK'
<1>1. presenter' \in PresenterState
  BY PresenterFields, PresenterUpdates DEF TrackLost, TypeOK
<1>2. presenter'.revision \in Nat
  BY <1>1 DEF PresenterState
<1>3. chan' \in [Channels -> Flow] /\ active' \in Channels \union {None}
  BY CloseFlowTyped DEF TrackLost, TypeOK
<1>4. QED
  BY <1>1, <1>2, <1>3 DEF TrackLost, TypeOK, historyVars

LEMMA ReverseTyped == ASSUME TypeOK, NEW c \in Channels, Reverse(c)
                      PROVE  TypeOK'
<1>1. ASSUME NEW e \in Epochs, NeedKeyframe(c, e) PROVE TypeOK'
  <2>1. e \in Nat
    BY BoundsAssumption DEF Epochs
  <2> DEFINE m == [media[c] EXCEPT !.recovery_revision = @ + 1,
                     !.needs_recovery = TRUE,
                     !.minimum_recovery_epoch = Larger(@, e)]
  <2>2. m \in MediaState
    BY <2>1, MediaFields, MediaUpdates, LargerTyped
  <2>3. media' = [media EXCEPT ![c] = m]
    BY <1>1 DEF NeedKeyframe
  <2> HIDE DEF m
  <2>4. media' \in [Channels -> MediaState] /\ asked' \in [Channels -> Nat]
    BY <1>1, <2>1, <2>2, <2>3, MediaSteps, LargerTyped DEF NeedKeyframe, TypeOK
  <2>5. QED
    BY <1>1, <2>4 DEF NeedKeyframe, TypeOK, trackVars
<1>2. CASE NeedFullFrame(c)
  <2> DEFINE m == [media[c] EXCEPT !.recovery_revision = @ + 1,
                                  !.needs_recovery = TRUE]
  <2>1. m \in MediaState
    BY MediaFields, MediaUpdates
  <2>2. media' = [media EXCEPT ![c] = m]
    BY <1>2 DEF NeedFullFrame
  <2> HIDE DEF m
  <2>3. QED
    BY <1>2, <2>1, <2>2, MediaSteps
       DEF NeedFullFrame, TypeOK, trackVars, historyVars
<1>3. CASE Close(c)
  BY <1>3, CloseFlowTyped DEF Close, TypeOK, trackVars, historyVars
<1>4. QED
  BY <1>1, <1>2, <1>3 DEF Reverse

\* Every step keeps the variables well typed.
LEMMA StepTyped == TypeOK /\ [Next]_vars => TypeOK'
<1> SUFFICES ASSUME TypeOK, [Next]_vars PROVE TypeOK'
  OBVIOUS
<1>1. CASE UNCHANGED vars
  BY <1>1 DEF vars, trackVars, historyVars, TypeOK
<1>2. CASE Next
  BY <1>2, ControlTyped, SendTyped, TrackLostTyped, ReverseTyped DEF Next
<1>3. QED
  BY <1>1, <1>2

\* TypeOK holds in every reachable state, however many threads call into the
\* track and however many channels they open.
THEOREM TypeCorrect == Spec => []TypeOK
BY InitTyped, StepTyped, PTL DEF Spec

-----------------------------------------------------------------------------
(* A channel able to send is the active one of the current generation.     *)

\* How a step of a controller changes the calls in progress.
LEMMA CallSteps ==
  ASSUME TypeOK, NEW k \in Controllers, Control(k)
  PROVE  \/ \E op \in Exclusive \union {"query", "open"} :
              MayCall(k, op) /\ call'[k].op = op /\ call'[k].at = "called"
         \/ call'[k].op = "none" /\ call'[k].at = "idle"
         \/ /\ call'[k].op = call[k].op
            /\ \/ call'[k].at = "answered"
               \/ call'[k].at = "accepted" /\ call[k].op = "open"
               \/ call'[k].at = "created" /\ call[k].at = "accepted"
               \/ call'[k].at = "flushing" /\ call[k].op = "flush"
               \/ call'[k].at = "closing" /\ call[k].op \in {"advance", "destroy"}
<1>1. ASSUME NEW op, NEW e, Calls(k, op, e)
      PROVE  MayCall(k, op) /\ call'[k].op = op /\ call'[k].at = "called"
  BY <1>1 DEF Calls, CallIdle, TypeOK
<1>2. ASSUME NEW a, Answers(k, a)
      PROVE  call'[k].op = call[k].op /\ call'[k].at = "answered"
  BY <1>2 DEF Answers, TypeOK, CallState
<1>3. ASSUME Returns(k)
      PROVE  call'[k].op = "none" /\ call'[k].at = "idle"
  BY <1>3 DEF Returns, CallIdle, TypeOK
<1>4. CASE AdvanceReturn(k) \/ DestroyReturn(k)
  BY <1>4
     DEF AdvanceReturn, DestroyReturn, TakesActive, Answered, TypeOK, CallState
<1>5. CASE FlushReturn(k)
  BY <1>5 DEF FlushReturn, Answered, TypeOK, CallState
<1>6. CASE OpenAccepted(k)
  BY <1>6 DEF OpenAccepted, Answered, TypeOK, CallState
<1>7. CASE OpenCreates(k)
  BY <1>7 DEF OpenCreates, TypeOK, CallState
<1>8. CASE CreateCall(k) \/ QueryCall(k) \/ AdvanceCall(k) \/ DestroyCall(k)
           \/ OpenCall(k) \/ (\E e \in Epochs : FlushCall(k, e))
  BY <1>1, <1>8
     DEF CreateCall, QueryCall, AdvanceCall, DestroyCall, OpenCall, FlushCall,
         Exclusive
<1>9. CASE CreateAnswer(k) \/ AdvanceAnswer(k) \/ FlushAnswer(k)
           \/ DestroyAnswer(k) \/ OpenAnswer(k) \/ QueryAnswer(k)
  BY <1>2, <1>9
     DEF CreateAnswer, AdvanceAnswer, FlushAnswer, DestroyAnswer, OpenAnswer,
         QueryAnswer, PresenterDoes
<1>10. CASE CreateReturn(k) \/ QueryReturn(k) \/ AdvanceCloses(k)
            \/ FlushResets(k) \/ DestroyCloses(k) \/ OpenInstalls(k)
            \/ OpenRefused(k) \/ RequestFails(k)
  BY <1>3, <1>10
     DEF CreateReturn, QueryReturn, AdvanceCloses, FlushResets, DestroyCloses,
         OpenInstalls, OpenRefused, RequestFails
<1>11. QED
  BY <1>4, <1>5, <1>6, <1>7, <1>8, <1>9, <1>10
     DEF Control, Create, Query, Advance, Flush, Destroy, Open

LEMMA OtherCallsKept ==
  ASSUME TypeOK, NEW k \in Controllers, Control(k),
         NEW j \in Controllers, j # k
  PROVE  call'[j] = call[j]
<1>1. \/ \E op, e : Calls(k, op, e)
      \/ \E a : Answers(k, a)
      \/ Returns(k)
      \/ TakesActive(k)
      \/ FlushReturn(k) \/ OpenAccepted(k) \/ OpenCreates(k)
  BY DEF Control, Create, Query, Advance, Flush, Destroy, Open, CreateCall,
         QueryCall, AdvanceCall, DestroyCall, OpenCall, FlushCall, CreateAnswer,
         AdvanceAnswer, FlushAnswer, DestroyAnswer, OpenAnswer, QueryAnswer,
         PresenterDoes, CreateReturn, QueryReturn, AdvanceReturn, AdvanceCloses,
         FlushResets, DestroyReturn, DestroyCloses, OpenInstalls, OpenRefused,
         RequestFails
<1>2. QED
  BY <1>1 DEF Calls, Answers, Returns, TakesActive, FlushReturn, OpenAccepted,
              OpenCreates, TypeOK

\* Senders and the readers leave the calls alone.
LEMMA OthersKeepCalls ==
  ASSUME \/ \E s \in Senders : Send(s)
         \/ \E c \in Channels : Reverse(c)
         \/ UNCHANGED vars
  PROVE  /\ UNCHANGED <<call, presenter, generation, active>>
         /\ chan' = chan \/ \E c \in Channels : chan' = CloseFlow(c)
<1>1. ASSUME NEW s \in Senders, Send(s)
      PROVE  UNCHANGED <<call, presenter, generation, active>>
             /\ UNCHANGED chan
  BY <1>1 DEF Send, BeginSend, PlanDelta, BeginEos, SendDelta, DeltaRefused,
       AcceptId, AdmitRecord, WriteRecord, SendFails, MergeSequence, FinishSend, WriteEos,
       EndsSend, Validates, trackVars
<1>2. ASSUME NEW c \in Channels, Reverse(c)
      PROVE  /\ UNCHANGED <<call, presenter, generation, active>>
             /\ chan' = chan \/ chan' = CloseFlow(c)
  BY <1>2 DEF Reverse, NeedKeyframe, NeedFullFrame, Close, trackVars
<1>3. QED
  BY <1>1, <1>2 DEF vars, trackVars

LEMMA ExclusiveStep ==
  TypeOK /\ CallsExclusive /\ [Next]_vars => CallsExclusive'
<1> SUFFICES ASSUME TypeOK, CallsExclusive, [Next]_vars PROVE CallsExclusive'
  OBVIOUS
<1>1. ASSUME NEW k \in Controllers, Control(k) PROVE CallsExclusive'
  <2>1. CASE call'[k].op \in {"none", call[k].op}
    BY <1>1, <2>1, OtherCallsKept DEF CallsExclusive, Exclusive
  <2>2. CASE MayCall(k, call'[k].op)
    BY <1>1, <2>2, OtherCallsKept DEF CallsExclusive, MayCall
  <2>3. QED
    BY <1>1, <2>1, <2>2, CallSteps
<1>2. QED
  BY <1>1, OthersKeepCalls DEF Next, CallsExclusive, TrackLost

\* A channel that is open and whose flow is not closed.
Sends(c) == chan[c].state = "open" /\ ~chan[c].closed

LEMMA CloseFlowKeeps ==
  ASSUME TypeOK, NEW d \in Channels \union {None}, NEW c \in Channels,
         chan' = CloseFlow(d)
  PROVE  /\ chan'[c].state = chan[c].state
         /\ chan'[c].generation = chan[c].generation
         /\ Sends(c)' => Sends(c) /\ c # d
<1>1. CASE d = None
  BY <1>1 DEF CloseFlow, Sends, Channels, None
<1>2. CASE d # None /\ c # d
  BY <1>2 DEF CloseFlow, TypeOK, Sends
<1>3. CASE d # None /\ c = d
  <2>1. chan[c] \in Flow /\ chan' = [chan EXCEPT ![c].closed = TRUE]
    BY <1>3 DEF CloseFlow, TypeOK
  <2>2. chan'[c] = [chan[c] EXCEPT !.closed = TRUE]
    BY <2>1 DEF TypeOK
  <2>3. QED
    BY <2>1, <2>2 DEF Sends, Flow
<1>4. QED
  BY <1>1, <1>2, <1>3

\* Only OpenInstalls makes a channel open.
LEMMA OnlyInstallsOpen ==
  ASSUME TypeOK, NEW c \in Channels, Next, chan[c].state # "open",
         chan'[c].state = "open"
  PROVE  \E k \in Controllers : OpenInstalls(k)
<1>1. ASSUME NEW k \in Controllers, Control(k) PROVE OpenInstalls(k)
  <2>1. ASSUME chan' = chan PROVE FALSE
    BY <2>1
  <2>2. ASSUME chan' = CloseFlow(active) \/ chan' = CloseFlow(call[k].channel)
        PROVE  FALSE
    BY <2>2, CloseFlowKeeps DEF TypeOK, CallState
  <2>3. ~OpenCreates(k)
    <3>1. ASSUME NEW d \in Channels,
                 chan' = [chan EXCEPT ![d] = [@ EXCEPT !.state = "opening",
                                        !.generation = call[k].generation]]
          PROVE  FALSE
      <4>1. CASE c = d
        <5>1. chan'[c] = [chan[c] EXCEPT !.state = "opening",
                                         !.generation = call[k].generation]
          BY <3>1, <4>1 DEF TypeOK
        <5>2. chan'[c].state = "opening"
          BY <5>1 DEF TypeOK, Flow
        <5>3. QED
          BY <5>2
      <4>2. CASE c # d
        BY <3>1, <4>2 DEF TypeOK
      <4>3. QED
        BY <4>1, <4>2
    <3>2. QED
      BY <3>1 DEF OpenCreates
  <2>4. ~OpenRefused(k)
    <3>1. SUFFICES ASSUME OpenRefused(k) PROVE FALSE
      OBVIOUS
    <3>2. CASE c = call[k].channel
      <4>1. chan'[c] = [chan[c] EXCEPT !.state = "discarded", !.closed = TRUE]
        BY <3>1, <3>2 DEF OpenRefused, TypeOK
      <4>2. QED
        BY <4>1 DEF TypeOK, Flow
    <3>3. CASE c # call[k].channel
      BY <3>1, <3>3 DEF OpenRefused, TypeOK
    <3>4. QED
      BY <3>2, <3>3
  <2>5. QED
    BY <1>1, <2>1, <2>2, <2>3, <2>4
       DEF Control, Create, Query, Advance, Flush, Destroy, Open, CreateCall,
           QueryCall, AdvanceCall, DestroyCall, OpenCall, FlushCall, Calls,
           CreateAnswer, AdvanceAnswer, FlushAnswer, DestroyAnswer, OpenAnswer,
           QueryAnswer, PresenterDoes, CreateReturn, QueryReturn,
           AdvanceReturn, AdvanceCloses, FlushReturn, FlushResets,
           DestroyReturn, DestroyCloses, OpenAccepted, RequestFails, trackVars
<1>2. ASSUME TrackLost PROVE FALSE
  BY <1>2, CloseFlowKeeps DEF TrackLost, TypeOK
<1>3. ASSUME \/ \E s \in Senders : Send(s)
             \/ \E d \in Channels : Reverse(d)
      PROVE  FALSE
  BY <1>3, OthersKeepCalls, CloseFlowKeeps
<1>4. QED
  BY <1>1, <1>2, <1>3 DEF Next

\* While the presenter knows no track, only create_track is under way.
LEMMA BeforeCreate ==
  ASSUME TypeOK, OpenedAfterCreate, NEW k \in Controllers, Control(k),
         presenter.state = "none"
  PROVE  CreateCall(k) \/ CreateAnswer(k) \/ RequestFails(k)
BY DEF OpenedAfterCreate, Control, Create, Query, Advance, Flush, Destroy, Open,
       CreateReturn, QueryCall, QueryAnswer, QueryReturn, AdvanceCall,
       AdvanceAnswer, AdvanceReturn, AdvanceCloses, FlushCall, FlushAnswer,
       FlushReturn, FlushResets, DestroyCall, DestroyAnswer, DestroyReturn,
       DestroyCloses, OpenCall, OpenAnswer, OpenAccepted, OpenCreates,
       OpenInstalls, OpenRefused, TrackExists, Answered, Waiting, Closing,
       PresenterDoes

\* The presenter never forgets the track, and create_track is called before
\* the presenter knows it.
LEMMA CreateOnce ==
  ASSUME TypeOK, NEW k \in Controllers, Control(k)
  PROVE  /\ presenter'.state = "none" => presenter.state = "none"
         /\ call'[k].op = "create" =>
              call[k].op = "create" \/ presenter.state = "none"
<1>1. presenter'.state = "none" => presenter.state = "none"
  BY DEF Control, Create, Query, Advance, Flush, Destroy, Open, CreateCall,
         QueryCall, AdvanceCall, DestroyCall, OpenCall, FlushCall, Calls,
         CreateAnswer, AdvanceAnswer, FlushAnswer, DestroyAnswer, OpenAnswer,
         QueryAnswer, PresenterDoes, CreateReturn, QueryReturn, AdvanceReturn,
         AdvanceCloses, FlushReturn, FlushResets, DestroyReturn, DestroyCloses,
         OpenAccepted, OpenCreates, OpenInstalls, OpenRefused, RequestFails,
         TypeOK, PresenterState
<1>2. ASSUME NEW op, NEW e, Calls(k, op, e) PROVE call'[k].op = op
  BY <1>2 DEF Calls, CallIdle, TypeOK
<1>3. CASE QueryCall(k) \/ AdvanceCall(k) \/ DestroyCall(k) \/ OpenCall(k)
           \/ (\E e \in Epochs : FlushCall(k, e))
  BY <1>1, <1>2, <1>3
     DEF QueryCall, AdvanceCall, DestroyCall, OpenCall, FlushCall
<1>4. CASE CreateCall(k)
  BY <1>1, <1>4 DEF CreateCall
<1>5. CASE call'[k].op \in {"none", call[k].op}
  BY <1>1, <1>5
<1>6. CASE MayCall(k, call'[k].op) /\ ~CreateCall(k)
           /\ ~(QueryCall(k) \/ AdvanceCall(k) \/ DestroyCall(k) \/ OpenCall(k)
                \/ (\E e \in Epochs : FlushCall(k, e)))
  <2>1. call[k].op = "none"
    BY <1>6 DEF MayCall
  <2>2. call'[k].op = "none"
    <3>1. ~(CreateAnswer(k) \/ AdvanceAnswer(k) \/ FlushAnswer(k)
            \/ DestroyAnswer(k) \/ OpenAnswer(k) \/ QueryAnswer(k))
      BY <2>1 DEF CreateAnswer, AdvanceAnswer, FlushAnswer, DestroyAnswer,
         OpenAnswer, QueryAnswer, PresenterDoes, Waiting
    <3>2. ~(AdvanceReturn(k) \/ DestroyReturn(k) \/ FlushReturn(k)
            \/ OpenAccepted(k))
      BY <2>1 DEF AdvanceReturn, DestroyReturn, FlushReturn, OpenAccepted,
         Answered
    <3>3. CASE OpenCreates(k)
      <4>1. PICK c \in Channels :
              call' = [call EXCEPT ![k] = [@ EXCEPT !.at = "created",
                                                    !.channel = c]]
        BY <3>3 DEF OpenCreates
      <4>2. call'[k] = [call[k] EXCEPT !.at = "created", !.channel = c]
            /\ call[k] \in CallState
        BY <4>1 DEF TypeOK
      <4>3. QED
        BY <2>1, <4>2 DEF CallState
    <3>4. CASE Returns(k)
      BY <3>4 DEF Returns, CallIdle, TypeOK
    <3>5. QED
      BY <1>6, <3>1, <3>2, <3>3, <3>4
         DEF Control, Create, Query, Advance, Flush, Destroy, Open,
             CreateReturn, QueryReturn, AdvanceCloses, FlushResets,
             DestroyCloses, OpenInstalls, OpenRefused, RequestFails
  <2>3. QED
    BY <1>1, <2>2
<1>7. QED
  BY <1>3, <1>4, <1>5, <1>6, CallSteps

LEMMA OpenedAfterCreateStep ==
  TypeOK /\ CallsExclusive /\ OpenedAfterCreate /\ [Next]_vars
    => OpenedAfterCreate'
<1> SUFFICES ASSUME TypeOK, CallsExclusive, OpenedAfterCreate, [Next]_vars
             PROVE  OpenedAfterCreate'
  OBVIOUS
<1>1. ASSUME NEW k \in Controllers, Control(k) PROVE OpenedAfterCreate'
  <2>1. ASSUME presenter'.state = "none"
        PROVE  /\ generation' = 0
               /\ \A j \in Controllers : /\ call'[j].op \in {"none", "create"}
                                         /\ call'[j].at # "answered"
    <3>1. presenter.state = "none"
      BY <1>1, <2>1, CreateOnce
    <3>2. CASE CreateCall(k)
      BY <3>1, <3>2
         DEF CreateCall, Calls, CallIdle, OpenedAfterCreate, TypeOK, trackVars
    <3>3. CASE RequestFails(k)
      BY <3>1, <3>3
         DEF RequestFails, Returns, CallIdle, OpenedAfterCreate, TypeOK, trackVars
    <3>4. ~CreateAnswer(k)
      BY <2>1 DEF CreateAnswer, PresenterDoes
    <3>5. QED
      BY <1>1, <3>1, <3>2, <3>3, <3>4, BeforeCreate
  <2>2. ASSUME \/ presenter'.state = "none"
               \/ \E j \in Controllers : call'[j].op = "create",
               NEW c \in Channels
        PROVE  chan'[c].state # "open"
    <3>1. presenter.state = "none" \/ \E j \in Controllers : call[j].op = "create"
      BY <1>1, <2>2, CreateOnce, OtherCallsKept
    <3>2. chan[c].state # "open"
      BY <3>1 DEF OpenedAfterCreate
    <3>3. ASSUME NEW j \in Controllers, OpenInstalls(j) PROVE FALSE
      BY <3>1, <3>3
         DEF OpenInstalls, OpenedAfterCreate, CallsExclusive, Exclusive
    <3>4. Next
      BY <1>1 DEF Next
    <3>5. QED
      BY <3>2, <3>3, <3>4, OnlyInstallsOpen
  <2>3. \A j \in Controllers :
          /\ call'[j].at \in {"accepted", "created"} => call'[j].op = "open"
          /\ call'[j].at = "closing" => call'[j].op \in {"advance", "destroy"}
          /\ call'[j].at = "flushing" => call'[j].op = "flush"
    BY <1>1, CallSteps, OtherCallsKept DEF OpenedAfterCreate
  <2>4. QED
    BY <2>1, <2>2, <2>3 DEF OpenedAfterCreate
<1>2. ASSUME TrackLost PROVE OpenedAfterCreate'
  <2>1. presenter'.state # "none" /\ call' = call /\ presenter.state # "none"
    BY <1>2 DEF TrackLost, TypeOK, PresenterState
  <2>2. \A c \in Channels : chan'[c].state = chan[c].state
    BY <1>2, CloseFlowKeeps DEF TrackLost, TypeOK
  <2>3. QED
    BY <2>1, <2>2 DEF OpenedAfterCreate
<1>3. ASSUME \/ \E s \in Senders : Send(s)
             \/ \E c \in Channels : Reverse(c)
             \/ UNCHANGED vars
      PROVE  OpenedAfterCreate'
  <2>1. \A c \in Channels : chan'[c].state = chan[c].state
    BY <1>3, OthersKeepCalls, CloseFlowKeeps
  <2>2. QED
    BY <1>3, <2>1, OthersKeepCalls DEF OpenedAfterCreate
<1>4. QED
  BY <1>1, <1>2, <1>3 DEF Next

\* A call that has taken the active flow does nothing but close it.
LEMMA ClosingCloses ==
  ASSUME OpenedAfterCreate, NEW k \in Controllers, Control(k),
         call[k].at = "closing"
  PROVE  AdvanceCloses(k) \/ DestroyCloses(k)
BY DEF OpenedAfterCreate, Control, Create, Query, Advance, Flush, Destroy, Open,
       CreateCall, CreateAnswer, CreateReturn, QueryCall, QueryAnswer,
       QueryReturn, AdvanceCall, AdvanceAnswer, AdvanceReturn, FlushCall,
       FlushAnswer, FlushReturn, FlushResets, DestroyCall, DestroyAnswer,
       DestroyReturn, OpenCall, OpenAnswer, OpenAccepted, OpenCreates,
       OpenInstalls, OpenRefused, RequestFails, Calls, MayCall, Answered,
       Waiting, PresenterDoes

\* While one call closes a flow no other call is in progress.
LEMMA ClosingAlone ==
  ASSUME CallsExclusive, OpenedAfterCreate,
         NEW j \in Controllers, NEW k \in Controllers,
         call[j].at = "closing", call[k].op # "none"
  PROVE  j = k
BY DEF CallsExclusive, OpenedAfterCreate, Exclusive

\* c is the active channel of the current generation, or is being closed.
Current(c) ==
  \/ active = c /\ chan[c].generation = generation
  \/ active = None /\ \E k \in Controllers : call[k].at = "closing"
                                          /\ call[k].channel = c

LEMMA LiveStep ==
  LiveChannelInv /\ [Next]_vars => LiveChannelIsCurrent'
<1> SUFFICES ASSUME LiveChannelInv, [Next]_vars, NEW c \in Channels, Sends(c)'
             PROVE  Current(c)'
  BY DEF LiveChannelIsCurrent, Sends, Current
<1> USE DEF LiveChannelInv
<1>1. Sends(c) => Current(c)
  BY DEF LiveChannelIsCurrent, Sends, Current
\* The flow and the active pointer are untouched, or some flow is closed.
<1>2. ASSUME chan' = chan \/ \E d \in Channels : chan' = CloseFlow(d),
             UNCHANGED <<active, generation>>,
             \A k \in Controllers : call[k].at = "closing" => call'[k] = call[k]
      PROVE  Current(c)'
  BY <1>1, <1>2, CloseFlowKeeps DEF Current, Sends
<1>3. ASSUME NEW k \in Controllers, Control(k) PROVE Current(c)'
  <2>1. CASE CreateReturn(k)
    BY <2>1 DEF CreateReturn, Answered, OpenedAfterCreate, Sends
  <2>2. CASE QueryReturn(k)
    <3>1. call[k].op # "none" /\ call[k].at # "closing"
      BY <2>2 DEF QueryReturn, Answered
    <3>2. \A j \in Controllers : call[j].at # "closing"
      BY <3>1, ClosingAlone
    <3>3. CASE chan' = CloseFlow(active)
      <4>1. Sends(c) /\ c # active
        BY <3>3, CloseFlowKeeps DEF TypeOK
      <4>2. QED
        BY <1>1, <3>2, <4>1 DEF Current
    <3>4. CASE UNCHANGED <<chan, active, generation>>
      BY <1>2, <3>2, <3>4
    <3>5. QED
      BY <2>2, <3>3, <3>4 DEF QueryReturn
  <2>3. CASE AdvanceReturn(k) \/ DestroyReturn(k)
    <3>1. /\ call[k].op # "none" /\ call[k].at # "closing"
          /\ chan' = chan /\ TakesActive(k)
      BY <2>3 DEF AdvanceReturn, DestroyReturn, Answered
    <3>2. active = c
      BY <1>1, <3>1, ClosingAlone DEF Current, Sends
    <3>3. call'[k] = [call[k] EXCEPT !.at = "closing", !.channel = active]
          /\ call[k] \in CallState
      BY <3>1 DEF TakesActive, TypeOK
    <3>4. call'[k].at = "closing" /\ call'[k].channel = active
      BY <3>3 DEF CallState
    <3>5. QED
      BY <3>1, <3>2, <3>4 DEF TakesActive, Current
  <2>4. CASE AdvanceCloses(k) \/ DestroyCloses(k)
    <3>1. /\ call[k].op # "none"
          /\ chan' = CloseFlow(call[k].channel)
          /\ UNCHANGED <<active, generation>>
      BY <2>4 DEF AdvanceCloses, DestroyCloses, Closing, trackVars
    <3>2. /\ Sends(c) /\ c # call[k].channel
          /\ chan'[c].generation = chan[c].generation
      BY <3>1, CloseFlowKeeps DEF TypeOK, CallState
    <3>3. QED
      BY <1>1, <3>1, <3>2, ClosingAlone DEF Current
  <2>5. CASE OpenCreates(k)
    <3>1. PICK d \in Channels :
            /\ chan[d].state = "unused"
            /\ chan' = [chan EXCEPT ![d] = [@ EXCEPT !.state = "opening",
                                       !.generation = call[k].generation]]
      BY <2>5 DEF OpenCreates
    <3>2. c # d
      <4>1. SUFFICES ASSUME c = d PROVE FALSE
        OBVIOUS
      <4>2. chan'[c] = [chan[c] EXCEPT !.state = "opening",
                                       !.generation = call[k].generation]
        BY <3>1, <4>1 DEF TypeOK
      <4>3. QED
        BY <4>2 DEF TypeOK, Flow, Sends
    <3>3. chan'[c] = chan[c]
      BY <3>1, <3>2 DEF TypeOK
    <3>4. \A j \in Controllers : call[j].at # "closing"
      BY <2>5, ClosingAlone DEF OpenCreates, OpenedAfterCreate
    <3>5. QED
      BY <1>1, <2>5, <3>3, <3>4 DEF OpenCreates, Current, Sends, trackVars
  <2>6. CASE OpenInstalls(k)
    <3>1. CASE c = call[k].channel
      <4>1. chan'[c] = [chan[c] EXCEPT !.state = "open"]
        BY <2>6, <3>1 DEF OpenInstalls, TypeOK
      <4>2. chan'[c].generation = chan[c].generation
        BY <4>1 DEF TypeOK, Flow
      <4>3. QED
        BY <2>6, <3>1, <4>2 DEF OpenInstalls, Current
    <3>2. CASE c # call[k].channel
      <4>1. chan'[c] = chan[c]
        BY <2>6, <3>2 DEF OpenInstalls, TypeOK
      <4>2. \A j \in Controllers : call[j].at # "closing"
        BY <2>6, ClosingAlone DEF OpenInstalls, OpenedAfterCreate
      <4>3. active = c /\ ~chan[c].closed
        BY <1>1, <4>1, <4>2 DEF Current, Sends
      <4>4. Live(active)
        BY <4>3 DEF Live, Channels, None
      <4>5. QED
        BY <2>6, <4>4 DEF OpenInstalls
    <3>3. QED
      BY <3>1, <3>2
  <2>7. CASE OpenRefused(k)
    <3>1. c # call[k].channel
      <4>1. SUFFICES ASSUME c = call[k].channel PROVE FALSE
        OBVIOUS
      <4>2. chan'[c] = [chan[c] EXCEPT !.state = "discarded", !.closed = TRUE]
        BY <2>7, <4>1 DEF OpenRefused, TypeOK
      <4>3. QED
        BY <4>2 DEF TypeOK, Flow, Sends
    <3>2. chan'[c] = chan[c]
      BY <2>7, <3>1 DEF OpenRefused, TypeOK
    <3>3. \A j \in Controllers : call[j].at # "closing"
      BY <2>7, ClosingAlone DEF OpenRefused, OpenedAfterCreate
    <3>4. QED
      BY <1>1, <2>7, <3>2, <3>3 DEF OpenRefused, Current, Sends, trackVars
  <2>8. CASE UNCHANGED <<chan, active, generation>>
    <3>1. CASE call[k].at = "closing"
      BY <1>3, <2>4, <3>1, ClosingCloses
    <3>2. CASE call[k].at # "closing"
      BY <1>2, <1>3, <2>8, <3>2, OtherCallsKept
    <3>3. QED
      BY <3>1, <3>2
  <2>9. QED
    BY <1>3, <2>1, <2>2, <2>3, <2>4, <2>5, <2>6, <2>7, <2>8
       DEF Control, Create, Query, Advance, Flush, Destroy, Open, CreateCall,
           QueryCall, AdvanceCall, DestroyCall, OpenCall, FlushCall, Calls,
           CreateAnswer, AdvanceAnswer, FlushAnswer, DestroyAnswer, OpenAnswer,
           QueryAnswer, PresenterDoes, FlushReturn, FlushResets, OpenAccepted,
           RequestFails, trackVars
<1>4. ASSUME TrackLost PROVE Current(c)'
  <2>1. call' = call /\ generation' = generation
    BY <1>4 DEF TrackLost
  <2>2. CASE chan' = CloseFlow(active) /\ active' = None
    <3>1. Sends(c) /\ c # active
      BY <2>2, CloseFlowKeeps DEF TypeOK
    <3>2. QED
      BY <1>1, <2>1, <2>2, <3>1 DEF Current
  <2>3. CASE UNCHANGED <<chan, active>>
    BY <1>2, <2>1, <2>3
  <2>4. QED
    BY <1>4, <2>2, <2>3 DEF TrackLost
<1>5. QED
  BY <1>2, <1>3, <1>4, OthersKeepCalls DEF Next

\* Whatever interleaving of advance, reconciliation, loss, destruction and
\* concurrent opens, a channel whose flow admits media is the track's active
\* channel and of its current generation.
THEOREM LiveChannel == Spec => []LiveChannelIsCurrent
<1>1. Init => LiveChannelInv
  <2> SUFFICES ASSUME Init PROVE LiveChannelInv
    OBVIOUS
  <2>1. \A k \in Controllers : call[k].op = "none" /\ call[k].at = "idle"
    BY DEF Init, CallIdle
  <2>2. \A c \in Channels : chan[c].state = "unused"
    BY DEF Init
  <2>3. QED
    BY <2>1, <2>2, InitTyped
       DEF Init, LiveChannelInv, CallsExclusive, OpenedAfterCreate,
           LiveChannelIsCurrent, Exclusive
<1>2. LiveChannelInv /\ [Next]_vars => LiveChannelInv'
  BY StepTyped, ExclusiveStep, OpenedAfterCreateStep, LiveStep DEF LiveChannelInv
<1>3. LiveChannelInv => LiveChannelIsCurrent
  BY DEF LiveChannelInv
<1>4. QED
  BY <1>1, <1>2, <1>3, PTL DEF Spec
-----------------------------------------------------------------------------
(* The revision the session holds never runs ahead of the presenter's.     *)

\* What a step of a call does to its own answer and to the two revisions.
LEMMA AnswerSteps ==
  ASSUME RevisionInv, NEW k \in Controllers, Control(k)
  PROVE  /\ presenter.revision <= presenter'.revision
         /\ call'[k].answer.revision <= presenter'.revision
         /\ revision' <= presenter'.revision
         /\ presenter'.state = "none" => presenter'.revision = 0
<1> USE DEF RevisionInv, AnswersReported, LossNeverBackward
<1>1. /\ presenter \in PresenterState
      /\ presenter.revision \in Nat /\ revision \in Nat
      /\ call[k] \in CallState /\ call[k].answer.revision \in Nat
  BY DEF TypeOK, PresenterState, CallState, Answer
<1>2. ASSUME NEW op, NEW e, Calls(k, op, e)
      PROVE  /\ UNCHANGED <<revision, presenter>>
             /\ call'[k].answer.revision = 0
  <2>1. call'[k] = [CallIdle EXCEPT !.op = op, !.at = "called",
                      !.generation = generation, !.epoch = e, !.channel = active]
    BY <1>2 DEF Calls, TypeOK
  <2>2. call'[k].answer = NoAnswer
    BY <2>1 DEF CallIdle
  <2>3. UNCHANGED <<revision, presenter>>
    BY <1>2 DEF Calls, trackVars
  <2>4. QED
    BY <2>2, <2>3 DEF NoAnswer
<1>3. ASSUME Returns(k) PROVE call'[k].answer.revision = 0
  BY <1>3 DEF Returns, CallIdle, NoAnswer, TypeOK
<1>4. ASSUME NEW a, Answers(k, a) PROVE call'[k].answer = a
  BY <1>1, <1>4 DEF Answers, TypeOK, CallState
<1>5. CASE CreateCall(k) \/ QueryCall(k) \/ AdvanceCall(k) \/ DestroyCall(k)
           \/ OpenCall(k) \/ (\E e \in Epochs : FlushCall(k, e))
  BY <1>1, <1>2, <1>5
     DEF CreateCall, QueryCall, AdvanceCall, DestroyCall, OpenCall, FlushCall
<1>6. CASE CreateAnswer(k) \/ AdvanceAnswer(k) \/ FlushAnswer(k)
           \/ DestroyAnswer(k) \/ OpenAnswer(k)
  <2>1. UNCHANGED revision /\ Answers(k, PresenterAnswer)
    BY <1>6 DEF CreateAnswer, AdvanceAnswer, FlushAnswer, DestroyAnswer,
       OpenAnswer, PresenterDoes, trackVars
  <2>2. call'[k].answer.revision = presenter'.revision
    BY <1>4, <2>1 DEF PresenterAnswer, NoAnswer
  <2>3. /\ presenter'.revision \in Nat /\ presenter'.state # "none"
        /\ presenter.revision <= presenter'.revision
    <3>1. CASE CreateAnswer(k)
      BY <1>1, <3>1 DEF CreateAnswer, PresenterDoes
    <3>2. CASE AdvanceAnswer(k)
      BY <1>1, <3>2 DEF AdvanceAnswer, PresenterDoes, PresenterState
    <3>3. CASE FlushAnswer(k)
      BY <1>1, <3>3 DEF FlushAnswer, PresenterDoes
    <3>4. CASE DestroyAnswer(k)
      BY <1>1, <3>4 DEF DestroyAnswer, PresenterDoes, PresenterState
    <3>5. CASE OpenAnswer(k)
      BY <1>1, <3>5 DEF OpenAnswer, PresenterDoes, PresenterState
    <3>6. QED
      BY <1>6, <3>1, <3>2, <3>3, <3>4, <3>5
  <2>4. QED
    BY <1>1, <2>1, <2>2, <2>3
<1>7. CASE QueryAnswer(k)
  <2>1. PICK c \in Channels, n \in Nat : Answers(k, Status(c, n))
    BY <1>7 DEF QueryAnswer
  <2>2. call'[k].answer.revision = presenter.revision
    BY <1>4, <2>1 DEF Status
  <2>3. QED
    BY <1>1, <1>7, <2>2 DEF QueryAnswer, trackVars
<1>8. CASE \/ CreateReturn(k) \/ QueryReturn(k) \/ AdvanceCloses(k)
           \/ FlushResets(k) \/ DestroyCloses(k) \/ OpenInstalls(k)
           \/ OpenRefused(k) \/ RequestFails(k)
  <2>1. /\ Returns(k) /\ presenter' = presenter
        /\ revision' \in {revision, call[k].answer.revision}
    BY <1>8 DEF CreateReturn, QueryReturn, AdvanceCloses, FlushResets,
       DestroyCloses, OpenInstalls, OpenRefused, RequestFails, trackVars
  <2>2. QED
    BY <1>1, <1>3, <2>1
<1>9. CASE AdvanceReturn(k) \/ DestroyReturn(k) \/ FlushReturn(k)
           \/ OpenAccepted(k) \/ OpenCreates(k)
  <2>1. /\ presenter' = presenter
        /\ revision' \in {revision, call[k].answer.revision}
    BY <1>9 DEF AdvanceReturn, DestroyReturn, FlushReturn, OpenAccepted,
       AcceptedRevision, OpenCreates, trackVars
  <2>2. call'[k].answer = call[k].answer
    <3>1. PICK at, c : \/ call' = [call EXCEPT ![k] =
                                     [@ EXCEPT !.at = at, !.channel = c]]
                       \/ call' = [call EXCEPT ![k].at = at]
      BY <1>9 DEF AdvanceReturn, DestroyReturn, TakesActive, FlushReturn,
         OpenAccepted, OpenCreates
    <3>2. call \in [Controllers -> CallState] /\ call[k] \in CallState
      BY <1>1 DEF TypeOK
    <3>3. \/ call'[k] = [call[k] EXCEPT !.at = at, !.channel = c]
          \/ call'[k] = [call[k] EXCEPT !.at = at]
      BY <3>1, <3>2
    <3>4. QED
      BY <3>2, <3>3 DEF CallState
  <2>3. QED
    BY <1>1, <2>1, <2>2
<1>10. QED
  BY <1>5, <1>6, <1>7, <1>8, <1>9
     DEF Control, Create, Query, Advance, Flush, Destroy, Open

LEMMA OthersKeepRevision ==
  ASSUME \/ \E s \in Senders : Send(s)
         \/ \E c \in Channels : Reverse(c)
         \/ UNCHANGED vars
  PROVE  revision' = revision
<1>1. ASSUME NEW s \in Senders, Send(s) PROVE UNCHANGED trackVars
  BY <1>1, Zenon
     DEF Send, BeginSend, PlanDelta, BeginEos, SendDelta, DeltaRefused, AcceptId,
         AdmitRecord, WriteRecord, SendFails, MergeSequence, FinishSend, WriteEos,
         EndsSend, Validates
<1>2. ASSUME NEW c \in Channels, Reverse(c) PROVE UNCHANGED trackVars
  BY <1>2, Zenon DEF Reverse, NeedKeyframe, NeedFullFrame, Close
<1>3. QED
  BY <1>1, <1>2 DEF vars, trackVars

LEMMA RevisionStep ==
  RevisionInv /\ [Next]_vars => AnswersReported' /\ LossNeverBackward'
<1> SUFFICES ASSUME RevisionInv, [Next]_vars
             PROVE  AnswersReported' /\ LossNeverBackward'
  OBVIOUS
<1>1. /\ TypeOK /\ TypeOK'
      /\ presenter.revision \in Nat /\ presenter'.revision \in Nat
      /\ \A j \in Controllers : call[j].answer.revision \in Nat
  BY StepTyped DEF RevisionInv, TypeOK, PresenterState, CallState, Answer
<1>2. ASSUME NEW k \in Controllers, Control(k)
      PROVE  AnswersReported' /\ LossNeverBackward'
  <2>1. /\ presenter.revision <= presenter'.revision
        /\ call'[k].answer.revision <= presenter'.revision
        /\ revision' <= presenter'.revision
        /\ presenter'.state = "none" => presenter'.revision = 0
    BY <1>2, AnswerSteps
  <2>2. ASSUME NEW j \in Controllers, j # k
        PROVE  call'[j].answer.revision <= presenter'.revision
    <3>1. call'[j] = call[j]
      BY <1>1, <1>2, <2>2, OtherCallsKept
    <3>2. QED
      BY <1>1, <2>1, <3>1 DEF RevisionInv, AnswersReported
  <2>3. QED
    BY <2>1, <2>2 DEF AnswersReported, LossNeverBackward
<1>3. CASE TrackLost
  <2>1. /\ call' = call /\ presenter'.state = "lost"
        /\ presenter'.revision = presenter.revision + 1
        /\ revision' \in {revision, presenter'.revision}
    BY <1>1, <1>3 DEF TrackLost, TypeOK, PresenterState
  <2>2. revision \in Nat
    BY <1>1 DEF TypeOK
  <2>3. QED
    BY <1>1, <2>1, <2>2 DEF RevisionInv, AnswersReported, LossNeverBackward
<1>4. CASE \/ \E s \in Senders : Send(s)
           \/ \E c \in Channels : Reverse(c)
           \/ UNCHANGED vars
  <2>1. UNCHANGED <<call, presenter, revision>>
    BY <1>4, OthersKeepCalls, OthersKeepRevision
  <2>2. QED
    BY <2>1 DEF RevisionInv, AnswersReported, LossNeverBackward
<1>5. QED
  BY <1>2, <1>3, <1>4 DEF Next

\* However answers, losses and reconciliations interleave, the SDK's revision
\* is one the presenter has assigned, so a loss never moves it backward.
THEOREM LossNotRefused == Spec => []LossNeverBackward
<1>1. Init => RevisionInv
  BY InitTyped
     DEF Init, RevisionInv, AnswersReported, LossNeverBackward, CallIdle, NoAnswer
<1>2. RevisionInv /\ [Next]_vars => RevisionInv'
  BY StepTyped, RevisionStep DEF RevisionInv
<1>3. RevisionInv => LossNeverBackward
  BY DEF RevisionInv
<1>4. QED
  BY <1>1, <1>2, <1>3, PTL DEF Spec
=============================================================================
