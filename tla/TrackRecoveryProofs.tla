------------------------ MODULE TrackRecoveryProofs -------------------------
(***************************************************************************)
(* The recovery discipline and the order of a channel's records, for any   *)
(* number of senders: a delta record is always behind a recovery unit that *)
(* answered every request posted before the delta was validated, media     *)
(* identifiers increase, CHANNEL_EOS is last, and the shared sequence      *)
(* covers what is on the wire.                                             *)
(***************************************************************************)
EXTENDS TrackMediaProofs

\* The wire of every channel only grows.
WireGrows ==
  \A c \in Channels :
    wire'[c] = wire[c] \/ \E r \in Record : wire'[c] = Append(wire[c], r)

LEMMA HasUnitKept ==
  ASSUME TypeOK, WireGrows, NEW c \in Channels, NEW rev, HasUnit(c, rev)
  PROVE  HasUnit(c, rev)'
<1>1. CASE wire'[c] = wire[c]
  BY <1>1 DEF HasUnit
<1>2. ASSUME NEW r \in Record, wire'[c] = Append(wire[c], r)
      PROVE  HasUnit(c, rev)'
  <2>1. PICK n \in DOMAIN wire[c] :
          wire[c][n].recovery /\ wire[c][n].revision = rev
    BY DEF HasUnit
  <2>2. wire[c] \in Seq(Record)
    BY DEF TypeOK
  <2>3. n \in DOMAIN wire'[c] /\ wire'[c][n] = wire[c][n]
    BY <1>2, <2>1, <2>2
  <2>4. QED
    BY <2>1, <2>3 DEF HasUnit
<1>3. QED
  BY <1>1, <1>2 DEF WireGrows

\* Session calls and presenter messages write no record and start no send.
LEMMA ControlKeeps ==
  ASSUME NEW k \in Controllers, Control(k)
  PROVE  UNCHANGED <<wire, sender>>
         /\ (media' = media \/ FlushResets(k) \/ OpenCreates(k))
BY DEF Control, Create, Query, Advance, Flush, Destroy, Open, CreateCall,
       QueryCall, AdvanceCall, DestroyCall, OpenCall, FlushCall, Calls,
       CreateAnswer, AdvanceAnswer, FlushAnswer, DestroyAnswer, OpenAnswer,
       QueryAnswer, PresenterDoes, CreateReturn, QueryReturn, AdvanceReturn,
       AdvanceCloses, FlushReturn, FlushResets, DestroyReturn, DestroyCloses,
       OpenAccepted, OpenCreates, OpenInstalls, OpenRefused, RequestFails

LEMMA ReverseKeeps ==
  ASSUME NEW c \in Channels, Reverse(c)
  PROVE  UNCHANGED <<wire, sender>>
         /\ (media' = media \/ NeedFullFrame(c)
             \/ \E e \in Epochs : NeedKeyframe(c, e))
BY DEF Reverse, NeedKeyframe, NeedFullFrame, Close

\* What a step of a sender does to the wire.
LEMMA SendWrites ==
  ASSUME TypeOK, NEW s \in Senders, Send(s)
  PROVE  \/ wire' = wire
         \/ /\ WriteRecord(s)
            /\ sender[s].channel \in Channels
            /\ \E w \in Record :
                 /\ wire' = [wire EXCEPT ![sender[s].channel] = Append(@, w)]
                 /\ w.kind = "media"
                 /\ w.recovery = sender[s].recovery
                 /\ w.revision = sender[s].revision
                 /\ w.epoch = sender[s].epoch
         \/ /\ WriteEos(s)
            /\ sender[s].channel \in Channels
            /\ \E w \in Record :
                 /\ wire' = [wire EXCEPT ![sender[s].channel] = Append(@, w)]
                 /\ w.kind = "eos"
<1> DEFINE c == sender[s].channel
<1>1. CASE WriteRecord(s)
  <2> DEFINE w == [kind |-> "media", id |-> sender[s].id,
                   epoch |-> sender[s].epoch, recovery |-> sender[s].recovery,
                   base |-> sender[s].base, revision |-> sender[s].revision,
                   last |-> 0]
  <2>1. sender[s] \in SendState /\ c \in Channels
    BY <1>1 DEF WriteRecord, TypeOK
  <2>2. w \in Record /\ w.kind = "media" /\ w.recovery = sender[s].recovery
        /\ w.revision = sender[s].revision /\ w.epoch = sender[s].epoch
    BY <2>1 DEF SendState, Record
  <2>3. wire' = [wire EXCEPT ![c] = Append(@, w)]
    BY <1>1, Zenon DEF WriteRecord
  <2> HIDE DEF w
  <2>4. QED
    BY <1>1, <2>1, <2>2, <2>3
<1>2. CASE WriteEos(s)
  <2> DEFINE w == [kind |-> "eos", id |-> 0, epoch |-> sender[s].epoch,
                   recovery |-> FALSE, base |-> 0, revision |-> 0,
                   last |-> sender[s].record]
  <2>1. sender[s] \in SendState /\ c \in Channels
    BY <1>2 DEF WriteEos, TypeOK
  <2>2. w \in Record /\ w.kind = "eos"
    BY <2>1 DEF SendState, Record
  <2>3. wire' = [wire EXCEPT ![c] = Append(@, w)]
    BY <1>2, Zenon DEF WriteEos
  <2> HIDE DEF w
  <2>4. QED
    BY <1>2, <2>1, <2>2, <2>3
<1>3. CASE ~WriteRecord(s) /\ ~WriteEos(s)
  BY <1>3 DEF Send, BeginSend, PlanDelta, BeginEos, SendDelta, DeltaRefused,
       AcceptId, AdmitRecord, SendFails, MergeSequence, FinishSend, EndsSend,
       Validates
<1>4. QED
  BY <1>1, <1>2, <1>3

LEMMA StepGrowsWire == ASSUME TypeOK, [Next]_vars PROVE WireGrows
<1>1. ASSUME NEW s \in Senders, Send(s) PROVE WireGrows
  BY <1>1, SendWrites DEF WireGrows, TypeOK
<1>2. CASE wire' = wire
  BY <1>2 DEF WireGrows
<1>3. QED
  BY <1>1, <1>2, ControlKeeps, ReverseKeeps DEF Next, TrackLost, vars

SameSend(s) == /\ sender'[s].channel = sender[s].channel
               /\ sender'[s].epoch = sender[s].epoch
               /\ sender'[s].recovery = sender[s].recovery
               /\ sender'[s].revision = sender[s].revision

\* What a step of a sender does to its own state, by stage of the send.
LEMMA ValidatesStage ==
  ASSUME TypeOK, NEW s \in Senders, NEW c \in Channels, NEW id, NEW e,
         NEW recovery \in BOOLEAN, NEW base,
         Validates(s, c, id, e, recovery, base)
  PROVE  /\ sender'[s].at = "checked" /\ sender'[s].channel = c
         /\ sender'[s].recovery = recovery
         /\ sender'[s].revision = media[c].recovery_revision
         /\ media[c].needs_recovery => recovery
         /\ recovery => sender'[s].epoch >= media[c].minimum_recovery_epoch
         /\ UNCHANGED <<media, chan, asked>>
<1>1. sender'[s] = [at |-> "checked", channel |-> c, id |-> id, epoch |-> e,
                    recovery |-> recovery, base |-> base,
                    revision |-> media[c].recovery_revision, record |-> 0]
  BY DEF Validates, TypeOK
<1>2. QED
  BY <1>1 DEF Validates, Admissible, historyVars

LEMMA AcceptStage ==
  ASSUME TypeOK, NEW s \in Senders, AcceptId(s)
  PROVE  sender[s].at = "checked" /\ sender'[s].at = "accepted" /\ SameSend(s)
<1>1. sender'[s] = [sender[s] EXCEPT !.at = "accepted"]
      /\ sender[s].at = "checked" /\ sender[s] \in SendState
  BY DEF AcceptId, TypeOK
<1>2. QED
  BY <1>1 DEF SameSend, SendState

LEMMA AdmitStage ==
  ASSUME TypeOK, NEW s \in Senders, AdmitRecord(s)
  PROVE  sender[s].at = "accepted" /\ sender'[s].at = "admitted" /\ SameSend(s)
<1>1. sender'[s] = [sender[s] EXCEPT !.at = "admitted"]
      /\ sender[s].at = "accepted" /\ sender[s] \in SendState
  BY DEF AdmitRecord, TypeOK
<1>2. QED
  BY <1>1 DEF SameSend, SendState

LEMMA WriteStage ==
  ASSUME TypeOK, NEW s \in Senders, WriteRecord(s)
  PROVE  sender[s].at = "admitted" /\ sender'[s].at = "written" /\ SameSend(s)
<1>1. sender'[s] = [sender[s] EXCEPT !.at = "written",
                      !.record = Len(wire[sender[s].channel]) + 1]
      /\ sender[s].at = "admitted" /\ sender[s] \in SendState
  BY DEF WriteRecord, TypeOK
<1>2. QED
  BY <1>1 DEF SameSend, SendState

LEMMA MergeStage ==
  ASSUME TypeOK, NEW s \in Senders, MergeSequence(s)
  PROVE  sender[s].at = "written" /\ sender'[s].at = "merged" /\ SameSend(s)
<1>1. sender'[s] = [sender[s] EXCEPT !.at = "merged"]
      /\ sender[s].at = "written" /\ sender[s] \in SendState
  BY DEF MergeSequence, TypeOK
<1>2. QED
  BY <1>1 DEF SameSend, SendState

LEMMA SendStages ==
  ASSUME TypeOK, NEW s \in Senders, Send(s)
  PROVE  \/ sender'[s].at \in {"idle", "planned", "eos"}
         \/ /\ sender'[s].at = "checked"
            /\ sender'[s].channel \in Channels
            /\ sender'[s].revision = media[sender'[s].channel].recovery_revision
            /\ media[sender'[s].channel].needs_recovery => sender'[s].recovery
            /\ sender'[s].recovery =>
                 sender'[s].epoch >= media[sender'[s].channel].minimum_recovery_epoch
            /\ UNCHANGED <<media, asked>>
         \/ /\ sender[s].at = "checked" /\ sender'[s].at = "accepted"
            /\ SameSend(s)
         \/ /\ sender[s].at = "accepted" /\ sender'[s].at = "admitted"
            /\ SameSend(s)
         \/ WriteRecord(s) /\ sender'[s].at = "written" /\ SameSend(s)
         \/ /\ sender[s].at = "written" /\ sender'[s].at = "merged"
            /\ SameSend(s)
<1>1. ASSUME NEW c \in Channels, NEW id \in Ids, NEW e \in Epochs,
             NEW recovery \in BOOLEAN, BeginSend(s, c, id, e, recovery)
      PROVE  /\ sender'[s].at = "checked"
             /\ sender'[s].channel \in Channels
             /\ sender'[s].revision = media[sender'[s].channel].recovery_revision
             /\ media[sender'[s].channel].needs_recovery => sender'[s].recovery
             /\ sender'[s].recovery =>
                  sender'[s].epoch >= media[sender'[s].channel].minimum_recovery_epoch
             /\ UNCHANGED <<media, asked>>
  BY <1>1, ValidatesStage DEF BeginSend
<1>2. ASSUME NEW id \in Ids, NEW e \in Epochs, SendDelta(s, id, e)
      PROVE  /\ sender'[s].at = "checked"
             /\ sender'[s].channel \in Channels
             /\ sender'[s].revision = media[sender'[s].channel].recovery_revision
             /\ media[sender'[s].channel].needs_recovery => sender'[s].recovery
             /\ sender'[s].recovery =>
                  sender'[s].epoch >= media[sender'[s].channel].minimum_recovery_epoch
             /\ UNCHANGED <<media, asked>>
  BY <1>2, ValidatesStage DEF SendDelta, TypeOK
<1>3. ASSUME NEW c \in Channels, PlanDelta(s, c)
      PROVE  sender'[s].at = "planned"
  BY <1>3 DEF PlanDelta, SenderIdle, TypeOK
<1>4. ASSUME NEW c \in Channels, BeginEos(s, c)
      PROVE  sender'[s].at = "eos"
  BY <1>4 DEF BeginEos, SenderIdle, TypeOK
<1>5. ASSUME sender' = [sender EXCEPT ![s] = SenderIdle]
      PROVE  sender'[s].at = "idle"
  BY <1>5 DEF SenderIdle, TypeOK
<1>6. CASE WriteRecord(s)
  BY <1>6, WriteStage
<1>7. CASE MergeSequence(s)
  BY <1>7, MergeStage
<1>8. CASE SendFails(s) \/ FinishSend(s) \/ WriteEos(s)
           \/ \E e \in Epochs : DeltaRefused(s, e)
  BY <1>5, <1>8 DEF SendFails, FinishSend, WriteEos, DeltaRefused, EndsSend
<1>9. CASE AdmitRecord(s)
  BY <1>9, AdmitStage
<1>10. CASE AcceptId(s)
  BY <1>10, AcceptStage
<1>11. QED
  BY <1>1, <1>2, <1>3, <1>4, <1>6, <1>7, <1>8, <1>9, <1>10 DEF Send

LEMMA OtherSendersKept ==
  ASSUME TypeOK, NEW s \in Senders, Send(s), NEW t \in Senders, t # s
  PROVE  sender'[t] = sender[t]
<1>1. \E r : sender' = [sender EXCEPT ![s] = r]
  BY Zenon DEF Send, BeginSend, PlanDelta, BeginEos, SendDelta, DeltaRefused,
     AcceptId, AdmitRecord, WriteRecord, SendFails, MergeSequence, FinishSend,
     WriteEos, EndsSend, Validates
<1>2. QED
  BY <1>1 DEF TypeOK

\* A send in progress is on a channel that has been opened.
LEMMA SenderOnOpened ==
  ASSUME TypeOK, UnusedIsSilent, NEW s \in Senders, Send(s),
         sender'[s].at # "idle"
  PROVE  chan[sender'[s].channel].state # "unused"
<1>1. ASSUME NEW c \in Channels, chan[c].state = "open",
             \/ \E id, e, base : \E recovery \in BOOLEAN :
                   Validates(s, c, id, e, recovery, base)
             \/ PlanDelta(s, c) \/ BeginEos(s, c)
      PROVE  sender'[s].channel = c
  <2>1. CASE PlanDelta(s, c)
    BY <2>1, IdleTyped DEF PlanDelta, SenderIdle, TypeOK
  <2>2. CASE BeginEos(s, c)
    BY <2>2 DEF BeginEos, SenderIdle, TypeOK
  <2>3. QED
    BY <1>1, <2>1, <2>2, ValidatesStage
<1>2. CASE sender[s].at # "idle" /\ sender'[s].channel = sender[s].channel
  BY <1>2 DEF UnusedIsSilent, TypeOK
<1>3. CASE \/ AcceptId(s) \/ AdmitRecord(s) \/ WriteRecord(s)
           \/ MergeSequence(s)
  BY <1>2, <1>3, AcceptStage, AdmitStage, WriteStage, MergeStage DEF SameSend
<1>4. ASSUME NEW id \in Ids, NEW e \in Epochs, SendDelta(s, id, e)
      PROVE  sender[s].at # "idle" /\ sender'[s].channel = sender[s].channel
  BY <1>4, ValidatesStage DEF SendDelta, TypeOK
<1>5. ASSUME sender' = [sender EXCEPT ![s] = SenderIdle] PROVE FALSE
  BY <1>5 DEF SenderIdle, TypeOK
<1>6. QED
  BY <1>1, <1>2, <1>3, <1>4, <1>5
     DEF Send, BeginSend, PlanDelta, BeginEos, SendFails, FinishSend, WriteEos,
         DeltaRefused, EndsSend

-----------------------------------------------------------------------------
(* The parts of DeltaInv, one lemma each.                                  *)

\* No step takes a channel back to unused.
LEMMA StaysUsed ==
  ASSUME TypeOK, [Next]_vars, NEW c \in Channels, chan'[c].state = "unused"
  PROVE  chan[c].state = "unused"
<1>1. ASSUME NEW k \in Controllers, Control(k) PROVE chan[c].state = "unused"
  <2>1. CASE chan' = chan \/ chan' = CloseFlow(active)
             \/ chan' = CloseFlow(call[k].channel)
    BY <2>1, CloseFlowKeeps DEF TypeOK, CallState
  <2>2. ASSUME NEW d \in Channels,
               \/ chan' = [chan EXCEPT ![d] = [@ EXCEPT !.state = "opening",
                                         !.generation = call[k].generation]]
               \/ chan' = [chan EXCEPT ![d].state = "open"]
               \/ chan' = [chan EXCEPT ![d] = [@ EXCEPT !.state = "discarded",
                                                      !.closed = TRUE]]
        PROVE  chan[c].state = "unused"
    <3>1. CASE c # d
      BY <2>2, <3>1 DEF TypeOK
    <3>2. CASE c = d
      <4>1. \/ chan'[c] = [chan[c] EXCEPT !.state = "opening",
                                          !.generation = call[k].generation]
            \/ chan'[c] = [chan[c] EXCEPT !.state = "open"]
            \/ chan'[c] = [chan[c] EXCEPT !.state = "discarded", !.closed = TRUE]
        BY <2>2, <3>2 DEF TypeOK
      <4>2. QED
        BY <4>1 DEF TypeOK, Flow
    <3>3. QED
      BY <3>1, <3>2
  <2>3. CASE OpenCreates(k)
    BY <2>2, <2>3 DEF OpenCreates
  <2>4. CASE (OpenInstalls(k) \/ OpenRefused(k)) /\ call[k].channel \in Channels
    BY <2>2, <2>4 DEF OpenInstalls, OpenRefused
  <2>5. CASE (OpenInstalls(k) \/ OpenRefused(k)) /\ call[k].channel \notin Channels
    BY <2>5 DEF OpenInstalls, OpenRefused, TypeOK
  <2>6. QED
    BY <1>1, <2>1, <2>3, <2>4, <2>5
       DEF Control, Create, Query, Advance, Flush, Destroy, Open, CreateCall,
           QueryCall, AdvanceCall, DestroyCall, OpenCall, FlushCall, Calls,
           CreateAnswer, AdvanceAnswer, FlushAnswer, DestroyAnswer, OpenAnswer,
           QueryAnswer, PresenterDoes, CreateReturn, QueryReturn,
           AdvanceReturn, AdvanceCloses, FlushReturn, FlushResets,
           DestroyReturn, DestroyCloses, OpenAccepted, RequestFails, trackVars
<1>2. CASE TrackLost
  BY <1>2, CloseFlowKeeps DEF TrackLost, TypeOK
<1>3. QED
  BY <1>1, <1>2, OthersKeepCalls, CloseFlowKeeps DEF Next

LEMMA SilentStep ==
  TypeOK /\ UnusedIsSilent /\ [Next]_vars => UnusedIsSilent'
<1> SUFFICES ASSUME TypeOK, UnusedIsSilent, [Next]_vars,
                    NEW c \in Channels, chan'[c].state = "unused"
             PROVE  /\ wire'[c] = <<>>
                    /\ \A t \in Senders :
                         sender'[t].at # "idle" => sender'[t].channel # c
  BY DEF UnusedIsSilent
<1>1. /\ chan[c].state = "unused"
      /\ wire[c] = <<>>
      /\ \A t \in Senders : sender[t].at # "idle" => sender[t].channel # c
  BY StaysUsed DEF UnusedIsSilent
<1>2. ASSUME NEW s \in Senders, Send(s)
      PROVE  /\ wire'[c] = <<>>
             /\ \A t \in Senders :
                  sender'[t].at # "idle" => sender'[t].channel # c
  <2>1. WriteRecord(s) \/ WriteEos(s) => sender[s].channel # c
    BY <1>1 DEF WriteRecord, WriteEos
  <2>2. wire'[c] = <<>>
    BY <1>1, <1>2, <2>1, SendWrites DEF TypeOK
  <2>3. sender'[s].at # "idle" => sender'[s].channel # c
    BY <1>1, <1>2, SenderOnOpened
  <2>4. QED
    BY <1>1, <1>2, <2>2, <2>3, OtherSendersKept
<1>3. CASE UNCHANGED <<wire, sender>>
  BY <1>1, <1>3
<1>4. QED
  BY <1>2, <1>3, ControlKeeps, ReverseKeeps DEF Next, TrackLost, vars

\* A channel that needs no recovery after a step needed none before it, or
\* the step finished the unit that answered its newest request.
LEMMA RecoveryCleared ==
  ASSUME TypeOK, [Next]_vars, NEW c \in Channels, ~media'[c].needs_recovery
  PROVE  /\ media'[c].recovery_revision = media[c].recovery_revision
         /\ \/ ~media[c].needs_recovery
            \/ \E s \in Senders : /\ sender[s].at = "merged"
                                  /\ sender[s].channel = c
                                  /\ sender[s].recovery
                                  /\ sender[s].revision
                                       = media[c].recovery_revision
<1> DEFINE Goal == /\ media'[c].recovery_revision = media[c].recovery_revision
                   /\ \/ ~media[c].needs_recovery
                      \/ \E s \in Senders : /\ sender[s].at = "merged"
                                            /\ sender[s].channel = c
                                            /\ sender[s].recovery
                                            /\ sender[s].revision
                                                 = media[c].recovery_revision
<1>1. CASE media'[c] = media[c]
  BY <1>1
<1>2. ASSUME NEW d \in Channels, NEW m \in MediaState, m.needs_recovery,
             media' = [media EXCEPT ![d] = m]
      PROVE  Goal
  BY <1>1, <1>2 DEF TypeOK
<1>3. ASSUME NEW k \in Controllers, FlushResets(k) PROVE Goal
  <2>1. CASE media' = media
    BY <1>1, <2>1
  <2>2. CASE media' # media
    <3> DEFINE d == call[k].channel
               m == [media[d] EXCEPT !.needs_recovery = TRUE,
                                     !.minimum_recovery_epoch = call[k].epoch]
    <3>1. d \in Channels /\ call[k].epoch \in Nat
      BY <1>3, <2>2 DEF FlushResets, TypeOK, CallState
    <3>2. m \in MediaState /\ m.needs_recovery
      BY <3>1 DEF TypeOK, MediaState
    <3>3. media' = [media EXCEPT ![d] = m]
      BY <1>3, <2>2 DEF FlushResets
    <3>4. QED
      BY <1>2, <3>1, <3>2, <3>3
  <2>3. QED
    BY <2>1, <2>2
<1>4. ASSUME NEW k \in Controllers, OpenCreates(k) PROVE Goal
  <2>1. NewMedia(sequence.last_epoch) \in MediaState
        /\ NewMedia(sequence.last_epoch).needs_recovery
    BY NewMediaTyped DEF NewMedia, TypeOK, Sequence
  <2>2. QED
    BY <1>2, <1>4, <2>1 DEF OpenCreates
<1>5. ASSUME NEW d \in Channels, NEW e \in Epochs, NeedKeyframe(d, e)
      PROVE  Goal
  <2> DEFINE m == [media[d] EXCEPT
                     !.recovery_revision = media[d].recovery_revision + 1,
                     !.needs_recovery = TRUE,
                     !.minimum_recovery_epoch =
                       Larger(media[d].minimum_recovery_epoch, e)]
  <2>0. e \in Nat
    BY BoundsAssumption DEF Epochs
  <2>1. m \in MediaState
    BY <2>0, MediaFields, MediaUpdates, LargerTyped
  <2>2. m.needs_recovery
    BY MediaFields DEF MediaState
  <2>3. media' = [media EXCEPT ![d] = m]
    BY <1>5 DEF NeedKeyframe
  <2>4. QED
    BY <1>2, <2>1, <2>2, <2>3
<1>6. ASSUME NEW d \in Channels, NeedFullFrame(d) PROVE Goal
  <2> DEFINE m == [media[d] EXCEPT
                     !.recovery_revision = media[d].recovery_revision + 1,
                     !.needs_recovery = TRUE]
  <2>1. m \in MediaState
    BY MediaFields, MediaUpdates
  <2>2. m.needs_recovery
    BY MediaFields DEF MediaState
  <2>3. media' = [media EXCEPT ![d] = m]
    BY <1>6 DEF NeedFullFrame
  <2>4. QED
    BY <1>2, <2>1, <2>2, <2>3
<1>7. ASSUME NEW s \in Senders, FinishSend(s) PROVE Goal
  <2>1. CASE c = sender[s].channel
    <3>1. media[c] \in MediaState
      BY DEF TypeOK
    <3>2. media'[c] = [media[c] EXCEPT !.last_sequence = sender[s].record,
                         !.needs_recovery =
                           media[c].needs_recovery /\ ~Recovered(s),
                         !.minimum_recovery_epoch =
                           IF Recovered(s) THEN sender[s].epoch
                           ELSE media[c].minimum_recovery_epoch]
      BY <1>7, <2>1 DEF FinishSend, TypeOK
    <3>3. media'[c].recovery_revision = media[c].recovery_revision
          /\ (media'[c].needs_recovery
                <=> (media[c].needs_recovery /\ ~Recovered(s)))
      BY <3>1, <3>2 DEF MediaState
    <3>4. QED
      BY <1>7, <2>1, <3>3 DEF FinishSend, Recovered
  <2>2. CASE c # sender[s].channel
    BY <1>1, <1>7, <2>2 DEF FinishSend, TypeOK
  <2>3. QED
    BY <2>1, <2>2
<1>8. ASSUME NEW s \in Senders, WriteEos(s) PROVE Goal
  <2>1. CASE c = sender[s].channel
    <3>1. media'[c] = [media[c] EXCEPT !.eos = TRUE] /\ media[c] \in MediaState
      BY <1>8, <2>1 DEF WriteEos, TypeOK
    <3>2. QED
      BY <3>1 DEF MediaState
  <2>2. CASE c # sender[s].channel
    BY <1>1, <1>8, <2>2 DEF WriteEos, TypeOK
  <2>3. QED
    BY <2>1, <2>2
<1>9. ASSUME NEW s \in Senders, Send(s) PROVE Goal
  <2>1. media' = media \/ FinishSend(s) \/ WriteEos(s)
    BY <1>9 DEF Send, BeginSend, PlanDelta, BeginEos, SendDelta, DeltaRefused,
         AcceptId, AdmitRecord, WriteRecord, SendFails, MergeSequence, Validates
  <2>2. QED
    BY <1>1, <1>7, <1>8, <2>1
<1>10. QED
  BY <1>1, <1>3, <1>4, <1>5, <1>6, <1>9, ControlKeeps, ReverseKeeps
     DEF Next, TrackLost, vars

LEMMA AnsweredStep ==
  DeltaInv /\ [Next]_vars => AnsweredByUnit'
<1> SUFFICES ASSUME DeltaInv, [Next]_vars PROVE AnsweredByUnit'
  OBVIOUS
<1> USE DEF DeltaInv
<1>1. WireGrows
  BY StepGrowsWire
<1>2. ASSUME NEW c \in Channels, ~media'[c].needs_recovery
      PROVE  HasUnit(c, media[c].recovery_revision)'
  <2>1. PICK rev : rev = media[c].recovery_revision
    OBVIOUS
  <2>2. media'[c].recovery_revision = rev
    BY <1>2, <2>1, RecoveryCleared
  <2>3. HasUnit(c, rev)
    <3>1. CASE ~media[c].needs_recovery
      BY <2>1, <3>1 DEF AnsweredByUnit
    <3>2. CASE media[c].needs_recovery
      BY <1>2, <2>1, <3>2, RecoveryCleared DEF AnsweredByUnit
    <3>3. QED
      BY <3>1, <3>2
  <2>4. HasUnit(c, rev)'
    BY <1>1, <2>3, HasUnitKept
  <2>5. QED
    BY <2>2, <2>4 DEF HasUnit
\* A send that is past validation keeps the unit it relied on or has written.
<1>3. ASSUME NEW s \in Senders,
             \/ /\ sender'[s].at \in {"checked", "accepted", "admitted"}
                /\ ~sender'[s].recovery
             \/ sender'[s].at \in {"written", "merged"} /\ sender'[s].recovery
      PROVE  HasUnit(sender[s].channel, sender[s].revision)'
  <2>1. PICK c, rev : c = sender'[s].channel /\ rev = sender'[s].revision
    OBVIOUS
  <2>2. TypeOK'
    BY StepTyped
  <2>3. c \in Channels
    BY <1>3, <2>1, <2>2 DEF TypeOK
  <2>4. CASE sender'[s] = sender[s]
    <3>1. HasUnit(c, rev)
      BY <1>3, <2>1, <2>4 DEF AnsweredByUnit
    <3>2. HasUnit(c, rev)'
      BY <1>1, <2>3, <3>1, HasUnitKept
    <3>3. QED
      BY <2>1, <3>2 DEF HasUnit
  <2>5. CASE Send(s)
    <3>1. CASE sender'[s].at = "checked"
      <4>1. ~media[c].needs_recovery /\ rev = media[c].recovery_revision
        BY <1>3, <2>1, <2>5, <3>1, SendStages
      <4>2. HasUnit(c, rev)
        BY <2>3, <4>1 DEF AnsweredByUnit
      <4>3. HasUnit(c, rev)'
        BY <1>1, <2>3, <4>2, HasUnitKept
      <4>4. QED
        BY <2>1, <4>3 DEF HasUnit
    <3>2. CASE WriteRecord(s) /\ SameSend(s)
      <4>1. sender[s].recovery /\ sender[s].channel = c /\ sender[s].revision = rev
        BY <1>3, <2>1, <3>2, WriteStage DEF SameSend
      <4>2. PICK w \in Record :
              /\ wire' = [wire EXCEPT ![c] = Append(@, w)]
              /\ w.recovery /\ w.revision = rev
        <5>1. ~WriteEos(s)
          BY <3>2 DEF WriteRecord, WriteEos
        <5>2. wire' # wire
          <6>1. PICK w : wire' = [wire EXCEPT ![c] = Append(@, w)]
            BY <3>2, <4>1 DEF WriteRecord
          <6>2. wire[c] \in Seq(Record) /\ Len(Append(wire[c], w)) # Len(wire[c])
            BY <2>3 DEF TypeOK
          <6>3. QED
            BY <2>3, <6>1, <6>2 DEF TypeOK
        <5>3. QED
          BY <2>5, <4>1, <5>1, <5>2, SendWrites
      <4>3. wire[c] \in Seq(Record) /\ wire'[c] = Append(wire[c], w)
        BY <2>3, <4>2 DEF TypeOK
      <4>4. Len(wire[c]) + 1 \in DOMAIN wire'[c]
            /\ wire'[c][Len(wire[c]) + 1] = w
        BY <4>3
      <4>5. QED
        BY <2>1, <4>2, <4>4 DEF HasUnit
    <3>3. CASE sender[s].at = "written" /\ sender'[s].at = "merged" /\ SameSend(s)
      <4>1. HasUnit(c, rev)
        BY <1>3, <2>1, <3>3 DEF AnsweredByUnit, SameSend
      <4>2. HasUnit(c, rev)'
        BY <1>1, <2>3, <4>1, HasUnitKept
      <4>3. QED
        BY <2>1, <4>2 DEF HasUnit
    <3>4. CASE /\ \/ sender[s].at = "checked" /\ sender'[s].at = "accepted"
                  \/ sender[s].at = "accepted" /\ sender'[s].at = "admitted"
               /\ SameSend(s)
      <4>1. HasUnit(c, rev)
        BY <1>3, <2>1, <3>4 DEF AnsweredByUnit, SameSend
      <4>2. HasUnit(c, rev)'
        BY <1>1, <2>3, <4>1, HasUnitKept
      <4>3. QED
        BY <2>1, <4>2 DEF HasUnit
    <3>5. QED
      BY <1>3, <2>5, <3>1, <3>2, <3>3, <3>4, SendStages
  <2>6. QED
    BY <2>4, <2>5, OtherSendersKept, ControlKeeps, ReverseKeeps
       DEF Next, TrackLost, vars
<1>4. QED
  BY <1>2, <1>3, RecoveryCleared DEF AnsweredByUnit

LEMMA DeltaStep ==
  DeltaInv /\ [Next]_vars => DeltaFollowsRecovery'
<1> SUFFICES ASSUME DeltaInv, [Next]_vars,
                    NEW c \in Channels, NEW n \in DOMAIN wire'[c],
                    wire'[c][n].kind = "media", ~wire'[c][n].recovery
             PROVE  \E m \in 1..(n - 1) :
                      /\ wire'[c][m].recovery
                      /\ wire'[c][m].revision = wire'[c][n].revision
  BY DEF DeltaFollowsRecovery
<1> USE DEF DeltaInv
<1>1. wire[c] \in Seq(Record)
  BY DEF TypeOK
\* A record already on the wire.
<1>2. CASE wire'[c] = wire[c]
  BY <1>2 DEF DeltaFollowsRecovery
<1>3. ASSUME NEW r \in Record, wire'[c] = Append(wire[c], r), n # Len(wire[c]) + 1
      PROVE  \E m \in 1..(n - 1) :
               /\ wire'[c][m].recovery
               /\ wire'[c][m].revision = wire'[c][n].revision
  <2>1. n \in DOMAIN wire[c] /\ wire'[c][n] = wire[c][n]
    BY <1>1, <1>3
  <2>2. PICK m \in 1..(n - 1) : /\ wire[c][m].recovery
                               /\ wire[c][m].revision = wire[c][n].revision
    BY <2>1 DEF DeltaFollowsRecovery
  <2>3. wire'[c][m] = wire[c][m]
    BY <1>1, <1>3, <2>1, <2>2
  <2>4. QED
    BY <2>1, <2>2, <2>3
\* The record a sender writes in this step.
<1>4. ASSUME NEW s \in Senders, Send(s), wire'[c] # wire[c],
             NEW r \in Record, wire'[c] = Append(wire[c], r),
             n = Len(wire[c]) + 1
      PROVE  \E m \in 1..(n - 1) :
               /\ wire'[c][m].recovery
               /\ wire'[c][m].revision = wire'[c][n].revision
  <2>1. wire'[c][n] = r
    BY <1>1, <1>4
  <2>2. /\ WriteRecord(s) /\ sender[s].channel = c
        /\ r.recovery = sender[s].recovery /\ r.revision = sender[s].revision
    <3>1. ASSUME NEW w \in Record, sender[s].channel \in Channels,
                 wire' = [wire EXCEPT ![sender[s].channel] = Append(@, w)]
          PROVE  sender[s].channel = c /\ w = r
      <4>1. sender[s].channel = c
        BY <1>4, <3>1 DEF TypeOK
      <4>2. wire'[c] = Append(wire[c], w)
        BY <3>1, <4>1 DEF TypeOK
      <4>3. w = r
        <5>1. Append(wire[c], w)[Len(wire[c]) + 1] = w
          BY <1>1
        <5>2. QED
          BY <1>4, <2>1, <4>2, <5>1
      <4>4. QED
        BY <4>1, <4>3
    <3>2. r.kind = "media"
      BY <2>1
    <3>3. QED
      BY <1>4, <3>1, <3>2, SendWrites
  <2>3. sender[s].at = "admitted" /\ ~sender[s].recovery
    BY <2>1, <2>2 DEF WriteRecord
  <2>4. PICK m \in DOMAIN wire[c] : /\ wire[c][m].recovery
                                   /\ wire[c][m].revision = sender[s].revision
    BY <2>2, <2>3 DEF AnsweredByUnit, HasUnit
  <2>5. m \in 1..(n - 1) /\ wire'[c][m] = wire[c][m]
    BY <1>1, <1>4, <2>4
  <2>6. QED
    BY <2>1, <2>2, <2>4, <2>5
<1>5. ASSUME NEW s \in Senders, Send(s)
      PROVE  \E m \in 1..(n - 1) :
               /\ wire'[c][m].recovery
               /\ wire'[c][m].revision = wire'[c][n].revision
  <2>1. wire'[c] = wire[c] \/ \E r \in Record : wire'[c] = Append(wire[c], r)
    BY StepGrowsWire DEF WireGrows
  <2>2. QED
    BY <1>2, <1>3, <1>4, <1>5, <2>1
<1>6. QED
  BY <1>2, <1>5, ControlKeeps, ReverseKeeps DEF Next, TrackLost, vars

\* README "recovery-unit enforcement": however senders, recovery requests and
\* flushes interleave, a delta record on the wire is behind a recovery unit
\* that answered every request posted when the delta was validated.
THEOREM DeltaBehindRecovery == Spec => []DeltaFollowsRecovery
<1>1. Init => DeltaInv
  <2> SUFFICES ASSUME Init PROVE DeltaInv
    OBVIOUS
  <2>1. /\ \A s \in Senders : sender[s].at = "idle"
        /\ \A c \in Channels : wire[c] = <<>> /\ media[c].needs_recovery
    BY DEF Init, SenderIdle, NewMedia
  <2>2. QED
    BY <2>1, InitTyped
       DEF DeltaInv, UnusedIsSilent, AnsweredByUnit, DeltaFollowsRecovery
<1>2. DeltaInv /\ [Next]_vars => DeltaInv'
  BY StepTyped, SilentStep, AnsweredStep, DeltaStep DEF DeltaInv
<1>3. DeltaInv => DeltaFollowsRecovery
  BY DEF DeltaInv
<1>4. QED
  BY <1>1, <1>2, <1>3, PTL DEF Spec
-----------------------------------------------------------------------------
(* The order of the wire.  What each step of a send does to the parts      *)
(* WireInv relates.                                                        *)

SameUnit(s) == /\ sender'[s].channel = sender[s].channel
               /\ sender'[s].id = sender[s].id

\* The send waits for send_order, or is over without a record.
Rests(s) == /\ UNCHANGED <<wire, media, sequence>>
            /\ sender[s].at \notin {"written", "merged"}
            /\ sender'[s].at \in {"idle", "planned"}

\* send_order is taken on a channel that has not ended.
Starts(s) ==
  LET c == sender'[s].channel
  IN  /\ UNCHANGED <<wire, media, sequence>>
      /\ ~InFlight(s) /\ c \in Channels /\ SendOrderFree(c) /\ ~media[c].eos
      /\ sender'[s].at \in {"checked", "eos"}
      /\ sender'[s].at = "eos" => sender'[s].record = media[c].last_sequence

Prepares(s) ==
  /\ UNCHANGED <<wire, media, sequence>>
  /\ SameUnit(s)
  /\ \/ /\ sender[s].at = "checked" /\ sender'[s].at = "accepted"
        /\ sender[s].id > sequence.last_id
     \/ sender[s].at = "accepted" /\ sender'[s].at = "admitted"

Writes(s) ==
  LET c == sender[s].channel
  IN  /\ UNCHANGED <<media, sequence>>
      /\ SameUnit(s)
      /\ sender[s].at = "admitted" /\ sender'[s].at = "written"
      /\ sender'[s].record = Len(wire[c]) + 1
      /\ \E w \in Record : /\ w.kind = "media" /\ w.id = sender[s].id
                           /\ wire' = [wire EXCEPT ![c] = Append(wire[c], w)]

Merges(s) ==
  /\ UNCHANGED <<wire, media>>
  /\ SameUnit(s) /\ sender'[s].record = sender[s].record
  /\ sender[s].at = "written" /\ sender'[s].at = "merged"
  /\ sequence'.last_id = Larger(sequence.last_id, sender[s].id)

Finishes(s) ==
  LET c == sender[s].channel
  IN  /\ UNCHANGED <<wire, sequence>>
      /\ sender[s].at = "merged" /\ sender'[s].at = "idle"
      /\ \E m \in MediaState : /\ m.last_sequence = sender[s].record
                               /\ m.eos = media[c].eos
                               /\ media' = [media EXCEPT ![c] = m]

Closes(s) ==
  LET c == sender[s].channel
  IN  /\ UNCHANGED sequence
      /\ sender[s].at = "eos" /\ sender'[s].at = "idle"
      /\ \E m \in MediaState : m.eos /\ media' = [media EXCEPT ![c] = m]
      /\ \E w \in Record : /\ w.kind = "eos" /\ w.id = 0
                           /\ w.last = sender[s].record
                           /\ wire' = [wire EXCEPT ![c] = Append(wire[c], w)]

LEMMA StartsEffect ==
  ASSUME TypeOK, NEW s \in Senders, NEW c \in Channels, ~InFlight(s),
         \/ BeginEos(s, c)
         \/ \E id, e, base : \E recovery \in BOOLEAN :
              Validates(s, c, id, e, recovery, base)
  PROVE  Starts(s)
<1>1. CASE BeginEos(s, c)
  <2>1. sender'[s] = [SenderIdle EXCEPT !.at = "eos", !.channel = c,
                        !.epoch = sequence.last_epoch,
                        !.record = media[c].last_sequence]
    BY <1>1 DEF BeginEos, TypeOK
  <2>2. /\ sender'[s].at = "eos" /\ sender'[s].channel = c
        /\ sender'[s].record = media[c].last_sequence
    BY <2>1 DEF SenderIdle
  <2>3. UNCHANGED <<wire, media, sequence>> /\ SendOrderFree(c) /\ ~media[c].eos
    BY <1>1 DEF BeginEos
  <2>4. QED
    BY <2>2, <2>3 DEF Starts
<1>2. ASSUME NEW id, NEW e, NEW base, NEW recovery \in BOOLEAN,
             Validates(s, c, id, e, recovery, base)
      PROVE  Starts(s)
  <2>1. sender'[s].at = "checked" /\ sender'[s].channel = c
    BY <1>2, ValidatesStage
  <2>2. UNCHANGED <<wire, media, sequence>> /\ SendOrderFree(c) /\ ~media[c].eos
    BY <1>2 DEF Validates, Admissible
  <2>3. QED
    BY <2>1, <2>2 DEF Starts
<1>3. QED
  BY <1>1, <1>2

LEMMA PreparesEffect ==
  ASSUME TypeOK, NEW s \in Senders, AcceptId(s) \/ AdmitRecord(s)
  PROVE  Prepares(s)
<1>1. CASE AcceptId(s)
  <2>1. sender'[s] = [sender[s] EXCEPT !.at = "accepted"]
        /\ sender[s].at = "checked" /\ sender[s] \in SendState
    BY <1>1 DEF AcceptId, TypeOK
  <2>2. UNCHANGED <<wire, media, sequence>> /\ sender[s].id > sequence.last_id
    BY <1>1 DEF AcceptId, Accepts
  <2>3. QED
    BY <2>1, <2>2 DEF Prepares, SameUnit, SendState
<1>2. CASE AdmitRecord(s)
  <2>1. sender'[s] = [sender[s] EXCEPT !.at = "admitted"]
        /\ sender[s].at = "accepted" /\ sender[s] \in SendState
    BY <1>2 DEF AdmitRecord, TypeOK
  <2>2. UNCHANGED <<wire, media, sequence>>
    BY <1>2 DEF AdmitRecord
  <2>3. QED
    BY <2>1, <2>2 DEF Prepares, SameUnit, SendState
<1>3. QED
  BY <1>1, <1>2

LEMMA WritesEffect ==
  ASSUME TypeOK, NEW s \in Senders, WriteRecord(s)
  PROVE  Writes(s)
<1> DEFINE c == sender[s].channel
           w == [kind |-> "media", id |-> sender[s].id,
                 epoch |-> sender[s].epoch, recovery |-> sender[s].recovery,
                 base |-> sender[s].base, revision |-> sender[s].revision,
                 last |-> 0]
<1>1. /\ sender'[s] = [sender[s] EXCEPT !.at = "written",
                         !.record = Len(wire[c]) + 1]
      /\ sender[s].at = "admitted" /\ sender[s] \in SendState
  BY DEF WriteRecord, TypeOK
<1>2. w \in Record /\ w.kind = "media" /\ w.id = sender[s].id
  BY <1>1 DEF SendState, Record
<1>3. /\ wire' = [wire EXCEPT ![c] = Append(wire[c], w)]
      /\ UNCHANGED <<media, sequence>>
  BY Zenon DEF WriteRecord
<1> HIDE DEF w
<1>4. SameUnit(s) /\ sender'[s].at = "written"
      /\ sender'[s].record = Len(wire[c]) + 1
  BY <1>1 DEF SameUnit, SendState
<1>5. QED
  BY <1>1, <1>2, <1>3, <1>4 DEF Writes

LEMMA MergesEffect ==
  ASSUME TypeOK, NEW s \in Senders, MergeSequence(s)
  PROVE  Merges(s)
<1>1. sender'[s] = [sender[s] EXCEPT !.at = "merged"]
      /\ sender[s].at = "written" /\ sender[s] \in SendState
  BY DEF MergeSequence, TypeOK
<1>2. UNCHANGED <<wire, media>>
      /\ sequence'.last_id = Larger(sequence.last_id, sender[s].id)
  BY DEF MergeSequence
<1>3. QED
  BY <1>1, <1>2 DEF Merges, SameUnit, SendState

LEMMA FinishesEffect ==
  ASSUME TypeOK, NEW s \in Senders, FinishSend(s)
  PROVE  Finishes(s)
<1> DEFINE c == sender[s].channel
           b == media[c].needs_recovery /\ ~Recovered(s)
           e == IF Recovered(s) THEN sender[s].epoch
                ELSE media[c].minimum_recovery_epoch
           m == [media[c] EXCEPT !.last_sequence = sender[s].record,
                   !.needs_recovery = b, !.minimum_recovery_epoch = e]
<1>1. c \in Channels /\ sender[s] \in SendState /\ sender[s].at = "merged"
  BY DEF FinishSend, TypeOK
<1>2. sender[s].record \in Nat /\ e \in Nat /\ b \in BOOLEAN
  BY <1>1, MediaFields DEF SendState
<1>3. media[c] \in MediaState
  BY <1>1 DEF TypeOK
<1>4. media' = [media EXCEPT ![c] = m]
  BY DEF FinishSend
<1> HIDE DEF b, e
<1>5. m \in MediaState /\ m.last_sequence = sender[s].record
      /\ m.eos = media[c].eos
  BY <1>2, <1>3 DEF MediaState
<1>6. sender'[s].at = "idle" /\ UNCHANGED <<wire, sequence>>
  BY DEF FinishSend, EndsSend, SenderIdle, TypeOK
<1> HIDE DEF m
<1>7. QED
  BY <1>1, <1>4, <1>5, <1>6 DEF Finishes

LEMMA ClosesEffect ==
  ASSUME TypeOK, NEW s \in Senders, WriteEos(s)
  PROVE  Closes(s)
<1> DEFINE c == sender[s].channel
           w == [kind |-> "eos", id |-> 0, epoch |-> sender[s].epoch,
                 recovery |-> FALSE, base |-> 0, revision |-> 0,
                 last |-> sender[s].record]
           m == [media[c] EXCEPT !.eos = TRUE]
<1>1. c \in Channels /\ sender[s] \in SendState /\ sender[s].at = "eos"
  BY DEF WriteEos, TypeOK
<1>2. w \in Record /\ w.kind = "eos" /\ w.id = 0 /\ w.last = sender[s].record
  BY <1>1 DEF SendState, Record
<1>3. media[c] \in MediaState
  BY <1>1 DEF TypeOK
<1>4. m \in MediaState /\ m.eos
  BY <1>3 DEF MediaState
<1>5. /\ wire' = [wire EXCEPT ![c] = Append(wire[c], w)]
      /\ media' = [media EXCEPT ![c] = m]
  BY Zenon DEF WriteEos
<1>6. sender'[s].at = "idle" /\ UNCHANGED sequence
  BY DEF WriteEos, SenderIdle, TypeOK
<1> HIDE DEF w, m
<1>7. QED
  BY <1>1, <1>2, <1>4, <1>5, <1>6 DEF Closes

LEMMA SendEffects ==
  ASSUME TypeOK, NEW s \in Senders, Send(s)
  PROVE  \/ Rests(s) \/ Starts(s) \/ Prepares(s) \/ Writes(s)
         \/ Merges(s) \/ Finishes(s) \/ Closes(s)
<1>1. ASSUME NEW c \in Channels, PlanDelta(s, c) PROVE Rests(s)
  <2>1. sender'[s].at = "planned"
    BY <1>1 DEF PlanDelta, SenderIdle, TypeOK
  <2>2. QED
    BY <1>1, <2>1 DEF PlanDelta, Rests
<1>2. CASE SendFails(s) \/ \E e \in Epochs : DeltaRefused(s, e)
  <2>1. /\ UNCHANGED <<wire, media, sequence>>
        /\ sender[s].at \notin {"written", "merged"}
        /\ sender' = [sender EXCEPT ![s] = SenderIdle]
    BY <1>2 DEF SendFails, DeltaRefused, EndsSend
  <2>2. sender'[s].at = "idle"
    BY <2>1 DEF SenderIdle, TypeOK
  <2>3. QED
    BY <2>1, <2>2 DEF Rests
<1>3. ASSUME NEW id \in Ids, NEW e \in Epochs, SendDelta(s, id, e)
      PROVE  Starts(s)
  BY <1>3, StartsEffect DEF SendDelta, InFlight, TypeOK
<1>4. ASSUME NEW c \in Channels, NEW id \in Ids, NEW e \in Epochs,
             NEW recovery \in BOOLEAN, BeginSend(s, c, id, e, recovery)
      PROVE  Starts(s)
  BY <1>4, StartsEffect DEF BeginSend, InFlight
<1>5. ASSUME NEW c \in Channels, BeginEos(s, c) PROVE Starts(s)
  BY <1>5, StartsEffect DEF BeginEos, InFlight
<1>6. QED
  BY <1>1, <1>2, <1>3, <1>4, <1>5, PreparesEffect, WritesEffect,
     MergesEffect, FinishesEffect, ClosesEffect DEF Send

\* What a step that is no send does: the shared identifier never decreases,
\* and a media state is only replaced on a channel not used yet.
Fresh(c) == /\ ~media'[c].eos /\ media'[c].last_sequence = 0
            /\ wire[c] = <<>>
            /\ \A t \in Senders : InFlight(t) => sender[t].channel # c

LEMMA FreshChannel ==
  ASSUME TypeOK, UnusedIsSilent, NEW k \in Controllers, OpenCreates(k),
         NEW c \in Channels, media'[c] # media[c]
  PROVE  Fresh(c)
<1>1. chan[c].state = "unused" /\ media'[c] = NewMedia(sequence.last_epoch)
  BY DEF OpenCreates, TypeOK
<1>2. QED
  BY <1>1 DEF UnusedIsSilent, Fresh, NewMedia, InFlight

MediaKept(c) == /\ media'[c].eos = media[c].eos
                /\ media'[c].last_sequence = media[c].last_sequence

LEMMA FlushKeepsMedia ==
  ASSUME TypeOK, NEW k \in Controllers, FlushResets(k), NEW c \in Channels
  PROVE  MediaKept(c)
<1>1. CASE media'[c] = media[c]
  BY <1>1 DEF MediaKept
<1>2. CASE media'[c] # media[c]
  <2>1. media'[c] = [media[c] EXCEPT !.needs_recovery = TRUE,
                       !.minimum_recovery_epoch = call[k].epoch]
        /\ media[c] \in MediaState
    <3>1. media' = [media EXCEPT ![call[k].channel] =
                     [@ EXCEPT !.needs_recovery = TRUE,
                               !.minimum_recovery_epoch = call[k].epoch]]
      BY <1>2 DEF FlushResets
    <3>2. QED
      BY <1>2, <3>1 DEF TypeOK
  <2>2. QED
    BY <2>1 DEF MediaKept, MediaState
<1>3. QED
  BY <1>1, <1>2

LEMMA RequestKeepsMedia ==
  ASSUME TypeOK, NEW d \in Channels, NEW c \in Channels,
         NeedFullFrame(d) \/ \E e \in Epochs : NeedKeyframe(d, e)
  PROVE  MediaKept(c)
<1>1. CASE media'[c] = media[c]
  BY <1>1 DEF MediaKept
<1>2. CASE media'[c] # media[c]
  <2>1. media[c] \in MediaState /\ c = d
    BY <1>2 DEF NeedFullFrame, NeedKeyframe, TypeOK
  <2>2. CASE NeedFullFrame(d)
    <3>1. media'[c] = [media[c] EXCEPT
                         !.recovery_revision = media[c].recovery_revision + 1,
                         !.needs_recovery = TRUE]
      BY <2>1, <2>2 DEF NeedFullFrame, TypeOK
    <3>2. QED
      BY <2>1, <3>1 DEF MediaKept, MediaState
  <2>3. ASSUME NEW e \in Epochs, NeedKeyframe(d, e) PROVE MediaKept(c)
    <3>1. media'[c] = [media[c] EXCEPT
                         !.recovery_revision = media[c].recovery_revision + 1,
                         !.needs_recovery = TRUE,
                         !.minimum_recovery_epoch =
                           Larger(media[c].minimum_recovery_epoch, e)]
      BY <2>1, <2>3 DEF NeedKeyframe, TypeOK
    <3>2. QED
      BY <2>1, <3>1 DEF MediaKept, MediaState
  <2>4. QED
    BY <2>2, <2>3
<1>3. QED
  BY <1>1, <1>2

LEMMA SequenceMonotone ==
  ASSUME TypeOK, NEW k \in Controllers, Control(k)
  PROVE  sequence.last_id <= sequence'.last_id
<1>1. sequence.last_id \in Nat /\ sequence \in Sequence
  BY DEF TypeOK, Sequence
<1>2. CASE QueryReturn(k)
  <2>1. sequence'.last_id = Larger(sequence.last_id, call[k].answer.id)
    BY <1>2 DEF QueryReturn, Reconciled
  <2>2. call[k].answer.id \in Nat
    BY DEF TypeOK, CallState, Answer
  <2>3. QED
    BY <1>1, <2>1, <2>2 DEF Larger
<1>3. CASE AdvanceReturn(k) \/ FlushReturn(k)
  <2>1. sequence'.last_id = sequence.last_id
    BY <1>1, <1>3 DEF AdvanceReturn, FlushReturn, Sequence
  <2>2. QED
    BY <1>1, <2>1
<1>4. CASE sequence' = sequence
  BY <1>1, <1>4
<1>5. QED
  BY <1>2, <1>3, <1>4
     DEF Control, Create, Query, Advance, Flush, Destroy, Open, CreateCall,
         QueryCall, AdvanceCall, DestroyCall, OpenCall, FlushCall, Calls,
         CreateAnswer, AdvanceAnswer, FlushAnswer, DestroyAnswer, OpenAnswer,
         QueryAnswer, PresenterDoes, CreateReturn, AdvanceCloses, FlushResets,
         DestroyReturn, DestroyCloses, OpenAccepted, OpenCreates,
         OpenInstalls, OpenRefused, RequestFails

\* A step of a controller, a reader or nobody.
OtherStep == \/ \E k \in Controllers : Control(k)
             \/ \E c \in Channels : Reverse(c)
             \/ TrackLost
             \/ UNCHANGED vars

LEMMA OthersKeepOrder ==
  ASSUME TypeOK, UnusedIsSilent, OtherStep
  PROVE  /\ UNCHANGED <<wire, sender>>
         /\ sequence.last_id <= sequence'.last_id
         /\ \A c \in Channels : MediaKept(c) \/ Fresh(c)
<1>1. sequence.last_id \in Nat
  BY DEF TypeOK, Sequence
<1>2. UNCHANGED <<wire, sender>>
  BY ControlKeeps, ReverseKeeps DEF OtherStep, TrackLost, vars
<1>3. sequence.last_id <= sequence'.last_id
  <2>1. ASSUME NEW c \in Channels, Reverse(c) PROVE sequence' = sequence
    BY <2>1 DEF Reverse, NeedKeyframe, NeedFullFrame, Close
  <2>2. QED
    BY <1>1, <2>1, SequenceMonotone DEF OtherStep, TrackLost, vars
<1>4. ASSUME NEW c \in Channels PROVE MediaKept(c) \/ Fresh(c)
  <2>1. media'[c] = media[c] => MediaKept(c)
    BY DEF MediaKept
  <2>2. QED
    BY <2>1, ControlKeeps, ReverseKeeps, FreshChannel, FlushKeepsMedia,
       RequestKeepsMedia DEF OtherStep, TrackLost, vars
<1>5. QED
  BY <1>2, <1>3, <1>4

LEMMA StepSplit == ASSUME [Next]_vars
                   PROVE  OtherStep \/ \E s \in Senders : Send(s)
BY DEF Next, OtherStep

\* A send leaves every channel but its own alone, and so every other send.
LEMMA OtherChannels ==
  ASSUME TypeOK, NEW s \in Senders, Send(s), NEW c \in Channels,
         c # sender[s].channel
  PROVE  wire'[c] = wire[c] /\ media'[c] = media[c]
<1>1. CASE Rests(s) \/ Starts(s) \/ Prepares(s) \/ Merges(s)
  BY <1>1 DEF Rests, Starts, Prepares, Merges
<1>2. CASE Writes(s)
  BY <1>2 DEF Writes, TypeOK
<1>3. CASE Finishes(s)
  BY <1>3 DEF Finishes, TypeOK
<1>4. CASE Closes(s)
  BY <1>4 DEF Closes, TypeOK
<1>5. QED
  BY <1>1, <1>2, <1>3, <1>4, SendEffects

LEMMA OtherSends ==
  ASSUME WireInv, NEW s \in Senders, Send(s),
         NEW t \in Senders, t # s, InFlight(t)
  PROVE  /\ wire'[sender[t].channel] = wire[sender[t].channel]
         /\ media'[sender[t].channel] = media[sender[t].channel]
<1>1. TypeOK /\ sender[t].channel \in Channels
  BY DEF WireInv, TypeOK, InFlight
<1>2. CASE InFlight(s)
  BY <1>1, <1>2, OtherChannels DEF WireInv, OneSender
<1>3. CASE ~InFlight(s)
  BY <1>1, <1>3, SendEffects
     DEF Rests, Starts, Prepares, Writes, Merges, Finishes, Closes, InFlight
<1>4. QED
  BY <1>2, <1>3

-----------------------------------------------------------------------------
(* The parts of WireInv, one lemma each.                                   *)

LEMMA OneSenderStep == WireInv /\ [Next]_vars => OneSender'
<1> SUFFICES ASSUME WireInv, [Next]_vars PROVE OneSender'
  OBVIOUS
<1>1. ASSUME NEW s \in Senders, Send(s) PROVE OneSender'
  <2>1. ASSUME NEW t \in Senders, t # s, InFlight(t), InFlight(s)',
               sender'[s].channel = sender[t].channel
        PROVE  FALSE
    <3>1. CASE Starts(s)
      BY <2>1, <3>1 DEF Starts, SendOrderFree, InFlight
    <3>2. CASE Prepares(s) \/ Writes(s) \/ Merges(s)
      BY <2>1, <3>2
         DEF Prepares, Writes, Merges, SameUnit, WireInv, OneSender, InFlight
    <3>3. CASE Rests(s) \/ Finishes(s) \/ Closes(s)
      BY <2>1, <3>3 DEF Rests, Finishes, Closes, InFlight
    <3>4. QED
      BY <1>1, <3>1, <3>2, <3>3, SendEffects DEF WireInv
  <2>2. \A t \in Senders : t # s => sender'[t] = sender[t]
    BY <1>1, OtherSendersKept DEF WireInv
  <2>3. QED
    BY <2>1, <2>2 DEF OneSender, WireInv, InFlight
<1>2. CASE sender' = sender
  BY <1>2 DEF WireInv, OneSender, InFlight
<1>3. QED
  BY <1>1, <1>2, StepSplit, OthersKeepOrder DEF WireInv

LEMMA RecordIds ==
  ASSUME NEW q \in Seq(Record), NEW n \in DOMAIN q
  PROVE  q[n].id \in Nat
<1>1. q[n] \in Record
  OBVIOUS
<1>2. QED
  BY <1>1 DEF Record

\* One send's part of SendsInStep.
InStep(s) ==
  LET c == sender[s].channel
  IN  /\ InFlight(s) => ~media[c].eos
      /\ sender[s].at \in {"accepted", "admitted"} =>
           \A n \in DOMAIN wire[c] : wire[c][n].id < sender[s].id
      /\ sender[s].at \in {"written", "merged", "eos"} =>
           sender[s].record = Len(wire[c])
      /\ sender[s].at = "written" =>
           Len(wire[c]) > 0 /\ wire[c][Len(wire[c])].id = sender[s].id

\* Before a send writes, every record of its channel is in the sequence.
LEMMA WireBelowSequence ==
  ASSUME WireInv, NEW c \in Channels,
         \A t \in Senders : sender[t].channel = c => sender[t].at # "written"
  PROVE  \A n \in DOMAIN wire[c] : wire[c][n].id <= sequence.last_id
BY DEF WireInv, WireInOrder, SequenceCoversWire

LEMMA OwnSendStep ==
  ASSUME WireInv, NEW s \in Senders, Send(s) PROVE InStep(s)'
<1> DEFINE c == sender[s].channel
<1>1. TypeOK /\ (InFlight(s) => c \in Channels /\ wire[c] \in Seq(Record))
  BY DEF WireInv, TypeOK, InFlight
<1>2. InStep(s)
  BY DEF WireInv, SendsInStep, InStep
<1>3. CASE Rests(s) \/ Finishes(s) \/ Closes(s)
  BY <1>3 DEF Rests, Finishes, Closes, InStep, InFlight
<1>4. CASE Starts(s)
  <2> DEFINE d == sender'[s].channel
  <2>1. /\ d \in Channels /\ SendOrderFree(d) /\ ~media[d].eos
        /\ sender'[s].at \in {"checked", "eos"}
        /\ sender'[s].at = "eos" => sender'[s].record = media[d].last_sequence
        /\ UNCHANGED <<wire, media>>
    BY <1>4 DEF Starts
  <2>2. media[d].last_sequence = Len(wire[d])
    BY <2>1 DEF WireInv, MediaInStep, SendOrderFree
  <2>3. QED
    BY <2>1, <2>2 DEF InStep, InFlight
<1>5. CASE Prepares(s)
  <2>1. InFlight(s) /\ UNCHANGED <<wire, media>> /\ SameUnit(s)
    BY <1>5 DEF Prepares, InFlight
  <2>2. ASSUME sender[s].at = "checked", NEW n \in DOMAIN wire[c]
        PROVE  wire[c][n].id < sender[s].id
    <3>1. \A t \in Senders : sender[t].channel = c => sender[t].at # "written"
      BY <2>1, <2>2 DEF WireInv, OneSender, InFlight
    <3>2. wire[c][n].id <= sequence.last_id
      BY <1>1, <2>1, <3>1, WireBelowSequence
    <3>3. sender[s].id > sequence.last_id
      BY <1>5, <2>2 DEF Prepares
    <3>4. /\ wire[c][n].id \in Nat /\ sequence.last_id \in Nat
          /\ sender[s].id \in Nat
      BY <1>1, <2>1, <2>2, RecordIds DEF TypeOK, Sequence, SendState
    <3>5. QED
      BY <3>2, <3>3, <3>4
  <2>3. QED
    BY <1>2, <1>5, <2>1, <2>2 DEF Prepares, InStep, InFlight, SameUnit
<1>6. CASE Writes(s)
  <2>1. PICK w \in Record : /\ w.id = sender[s].id
                            /\ wire' = [wire EXCEPT ![c] = Append(wire[c], w)]
    BY <1>6 DEF Writes
  <2>2. InFlight(s) /\ c \in Channels /\ wire[c] \in Seq(Record)
    BY <1>1, <1>6 DEF Writes, InFlight
  <2>3. wire'[c] = Append(wire[c], w)
    BY <2>1, <2>2 DEF WireInv, TypeOK
  <2>4. /\ Len(wire'[c]) = Len(wire[c]) + 1 /\ Len(wire'[c]) > 0
        /\ wire'[c][Len(wire'[c])] = w
    BY <2>2, <2>3
  <2>5. /\ sender'[s].channel = c /\ sender'[s].id = sender[s].id
        /\ sender'[s].at = "written" /\ media' = media
        /\ sender'[s].record = Len(wire[c]) + 1
    BY <1>6 DEF Writes, SameUnit
  <2>6. QED
    BY <1>2, <2>1, <2>2, <2>4, <2>5 DEF InStep, InFlight
<1>7. CASE Merges(s)
  BY <1>2, <1>7 DEF Merges, SameUnit, InStep, InFlight
<1>8. QED
  BY <1>1, <1>3, <1>4, <1>5, <1>6, <1>7, SendEffects

LEMMA SendsStep == WireInv /\ [Next]_vars => SendsInStep'
<1> SUFFICES ASSUME WireInv, [Next]_vars, NEW t \in Senders PROVE InStep(t)'
  BY DEF SendsInStep, InStep
<1>1. InStep(t) /\ TypeOK /\ UnusedIsSilent
  BY DEF WireInv, SendsInStep, InStep
<1>2. ASSUME NEW s \in Senders, Send(s) PROVE InStep(t)'
  <2>1. CASE t = s
    BY <1>2, <2>1, OwnSendStep
  <2>2. CASE t # s
    <3>1. sender'[t] = sender[t]
      BY <1>1, <1>2, <2>2, OtherSendersKept
    <3>2. QED
      BY <1>1, <1>2, <2>2, <3>1, OtherSends DEF InStep, InFlight
  <2>3. QED
    BY <2>1, <2>2
<1>3. CASE OtherStep
  <2>1. UNCHANGED <<wire, sender>>
    BY <1>1, <1>3, OthersKeepOrder
  <2>2. InFlight(t) => sender[t].channel \in Channels
    BY <1>1 DEF InFlight, TypeOK
  <2>3. InFlight(t) => media'[sender[t].channel].eos = media[sender[t].channel].eos
    BY <1>1, <1>3, <2>2, OthersKeepOrder DEF MediaKept, Fresh
  <2>4. QED
    BY <1>1, <2>1, <2>3 DEF InStep, InFlight
<1>4. QED
  BY <1>2, <1>3, StepSplit

LEMMA MediaStep == WireInv /\ [Next]_vars => MediaInStep'
<1> SUFFICES ASSUME WireInv, [Next]_vars, NEW c \in Channels, ~media'[c].eos
             PROVE  /\ \A n \in DOMAIN wire'[c] : wire'[c][n].kind = "media"
                    /\ \/ media'[c].last_sequence = Len(wire'[c])
                       \/ \E t \in Senders :
                            /\ sender'[t].channel = c
                            /\ sender'[t].at \in {"written", "merged"}
  BY DEF MediaInStep
<1>1. TypeOK /\ UnusedIsSilent /\ wire[c] \in Seq(Record)
  BY DEF WireInv, TypeOK
<1>2. ~media[c].eos =>
        /\ \A n \in DOMAIN wire[c] : wire[c][n].kind = "media"
        /\ \/ media[c].last_sequence = Len(wire[c])
           \/ \E t \in Senders : /\ sender[t].channel = c
                                 /\ sender[t].at \in {"written", "merged"}
  BY DEF WireInv, MediaInStep
<1>3. CASE OtherStep
  <2>1. UNCHANGED <<wire, sender>>
    BY <1>1, <1>3, OthersKeepOrder
  <2>2. CASE MediaKept(c)
    BY <1>2, <2>1, <2>2 DEF MediaKept
  <2>3. CASE Fresh(c)
    BY <2>1, <2>3 DEF Fresh
  <2>4. QED
    BY <1>1, <1>3, <2>2, <2>3, OthersKeepOrder
<1>4. ASSUME NEW s \in Senders, Send(s)
      PROVE  /\ \A n \in DOMAIN wire'[c] : wire'[c][n].kind = "media"
             /\ \/ media'[c].last_sequence = Len(wire'[c])
                \/ \E t \in Senders : /\ sender'[t].channel = c
                                      /\ sender'[t].at \in {"written", "merged"}
  <2>1. \A t \in Senders : t # s => sender'[t] = sender[t]
    BY <1>1, <1>4, OtherSendersKept
  <2>2. CASE c # sender[s].channel
    BY <1>1, <1>2, <1>4, <2>1, <2>2, OtherChannels
  <2>3. CASE Rests(s) \/ Starts(s) \/ Prepares(s)
    <3>1. UNCHANGED <<wire, media>> /\ sender[s].at \notin {"written", "merged"}
      BY <2>3 DEF Rests, Starts, Prepares, InFlight
    <3>2. QED
      BY <1>2, <2>1, <3>1
  <2>4. CASE Writes(s) /\ c = sender[s].channel
    <3>1. PICK w \in Record : /\ w.kind = "media"
                              /\ wire' = [wire EXCEPT ![c] = Append(wire[c], w)]
      BY <2>4 DEF Writes
    <3>2. wire'[c] = Append(wire[c], w)
      BY <1>1, <3>1 DEF TypeOK
    <3>3. ~media[c].eos /\ sender'[s].channel = c /\ sender'[s].at = "written"
      BY <2>4 DEF Writes, SameUnit
    <3>4. QED
      BY <1>1, <1>2, <3>1, <3>2, <3>3
  <2>5. CASE Merges(s) /\ c = sender[s].channel
    BY <1>2, <2>5 DEF Merges, SameUnit
  <2>6. CASE Finishes(s) /\ c = sender[s].channel
    <3>1. PICK m \in MediaState : /\ m.last_sequence = sender[s].record
                                  /\ m.eos = media[c].eos
                                  /\ media' = [media EXCEPT ![c] = m]
      BY <2>6 DEF Finishes
    <3>2. media'[c] = m /\ wire' = wire
      BY <1>1, <2>6, <3>1 DEF Finishes, TypeOK
    <3>3. sender[s].record = Len(wire[c])
      BY <2>6 DEF Finishes, WireInv, SendsInStep
    <3>4. QED
      BY <1>2, <3>1, <3>2, <3>3
  <2>7. CASE Closes(s) /\ c = sender[s].channel
    BY <1>1, <2>7 DEF Closes, TypeOK
  <2>8. QED
    BY <1>1, <1>4, <2>2, <2>3, <2>4, <2>5, <2>6, <2>7, SendEffects
<1>5. QED
  BY <1>3, <1>4, StepSplit

\* The record a step adds to the wire of c, and who added it.
LEMMA RecordAdded ==
  ASSUME WireInv, [Next]_vars, NEW c \in Channels
  PROVE  \/ wire'[c] = wire[c]
         \/ \E s \in Senders, w \in Record :
              /\ Send(s) /\ sender[s].channel = c /\ wire'[c] = Append(wire[c], w)
              /\ \/ Writes(s) /\ w.kind = "media" /\ w.id = sender[s].id
                 \/ /\ Closes(s) /\ w.kind = "eos" /\ w.id = 0
                    /\ w.last = sender[s].record
<1> DEFINE Added == \E s \in Senders, w \in Record :
              /\ Send(s) /\ sender[s].channel = c /\ wire'[c] = Append(wire[c], w)
              /\ \/ Writes(s) /\ w.kind = "media" /\ w.id = sender[s].id
                 \/ /\ Closes(s) /\ w.kind = "eos" /\ w.id = 0
                    /\ w.last = sender[s].record
<1>1. TypeOK /\ UnusedIsSilent
  BY DEF WireInv
<1>2. ASSUME NEW s \in Senders, Send(s), wire'[c] # wire[c] PROVE Added
  <2>1. sender[s].channel = c
    BY <1>1, <1>2, OtherChannels
  <2>2. CASE Writes(s)
    <3>1. PICK w \in Record : /\ w.kind = "media" /\ w.id = sender[s].id
                              /\ wire' = [wire EXCEPT ![c] = Append(wire[c], w)]
      BY <2>1, <2>2 DEF Writes
    <3>2. wire'[c] = Append(wire[c], w)
      BY <1>1, <3>1 DEF TypeOK
    <3>3. QED
      BY <1>2, <2>1, <2>2, <3>1, <3>2
  <2>3. CASE Closes(s)
    <3>1. PICK w \in Record : /\ w.kind = "eos" /\ w.id = 0
                              /\ w.last = sender[s].record
                              /\ wire' = [wire EXCEPT ![c] = Append(wire[c], w)]
      BY <2>1, <2>3 DEF Closes
    <3>2. wire'[c] = Append(wire[c], w)
      BY <1>1, <3>1 DEF TypeOK
    <3>3. QED
      BY <1>2, <2>1, <2>3, <3>1, <3>2
  <2>4. QED
    BY <1>1, <1>2, <2>2, <2>3, SendEffects
       DEF Rests, Starts, Prepares, Merges, Finishes
<1> HIDE DEF Added
<1>3. OtherStep => wire'[c] = wire[c]
  BY <1>1, OthersKeepOrder
<1>4. wire'[c] = wire[c] \/ Added
  BY <1>2, <1>3, StepSplit
<1>5. QED
  BY <1>4 DEF Added

LEMMA IdsStep == WireInv /\ [Next]_vars => WireIdsIncrease'
<1> SUFFICES ASSUME WireInv, [Next]_vars, NEW c \in Channels,
                    NEW m \in DOMAIN wire'[c], NEW n \in DOMAIN wire'[c], m < n,
                    wire'[c][m].kind = "media", wire'[c][n].kind = "media"
             PROVE  wire'[c][m].id < wire'[c][n].id
  BY DEF WireIdsIncrease
<1>1. wire[c] \in Seq(Record) /\ WireIdsIncrease
  BY DEF WireInv, TypeOK, WireInOrder
<1>2. CASE wire'[c] = wire[c]
  BY <1>1, <1>2 DEF WireIdsIncrease
<1>3. ASSUME NEW s \in Senders, NEW w \in Record, sender[s].channel = c,
             wire'[c] = Append(wire[c], w),
             \/ Writes(s) /\ w.kind = "media" /\ w.id = sender[s].id
             \/ Closes(s) /\ w.kind = "eos"
      PROVE  wire'[c][m].id < wire'[c][n].id
  <2>1. m \in DOMAIN wire[c] /\ wire'[c][m] = wire[c][m]
    BY <1>1, <1>3
  <2>2. CASE n \in DOMAIN wire[c]
    <3>1. wire'[c][n] = wire[c][n]
      BY <1>1, <1>3, <2>2
    <3>2. QED
      BY <1>1, <2>1, <2>2, <3>1 DEF WireIdsIncrease
  <2>3. CASE n \notin DOMAIN wire[c]
    <3>1. wire'[c][n] = w
      BY <1>1, <1>3, <2>3
    <3>2. Writes(s) /\ w.id = sender[s].id
      BY <1>3, <3>1
    <3>3. wire[c][m].id < sender[s].id
      BY <1>3, <2>1, <3>2 DEF Writes, WireInv, SendsInStep
    <3>4. QED
      BY <2>1, <3>1, <3>2, <3>3
  <2>4. QED
    BY <2>2, <2>3
<1>4. QED
  BY <1>2, <1>3, RecordAdded

LEMMA EosStep == WireInv /\ [Next]_vars => EosClosesStream'
<1> SUFFICES ASSUME WireInv, [Next]_vars, NEW c \in Channels,
                    NEW n \in DOMAIN wire'[c], wire'[c][n].kind = "eos"
             PROVE  n = Len(wire'[c]) /\ wire'[c][n].last = n - 1
  BY DEF EosClosesStream
<1>1. wire[c] \in Seq(Record) /\ EosClosesStream
  BY DEF WireInv, TypeOK, WireInOrder
<1>2. CASE wire'[c] = wire[c]
  BY <1>1, <1>2 DEF EosClosesStream
<1>3. ASSUME NEW s \in Senders, NEW w \in Record, sender[s].channel = c,
             wire'[c] = Append(wire[c], w),
             \/ Writes(s) /\ w.kind = "media"
             \/ Closes(s) /\ w.kind = "eos" /\ w.last = sender[s].record
      PROVE  n = Len(wire'[c]) /\ wire'[c][n].last = n - 1
  <2>1. InFlight(s)
    BY <1>3 DEF Writes, Closes, InFlight
  <2>2. \A i \in DOMAIN wire[c] : wire[c][i].kind = "media"
    BY <1>3, <2>1 DEF WireInv, SendsInStep, MediaInStep
  <2>3. n = Len(wire[c]) + 1 /\ wire'[c][n] = w /\ Len(wire'[c]) = n
    <3>1. n \notin DOMAIN wire[c]
      <4>1. SUFFICES ASSUME n \in DOMAIN wire[c] PROVE FALSE
        OBVIOUS
      <4>2. wire'[c][n] = wire[c][n]
        BY <1>1, <1>3, <4>1
      <4>3. QED
        BY <2>2, <4>1, <4>2
    <3>2. QED
      BY <1>1, <1>3, <3>1
  <2>4. Closes(s) /\ w.last = sender[s].record
    BY <1>3, <2>3
  <2>5. sender[s].record = Len(wire[c])
    BY <1>3, <2>4 DEF Closes, WireInv, SendsInStep
  <2>6. QED
    BY <1>1, <2>3, <2>4, <2>5
<1>4. QED
  BY <1>2, <1>3, RecordAdded

LEMMA LastIdMonotone ==
  WireInv /\ [Next]_vars => sequence.last_id <= sequence'.last_id
<1> SUFFICES ASSUME WireInv, [Next]_vars
             PROVE  sequence.last_id <= sequence'.last_id
  OBVIOUS
<1>1. TypeOK /\ UnusedIsSilent /\ sequence.last_id \in Nat
  BY DEF WireInv, TypeOK, Sequence
<1>2. ASSUME NEW s \in Senders, Send(s) PROVE sequence.last_id <= sequence'.last_id
  <2>1. CASE Merges(s)
    <3>1. sender[s].id \in Nat
      BY <1>1 DEF TypeOK, SendState
    <3>2. QED
      BY <1>1, <2>1, <3>1 DEF Merges, Larger
  <2>2. CASE sequence' = sequence
    BY <1>1, <2>2
  <2>3. QED
    BY <1>1, <1>2, <2>1, <2>2, SendEffects
       DEF Rests, Starts, Prepares, Writes, Finishes, Closes
<1>3. QED
  BY <1>1, <1>2, StepSplit, OthersKeepOrder

LEMMA CoversStep == WireInv /\ [Next]_vars => SequenceCoversWire'
<1> SUFFICES ASSUME WireInv, [Next]_vars PROVE SequenceCoversWire'
  OBVIOUS
<1>0. /\ TypeOK /\ TypeOK' /\ UnusedIsSilent
      /\ sequence.last_id \in Nat /\ sequence'.last_id \in Nat
      /\ sequence.last_id <= sequence'.last_id
  BY StepTyped, LastIdMonotone DEF WireInv, TypeOK, Sequence
<1> SUFFICES ASSUME NEW c \in Channels,
                    NEW n \in DOMAIN wire'[c], wire'[c][n].id > sequence'.last_id
             PROVE  \E t \in Senders : /\ sender'[t].at = "written"
                                       /\ sender'[t].channel = c
                                       /\ sender'[t].record = n
  <2>1. \A d \in Channels : wire'[d] \in Seq(Record)
    BY <1>0 DEF TypeOK
  <2>2. \A d \in Channels : \A i \in DOMAIN wire'[d] : wire'[d][i].id \in Nat
    BY <2>1, RecordIds
  <2>3. QED
    BY <1>0, <2>2 DEF SequenceCoversWire
<1>1. wire[c] \in Seq(Record)
  BY <1>0 DEF TypeOK
\* A record that was on the wire before the step.
<1>2. ASSUME n \in DOMAIN wire[c], wire'[c][n] = wire[c][n]
      PROVE  \E t \in Senders : /\ sender'[t].at = "written"
                                /\ sender'[t].channel = c
                                /\ sender'[t].record = n
  <2>1. wire[c][n].id \in Nat
    BY <1>0, <1>1, <1>2, RecordIds
  <2>2. PICK t \in Senders : /\ sender[t].at = "written"
                             /\ sender[t].channel = c /\ sender[t].record = n
    BY <1>0, <1>1, <1>2, <2>1 DEF WireInv, WireInOrder, SequenceCoversWire
  <2>3. CASE sender'[t] = sender[t]
    BY <2>2, <2>3
  <2>4. CASE Send(t)
    <3>1. Merges(t)
      BY <1>0, <1>1, <2>2, <2>4, SendEffects
         DEF Rests, Starts, Prepares, Writes, Finishes, Closes, InFlight
    <3>2. wire[c][n].id = sender[t].id
      BY <2>2 DEF WireInv, SendsInStep
    <3>3. wire[c][n].id <= sequence'.last_id
      BY <1>0, <1>1, <2>1, <3>1, <3>2 DEF Merges, Larger
    <3>4. QED
      BY <1>0, <1>1, <1>2, <2>1, <3>3
  <2>5. QED
    BY <1>0, <1>1, <2>3, <2>4, StepSplit, OthersKeepOrder, OtherSendersKept
\* The record written in the step.
<1>3. ASSUME NEW s \in Senders, NEW w \in Record, Send(s),
             sender[s].channel = c, wire'[c] = Append(wire[c], w),
             Writes(s) \/ (Closes(s) /\ w.id = 0)
      PROVE  \E t \in Senders : /\ sender'[t].at = "written"
                                /\ sender'[t].channel = c
                                /\ sender'[t].record = n
  <2>1. CASE n \in DOMAIN wire[c]
    BY <1>0, <1>1, <1>2, <1>3, <2>1
  <2>2. CASE n \notin DOMAIN wire[c]
    <3>1. n = Len(wire[c]) + 1 /\ wire'[c][n] = w
      BY <1>0, <1>1, <1>3, <2>2
    <3>2. ~Closes(s) \/ w.id # 0
      BY <1>0, <1>1, <3>1
    <3>3. QED
      BY <1>3, <3>1, <3>2 DEF Writes, SameUnit
  <2>3. QED
    BY <2>1, <2>2
<1>4. QED
  BY <1>2, <1>3, RecordAdded

\* However senders, controllers and the readers of a track interleave, media
\* identifiers increase along every channel, CHANNEL_EOS is its last record
\* and names the one before, and the shared sequence covers every record
\* whose send has merged.
THEOREM WireKeepsOrder == Spec => []WireInOrder
<1>1. Init => WireInv
  <2> SUFFICES ASSUME Init PROVE WireInv
    OBVIOUS
  <2>1. /\ \A s \in Senders : sender[s].at = "idle"
        /\ \A c \in Channels : wire[c] = <<>> /\ media[c].last_sequence = 0
    BY DEF Init, SenderIdle, NewMedia
  <2>2. QED
    BY <2>1, InitTyped
       DEF WireInv, UnusedIsSilent, OneSender, InFlight, SendsInStep, MediaInStep,
           WireInOrder, WireIdsIncrease, EosClosesStream, SequenceCoversWire
<1>2. WireInv /\ [Next]_vars => WireInv'
  BY StepTyped, SilentStep, OneSenderStep, SendsStep, MediaStep, IdsStep, EosStep,
     CoversStep DEF WireInv, WireInOrder
<1>3. WireInv => WireInOrder
  BY DEF WireInv
<1>4. QED
  BY <1>1, <1>2, <1>3, PTL DEF Spec
-----------------------------------------------------------------------------
(* The epochs that recovery units were asked for.  What a step does to the *)
(* request of a channel.                                                   *)

RequestKept(c) == /\ media'[c].needs_recovery = media[c].needs_recovery
                  /\ media'[c].recovery_revision = media[c].recovery_revision
                  /\ media'[c].minimum_recovery_epoch = media[c].minimum_recovery_epoch
                  /\ asked'[c] = asked[c]

\* NEED_KEYFRAME or NEED_FULL_FRAME: a new revision, and a minimum that covers it.
RequestPosted(c) == /\ chan[c].state # "unused" /\ media'[c].needs_recovery
                    /\ media'[c].recovery_revision = media[c].recovery_revision + 1
                    /\ asked[c] <= media[c].minimum_recovery_epoch =>
                         asked'[c] <= media'[c].minimum_recovery_epoch

RequestFlushed(c) == /\ media'[c].needs_recovery /\ asked'[c] = 0
                     /\ media'[c].recovery_revision = media[c].recovery_revision
                     /\ media'[c].minimum_recovery_epoch \in Nat

RequestCreated(c) == /\ chan[c].state = "unused" /\ media'[c].needs_recovery
                     /\ asked'[c] = asked[c]
                     /\ media'[c].minimum_recovery_epoch \in Nat

RequestMet(c) ==
  \E s \in Senders :
    /\ sender[s].at = "merged" /\ sender[s].channel = c /\ sender[s].recovery
    /\ sender[s].revision = media[c].recovery_revision
    /\ ~media'[c].needs_recovery
    /\ media'[c].recovery_revision = media[c].recovery_revision
    /\ media'[c].minimum_recovery_epoch = sender[s].epoch
    /\ asked'[c] = asked[c]

LEMMA LargerCovers ==
  ASSUME NEW a \in Nat, NEW b \in Nat, NEW e \in Nat, a <= b
  PROVE  Larger(a, e) <= Larger(b, e)
BY DEF Larger

LEMMA PostedByReverse ==
  ASSUME TypeOK, NEW c \in Channels, NEW d \in Channels,
         NeedFullFrame(d) \/ \E e \in Epochs : NeedKeyframe(d, e)
  PROVE  RequestKept(c) \/ RequestPosted(c)
<1>1. CASE c # d
  BY <1>1 DEF NeedFullFrame, NeedKeyframe, RequestKept, TypeOK, historyVars
<1>2. CASE c = d /\ NeedFullFrame(d)
  <2>1. /\ media'[c] = [media[c] EXCEPT
                          !.recovery_revision = media[c].recovery_revision + 1,
                          !.needs_recovery = TRUE]
        /\ asked' = asked /\ chan[c].state = "open" /\ media[c] \in MediaState
    BY <1>2 DEF NeedFullFrame, TypeOK, historyVars
  <2>2. QED
    BY <2>1 DEF RequestPosted, MediaState
<1>3. ASSUME c = d, NEW e \in Epochs, NeedKeyframe(d, e)
      PROVE  RequestPosted(c)
  <2>1. /\ media'[c] = [media[c] EXCEPT
                          !.recovery_revision = media[c].recovery_revision + 1,
                          !.needs_recovery = TRUE,
                          !.minimum_recovery_epoch =
                            Larger(media[c].minimum_recovery_epoch, e)]
        /\ asked'[c] = Larger(asked[c], e)
        /\ chan[c].state = "open" /\ media[c] \in MediaState
    BY <1>3 DEF NeedKeyframe, TypeOK
  <2>2. /\ media'[c].needs_recovery
        /\ media'[c].recovery_revision = media[c].recovery_revision + 1
        /\ media'[c].minimum_recovery_epoch = Larger(media[c].minimum_recovery_epoch, e)
        /\ media[c].minimum_recovery_epoch \in Nat
    BY <2>1 DEF MediaState
  <2>3. asked[c] \in Nat /\ e \in Nat
    BY BoundsAssumption DEF TypeOK, Epochs
  <2>4. QED
    BY <2>1, <2>2, <2>3, LargerCovers DEF RequestPosted
<1>4. QED
  BY <1>1, <1>2, <1>3

LEMMA FlushedByControl ==
  ASSUME TypeOK, NEW c \in Channels, NEW k \in Controllers, Control(k)
  PROVE  RequestKept(c) \/ RequestFlushed(c) \/ RequestCreated(c)
<1>1. CASE FlushResets(k)
  <2> DEFINE d == call[k].channel
  <2>1. CASE d = None
    BY <1>1, <2>1 DEF FlushResets, RequestKept, historyVars
  <2>2. CASE d # None
    <3>1. /\ media' = [media EXCEPT ![d] =
                         [@ EXCEPT !.needs_recovery = TRUE,
                                   !.minimum_recovery_epoch = call[k].epoch]]
          /\ asked' = [asked EXCEPT ![d] = 0]
      BY <1>1, <2>2 DEF FlushResets
    <3>2. d \in Channels /\ call[k].epoch \in Nat
      BY <2>2 DEF TypeOK, CallState
    <3>3. CASE c # d
      BY <3>1, <3>2, <3>3 DEF TypeOK, RequestKept
    <3>4. CASE c = d
      <4>1. /\ media'[c] = [media[c] EXCEPT !.needs_recovery = TRUE,
                              !.minimum_recovery_epoch = call[k].epoch]
            /\ asked'[c] = 0 /\ media[c] \in MediaState
        BY <3>1, <3>4 DEF TypeOK
      <4>2. QED
        BY <3>2, <4>1 DEF RequestFlushed, MediaState
    <3>5. QED
      BY <3>3, <3>4
  <2>3. QED
    BY <2>1, <2>2
<1>2. CASE OpenCreates(k)
  <2>1. asked' = asked
    BY <1>2 DEF OpenCreates, historyVars
  <2>2. CASE media'[c] = media[c]
    BY <2>1, <2>2 DEF RequestKept
  <2>3. CASE media'[c] # media[c]
    <3>1. chan[c].state = "unused" /\ media'[c] = NewMedia(sequence.last_epoch)
      BY <1>2, <2>3 DEF OpenCreates, TypeOK
    <3>2. sequence.last_epoch \in Nat
      BY DEF TypeOK, Sequence
    <3>3. QED
      BY <2>1, <3>1, <3>2 DEF RequestCreated, NewMedia
  <2>4. QED
    BY <2>2, <2>3
<1>3. CASE ~FlushResets(k) /\ ~OpenCreates(k)
  <2>1. media' = media
    BY <1>3, ControlKeeps
  <2>2. asked' = asked
    BY <1>3
       DEF Control, Create, Query, Advance, Flush, Destroy, Open, CreateCall,
           QueryCall, AdvanceCall, DestroyCall, OpenCall, FlushCall, Calls,
           CreateAnswer, AdvanceAnswer, FlushAnswer, DestroyAnswer, OpenAnswer,
           QueryAnswer, PresenterDoes, CreateReturn, QueryReturn, AdvanceReturn,
           AdvanceCloses, FlushReturn, DestroyReturn, DestroyCloses, OpenAccepted,
           OpenInstalls, OpenRefused, RequestFails, historyVars
  <2>3. QED
    BY <2>1, <2>2 DEF RequestKept
<1>4. QED
  BY <1>1, <1>2, <1>3

LEMMA MetBySend ==
  ASSUME TypeOK, NEW c \in Channels, NEW s \in Senders, Send(s)
  PROVE  asked' = asked /\ (RequestKept(c) \/ RequestMet(c))
<1>1. asked' = asked
  BY DEF Send, BeginSend, PlanDelta, BeginEos, SendDelta, DeltaRefused, AcceptId,
         AdmitRecord, WriteRecord, SendFails, MergeSequence, FinishSend, WriteEos,
         EndsSend, Validates, historyVars
<1>2. CASE media'[c] = media[c]
  BY <1>1, <1>2 DEF RequestKept
<1>3. CASE media'[c] # media[c] /\ WriteEos(s)
  <2>1. media'[c] = [media[c] EXCEPT !.eos = TRUE] /\ media[c] \in MediaState
    BY <1>3 DEF WriteEos, TypeOK
  <2>2. QED
    BY <1>1, <2>1 DEF RequestKept, MediaState
<1>4. CASE media'[c] # media[c] /\ FinishSend(s)
  <2>1. /\ c = sender[s].channel /\ sender[s].at = "merged" /\ media[c] \in MediaState
        /\ sender[s] \in SendState
    BY <1>4 DEF FinishSend, TypeOK
  <2> DEFINE b == media[c].needs_recovery /\ ~Recovered(s)
             e == IF Recovered(s) THEN sender[s].epoch ELSE media[c].minimum_recovery_epoch
  <2>2. media'[c] = [media[c] EXCEPT !.last_sequence = sender[s].record,
                       !.needs_recovery = b, !.minimum_recovery_epoch = e]
    BY <1>4, <2>1 DEF FinishSend, TypeOK
  <2> HIDE DEF b, e
  <2>3. /\ media'[c].needs_recovery = b /\ media'[c].minimum_recovery_epoch = e
        /\ media'[c].recovery_revision = media[c].recovery_revision
    BY <2>1, <2>2 DEF MediaState
  <2>4. CASE Recovered(s)
    <3>1. ~b /\ e = sender[s].epoch
      BY <2>4 DEF b, e
    <3>2. sender[s].recovery /\ sender[s].revision = media[c].recovery_revision
      BY <2>1, <2>4 DEF Recovered
    <3>3. QED
      BY <1>1, <2>1, <2>3, <3>1, <3>2 DEF RequestMet
  <2>5. CASE ~Recovered(s)
    <3>1. b = media[c].needs_recovery /\ e = media[c].minimum_recovery_epoch
      <4>1. media[c].needs_recovery \in BOOLEAN
        BY <2>1 DEF MediaState
      <4>2. QED
        BY <2>5, <4>1 DEF b, e
    <3>2. QED
      BY <1>1, <2>3, <3>1 DEF RequestKept
  <2>6. QED
    BY <2>4, <2>5
<1>5. media' = media \/ FinishSend(s) \/ WriteEos(s)
  BY DEF Send, BeginSend, PlanDelta, BeginEos, SendDelta, DeltaRefused,
         AcceptId, AdmitRecord, WriteRecord, SendFails, MergeSequence, Validates
<1>6. QED
  BY <1>1, <1>2, <1>3, <1>4, <1>5

LEMMA RequestSteps ==
  ASSUME TypeOK, [Next]_vars, NEW c \in Channels
  PROVE  \/ RequestKept(c) \/ RequestPosted(c) \/ RequestFlushed(c)
         \/ RequestCreated(c) \/ RequestMet(c)
<1>1. CASE UNCHANGED <<media, asked>>
  BY <1>1 DEF RequestKept
<1>2. ASSUME NEW d \in Channels, Reverse(d)
      PROVE  RequestKept(c) \/ RequestPosted(c) \/ UNCHANGED <<media, asked>>
  <2>1. CASE Close(d)
    BY <2>1 DEF Close, historyVars
  <2>2. CASE NeedFullFrame(d) \/ \E e \in Epochs : NeedKeyframe(d, e)
    BY <2>2, PostedByReverse
  <2>3. QED
    BY <1>2, <2>1, <2>2 DEF Reverse
<1>3. CASE TrackLost \/ UNCHANGED vars
  BY <1>1, <1>3 DEF TrackLost, vars, historyVars
<1>4. QED
  BY <1>1, <1>2, <1>3, FlushedByControl, MetBySend DEF Next

LEMMA HasUnitAtKept ==
  ASSUME TypeOK, WireGrows, NEW c \in Channels, NEW rev, NEW e,
         HasUnitAt(c, rev, e)
  PROVE  HasUnitAt(c, rev, e)'
<1>1. CASE wire'[c] = wire[c]
  BY <1>1 DEF HasUnitAt
<1>2. ASSUME NEW r \in Record, wire'[c] = Append(wire[c], r)
      PROVE  HasUnitAt(c, rev, e)'
  <2>1. PICK n \in DOMAIN wire[c] : /\ wire[c][n].recovery
                                    /\ wire[c][n].revision = rev
                                    /\ wire[c][n].epoch >= e
    BY DEF HasUnitAt
  <2>2. wire[c] \in Seq(Record)
    BY DEF TypeOK
  <2>3. n \in DOMAIN wire'[c] /\ wire'[c][n] = wire[c][n]
    BY <1>2, <2>1, <2>2
  <2>4. QED
    BY <2>1, <2>3 DEF HasUnitAt
<1>3. QED
  BY <1>1, <1>2 DEF WireGrows

\* A unit above one epoch is above every smaller one.
LEMMA HasUnitAtSmaller ==
  ASSUME TypeOK, NEW c \in Channels, NEW rev, NEW e \in Nat, NEW f \in Nat,
         HasUnitAt(c, rev, e), f <= e
  PROVE  HasUnitAt(c, rev, f)
<1>1. PICK n \in DOMAIN wire[c] : /\ wire[c][n].recovery
                                  /\ wire[c][n].revision = rev
                                  /\ wire[c][n].epoch >= e
  BY DEF HasUnitAt
<1>2. wire[c][n].epoch \in Nat
  <2>1. wire[c] \in Seq(Record)
    BY DEF TypeOK
  <2>2. wire[c][n] \in Record
    BY <1>1, <2>1
  <2>3. QED
    BY <2>2 DEF Record
<1>3. wire[c][n].epoch >= f
  BY <1>1, <1>2
<1>4. QED
  BY <1>1, <1>3 DEF HasUnitAt

LEMMA MinimumStep == EpochInv /\ [Next]_vars => MinimumCoversAsked'
<1> SUFFICES ASSUME EpochInv, [Next]_vars, NEW c \in Channels
             PROVE  /\ media'[c].minimum_recovery_epoch >= asked'[c]
                    /\ chan'[c].state = "unused" => asked'[c] = 0
                    /\ ~media'[c].needs_recovery =>
                         HasUnitAt(c, media[c].recovery_revision, asked[c])'
  BY DEF MinimumCoversAsked, HasUnitAt
<1>1. TypeOK /\ MinimumCoversAsked /\ UnitsMeetRequest
  BY DEF EpochInv
<1>2. /\ asked[c] \in Nat /\ media[c].minimum_recovery_epoch \in Nat
      /\ media[c].minimum_recovery_epoch >= asked[c]
      /\ chan[c].state = "unused" => asked[c] = 0
  BY <1>1 DEF TypeOK, MediaState, MinimumCoversAsked
<1>3. chan'[c].state = "unused" => chan[c].state = "unused"
  BY <1>1, StaysUsed
<1>4. WireGrows
  BY <1>1, StepGrowsWire
<1>5. CASE RequestKept(c)
  <2>1. ~media[c].needs_recovery => HasUnitAt(c, media[c].recovery_revision, asked[c])
    BY <1>1 DEF MinimumCoversAsked
  <2>2. QED
    BY <1>1, <1>2, <1>3, <1>4, <1>5, <2>1, HasUnitAtKept DEF RequestKept, HasUnitAt
<1>6. CASE RequestPosted(c)
  BY <1>2, <1>3, <1>6 DEF RequestPosted
<1>7. CASE RequestFlushed(c)
  BY <1>7 DEF RequestFlushed
<1>8. CASE RequestCreated(c)
  BY <1>2, <1>8 DEF RequestCreated
<1>9. CASE RequestMet(c)
  <2>1. PICK s \in Senders :
          /\ sender[s].at = "merged" /\ sender[s].channel = c /\ sender[s].recovery
          /\ sender[s].revision = media[c].recovery_revision
          /\ media'[c].recovery_revision = media[c].recovery_revision
          /\ media'[c].minimum_recovery_epoch = sender[s].epoch
          /\ asked'[c] = asked[c]
    BY <1>9 DEF RequestMet
  <2>2. /\ sender[s].epoch >= asked[c]
        /\ HasUnitAt(c, media[c].recovery_revision, sender[s].epoch)
    BY <1>1, <2>1 DEF UnitsMeetRequest, OnItsWay
  <2>3. sender[s].epoch \in Nat
    BY <1>1 DEF TypeOK, SendState
  <2>4. HasUnitAt(c, media[c].recovery_revision, asked[c])
    BY <1>1, <1>2, <2>2, <2>3, HasUnitAtSmaller
  <2>5. HasUnitAt(c, media[c].recovery_revision, asked[c])'
    BY <1>1, <1>4, <2>1, <2>4, HasUnitAtKept DEF HasUnitAt
  <2>6. QED
    BY <1>2, <1>3, <2>1, <2>2, <2>5
<1>10. QED
  BY <1>1, <1>5, <1>6, <1>7, <1>8, <1>9, RequestSteps

\* A send on its way keeps to the request it answers, whatever the step does to
\* the request of its channel.
LEMMA RequestOfSend ==
  ASSUME EpochInv, [Next]_vars, NEW s \in Senders, OnItsWay(s)
  PROVE  LET c == sender[s].channel
         IN  /\ sender[s].revision <= media'[c].recovery_revision
             /\ sender[s].recovery
                /\ sender[s].revision = media'[c].recovery_revision =>
                  sender[s].epoch >= asked'[c]
<1> DEFINE c == sender[s].channel
<1>1. TypeOK /\ UnusedIsSilent /\ UnitsMeetRequest
  BY DEF EpochInv
<1>2. /\ c \in Channels /\ sender[s].epoch \in Nat /\ sender[s].revision \in Nat
      /\ sender[s].at # "idle"
  BY <1>1 DEF TypeOK, SendState, OnItsWay
<1>3. chan[c].state # "unused"
  BY <1>1, <1>2 DEF UnusedIsSilent
<1>4. /\ sender[s].revision <= media[c].recovery_revision
      /\ sender[s].recovery /\ sender[s].revision = media[c].recovery_revision =>
           sender[s].epoch >= asked[c]
  BY <1>1 DEF UnitsMeetRequest
<1>5. media[c].recovery_revision \in Nat
  BY <1>1, <1>2 DEF TypeOK, MediaState
<1> HIDE DEF c
<1>6. /\ sender[s].revision <= media'[c].recovery_revision
      /\ sender[s].recovery /\ sender[s].revision = media'[c].recovery_revision =>
           sender[s].epoch >= asked'[c]
  BY <1>1, <1>2, <1>3, <1>4, <1>5, RequestSteps
     DEF RequestKept, RequestPosted, RequestFlushed, RequestCreated, RequestMet
<1>7. QED
  BY <1>6 DEF c

\* The unit that WriteRecord appends is at the epoch of its send.
LEMMA WrittenIsUnit ==
  ASSUME TypeOK, NEW s \in Senders, WriteRecord(s), sender[s].recovery
  PROVE  HasUnitAt(sender[s].channel, sender[s].revision, sender[s].epoch)'
<1> DEFINE c == sender[s].channel
<1>1. Send(s) /\ wire' # wire
  <2>1. c \in Channels
    BY DEF WriteRecord, TypeOK
  <2>2. \A r : Append(wire[c], r) # wire[c]
    BY <2>1 DEF TypeOK
  <2>3. wire'[c] # wire[c]
    BY <2>1, <2>2 DEF WriteRecord, TypeOK
  <2>4. QED
    BY <2>3 DEF Send
<1>2. ~WriteEos(s)
  BY DEF WriteRecord, WriteEos
<1>3. PICK w \in Record : /\ c \in Channels
                          /\ wire' = [wire EXCEPT ![c] = Append(@, w)]
                          /\ w.recovery /\ w.revision = sender[s].revision
                          /\ w.epoch = sender[s].epoch
  BY <1>1, <1>2, SendWrites
<1>4. wire[c] \in Seq(Record) /\ wire'[c] = Append(wire[c], w)
  BY <1>3 DEF TypeOK
<1>5. /\ Len(wire[c]) + 1 \in DOMAIN wire'[c]
      /\ wire'[c][Len(wire[c]) + 1] = w
  BY <1>4
<1>6. w.epoch \in Nat
  BY DEF Record
<1>7. sender'[s].channel = c /\ sender'[s].revision = sender[s].revision
      /\ sender'[s].epoch = sender[s].epoch
  BY WriteStage DEF SameSend
<1>8. w.epoch >= sender'[s].epoch
  BY <1>3, <1>6, <1>7
<1>9. QED
  BY <1>3, <1>5, <1>7, <1>8 DEF HasUnitAt

LEMMA UnitsStep == EpochInv /\ [Next]_vars => UnitsMeetRequest'
<1> SUFFICES ASSUME EpochInv, [Next]_vars, NEW s \in Senders, OnItsWay(s)'
             PROVE  LET c == sender'[s].channel
                    IN  /\ sender'[s].revision <= media'[c].recovery_revision
                        /\ sender'[s].recovery
                           /\ sender'[s].revision = media'[c].recovery_revision =>
                             sender'[s].epoch >= asked'[c]
                        /\ sender'[s].recovery
                           /\ sender'[s].at \in {"written", "merged"} =>
                             HasUnitAt(sender[s].channel, sender[s].revision,
                                       sender[s].epoch)'
  BY DEF UnitsMeetRequest, HasUnitAt
<1> DEFINE Unit == HasUnitAt(sender[s].channel, sender[s].revision, sender[s].epoch)'
<1>1. /\ TypeOK /\ TypeOK' /\ UnitsMeetRequest /\ WireGrows
      /\ OnItsWay(s) => sender[s].channel \in Channels
  BY StepTyped, StepGrowsWire DEF EpochInv, TypeOK, OnItsWay
\* A send that was on its way keeps its request, and its unit once it has one.
<1>2. ASSUME OnItsWay(s), SameSend(s),
             \/ sender'[s].at \in {"checked", "accepted", "admitted"}
             \/ sender[s].at \in {"written", "merged"}
             \/ WriteRecord(s)
      PROVE  LET c == sender'[s].channel
             IN  /\ sender'[s].revision <= media'[c].recovery_revision
                 /\ sender'[s].recovery
                    /\ sender'[s].revision = media'[c].recovery_revision =>
                      sender'[s].epoch >= asked'[c]
                 /\ sender'[s].recovery
                    /\ sender'[s].at \in {"written", "merged"} => Unit
  <2>1. /\ sender'[s].revision <= media'[sender'[s].channel].recovery_revision
        /\ sender'[s].recovery
           /\ sender'[s].revision = media'[sender'[s].channel].recovery_revision =>
             sender'[s].epoch >= asked'[sender'[s].channel]
    BY <1>2, RequestOfSend DEF SameSend
  <2>2. CASE sender'[s].at \in {"checked", "accepted", "admitted"}
    BY <2>1, <2>2
  <2>3. CASE sender[s].at \in {"written", "merged"} /\ sender[s].recovery
    <3>1. HasUnitAt(sender[s].channel, sender[s].revision, sender[s].epoch)
      BY <1>1, <1>2, <2>3 DEF UnitsMeetRequest
    <3>2. Unit
      BY <1>1, <1>2, <3>1, HasUnitAtKept DEF SameSend, HasUnitAt
    <3>3. QED
      BY <2>1, <3>2
  <2>4. CASE WriteRecord(s) /\ sender[s].recovery
    <3>1. Unit
      BY <1>1, <2>4, WrittenIsUnit
    <3>2. QED
      BY <2>1, <3>1
  <2>5. QED
    BY <1>2, <2>1, <2>2, <2>3, <2>4 DEF SameSend
<1> DEFINE Started ==
             /\ sender'[s].at = "checked" /\ sender'[s].channel \in Channels
             /\ sender'[s].revision = media[sender'[s].channel].recovery_revision
             /\ sender'[s].recovery =>
                  sender'[s].epoch >= media[sender'[s].channel].minimum_recovery_epoch
             /\ UNCHANGED <<media, asked>>
<1>3. CASE Started
  <2>1. Started
    BY <1>3
  <2> DEFINE d == sender'[s].channel
  <2>2. /\ media[d].minimum_recovery_epoch >= asked[d] /\ asked[d] \in Nat
        /\ media[d].minimum_recovery_epoch \in Nat
        /\ media[d].recovery_revision \in Nat /\ sender'[s].epoch \in Nat
    BY <1>1, <2>1 DEF EpochInv, MinimumCoversAsked, TypeOK, MediaState, SendState
  <2>3. sender'[s].recovery => sender'[s].epoch >= asked[d]
    BY <2>1, <2>2
  <2>4. QED
    BY <2>1, <2>2, <2>3
<1>4. CASE Send(s) /\ ~Started
  <2>1. /\ OnItsWay(s) /\ SameSend(s)
        /\ \/ sender'[s].at \in {"checked", "accepted", "admitted"}
           \/ sender[s].at \in {"written", "merged"}
           \/ WriteRecord(s)
    BY <1>1, <1>4, SendStages DEF OnItsWay, WriteRecord
  <2>2. QED
    BY <1>2, <2>1
<1>5. CASE sender'[s] = sender[s]
  BY <1>2, <1>5 DEF OnItsWay, SameSend
<1>6. QED
  BY <1>1, <1>3, <1>4, <1>5, ControlKeeps, ReverseKeeps, OtherSendersKept
     DEF Next, TrackLost, vars

\* Once a channel needs no recovery, a unit that answers its newest request is on
\* its wire, at or above every epoch NEED_KEYFRAME asked for since the last FLUSH,
\* however requests, flushes and sends interleave.
THEOREM RequestedEpochsMet == Spec => []RequestedEpochHonoured
<1>1. Init => EpochInv
  <2> SUFFICES ASSUME Init PROVE EpochInv
    OBVIOUS
  <2>1. /\ \A s \in Senders : sender[s].at = "idle"
        /\ \A c \in Channels : /\ wire[c] = <<>> /\ asked[c] = 0
                               /\ media[c] = NewMedia(0)
    BY DEF Init, SenderIdle
  <2>2. \A c \in Channels : /\ media[c].minimum_recovery_epoch = 0
                            /\ media[c].needs_recovery
    BY <2>1 DEF NewMedia
  <2>3. QED
    BY <2>1, <2>2, InitTyped
       DEF EpochInv, UnusedIsSilent, MinimumCoversAsked, UnitsMeetRequest, OnItsWay
<1>2. EpochInv /\ [Next]_vars => EpochInv'
  BY StepTyped, SilentStep, MinimumStep, UnitsStep DEF EpochInv
<1>3. EpochInv => RequestedEpochHonoured
  BY DEF EpochInv, MinimumCoversAsked, HasUnitAt, RequestedEpochHonoured
<1>4. QED
  BY <1>1, <1>2, <1>3, PTL DEF Spec
=============================================================================
