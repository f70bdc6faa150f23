------------------------------ MODULE FileDrop ------------------------------
(***************************************************************************)
(* File drops into a producer.  FileDropBindingGuard follows the binding    *)
(* that says what may be dropped: several threads change it, each with a    *)
(* request whose answer goes to handle_bound later.  An accepted drop is a  *)
(* transfer: one IncomingFileTransfer per generation reads the records of   *)
(* its own connection and grants credit; after a loss the application       *)
(* advances the transfer to a new generation and resumes behind the bytes   *)
(* it has kept.                                                             *)
(*                                                                          *)
(* The presenter, its source file and FileTransferFlow (offsets in order,   *)
(* never beyond the credit) are external.  A byte is its offset.            *)
(***************************************************************************)
EXTENDS Naturals, Sequences

CONSTANTS
  Binders,        \* threads that change the binding
  Limits,         \* values of the limits a binding asks for
  Length,         \* declared_length of the offer
  SourceLengths,  \* what the source may hold by the time it is read
  MaxDropEpoch,   \* bound: epochs of the binding
  MaxTransfers    \* bound: generations of the transfer

ASSUME DropAssumption == Limits \subseteq Nat /\ Length \in Nat /\ SourceLengths \subseteq Nat
ASSUME DropBoundsAssumption == MaxDropEpoch \in Nat /\ MaxTransfers \in Nat

VARIABLES
  binding,   \* FileDropBindingGuard: epoch, requested, grant
  asking,    \* per thread: the binding it asks for, and the answer
  transfer,  \* the application's transfer: generation, IncomingFileTransfer.flow
  source,    \* the presenter's side of it
  records,   \* records in flight on the connection of this generation
  file,      \* the bytes the application has kept
  finished   \* read_event returned Finished

dropVars == <<binding, asking, transfer, source, records, file, finished>>
bindVars == <<binding, asking>>
transferVars == <<transfer, source, records, file, finished>>

Quiet == [phase |-> "idle", epoch |-> 0, enabled |-> FALSE, limit |-> 0]
Request(e, on, n) == [epoch |-> e, enabled |-> on, limit |-> n]
Nothing == Request(0, FALSE, 0)

DropInit ==
  /\ binding = [epoch |-> 0, requested |-> Nothing, grant |-> Nothing]
  /\ asking = [b \in Binders |-> Quiet]
  /\ transfer = [phase |-> "none", generation |-> 1, resume |-> 0, next |-> 0, max |-> 0]
  /\ source \in [length : SourceLengths, generation : {1}, next : {0}, credit : {0},
                 done : {FALSE}]
  /\ records = <<>> /\ file = <<>> /\ finished = FALSE
-----------------------------------------------------------------------------
Asks(b, r) == asking' = [asking EXCEPT ![b] = [phase |-> "asked", epoch |-> r.epoch,
                                               enabled |-> r.enabled, limit |-> r.limit]]

\* FileDropBindingGuard::enable: the epoch advances before the binding is validated; one
\* that is refused leaves the former request and its grant.
EnablesDrop(b) ==
  /\ asking[b] = Quiet /\ binding.epoch < MaxDropEpoch
  /\ \/ /\ binding' = [binding EXCEPT !.epoch = @ + 1]
        /\ UNCHANGED asking
     \/ \E n \in Limits :
          LET r == Request(binding.epoch + 1, TRUE, n) IN
          /\ binding' = [epoch |-> r.epoch, requested |-> r, grant |-> Nothing]
          /\ Asks(b, r)
  /\ UNCHANGED transferVars

DisablesDrop(b) ==
  /\ asking[b] = Quiet /\ binding.epoch < MaxDropEpoch /\ binding.requested.enabled
  /\ LET r == Request(binding.epoch + 1, FALSE, 0) IN
     /\ binding' = [epoch |-> r.epoch, requested |-> r, grant |-> Nothing]
     /\ Asks(b, r)
  /\ UNCHANGED transferVars

ReleasesDrop ==
  /\ binding' = [binding EXCEPT !.requested = Nothing, !.grant = Nothing]
  /\ UNCHANGED <<asking, transferVars>>

\* set_file_drop_binding: what FILE_DROP_BOUND says is only decoded here.
BindsDrop(b) ==
  /\ asking[b].phase = "asked"
  /\ \/ asking' = [asking EXCEPT ![b] = Quiet]
     \/ \E on \in BOOLEAN, n \in Limits :
          asking' = [asking EXCEPT ![b].phase = "answered", ![b].enabled = on, ![b].limit = n]
  /\ UNCHANGED <<binding, transferVars>>

Answer(b) == Request(asking[b].epoch, asking[b].enabled, asking[b].limit)

\* Mutant: handle_bound looks at the limits only.
AcceptableLimits(r, a) == r # Nothing /\ (a.enabled => r.enabled /\ a.limit <= r.limit)

\* handle_bound: the answer names the request in force, and narrows it.
Acceptable(r, a) ==
  /\ r # Nothing /\ a.epoch = r.epoch
  /\ a.enabled => r.enabled /\ a.limit <= r.limit

HandlesDropBound(b) ==
  /\ asking[b].phase = "answered"
  /\ asking' = [asking EXCEPT ![b] = Quiet]
  /\ binding' = IF Acceptable(binding.requested, Answer(b))
                  THEN [binding EXCEPT !.grant = IF Answer(b).enabled THEN Answer(b) ELSE Nothing]
                  ELSE binding
  /\ UNCHANGED transferVars
-----------------------------------------------------------------------------
Data(offset) == [kind |-> "data", at |-> offset]
Finish(length) == [kind |-> "finish", at |-> length]
Abort(offset) == [kind |-> "abort", at |-> offset]

\* accept_file_drop: FILE_DROP_ACCEPTED confirms the first generation.
AcceptsDrop ==
  /\ transfer.phase = "none"
  /\ transfer' = [transfer EXCEPT !.phase = "offered"]
  /\ UNCHANGED <<bindVars, source, records, file, finished>>

\* open_incoming_file_transfer: the connection of this generation, with its first credit;
\* whatever FILE_TRANSFER_ACCEPTED does not confirm fails, and the connection is dropped.
Opens ==
  /\ transfer.phase = "offered" /\ transfer.resume <= Length
  /\ source.generation = transfer.generation
  /\ transfer' = [transfer EXCEPT !.phase = "open", !.next = transfer.resume,
                                  !.max = transfer.resume + 1]
  /\ source' = [source EXCEPT !.next = transfer.resume, !.credit = transfer.resume + 1,
                              !.done = FALSE]
  /\ records' = <<>>
  /\ UNCHANGED <<bindVars, file, finished>>

\* The presenter streams its source within the credit, then finishes or aborts; the
\* FINISH gives the declared length or the one it found.
Streams ==
  /\ transfer.phase = "open" /\ ~source.done
  /\ \/ /\ source.next < source.length /\ source.next < source.credit
        /\ records' = Append(records, Data(source.next))
        /\ source' = [source EXCEPT !.next = @ + 1]
     \/ /\ source.next = source.length
        /\ \E n \in {Length, source.length} : records' = Append(records, Finish(n))
        /\ source' = [source EXCEPT !.done = TRUE]
     \/ /\ records' = Append(records, Abort(source.next))
        /\ source' = [source EXCEPT !.done = TRUE]
  /\ UNCHANGED <<bindVars, transfer, file, finished>>

Reads(kind) == transfer.phase = "open" /\ records # <<>> /\ Head(records).kind = kind

\* read_event, FILE_DATA: the flow admits the bytes first; those beyond the declared
\* length are an error, and the flow has moved.
ReadsData ==
  LET r == Head(records) IN
  /\ Reads("data")
  /\ records' = Tail(records)
  /\ r.at = transfer.next /\ r.at < transfer.max
  /\ transfer' = [transfer EXCEPT !.next = @ + 1]
  /\ file' = IF r.at + 1 > Length THEN file ELSE Append(file, r.at)
  /\ UNCHANGED <<bindVars, source, finished>>

\* Mutant: the length in FILE_FINISH is compared with the offer only.
ReadsFinishOffered ==
  /\ Reads("finish")
  /\ records' = Tail(records)
  /\ finished' = (finished \/ Head(records).at = Length)
  /\ UNCHANGED <<bindVars, transfer, source, file>>

\* read_event, FILE_FINISH: the length is the declared one and the streamed one.
ReadsFinish ==
  /\ Reads("finish")
  /\ records' = Tail(records)
  /\ finished' = (finished \/ (Head(records).at = Length /\ Head(records).at = transfer.next))
  /\ UNCHANGED <<bindVars, transfer, source, file>>

\* read_event, FILE_TRANSFER_ABORT: the application ends the transfer.
ReadsAbort ==
  /\ Reads("abort") /\ Head(records).at = transfer.next
  /\ transfer' = [transfer EXCEPT !.phase = "ended"]
  /\ UNCHANGED <<bindVars, source, records, file, finished>>

\* grant: MAX_FILE_DATA is written, then the local maximum is raised.
Grants ==
  /\ transfer.phase = "open" /\ transfer.max < Length + 1
  /\ source' = [source EXCEPT !.credit = transfer.max + 1]
  /\ transfer' = [transfer EXCEPT !.max = @ + 1]
  /\ UNCHANGED <<bindVars, records, file, finished>>

\* abort, cancel_file_drop, and send_result once Finished was read: the transfer is over.
Ends ==
  /\ transfer.phase \in {"offered", "open"}
  /\ transfer' = [transfer EXCEPT !.phase = "ended"]
  /\ UNCHANGED <<bindVars, source, records, file, finished>>

\* The connection is lost, a write on it fails, or a record is refused: the handle goes.
Loses ==
  /\ transfer.phase = "open" /\ ~finished
  /\ transfer' = [transfer EXCEPT !.phase = "lost"]
  /\ records' = <<>>
  /\ UNCHANGED <<bindVars, source, file, finished>>

\* advance_file_transfer: a new generation behind the bytes the application committed;
\* when the reply is lost the application asks again.
Advances ==
  /\ transfer.phase = "lost" /\ transfer.generation < MaxTransfers
  /\ source' = [source EXCEPT !.generation = transfer.generation + 1]
  /\ \E n \in 0 .. Len(file) :
       /\ file' = SubSeq(file, 1, n)
       /\ \/ transfer' = [transfer EXCEPT !.phase = "offered", !.generation = @ + 1,
                                          !.resume = n]
          \/ UNCHANGED transfer
  /\ UNCHANGED <<bindVars, records, finished>>

BindingNext ==
  \/ \E b \in Binders : EnablesDrop(b) \/ DisablesDrop(b) \/ BindsDrop(b) \/ HandlesDropBound(b)
  \/ ReleasesDrop

TransferNext ==
  \/ AcceptsDrop \/ Opens \/ Streams \/ ReadsData \/ ReadsFinish \/ ReadsAbort
  \/ Grants \/ Ends \/ Loses \/ Advances

DropNext == BindingNext \/ TransferNext

DropSpec == DropInit /\ [][DropNext]_dropVars
-----------------------------------------------------------------------------
\* A live grant answers the request in force and stays within it, however the answers of
\* several threads and a release interleave (FileDropBindingGuard::handle_bound).
DropGrantNarrows ==
  binding.grant # Nothing =>
    /\ binding.requested.enabled /\ binding.grant.enabled
    /\ binding.grant.epoch = binding.requested.epoch
    /\ binding.grant.limit <= binding.requested.limit

\* Finished means the whole file: every declared byte once and in order, over all the
\* generations of the transfer, also when the source changed its length meanwhile
\* (IncomingFileTransfer::read_event, Session::advance_file_transfer).
FinishedIsWhole == finished => file = [i \in 1 .. Length |-> i - 1]
=============================================================================
