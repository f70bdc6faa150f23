----------------------------- MODULE CreditWindow -----------------------------
(***************************************************************************)
(* What the flow control of a track channel promises, with no thread, lock *)
(* or queue in it: the producer charges each record against an absolute    *)
(* cumulative allowance, the presenter raises the allowance by exactly the *)
(* ingress storage it has made reusable, and a closed flow charges nothing *)
(* more.  ChannelFlow implements it.                                       *)
(***************************************************************************)
EXTENDS Integers

CONSTANTS
  Sizes,         \* body lengths of media records
  WindowBytes,   \* CHANNEL_ACCEPTED maximum_body_bytes
  WindowRecords  \* CHANNEL_ACCEPTED maximum_media_records

VARIABLES
  sent,     \* bytes and records charged by the producer
  freed,    \* bytes and records whose storage the presenter can reuse
  granted,  \* the largest allowance the presenter has announced
  closed    \* the flow admits no more records

vars == <<sent, freed, granted, closed>>

Amounts == [bytes : Nat, records : Nat]
Window  == [bytes |-> WindowBytes, records |-> WindowRecords]

AtMost(a, b) == a.bytes <= b.bytes /\ a.records <= b.records
Sum(a, b)    == [bytes |-> a.bytes + b.bytes, records |-> a.records + b.records]
Charged(a, size) == Sum(a, [bytes |-> size, records |-> 1])

Init ==
  /\ sent = [bytes |-> 0, records |-> 0]
  /\ freed = sent
  /\ granted = Window
  /\ closed = FALSE

Charge ==
  /\ ~closed
  /\ \E size \in Sizes :
       /\ AtMost(Charged(sent, size), granted)
       /\ sent' = Charged(sent, size)
  /\ UNCHANGED <<freed, granted, closed>>

Free ==
  /\ freed' \in Amounts
  /\ AtMost(freed, freed') /\ AtMost(freed', sent)
  /\ UNCHANGED <<sent, granted, closed>>

Grant ==
  /\ granted' = Sum(Window, freed)
  /\ UNCHANGED <<sent, freed, closed>>

Close ==
  /\ closed' = TRUE
  /\ UNCHANGED <<sent, freed, granted>>

Next == Charge \/ Free \/ Grant \/ Close
Spec == Init /\ [][Next]_vars
===============================================================================
