------------------------------ MODULE HelperProofs ------------------------------
(***************************************************************************)
(* Theorems about the helpers an application meets: the surface handle     *)
(* (SurfaceHandle), the handles of the Python package (PythonHandle), the  *)
(* queue between a capture callback and a sender (MediaPipeline) and the   *)
(* rate an encoder is told to produce (VideoRate).                         *)
(***************************************************************************)
EXTENDS SurfaceHandle, PythonHandle, MediaPipeline, VideoRate, FiniteSetTheorems, TLAPS

(* SurfaceHandle: the handle against the presenter's surface.              *)

SurfaceRecord == [revision : Nat, generation : Nat, destroyed : BOOLEAN,
                  geometry : Geometries, parameters : Parameters]

SurfaceTyped == surface \in SurfaceRecord /\ remote \in SurfaceRecord

\* HandleInStep is inductive once both sides are records of numbers: while the handle
\* lags, its revision is smaller, and only a query lets it catch up.
SurfaceInv == SurfaceTyped /\ HandleInStep

\* Session::update_surface: it computes what the presenter computes, from equal mappings.
LEMMA SameRule ==
  ASSUME SurfaceTyped, NEW g \in Geometries, NEW p \in Parameters
  PROVE  /\ Replaced(surface, g, p) \in SurfaceRecord
         /\ Moved(remote, g, p) \in SurfaceRecord
         /\ Moved(remote, g, p).revision = remote.revision + 1
         /\ Moved(remote, g, p).generation >= remote.generation
         /\ surface.revision = remote.revision /\ surface.generation = remote.generation
              /\ surface.geometry = remote.geometry /\ surface.parameters = remote.parameters
            => /\ Replaced(surface, g, p).revision = Moved(remote, g, p).revision
               /\ Replaced(surface, g, p).generation = Moved(remote, g, p).generation
               /\ Replaced(surface, g, p).geometry = Moved(remote, g, p).geometry
               /\ Replaced(surface, g, p).parameters = Moved(remote, g, p).parameters
<1> USE DEF SurfaceTyped, SurfaceRecord
<1>1. Replaced(surface, g, p) \in SurfaceRecord
  <2>1. CASE g # surface.geometry \/ p # surface.parameters
        BY <2>1 DEF Replaced
  <2>2. CASE ~(g # surface.geometry \/ p # surface.parameters)
        BY <2>2 DEF Replaced
  <2> QED
      BY <2>1, <2>2
<1>2. /\ Moved(remote, g, p) \in SurfaceRecord
      /\ Moved(remote, g, p).revision = remote.revision + 1
      /\ Moved(remote, g, p).generation >= remote.generation
  <2>1. CASE <<g, p>> # <<remote.geometry, remote.parameters>>
        BY <2>1 DEF Moved
  <2>2. CASE ~(<<g, p>> # <<remote.geometry, remote.parameters>>)
        BY <2>2 DEF Moved
  <2> QED
      BY <2>1, <2>2
<1>3. ASSUME surface.revision = remote.revision, surface.generation = remote.generation,
             surface.geometry = remote.geometry, surface.parameters = remote.parameters
      PROVE  /\ Replaced(surface, g, p).revision = Moved(remote, g, p).revision
             /\ Replaced(surface, g, p).generation = Moved(remote, g, p).generation
             /\ Replaced(surface, g, p).geometry = Moved(remote, g, p).geometry
             /\ Replaced(surface, g, p).parameters = Moved(remote, g, p).parameters
      BY <1>3 DEF Replaced, Moved
<1> QED
    BY <1>1, <1>2, <1>3

LEMMA SurfaceInitially == SurfaceInit => SurfaceInv
<1>1. (CHOOSE g \in Geometries : TRUE) \in Geometries
      BY MappingAssumption
<1>2. (CHOOSE p \in Parameters : TRUE) \in Parameters
      BY MappingAssumption
<1>3. SurfaceInit => SurfaceTyped
      BY <1>1, <1>2 DEF SurfaceInit, SurfaceTyped, SurfaceRecord
<1> QED
    BY <1>3 DEF SurfaceInit, SurfaceInv, SurfaceTyped, SurfaceRecord, HandleInStep

\* Every call, whether its answer reached the handle or not, keeps the invariant.
LEMMA SurfacePreserved == SurfaceInv /\ [SurfaceNext]_surfaceVars => SurfaceInv'
<1> SUFFICES ASSUME SurfaceInv, [SurfaceNext]_surfaceVars PROVE SurfaceInv'
    OBVIOUS
<1> USE DEF SurfaceInv
<1>1. CASE Updates
  <2> PICK g \in Geometries, p \in Parameters :
        /\ Expected
        /\ remote' = Moved(remote, g, p)
        /\ \/ surface' = Replaced(surface, g, p) /\ UNCHANGED blind
           \/ surface' = surface /\ blind' = (blind \/ p # surface.parameters)
      BY <1>1 DEF Updates
  <2>1. SurfaceTyped'
        BY SameRule DEF SurfaceTyped
  <2>2. HandleInStep'
    <3>1. CASE surface' = Replaced(surface, g, p) /\ UNCHANGED blind
      <4> SUFFICES ASSUME ~blind
                   PROVE  /\ surface'.revision = remote'.revision
                          /\ surface'.generation = remote'.generation
                          /\ surface'.geometry = remote'.geometry
                          /\ surface'.parameters = remote'.parameters
          BY <3>1, <2>1 DEF HandleInStep, SurfaceTyped, SurfaceRecord
      <4> QED
          BY <3>1, SameRule DEF HandleInStep, Expected
    <3>2. CASE surface' = surface /\ blind' = (blind \/ p # surface.parameters)
      <4>1. /\ surface'.revision < remote'.revision
            /\ surface'.generation <= remote'.generation
            BY <3>2, SameRule, <2>1 DEF Expected, SurfaceTyped, SurfaceRecord
      <4> QED
          BY <4>1, <2>1 DEF HandleInStep, SurfaceTyped, SurfaceRecord
    <3> QED
        BY <3>1, <3>2
  <2> QED
      BY <2>1, <2>2
<1>2. CASE ActivatesSlots
      BY <1>2 DEF ActivatesSlots, HandleInStep, SurfaceTyped, SurfaceRecord
<1>3. CASE QueriesSurface
  <2>1. surface' \in SurfaceRecord /\ remote' \in SurfaceRecord
        BY <1>3 DEF QueriesSurface, SurfaceTyped, SurfaceRecord
  <2>2. CASE surface.parameters = remote.parameters
    <3>1. surface' = remote' /\ blind' = FALSE
          BY <1>3, <2>2 DEF QueriesSurface, SurfaceTyped, SurfaceRecord
    <3> QED
        BY <2>1, <3>1 DEF HandleInStep, SurfaceTyped, SurfaceRecord
  <2>3. CASE surface.parameters # remote.parameters
        BY <1>3, <2>1, <2>3 DEF QueriesSurface, HandleInStep, SurfaceTyped
  <2> QED
      BY <2>2, <2>3
<1>4. CASE DestroysHandle
      BY <1>4 DEF DestroysHandle, HandleInStep, SurfaceTyped, SurfaceRecord
<1>5. CASE UNCHANGED surfaceVars
      BY <1>5 DEF surfaceVars, HandleInStep, SurfaceTyped
<1> QED
    BY <1>1, <1>2, <1>3, <1>4, <1>5 DEF SurfaceNext

\* A handle that knows the presenter's revision knows its generation and its mapping, for
\* every sequence of updates, activations, queries and lost answers
\* (Session::update_surface, Session::query_surface).
THEOREM HandleStaysInStep == SurfaceSpec => []HandleInStep
<1>1. SurfaceInv => HandleInStep
      BY DEF SurfaceInv
<1> QED
    BY <1>1, SurfaceInitially, SurfacePreserved, PTL DEF SurfaceSpec
-----------------------------------------------------------------------------
(* PythonHandle: open handles against the objects behind them.             *)

\* Initially every thread waits for the interpreter and every handle is open.
LEMMA HandleInitially == PythonInit => HandleInv
<1> SUFFICES ASSUME PythonInit PROVE HandleInv
    OBVIOUS
<1> USE HandleAssumption DEF PythonInit, InPython
<1>1. PythonTypeOK
      BY DEF PythonTypeOK, ThreadState, Ops
<1>2. GuardsMatch
      BY DEF GuardsMatch
<1>3. RequestsUseOpenHandles
      BY DEF RequestsUseOpenHandles
<1> QED
    BY <1>1, <1>2, <1>3 DEF HandleInv

\* Each step of each thread preserves the invariant.  The one that matters is
\* close: it finds the guard free, so by GuardsMatch no request is in Rust.
LEMMA HandlePreserved == HandleInv /\ [PythonNext]_pythonVars => HandleInv'
<1> SUFFICES ASSUME HandleInv, [PythonNext]_pythonVars PROVE HandleInv'
    OBVIOUS
<1> USE HandleAssumption DEF HandleInv, PythonTypeOK, ThreadState, Ops, InPython,
                             GuardsMatch, RequestsUseOpenHandles
<1>1. ASSUME NEW t \in PyThreads, Acquires(t) PROVE HandleInv'
      BY <1>1 DEF Acquires, Continues
<1>2. ASSUME NEW t \in PyThreads, Yields(t) PROVE HandleInv'
      BY <1>2 DEF Yields, Continues
<1>3. ASSUME NEW t \in PyThreads, EntersNative(t) PROVE HandleInv'
      BY <1>3 DEF EntersNative
<1>4. ASSUME NEW t \in PyThreads, Refused(t) PROVE HandleInv'
      BY <1>4 DEF Refused, Locked
<1>5. ASSUME NEW t \in PyThreads, Inspects(t) PROVE HandleInv'
      BY <1>5 DEF Inspects, Locked
<1>6. ASSUME NEW t \in PyThreads, CallsRust(t) PROVE HandleInv'
  <2>1. PythonTypeOK'
        BY <1>6 DEF CallsRust, Locked, Continues, Guarded
  <2>2. GuardsMatch'
        BY <1>6 DEF CallsRust, Locked, Continues, Guarded
  <2>3. RequestsUseOpenHandles'
        BY <1>6 DEF CallsRust, Locked, Continues
  <2> QED
      BY <2>1, <2>2, <2>3
<1>7. ASSUME NEW t \in PyThreads, ClosesHandle(t) PROVE HandleInv'
  <2>1. PythonTypeOK'
        BY <1>7 DEF ClosesHandle, Locked, Continues
  <2>2. GuardsMatch'
        BY <1>7 DEF ClosesHandle, Locked, Continues
  <2>3. RequestsUseOpenHandles'
    <3>1. \A u \in PyThreads :
            thread[u].at = "native" /\ thread[u].op = "request"
              => thread[u].handle # thread[t].handle
          BY <1>7 DEF ClosesHandle, Locked
    <3> QED
        BY <1>7, <3>1 DEF ClosesHandle, Locked, Continues
  <2> QED
      BY <2>1, <2>2, <2>3
<1>8. ASSUME NEW t \in PyThreads, NativeReturns(t) PROVE HandleInv'
      BY <1>8 DEF NativeReturns, Continues
<1>9. ASSUME NEW t \in PyThreads, Attaches(t) PROVE HandleInv'
  <2>1. PythonTypeOK'
        BY <1>9 DEF Attaches, Reattached
  <2>2. GuardsMatch'
        BY <1>9 DEF Attaches, Reattached
  <2>3. RequestsUseOpenHandles'
        BY <1>9 DEF Attaches, Reattached
  <2> QED
      BY <2>1, <2>2, <2>3
<1>10. CASE UNCHANGED pythonVars
       BY <1>10 DEF pythonVars
<1> QED
    BY <1>1, <1>2, <1>3, <1>4, <1>5, <1>6, <1>7, <1>8, <1>9, <1>10 DEF PythonNext, Call

\* However Python threads call the extension, a request running in Rust works on
\* a handle that no other thread has closed (close in python-bindings).
THEOREM HandlesOpenInRust == PythonSpec => []RequestsUseOpenHandles
<1>1. PythonSpec => []HandleInv
      BY HandleInitially, HandlePreserved, PTL DEF PythonSpec
<1>2. HandleInv => RequestsUseOpenHandles
      BY DEF HandleInv
<1> QED
    BY <1>1, <1>2, PTL

(* MediaPipeline: the waiters of the two buffers, counted by place.        *)

Places == {"idle", "takes", "awaits_frame", "has_frame", "has_packet", "pushes", "awaits_room",
           "pops", "awaits_packet", "sends", "in_transport", "ended"}
PacketRecord == [by : Nat, id : Nat]
SlotRecord == [full : BOOLEAN, stored : Nat, dropped : Nat, taken : Nat]
QueueRecord == [items : Seq(PacketRecord), dropped : Nat, closed : BOOLEAN]
SenderRecord == [channel : Nat, detached : BOOLEAN, last : Nat]
RecoveryRecord == [step : {"none", "advanced", "opened", "numbered", "in_transport"}, id : Nat]
TrackRecord == [generation : Nat, open : BOOLEAN, last : Nat, by : Nat]

PipelineTyped ==
  /\ slot \in SlotRecord
  /\ queue \in QueueRecord /\ Len(queue.items) <= Capacity
  /\ at \in [Threads -> Places]
  /\ packet \in [Threads -> PacketRecord]
  /\ senders \in Seq(SenderRecord) /\ Len(senders) > 0
  /\ track \in TrackRecord
  /\ recovery \in RecoveryRecord

\* An identifier comes from the counter of the sender that numbered it.
NumberedBy(s, id) == id > 0 => s \in 1..Len(senders) /\ id <= senders[s].last

\* Wherever a packet is, with an encoder, in the queue, with a worker or in transport, its
\* own sender is at or beyond it; so is the sender of the identifier that the track ends
\* with, which is what SenderContinues needs.
SequenceInv ==
  /\ PipelineTyped
  /\ \A t \in Threads : NumberedBy(packet[t].by, packet[t].id)
  /\ \A i \in 1..Len(queue.items) : NumberedBy(queue.items[i].by, queue.items[i].id)
  /\ NumberedBy(track.by, track.last)

\* How many threads are at a place, when f says where each is.
Count(f, place) == Cardinality({t \in Threads : f[t] = place})
One(place, other) == IF place = other THEN 1 ELSE 0

LEMMA CountIsNat ==
  ASSUME NEW p
  PROVE  IsFiniteSet(At(p)) /\ Count(at, p) \in Nat /\ (Count(at, p) = 0 <=> At(p) = {})
<1>1. IsFiniteSet(Threads)
      BY FS_Union, ThreadsAssumption DEF Threads
<1>2. At(p) \in SUBSET Threads
      BY DEF At
<1>3. IsFiniteSet(At(p))
      BY <1>1, <1>2, FS_Subset
<1> QED
    BY <1>3, FS_CardinalityType, FS_EmptySet DEF Count, At

\* A thread that goes from one place to another changes the counts of these two only.
LEMMA CountAfterMove ==
  ASSUME at \in [Threads -> Places], NEW t \in Threads, NEW q \in Places,
         Goes(t, q), at[t] # q, NEW p \in Places
  PROVE  /\ at' \in [Threads -> Places]
         /\ Count(at', p) = Count(at, p) + One(p, q) - One(p, at[t])
<1>1. at' = [at EXCEPT ![t] = q]
      BY DEF Goes
<1>2. IsFiniteSet(At(p)) /\ Count(at, p) \in Nat
      BY CountIsNat
<1>3. CASE p = q
  <2>1. At(p)' = At(p) \union {t} /\ t \notin At(p)
        BY <1>1, <1>3 DEF At
  <2>2. Cardinality(At(p)') = Cardinality(At(p)) + 1
        BY <1>2, <2>1, FS_AddElement
  <2> QED
      BY <1>1, <1>2, <1>3, <2>2 DEF Count, At, One
<1>4. CASE p = at[t]
  <2>1. At(p)' = At(p) \ {t} /\ t \in At(p)
        BY <1>1, <1>4 DEF At
  <2>2. Cardinality(At(p)') = Cardinality(At(p)) - 1
        BY <1>2, <2>1, FS_RemoveElement
  <2> QED
      BY <1>1, <1>2, <1>4, <2>2 DEF Count, At, One
<1>5. CASE p # q /\ p # at[t]
  <2>1. At(p)' = At(p)
        BY <1>1, <1>5 DEF At
  <2> QED
      BY <1>1, <1>2, <1>5, <2>1 DEF Count, At, One
<1> QED
    BY <1>3, <1>4, <1>5

\* A thread that also wakes a waiter, if there is one.
LEMMA CountAfterNotify ==
  ASSUME at \in [Threads -> Places], NEW t \in Threads, NEW q \in Places,
         NEW from \in Places, NEW to \in Places, Notifies(from, to, t, q),
         at[t] # q, from # to, at[t] \notin {from, to}, q \notin {from, to}
  PROVE  /\ at' \in [Threads -> Places]
         /\ \/ /\ Count(at, from) = 0
               /\ \A p \in Places : Count(at', p) = Count(at, p) + One(p, q) - One(p, at[t])
            \/ /\ Count(at, from) > 0
               /\ \A p \in Places :
                    Count(at', p) = Count(at, p) + One(p, q) - One(p, at[t])
                                         + One(p, to) - One(p, from)
<1>1. CASE At(from) = {} /\ Goes(t, q)
  <2>1. Count(at, from) = 0
        BY <1>1, CountIsNat
  <2>2. /\ at' \in [Threads -> Places]
        /\ \A p \in Places : Count(at', p) = Count(at, p) + One(p, q) - One(p, at[t])
        BY <1>1, CountAfterMove
  <2> QED
      BY <2>1, <2>2
<1>2. ASSUME NEW u \in At(from), at' = [at EXCEPT ![u] = to, ![t] = q]
      PROVE  /\ at' \in [Threads -> Places]
             /\ Count(at, from) > 0
             /\ \A p \in Places :
                  Count(at', p) = Count(at, p) + One(p, q) - One(p, at[t])
                                       + One(p, to) - One(p, from)
  <2>1. u \in Threads /\ at[u] = from /\ u # t
        BY DEF At
  <2>2. Count(at, from) \in Nat /\ Count(at, from) # 0
        BY CountIsNat
  <2>3. /\ at' \in [Threads -> Places] /\ at'[u] = to /\ at'[t] = q
        /\ \A v \in Threads : v # u /\ v # t => at'[v] = at[v]
        BY <1>2, <2>1
  <2>4. ASSUME NEW p \in Places
        PROVE  Count(at', p) = Count(at, p) + One(p, q) - One(p, at[t])
                                    + One(p, to) - One(p, from)
    <3>1. IsFiniteSet(At(p)) /\ Count(at, p) \in Nat
          BY CountIsNat
    <3>2. CASE p = q
      <4>1. At(p)' = At(p) \union {t} /\ t \notin At(p)
            BY <2>1, <2>3, <3>2 DEF At
      <4>2. Cardinality(At(p)') = Cardinality(At(p)) + 1
            BY <3>1, <4>1, FS_AddElement
      <4> QED
          BY <3>1, <3>2, <4>2 DEF Count, At, One
    <3>3. CASE p = at[t]
      <4>1. At(p)' = At(p) \ {t} /\ t \in At(p)
            BY <2>1, <2>3, <3>3 DEF At
      <4>2. Cardinality(At(p)') = Cardinality(At(p)) - 1
            BY <3>1, <4>1, FS_RemoveElement
      <4> QED
          BY <3>1, <3>3, <4>2 DEF Count, At, One
    <3>4. CASE p = to
      <4>1. At(p)' = At(p) \union {u} /\ u \notin At(p)
            BY <2>1, <2>3, <3>4 DEF At
      <4>2. Cardinality(At(p)') = Cardinality(At(p)) + 1
            BY <3>1, <4>1, FS_AddElement
      <4> QED
          BY <3>1, <3>4, <4>2 DEF Count, At, One
    <3>5. CASE p = from
      <4>1. At(p)' = At(p) \ {u} /\ u \in At(p)
            BY <2>1, <2>3, <3>5 DEF At
      <4>2. Cardinality(At(p)') = Cardinality(At(p)) - 1
            BY <3>1, <4>1, FS_RemoveElement
      <4> QED
          BY <3>1, <3>5, <4>2 DEF Count, At, One
    <3>6. CASE p \notin {q, at[t], to, from}
      <4>1. At(p)' = At(p)
            BY <2>1, <2>3, <3>6 DEF At
      <4> QED
          BY <3>1, <3>6, <4>1 DEF Count, At, One
    <3> QED
        BY <3>2, <3>3, <3>4, <3>5, <3>6
  <2> QED
      BY <2>2, <2>3, <2>4
<1> QED
    BY <1>1, <1>2 DEF Notifies

\* NoLostWakeup in numbers: the form in which the steps are counted.
WakeCounts ==
  /\ Count(at, "awaits_frame") > 0 /\ slot.full => Count(at, "takes") > 0
  /\ Count(at, "awaits_packet") > 0 =>
       ~queue.closed /\ Count(at, "pops") >= Len(queue.items)
  /\ Count(at, "awaits_room") > 0 =>
       ~queue.closed /\ Count(at, "pushes") >= Capacity - Len(queue.items)

LEMMA CountsSuffice == WakeCounts => NoLostWakeup
<1>1. ASSUME NEW p PROVE (At(p) # {}) <=> (Count(at, p) > 0)
  <2>1. Count(at, p) \in Nat /\ (Count(at, p) = 0 <=> At(p) = {})
        BY CountIsNat
  <2>2. Count(at, p) > 0 <=> Count(at, p) # 0
        BY <2>1
  <2> QED
      BY <2>1, <2>2
<1>2. /\ At("awaits_frame") # {} => Count(at, "awaits_frame") > 0
      /\ At("awaits_packet") # {} => Count(at, "awaits_packet") > 0
      /\ At("awaits_room") # {} => Count(at, "awaits_room") > 0
      /\ Count(at, "takes") > 0 => At("takes") # {}
      BY <1>1
<1>3. /\ Count(at, "pops") = Cardinality(At("pops"))
      /\ Count(at, "pushes") = Cardinality(At("pushes"))
      BY DEF Count, At
<1> QED
    BY <1>2, <1>3 DEF WakeCounts, NoLostWakeup

\* What the methods write into the buffers keeps their records well typed.
LEMMA SlotWritten ==
  ASSUME NEW s \in SlotRecord, NEW n \in Nat, NEW k \in Nat
  PROVE  /\ [s EXCEPT !.full = TRUE, !.stored = n, !.dropped = k] \in SlotRecord
         /\ [s EXCEPT !.full = FALSE, !.taken = n] \in SlotRecord
BY DEF SlotRecord

LEMMA QueueWritten ==
  ASSUME NEW q \in QueueRecord
  PROVE  /\ [q EXCEPT !.closed = TRUE] \in QueueRecord
         /\ [q EXCEPT !.closed = TRUE].items = q.items
         /\ \A k \in Nat : /\ [q EXCEPT !.dropped = k] \in QueueRecord
                           /\ [q EXCEPT !.dropped = k].items = q.items
                           /\ [q EXCEPT !.dropped = k].closed = q.closed
         /\ \A s \in Seq(PacketRecord) : /\ [q EXCEPT !.items = s] \in QueueRecord
                                         /\ [q EXCEPT !.items = s].items = s
                                         /\ [q EXCEPT !.items = s].closed = q.closed
BY DEF QueueRecord

\* A push appends what the encoder holds; a pop takes the first packet.
LEMMA ItemsAppended ==
  ASSUME NEW s \in Seq(PacketRecord), NEW p \in PacketRecord
  PROVE  /\ Append(s, p) \in Seq(PacketRecord) /\ Len(Append(s, p)) = Len(s) + 1
         /\ \A i \in 1..Len(s) : Append(s, p)[i] = s[i]
         /\ Append(s, p)[Len(s) + 1] = p
OBVIOUS

LEMMA ItemsTaken ==
  ASSUME NEW s \in Seq(PacketRecord), s # <<>>
  PROVE  /\ Tail(s) \in Seq(PacketRecord) /\ Len(Tail(s)) = Len(s) - 1 /\ Len(s) > 0
         /\ Head(s) \in PacketRecord /\ Head(s) = s[1]
         /\ \A i \in 1..Len(Tail(s)) : Tail(s)[i] = s[i + 1]
OBVIOUS

\* What a step may make of the queue and of the packet that the thread at work holds.
LEMMA QueueSteps ==
  ASSUME PipelineTyped, NEW t \in Threads, Pushes(t) \/ TriesPush(t) \/ Pops(t)
  PROVE  /\ slot' = slot /\ UNCHANGED <<senders, track, recovery>>
         /\ queue' \in QueueRecord /\ Len(queue'.items) <= Capacity
         /\ packet' \in [Threads -> PacketRecord]
         /\ \A i \in 1..Len(queue'.items) :
              \/ i \in 1..Len(queue.items) /\ queue'.items[i] = queue.items[i]
              \/ i + 1 \in 1..Len(queue.items) /\ queue'.items[i] = queue.items[i + 1]
              \/ queue'.items[i] = packet[t]
         /\ \A u \in Threads :
              \/ packet'[u] = packet[u]
              \/ packet'[u] = NoPacket
              \/ 1 \in 1..Len(queue.items) /\ packet'[u] = queue.items[1]
<1>0. /\ queue \in QueueRecord /\ queue.items \in Seq(PacketRecord)
      /\ queue.dropped + 1 \in Nat /\ Len(queue.items) \in Nat /\ Len(queue.items) <= Capacity
      /\ packet \in [Threads -> PacketRecord] /\ packet[t] \in PacketRecord
      /\ NoPacket \in PacketRecord /\ Capacity \in Nat
      BY CapacityAssumption DEF PipelineTyped, QueueRecord, NoPacket, PacketRecord
<1>1. slot' = slot /\ UNCHANGED <<senders, track, recovery>>
      BY DEF Pushes, TriesPush, Pops, sequenceVars
<1>2. \/ queue' = queue /\ (packet' = packet \/ PutsDown(t))
      \/ queue' = [queue EXCEPT !.dropped = queue.dropped + 1] /\ PutsDown(t)
      \/ /\ Len(queue.items) < Capacity /\ PutsDown(t)
         /\ queue' = [queue EXCEPT !.items = Append(queue.items, packet[t])]
      \/ /\ queue.items # <<>> /\ packet' = [packet EXCEPT ![t] = Head(queue.items)]
         /\ queue' = [queue EXCEPT !.items = Tail(queue.items)]
      BY DEF Pushes, TriesPush, Pops, Flushed
<1>3. CASE queue' = queue /\ (packet' = packet \/ PutsDown(t))
      BY <1>0, <1>1, <1>3 DEF PutsDown
<1>4. CASE queue' = [queue EXCEPT !.dropped = queue.dropped + 1] /\ PutsDown(t)
  <2>1. queue' \in QueueRecord /\ queue'.items = queue.items
        BY <1>0, <1>4, QueueWritten
  <2> QED
      BY <1>0, <1>1, <1>4, <2>1 DEF PutsDown
<1>5. CASE /\ Len(queue.items) < Capacity /\ PutsDown(t)
           /\ queue' = [queue EXCEPT !.items = Append(queue.items, packet[t])]
  <2>1. queue' \in QueueRecord /\ queue'.items = Append(queue.items, packet[t])
        BY <1>0, <1>5, QueueWritten, ItemsAppended
  <2>2. /\ Len(queue'.items) = Len(queue.items) + 1
        /\ queue'.items[Len(queue.items) + 1] = packet[t]
        /\ \A i \in 1..Len(queue.items) : queue'.items[i] = queue.items[i]
        BY <1>0, <2>1, ItemsAppended
  <2> QED
      BY <1>0, <1>1, <1>5, <2>1, <2>2 DEF PutsDown
<1>6. CASE /\ queue.items # <<>> /\ packet' = [packet EXCEPT ![t] = Head(queue.items)]
           /\ queue' = [queue EXCEPT !.items = Tail(queue.items)]
  <2>1. /\ Head(queue.items) \in PacketRecord /\ Head(queue.items) = queue.items[1]
        /\ Tail(queue.items) \in Seq(PacketRecord) /\ Len(queue.items) > 0
        /\ Len(Tail(queue.items)) = Len(queue.items) - 1
        /\ \A i \in 1..Len(Tail(queue.items)) : Tail(queue.items)[i] = queue.items[i + 1]
        BY <1>0, <1>6, ItemsTaken
  <2>2. queue' \in QueueRecord /\ queue'.items = Tail(queue.items)
        BY <1>0, <1>6, <2>1, QueueWritten
  <2> QED
      BY <1>0, <1>1, <1>6, <2>1, <2>2
<1> QED
    BY <1>2, <1>3, <1>4, <1>5, <1>6

LEMMA BuffersTyped ==
  ASSUME PipelineTyped, [PipelineNext]_pipelineVars
  PROVE  slot' \in SlotRecord /\ queue' \in QueueRecord /\ Len(queue'.items) <= Capacity
<1> USE DEF PipelineTyped
<1>0. /\ slot.stored + 1 \in Nat /\ slot.taken + 1 \in Nat
      /\ slot.dropped \in Nat /\ slot.dropped + 1 \in Nat
      BY DEF SlotRecord
<1>1. Encoders \subseteq Threads /\ Workers \subseteq Threads
      BY DEF Threads
<1>2. CASE Stores
  <2> DEFINE dropped == IF slot.full THEN slot.dropped + 1 ELSE slot.dropped
  <2>1. dropped \in Nat
        BY <1>0
  <2>2. slot' = [slot EXCEPT !.full = TRUE, !.stored = slot.stored + 1, !.dropped = dropped]
        BY <1>2 DEF Stores
  <2> HIDE DEF dropped
  <2>3. slot' \in SlotRecord
        BY <1>0, <2>1, <2>2, SlotWritten
  <2> QED
      BY <1>2, <2>3 DEF Stores
<1>3. CASE Closes
      BY <1>3, QueueWritten DEF Closes
<1>4. CASE ChannelLost \/ Detaches \/ StartsRecovery \/ Reopens \/ NumbersUnit \/ SendsUnit
             \/ Recovers \/ FailsRecovery \/ UNCHANGED pipelineVars
      BY <1>4 DEF ChannelLost, Detaches, StartsRecovery, Reopens, NumbersUnit, SendsUnit,
                  Recovers, FailsRecovery, pipelineVars
<1>5. ASSUME NEW t, WakesAlone(t) \/ Numbers(t) \/ Sends(t) \/ Merges(t) \/ StartsPop(t)
                      \/ StartsTake(t) \/ Starts(t)
      PROVE  slot' = slot /\ queue' = queue
      BY <1>5 DEF WakesAlone, Numbers, Sends, Merges, StartsPop, StartsTake, Starts
<1>6. ASSUME NEW e, Takes(e) \/ TriesTake(e)
      PROVE  queue' = queue /\ slot' \in SlotRecord
  <2>1. /\ queue' = queue
        /\ slot' = slot \/ slot' = [slot EXCEPT !.full = FALSE, !.taken = slot.taken + 1]
        BY <1>6 DEF Takes, TriesTake
  <2> QED
      BY <1>0, <2>1, SlotWritten
<1>7. ASSUME NEW t \in Threads, Pushes(t) \/ TriesPush(t) \/ Pops(t)
      PROVE  slot' = slot /\ queue' \in QueueRecord /\ Len(queue'.items) <= Capacity
      BY <1>7, QueueSteps
<1> QED
    BY <1>1, <1>2, <1>3, <1>4, <1>5, <1>6, <1>7 DEF PipelineNext

LEMMA ThreadsTyped ==
  ASSUME at \in [Threads -> Places], [PipelineNext]_pipelineVars
  PROVE  at' \in [Threads -> Places]
<1>0. Encoders \subseteq Threads /\ Workers \subseteq Threads
      BY DEF Threads
<1>1. ASSUME NEW t \in Threads, NEW q \in Places, Goes(t, q) PROVE at' \in [Threads -> Places]
      BY <1>1 DEF Goes
<1>2. ASSUME NEW t \in Threads, NEW q \in Places, NEW from, NEW to \in Places,
             Notifies(from, to, t, q)
      PROVE  at' \in [Threads -> Places]
      BY <1>2 DEF Notifies, Goes, At
<1>3. CASE Stores
      BY <1>1, <1>3 DEF Stores, At, Places
<1>4. CASE Closes
      BY <1>4 DEF Closes, Places
<1>5. CASE UNCHANGED at
      BY <1>5
<1>6. ASSUME NEW t \in Threads,
             StartsTake(t) \/ Takes(t) \/ TriesTake(t) \/ Numbers(t) \/ Starts(t)
               \/ StartsPop(t) \/ Sends(t) \/ Merges(t) \/ WakesAlone(t)
      PROVE  at' \in [Threads -> Places]
  <2>1. \E q \in Places : Goes(t, q)
        BY <1>6 DEF StartsTake, Takes, TriesTake, Numbers, Starts, StartsPop, Sends, Merges,
                    Flushed, WakesAlone, Places
  <2> QED
      BY <1>1, <2>1
<1>7. ASSUME NEW t \in Threads, Pushes(t) \/ TriesPush(t) \/ Pops(t)
      PROVE  at' \in [Threads -> Places]
      BY <1>1, <1>2, <1>7 DEF Pushes, TriesPush, Pops, Flushed, Places
<1>8. ChannelLost \/ Detaches \/ StartsRecovery \/ Reopens \/ NumbersUnit \/ SendsUnit
        \/ Recovers \/ FailsRecovery \/ UNCHANGED pipelineVars => UNCHANGED at
      BY DEF ChannelLost, Detaches, StartsRecovery, Reopens, NumbersUnit, SendsUnit, Recovers,
             FailsRecovery, pipelineVars
<1> QED
    BY <1>0, <1>3, <1>4, <1>5, <1>6, <1>7, <1>8 DEF PipelineNext

LEMMA SendersAt ==
  ASSUME NEW q \in Seq(SenderRecord)
  PROVE  /\ Len(q) \in Nat /\ DOMAIN q = 1..Len(q)
         /\ \A k \in 1..Len(q) : q[k] \in SenderRecord /\ q[k].last \in Nat
<1>1. Len(q) \in Nat /\ DOMAIN q = 1..Len(q) /\ \A k \in 1..Len(q) : q[k] \in SenderRecord
      OBVIOUS
<1>2. \A r \in SenderRecord : r.last \in Nat
      BY DEF SenderRecord
<1> QED
    BY <1>1, <1>2

\* The senders a step leaves behind: none is forgotten and no counter goes back.
SendersGrow ==
  /\ senders' \in Seq(SenderRecord) /\ Len(senders') >= Len(senders)
  /\ \A s \in 1..Len(senders) : senders'[s].last >= senders[s].last

LEMMA NumbersStand ==
  ASSUME PipelineTyped, SendersGrow, NEW s \in Nat, NEW id \in Nat, NumberedBy(s, id)
  PROVE  NumberedBy(s, id)'
<1>1. /\ Len(senders) \in Nat /\ Len(senders') \in Nat
      /\ Len(senders') >= Len(senders)
      /\ \A k \in 1..Len(senders) : senders[k].last \in Nat
      /\ \A k \in 1..Len(senders') : senders'[k].last \in Nat
      BY SendersAt DEF PipelineTyped, SendersGrow
<1> QED
    BY <1>1 DEF SendersGrow, NumberedBy

\* A step that changes the senders changes one counter or adds one sender.
LEMMA SendersChanged ==
  ASSUME PipelineTyped, [PipelineNext]_pipelineVars
  PROVE  SendersGrow
<1>0. /\ senders \in Seq(SenderRecord) /\ Len(senders) \in Nat
      /\ \A s \in 1..Len(senders) : senders[s] \in SenderRecord /\ senders[s].last \in Nat
      /\ DOMAIN senders = 1..Len(senders)
      BY SendersAt DEF PipelineTyped
<1>1. ASSUME senders' = senders PROVE SendersGrow
      BY <1>0, <1>1 DEF SendersGrow
<1>2. ASSUME NEW s \in DOMAIN senders, NEW r \in SenderRecord, r.last >= senders[s].last,
             senders' = [senders EXCEPT ![s] = r]
      PROVE  SendersGrow
      BY <1>0, <1>2 DEF SendersGrow
<1>3. CASE Detaches
  <2>1. PICK s \in DOMAIN senders : senders' = [senders EXCEPT ![s].detached = TRUE]
        BY <1>3 DEF Detaches
  <2>2. /\ [senders[s] EXCEPT !.detached = TRUE] \in SenderRecord
        /\ [senders[s] EXCEPT !.detached = TRUE].last = senders[s].last
        BY <1>0 DEF SenderRecord
  <2>3. senders' = [senders EXCEPT ![s] = [senders[s] EXCEPT !.detached = TRUE]]
        BY <2>1
  <2>4. senders[s].last \in Nat
        BY <1>0
  <2> DEFINE r == [senders[s] EXCEPT !.detached = TRUE]
  <2>5. r \in SenderRecord /\ r.last >= senders[s].last /\ senders' = [senders EXCEPT ![s] = r]
        BY <2>2, <2>3, <2>4
  <2> HIDE DEF r
  <2> QED
      BY <1>2, <2>5
<1>4. ASSUME NEW e, Numbers(e) PROVE SendersGrow
  <2>1. PICK s \in DOMAIN senders : senders' = [senders EXCEPT ![s].last = @ + 1]
        BY <1>4 DEF Numbers
  <2>2. /\ [senders[s] EXCEPT !.last = @ + 1] \in SenderRecord
        /\ [senders[s] EXCEPT !.last = @ + 1].last = senders[s].last + 1
        BY <1>0 DEF SenderRecord
  <2>3. senders' = [senders EXCEPT ![s] = [senders[s] EXCEPT !.last = @ + 1]]
        BY <2>1
  <2>4. senders[s].last \in Nat
        BY <1>0
  <2> DEFINE r == [senders[s] EXCEPT !.last = @ + 1]
  <2>5. r \in SenderRecord /\ r.last >= senders[s].last /\ senders' = [senders EXCEPT ![s] = r]
        BY <2>2, <2>3, <2>4
  <2> HIDE DEF r
  <2> QED
      BY <1>2, <2>5
<1>5. CASE Recovers
  <2> DEFINE made == [channel |-> track.generation, detached |-> FALSE, last |-> recovery.id]
  <2>1. made \in SenderRecord /\ senders' = Append(senders, made)
        BY <1>5 DEF Recovers, PipelineTyped, SenderRecord, TrackRecord, RecoveryRecord
  <2> HIDE DEF made
  <2>2. senders' \in Seq(SenderRecord) /\ Len(senders') = Len(senders) + 1
        BY <1>0, <2>1
  <2>3. \A s \in 1..Len(senders) : senders'[s] = senders[s]
        BY <1>0, <2>1
  <2> QED
      BY <1>0, <2>2, <2>3 DEF SendersGrow
<1>6. Stores \/ Closes \/ ChannelLost \/ StartsRecovery \/ Reopens \/ NumbersUnit \/ SendsUnit
        \/ FailsRecovery \/ UNCHANGED pipelineVars => senders' = senders
      BY DEF Stores, Closes, ChannelLost, StartsRecovery, Reopens, NumbersUnit, SendsUnit,
             FailsRecovery, sequenceVars, pipelineVars
<1>7. ASSUME NEW t, StartsTake(t) \/ Takes(t) \/ TriesTake(t) \/ Starts(t) \/ Pushes(t)
                      \/ TriesPush(t) \/ StartsPop(t) \/ Pops(t) \/ Sends(t) \/ Merges(t)
                      \/ WakesAlone(t)
      PROVE  senders' = senders
      BY <1>7 DEF StartsTake, Takes, TriesTake, Starts, Pushes, TriesPush, StartsPop, Pops, Sends,
                  Merges, WakesAlone, sequenceVars
<1> QED
    BY <1>1, <1>3, <1>4, <1>5, <1>6, <1>7 DEF PipelineNext

\* What the track becomes: the same last identifier, or one that a worker had in
\* transport, or the one of the unit, which the sender made with it numbered.
LEMMA TrackChanged ==
  ASSUME SequenceInv, [PipelineNext]_pipelineVars
  PROVE  track' \in TrackRecord /\ recovery' \in RecoveryRecord /\ NumberedBy(track.by, track.last)'
<1>0. /\ track \in TrackRecord /\ recovery \in RecoveryRecord /\ packet \in [Threads -> PacketRecord]
      /\ track.by \in Nat /\ track.last \in Nat /\ track.generation \in Nat
      /\ senders \in Seq(SenderRecord) /\ Len(senders) \in Nat
      /\ recovery.id \in Nat
      BY DEF SequenceInv, PipelineTyped, TrackRecord, RecoveryRecord
<1>1. SendersGrow /\ (\A s \in Nat, id \in Nat : NumberedBy(s, id) => NumberedBy(s, id)')
      BY SendersChanged, NumbersStand DEF SequenceInv
<1>2. ASSUME NEW s \in Nat, NEW id \in Nat, NumberedBy(s, id)', track' = Merged(track, id, s)
      PROVE  track' \in TrackRecord /\ NumberedBy(track.by, track.last)'
  <2>1. CASE id > track.last
    <3>1. track' \in TrackRecord /\ track'.by = s /\ track'.last = id
          BY <1>0, <1>2, <2>1 DEF Merged, TrackRecord
    <3> QED
        BY <1>2, <3>1 DEF NumberedBy
  <2>2. CASE ~(id > track.last)
    <3>1. track' = track
          BY <1>2, <2>2 DEF Merged
    <3> QED
        BY <1>0, <1>1, <3>1 DEF SequenceInv, NumberedBy
  <2> QED
      BY <2>1, <2>2
<1>3. ASSUME track'.by = track.by, track'.last = track.last, track' \in TrackRecord
      PROVE  NumberedBy(track.by, track.last)'
      BY <1>0, <1>1, <1>3 DEF SequenceInv, NumberedBy
<1>4. ASSUME track' = track PROVE track' \in TrackRecord /\ NumberedBy(track.by, track.last)'
      BY <1>0, <1>3, <1>4
<1>5. CASE ChannelLost \/ StartsRecovery \/ Reopens
  <2>1. /\ track' \in TrackRecord /\ track'.by = track.by /\ track'.last = track.last
    <3>1. track.generation + 1 \in Nat
          BY <1>0
    <3>2. \A n \in Nat, b \in BOOLEAN :
            /\ [track EXCEPT !.generation = n, !.open = b] \in TrackRecord
            /\ [track EXCEPT !.generation = n, !.open = b].by = track.by
            /\ [track EXCEPT !.generation = n, !.open = b].last = track.last
            /\ [track EXCEPT !.open = b] \in TrackRecord
            /\ [track EXCEPT !.open = b].by = track.by
            /\ [track EXCEPT !.open = b].last = track.last
          BY <1>0 DEF TrackRecord
    <3>3. \/ track' = [track EXCEPT !.generation = track.generation + 1, !.open = FALSE]
          \/ \E b \in BOOLEAN : track' = [track EXCEPT !.open = b]
          BY <1>5 DEF ChannelLost, StartsRecovery, Reopens
    <3>4. CASE track' = [track EXCEPT !.generation = track.generation + 1, !.open = FALSE]
          BY <3>1, <3>2, <3>4
    <3>5. ASSUME NEW b \in BOOLEAN, track' = [track EXCEPT !.open = b]
          PROVE  track' \in TrackRecord /\ track'.by = track.by /\ track'.last = track.last
          BY <3>2, <3>5
    <3> QED
        BY <3>3, <3>4, <3>5
  <2>2. recovery' \in RecoveryRecord
        BY <1>0, <1>5 DEF ChannelLost, StartsRecovery, Reopens, RecoveryRecord
  <2> QED
      BY <1>0, <1>3, <2>1, <2>2
<1>6. CASE Recovers
  <2> DEFINE made == [channel |-> track.generation, detached |-> FALSE, last |-> recovery.id]
  <2>1. made \in SenderRecord /\ senders' = Append(senders, made) /\ made.last = recovery.id
        BY <1>0, <1>6 DEF Recovers, SenderRecord
  <2> HIDE DEF made
  <2>2. Len(senders') = Len(senders) + 1 /\ senders'[Len(senders) + 1] = made
        BY <1>0, <2>1
  <2>4. \A id \in Nat : id = recovery.id =>
          (id > 0 => Len(senders) + 1 \in 1..Len(senders') /\ id <= senders'[Len(senders) + 1].last)
        BY <1>0, <2>1, <2>2
  <2>5. PICK n \in Nat : n = Len(senders) + 1
        BY <1>0
  <2>6. PICK k \in Nat : k = recovery.id
        BY <1>0
  <2>7. NumberedBy(n, k)'
        BY <2>4, <2>5, <2>6 DEF NumberedBy
  <2>8. track' = Merged(track, k, n) /\ recovery' \in RecoveryRecord
        BY <1>6, <2>5, <2>6 DEF Recovers, Newest, RecoveryRecord
  <2> QED
      BY <1>2, <2>7, <2>8
<1>7. ASSUME NEW w \in Threads, Merges(w)
      PROVE  /\ track' \in TrackRecord /\ NumberedBy(track.by, track.last)'
             /\ recovery' \in RecoveryRecord
  <2>1. packet[w].by \in Nat /\ packet[w].id \in Nat /\ NumberedBy(packet[w].by, packet[w].id)
        BY <1>0 DEF PacketRecord, SequenceInv
  <2>2. PICK n \in Nat, k \in Nat : n = packet[w].by /\ k = packet[w].id
        BY <2>1
  <2>3. NumberedBy(n, k)'
        BY <1>1, <2>1, <2>2
  <2>4. track' = track \/ track' = Merged(track, k, n)
        BY <1>7, <2>2 DEF Merges
  <2>5. recovery' = recovery
        BY <1>7 DEF Merges
  <2> QED
      BY <1>0, <1>2, <1>4, <2>3, <2>4, <2>5
<1>8. NumbersUnit \/ SendsUnit \/ FailsRecovery => track' = track /\ recovery' \in RecoveryRecord
      BY <1>0 DEF NumbersUnit, SendsUnit, FailsRecovery, RecoveryRecord
<1>9. Stores \/ Closes \/ Detaches \/ UNCHANGED pipelineVars => UNCHANGED <<track, recovery>>
      BY DEF Stores, Closes, Detaches, sequenceVars, pipelineVars
<1>10. ASSUME NEW t, StartsTake(t) \/ Takes(t) \/ TriesTake(t) \/ Numbers(t) \/ Starts(t)
                       \/ Pushes(t) \/ TriesPush(t) \/ StartsPop(t) \/ Pops(t) \/ Sends(t)
                       \/ WakesAlone(t)
       PROVE  UNCHANGED <<track, recovery>>
       BY <1>10 DEF StartsTake, Takes, TriesTake, Numbers, Starts, Pushes, TriesPush, StartsPop,
                    Pops, Sends, WakesAlone, sequenceVars
<1>11. Workers \subseteq Threads
       BY DEF Threads
<1> QED
    BY <1>0, <1>4, <1>5, <1>6, <1>7, <1>8, <1>9, <1>10, <1>11 DEF PipelineNext

\* What the threads hold and what the queue holds stays numbered.
LEMMA PacketsStayNumbered ==
  ASSUME SequenceInv, [PipelineNext]_pipelineVars
  PROVE  /\ packet' \in [Threads -> PacketRecord]
         /\ \A t \in Threads : NumberedBy(packet[t].by, packet[t].id)'
         /\ \A i \in 1..Len(queue'.items) :
              NumberedBy(queue.items[i].by, queue.items[i].id)'
<1> DEFINE Stands(p) == NumberedBy(p.by, p.id)
           After(p) == p.id > 0 => p.by \in 1..Len(senders') /\ p.id <= senders'[p.by].last
<1>0. /\ PipelineTyped /\ packet \in [Threads -> PacketRecord] /\ NoPacket \in PacketRecord
      /\ queue.items \in Seq(PacketRecord) /\ Len(queue.items) \in Nat
      /\ Encoders \subseteq Threads /\ Workers \subseteq Threads
      BY DEF SequenceInv, PipelineTyped, QueueRecord, NoPacket, PacketRecord, Threads
<1>1. \A p \in PacketRecord : Stands(p) => After(p)
      BY <1>0, SendersChanged, NumbersStand DEF NumberedBy, PacketRecord
<1>2. /\ \A t \in Threads : After(packet[t])
      /\ \A i \in 1..Len(queue.items) : After(queue.items[i]) /\ queue.items[i] \in PacketRecord
      BY <1>0, <1>1 DEF SequenceInv
<1>3. After(NoPacket)
      BY DEF NoPacket
<1> SUFFICES /\ packet' \in [Threads -> PacketRecord]
             /\ \A t \in Threads : After(packet'[t])
             /\ \A i \in 1..Len(queue'.items) : After(queue'.items[i])
    BY DEF NumberedBy
<1> HIDE DEF After, Stands
<1>4. ASSUME packet' = packet, queue'.items = queue.items
      PROVE  /\ packet' \in [Threads -> PacketRecord]
             /\ \A t \in Threads : After(packet'[t])
             /\ \A i \in 1..Len(queue'.items) : After(queue'.items[i])
      BY <1>0, <1>2, <1>4
<1>5. ASSUME NEW w \in Threads, NEW p \in PacketRecord, After(p),
             packet' = [packet EXCEPT ![w] = p], queue' = queue
      PROVE  /\ packet' \in [Threads -> PacketRecord]
             /\ \A t \in Threads : After(packet'[t])
             /\ \A i \in 1..Len(queue'.items) : After(queue'.items[i])
      BY <1>0, <1>2, <1>5
<1>6. ASSUME NEW t \in Threads, Pushes(t) \/ TriesPush(t) \/ Pops(t)
      PROVE  /\ packet' \in [Threads -> PacketRecord]
             /\ \A u \in Threads : After(packet'[u])
             /\ \A i \in 1..Len(queue'.items) : After(queue'.items[i])
      BY <1>0, <1>2, <1>3, <1>6, QueueSteps
<1>7. ASSUME NEW e \in Threads, Numbers(e)
      PROVE  /\ packet' \in [Threads -> PacketRecord]
             /\ \A u \in Threads : After(packet'[u])
             /\ \A i \in 1..Len(queue'.items) : After(queue'.items[i])
  <2>1. PICK s \in DOMAIN senders :
          /\ senders' = [senders EXCEPT ![s].last = @ + 1]
          /\ packet' = [packet EXCEPT ![e] = [by |-> s, id |-> senders[s].last + 1]]
        BY <1>7 DEF Numbers
  <2>2. /\ senders \in Seq(SenderRecord) /\ DOMAIN senders = 1..Len(senders)
        /\ Len(senders) \in Nat /\ s \in Nat
        /\ senders[s] \in SenderRecord /\ senders[s].last \in Nat
        BY <1>0, <2>1, SendersAt DEF PipelineTyped
  <2>3. senders' \in Seq(SenderRecord) /\ Len(senders') = Len(senders)
        /\ senders'[s].last = senders[s].last + 1
    <3> DEFINE r == [senders[s] EXCEPT !.last = @ + 1]
    <3>1. \A x \in SenderRecord : /\ [x EXCEPT !.last = @ + 1] \in SenderRecord
                                 /\ [x EXCEPT !.last = @ + 1].last = x.last + 1
          BY DEF SenderRecord
    <3>2. r \in SenderRecord /\ r.last = senders[s].last + 1
          BY <2>2, <3>1
    <3>3. senders' = [senders EXCEPT ![s] = r]
          BY <2>1
    <3> HIDE DEF r
    <3>4. \A q \in Seq(SenderRecord) : \A k \in 1..Len(q) : \A x \in SenderRecord :
            /\ [q EXCEPT ![k] = x] \in Seq(SenderRecord)
            /\ Len([q EXCEPT ![k] = x]) = Len(q) /\ [q EXCEPT ![k] = x][k] = x
          OBVIOUS
    <3>5. senders' \in Seq(SenderRecord) /\ Len(senders') = Len(senders) /\ senders'[s] = r
          BY <2>2, <3>2, <3>3, <3>4
    <3> QED
        BY <3>2, <3>5
  <2> DEFINE p == [by |-> s, id |-> senders[s].last + 1]
  <2>4. p \in PacketRecord /\ p.by = s /\ p.id = senders[s].last + 1
        BY <2>2 DEF PacketRecord
  <2>5. packet' = [packet EXCEPT ![e] = p]
        BY <2>1
  <2> HIDE DEF p
  <2>6. After(p)
        BY <2>1, <2>2, <2>3, <2>4 DEF After
  <2>7. queue' = queue
        BY <1>7 DEF Numbers
  <2> QED
      BY <1>5, <2>4, <2>5, <2>6, <2>7
<1>8. ASSUME NEW w \in Threads, Sends(w) \/ Merges(w)
      PROVE  /\ packet' \in [Threads -> PacketRecord]
             /\ \A u \in Threads : After(packet'[u])
             /\ \A i \in 1..Len(queue'.items) : After(queue'.items[i])
  <2>1. queue' = queue /\ (packet' = packet \/ packet' = [packet EXCEPT ![w] = NoPacket])
        BY <1>8 DEF Sends, Merges, Flushed, PutsDown
  <2> QED
      BY <1>0, <1>3, <1>4, <1>5, <2>1
<1>9. ASSUME NEW t, StartsTake(t) \/ Takes(t) \/ TriesTake(t) \/ Starts(t) \/ StartsPop(t)
                      \/ WakesAlone(t)
      PROVE  packet' = packet /\ queue' = queue
      BY <1>9 DEF StartsTake, Takes, TriesTake, Starts, StartsPop, WakesAlone
<1>10. CASE Closes
       BY <1>0, <1>4, <1>10, QueueWritten DEF Closes, PipelineTyped
<1>11. Stores \/ ChannelLost \/ Detaches \/ StartsRecovery \/ Reopens \/ NumbersUnit \/ SendsUnit
         \/ Recovers \/ FailsRecovery \/ UNCHANGED pipelineVars => packet' = packet /\ queue' = queue
       BY DEF Stores, ChannelLost, Detaches, StartsRecovery, Reopens, NumbersUnit, SendsUnit,
              Recovers, FailsRecovery, pipelineVars
<1> QED
    BY <1>0, <1>4, <1>6, <1>7, <1>8, <1>9, <1>10, <1>11 DEF PipelineNext

LEMMA SequencePreserved ==
  ASSUME SequenceInv, [PipelineNext]_pipelineVars
  PROVE  SequenceInv'
<1>1. slot' \in SlotRecord /\ queue' \in QueueRecord /\ Len(queue'.items) <= Capacity
      BY BuffersTyped DEF SequenceInv
<1>2. at' \in [Threads -> Places]
      BY ThreadsTyped DEF SequenceInv, PipelineTyped
<1>3. senders' \in Seq(SenderRecord) /\ Len(senders') > 0
  <2>1. SendersGrow /\ Len(senders) > 0 /\ Len(senders) \in Nat
        BY SendersChanged DEF SequenceInv, PipelineTyped
  <2> QED
      BY <2>1 DEF SendersGrow
<1> QED
    BY <1>1, <1>2, <1>3, TrackChanged, PacketsStayNumbered DEF SequenceInv, PipelineTyped

\* The places of the waiters and of those that a waiter is made.
Waiting == {"awaits_frame", "takes", "awaits_packet", "pops", "awaits_room", "pushes"}

\* Who joins the waiters has seen nothing to take or no place to fill; who changes a
\* buffer leaves a count behind that follows it.
LEMMA WakeupsPreserved ==
  ASSUME PipelineTyped, WakeCounts, [PipelineNext]_pipelineVars
  PROVE  WakeCounts'
<1>0. /\ Encoders \subseteq Threads /\ Workers \subseteq Threads /\ Capacity \in Nat
      /\ at \in [Threads -> Places] /\ Len(queue.items) \in 0..Capacity
      /\ slot \in SlotRecord /\ queue \in QueueRecord
      /\ queue.items \in Seq(PacketRecord) /\ packet \in [Threads -> PacketRecord]
      BY CapacityAssumption DEF Threads, PipelineTyped, QueueRecord
<1>00. Waiting \subseteq Places
       BY DEF Waiting, Places
<1>1. \A p \in Waiting : Count(at, p) \in Nat
      BY CountIsNat
<1>2. ASSUME NEW t \in Threads, NEW q \in Places, Goes(t, q), at[t] # q
      PROVE  \A p \in Waiting : Count(at', p) = Count(at, p) + One(p, q) - One(p, at[t])
      BY <1>0, <1>00, <1>2, CountAfterMove
<1>3. ASSUME NEW t \in Threads, NEW q \in Places, NEW from \in Places, NEW to \in Places,
             Notifies(from, to, t, q),
             at[t] # q, from # to, at[t] \notin {from, to}, q \notin {from, to}
      PROVE  \/ /\ Count(at, from) = 0
                /\ \A p \in Waiting : Count(at', p) = Count(at, p) + One(p, q) - One(p, at[t])
             \/ /\ Count(at, from) > 0
                /\ \A p \in Waiting :
                     Count(at', p) = Count(at, p) + One(p, q) - One(p, at[t])
                                          + One(p, to) - One(p, from)
      BY <1>0, <1>00, <1>3, CountAfterNotify
<1>4. ASSUME at' = at PROVE \A p \in Waiting : Count(at', p) = Count(at, p)
      BY <1>4 DEF Count, At
<1>5. CASE Stores
  <2>1. queue' = queue /\ slot'.full = TRUE
        BY <1>0, <1>5 DEF Stores, SlotRecord
  <2>2. CASE At("awaits_frame") = {} /\ UNCHANGED at
    <3>1. Count(at, "awaits_frame") = 0
          BY <2>2, CountIsNat
    <3> QED
        BY <1>1, <1>4, <2>1, <2>2, <3>1 DEF WakeCounts, Waiting
  <2>3. ASSUME NEW u \in At("awaits_frame"), Goes(u, "takes") PROVE WakeCounts'
    <3>1. u \in Threads /\ at[u] = "awaits_frame"
          BY DEF At
    <3>2. \A p \in Waiting :
            Count(at', p) = Count(at, p) + One(p, "takes") - One(p, "awaits_frame")
          BY <1>2, <2>3, <3>1 DEF Places
    <3> QED
        BY <1>1, <2>1, <3>2 DEF WakeCounts, Waiting, One
  <2> QED
      BY <1>5, <2>2, <2>3 DEF Stores
<1>6. CASE Closes
  <2>1. slot' = slot
        BY <1>6 DEF Closes
  <2>2. \A t \in Threads : /\ at'[t] \notin {"awaits_room", "awaits_packet"}
                           /\ at'[t] = "awaits_frame" <=> at[t] = "awaits_frame"
                           /\ at'[t] = "takes" <=> at[t] = "takes"
        BY <1>0, <1>6 DEF Closes
  <2>3. /\ At("awaits_room")' = {} /\ At("awaits_packet")' = {}
        /\ At("awaits_frame")' = At("awaits_frame") /\ At("takes")' = At("takes")
        BY <2>2 DEF At
  <2>4. /\ Count(at', "awaits_room") = 0 /\ Count(at', "awaits_packet") = 0
        /\ Count(at', "awaits_frame") = Count(at, "awaits_frame") /\ Count(at', "takes") = Count(at, "takes")
        BY <2>3, FS_EmptySet DEF Count, At
  <2> QED
      BY <2>1, <2>4 DEF WakeCounts
<1>7. CASE ChannelLost \/ Detaches \/ StartsRecovery \/ Reopens \/ NumbersUnit \/ SendsUnit
             \/ Recovers \/ FailsRecovery \/ UNCHANGED pipelineVars
  <2>1. slot' = slot /\ queue' = queue /\ at' = at
        BY <1>7 DEF ChannelLost, Detaches, StartsRecovery, Reopens, NumbersUnit, SendsUnit,
                    Recovers, FailsRecovery, pipelineVars
  <2> QED
      BY <1>4, <2>1 DEF WakeCounts, Waiting
<1>8. ASSUME NEW t \in Threads, WakesAlone(t) PROVE WakeCounts'
  <2>1. slot' = slot /\ queue' = queue
        BY <1>8 DEF WakesAlone
  <2>2. CASE at[t] = "awaits_frame" /\ Goes(t, "takes")
    <3>1. \A p \in Waiting :
            Count(at', p) = Count(at, p) + One(p, "takes") - One(p, "awaits_frame")
          BY <1>2, <2>2 DEF Places
    <3> QED
        BY <1>0, <1>1, <2>1, <3>1 DEF WakeCounts, Waiting, One
  <2>3. CASE at[t] = "awaits_room" /\ Goes(t, "pushes")
    <3>1. \A p \in Waiting :
            Count(at', p) = Count(at, p) + One(p, "pushes") - One(p, "awaits_room")
          BY <1>2, <2>3 DEF Places
    <3> QED
        BY <1>0, <1>1, <2>1, <3>1 DEF WakeCounts, Waiting, One
  <2>4. CASE at[t] = "awaits_packet" /\ Goes(t, "pops")
    <3>1. \A p \in Waiting :
            Count(at', p) = Count(at, p) + One(p, "pops") - One(p, "awaits_packet")
          BY <1>2, <2>4 DEF Places
    <3> QED
        BY <1>0, <1>1, <2>1, <3>1 DEF WakeCounts, Waiting, One
  <2> QED
      BY <1>8, <2>2, <2>3, <2>4 DEF WakesAlone
<1>9. ASSUME NEW t \in Threads, StartsTake(t) \/ StartsPop(t) PROVE WakeCounts'
  <2>1. slot' = slot /\ queue' = queue
        BY <1>9 DEF StartsTake, StartsPop
  <2>2. CASE at[t] = "idle" /\ Goes(t, "takes")
    <3>1. \A p \in Waiting :
            Count(at', p) = Count(at, p) + One(p, "takes") - One(p, "idle")
          BY <1>2, <2>2 DEF Places
    <3> QED
        BY <1>0, <1>1, <2>1, <3>1 DEF WakeCounts, Waiting, One
  <2>3. CASE at[t] = "idle" /\ Goes(t, "pops")
    <3>1. \A p \in Waiting :
            Count(at', p) = Count(at, p) + One(p, "pops") - One(p, "idle")
          BY <1>2, <2>3 DEF Places
    <3> QED
        BY <1>0, <1>1, <2>1, <3>1 DEF WakeCounts, Waiting, One
  <2> QED
      BY <1>9, <2>2, <2>3 DEF StartsTake, StartsPop
<1>10. ASSUME NEW t \in Threads, Takes(t) PROVE WakeCounts'
  <2>1. CASE slot.full
    <3>1. slot'.full = FALSE /\ queue' = queue /\ at[t] = "takes" /\ Goes(t, "has_frame")
          BY <1>0, <1>10, <2>1 DEF Takes, SlotRecord
    <3>2. \A p \in Waiting :
            Count(at', p) = Count(at, p) + One(p, "has_frame") - One(p, "takes")
          BY <1>2, <3>1 DEF Places
    <3> QED
        BY <1>1, <3>1, <3>2 DEF WakeCounts, Waiting, One
  <2>2. CASE ~slot.full
    <3>1. slot' = slot /\ queue' = queue /\ at[t] = "takes" /\ Goes(t, "awaits_frame")
          BY <1>10, <2>2 DEF Takes
    <3>2. \A p \in Waiting :
            Count(at', p) = Count(at, p) + One(p, "awaits_frame") - One(p, "takes")
          BY <1>2, <3>1 DEF Places
    <3> QED
        BY <1>1, <2>2, <3>1, <3>2 DEF WakeCounts, Waiting, One
  <2> QED
      BY <2>1, <2>2
<1>11. ASSUME NEW t \in Threads, TriesTake(t) PROVE WakeCounts'
  <2>1. slot'.full = FALSE /\ queue' = queue /\ at[t] = "idle" /\ Goes(t, "has_frame")
        BY <1>0, <1>11 DEF TriesTake, SlotRecord
  <2>2. \A p \in Waiting : Count(at', p) = Count(at, p) + One(p, "has_frame") - One(p, "idle")
        BY <1>2, <2>1 DEF Places
  <2> QED
      BY <1>1, <2>1, <2>2 DEF WakeCounts, Waiting, One
<1>12. ASSUME NEW t \in Threads, Starts(t) PROVE WakeCounts'
  <2>1. slot' = slot /\ queue' = queue /\ at[t] = "has_packet" /\ Goes(t, "pushes")
        BY <1>12 DEF Starts
  <2>2. \A p \in Waiting : Count(at', p) = Count(at, p) + One(p, "pushes") - One(p, "has_packet")
        BY <1>2, <2>1 DEF Places
  <2> QED
      BY <1>0, <1>1, <2>1, <2>2 DEF WakeCounts, Waiting, One
<1>13. ASSUME NEW t \in Threads, Numbers(t) \/ Sends(t) \/ Merges(t) PROVE WakeCounts'
  <2>1. /\ slot' = slot /\ queue' = queue
        /\ at[t] \in {"has_frame", "sends", "in_transport"}
        /\ \E q \in {"has_packet", "in_transport", "idle"} : Goes(t, q) /\ at[t] # q
        BY <1>13 DEF Numbers, Sends, Merges, Flushed
  <2>2. PICK q \in {"has_packet", "in_transport", "idle"} : Goes(t, q) /\ at[t] # q
        BY <2>1
  <2>3. q \in Places
        BY <2>2 DEF Places
  <2>4. \A p \in Waiting : Count(at', p) = Count(at, p) + One(p, q) - One(p, at[t])
        BY <1>2, <2>2, <2>3
  <2>5. \A p \in Waiting : One(p, q) = 0 /\ One(p, at[t]) = 0
        BY <2>1, <2>2 DEF One, Waiting
  <2> QED
      BY <1>0, <1>1, <2>1, <2>4, <2>5 DEF WakeCounts, Waiting
\* A push finds the queue closed, or full, or adds a packet and wakes who awaits one.
<1>14. ASSUME NEW t \in Threads, Pushes(t) \/ TriesPush(t) PROVE WakeCounts'
  <2>0. slot' = slot /\ at[t] \in {"pushes", "has_packet"}
        BY <1>14 DEF Pushes, TriesPush
  <2>1. ASSUME queue.closed, queue' = queue, Goes(t, "idle") PROVE WakeCounts'
    <3>1. \A p \in Waiting : Count(at', p) = Count(at, p) + One(p, "idle") - One(p, at[t])
          BY <1>2, <2>0, <2>1 DEF Places
    <3> QED
        BY <1>1, <2>0, <2>1, <3>1 DEF WakeCounts, Waiting, One
  <2>2. ASSUME Len(queue.items) >= Capacity, at[t] = "pushes", queue' = queue,
               Goes(t, "awaits_room"), ~queue.closed
        PROVE  WakeCounts'
    <3>1. \A p \in Waiting : Count(at', p) = Count(at, p) + One(p, "awaits_room") - One(p, "pushes")
          BY <1>2, <2>2 DEF Places
    <3>2. Count(at, "pushes") >= 1
      <4>1. t \in At("pushes")
            BY <2>2 DEF At
      <4> QED
          BY <4>1, CountIsNat DEF One
    <3> QED
        BY <1>0, <1>1, <2>0, <2>2, <3>1, <3>2 DEF WakeCounts, Waiting, One
  <2>3. ASSUME Len(queue.items) >= Capacity, at[t] = "has_packet", Len(queue'.items) = Len(queue.items),
               queue'.closed = queue.closed, Goes(t, "idle")
        PROVE  WakeCounts'
    <3>1. \A p \in Waiting : Count(at', p) = Count(at, p) + One(p, "idle") - One(p, "has_packet")
          BY <1>2, <2>3 DEF Places
    <3> QED
        BY <1>1, <2>0, <2>3, <3>1 DEF WakeCounts, Waiting, One
  <2>4. ASSUME ~queue.closed, ~queue'.closed, Len(queue'.items) = Len(queue.items) + 1,
               Notifies("awaits_packet", "pops", t, "idle")
        PROVE  WakeCounts'
    <3>1. \/ /\ Count(at, "awaits_packet") = 0
             /\ \A p \in Waiting : Count(at', p) = Count(at, p) + One(p, "idle") - One(p, at[t])
          \/ /\ Count(at, "awaits_packet") > 0
             /\ \A p \in Waiting :
                  Count(at', p) = Count(at, p) + One(p, "idle") - One(p, at[t])
                                       + One(p, "pops") - One(p, "awaits_packet")
      <4>1. {"idle", "awaits_packet", "pops"} \subseteq Places
            BY DEF Places
      <4> QED
          BY <1>3, <2>0, <2>4, <4>1
    <3>2. PICK n \in 0..Capacity : n = Len(queue.items)
          BY <1>0
    <3>3. /\ Count(at, "awaits_packet") > 0 => ~queue.closed /\ Count(at, "pops") >= n
          /\ Count(at, "awaits_room") > 0 => ~queue.closed /\ Count(at, "pushes") >= Capacity - n
          /\ Count(at, "awaits_frame") > 0 /\ slot.full => Count(at, "takes") > 0
          BY <3>2 DEF WakeCounts
    <3>4. /\ Count(at', "awaits_packet") > 0 => Count(at', "pops") >= n + 1
          /\ Count(at', "awaits_room") > 0 => Count(at', "pushes") >= Capacity - (n + 1)
          /\ Count(at', "awaits_frame") > 0 /\ slot.full => Count(at', "takes") > 0
          BY <1>0, <1>1, <2>0, <3>1, <3>3 DEF Waiting, One
    <3> QED
        BY <2>0, <2>4, <3>2, <3>4 DEF WakeCounts
  <2>5. ASSUME NEW s \in Seq(PacketRecord)
        PROVE  [queue EXCEPT !.items = s].items = s /\ [queue EXCEPT !.items = s].closed = queue.closed
        BY <1>0, QueueWritten
  <2>6. CASE /\ ~queue.closed /\ queue' = [queue EXCEPT !.items = Append(@, packet[t])]
             /\ Notifies("awaits_packet", "pops", t, "idle")
    <3>1. /\ Append(queue.items, packet[t]) \in Seq(PacketRecord)
          /\ Len(Append(queue.items, packet[t])) = Len(queue.items) + 1
          BY <1>0, ItemsAppended
    <3>2. queue'.closed = queue.closed /\ Len(queue'.items) = Len(queue.items) + 1
          BY <2>5, <2>6, <3>1
    <3> QED
        BY <2>4, <2>6, <3>2
  <2>7. CASE /\ at[t] = "has_packet" /\ Len(queue.items) >= Capacity /\ Goes(t, "idle")
             /\ queue' = [queue EXCEPT !.dropped = @ + 1]
    <3>1. queue.dropped + 1 \in Nat
          BY <1>0 DEF QueueRecord
    <3>2. queue'.items = queue.items /\ queue'.closed = queue.closed
          BY <1>0, <2>7, <3>1, QueueWritten
    <3> QED
        BY <2>3, <2>7, <3>2
  <2>8. CASE Pushes(t)
        BY <2>1, <2>2, <2>6, <2>8 DEF Pushes
  <2>9. CASE TriesPush(t)
        BY <2>1, <2>6, <2>7, <2>9 DEF TriesPush
  <2> QED
      BY <1>14, <2>8, <2>9
<1>15. ASSUME NEW t \in Threads, Pops(t) PROVE WakeCounts'
  <2>0. slot' = slot /\ at[t] = "pops"
        BY <1>15 DEF Pops
  <2>1. ASSUME queue.items # <<>>, queue' = [queue EXCEPT !.items = Tail(@)],
               Notifies("awaits_room", "pushes", t, "sends")
        PROVE  WakeCounts'
    <3>1. \/ /\ Count(at, "awaits_room") = 0
             /\ \A p \in Waiting : Count(at', p) = Count(at, p) + One(p, "sends") - One(p, "pops")
          \/ /\ Count(at, "awaits_room") > 0
             /\ \A p \in Waiting :
                  Count(at', p) = Count(at, p) + One(p, "sends") - One(p, "pops")
                                       + One(p, "pushes") - One(p, "awaits_room")
      <4>1. {"sends", "awaits_room", "pushes"} \subseteq Places
            BY DEF Places
      <4> QED
          BY <1>3, <2>0, <2>1, <4>1
    <3>2. /\ Len(queue'.items) = Len(queue.items) - 1 /\ queue'.closed = queue.closed
          /\ Len(queue.items) > 0
          BY <1>0, <2>1, ItemsTaken, QueueWritten
    <3>3. PICK n \in 0..Capacity : n = Len(queue.items)
          BY <1>0
    <3>4. /\ Count(at, "awaits_packet") > 0 => ~queue.closed /\ Count(at, "pops") >= n
          /\ Count(at, "awaits_room") > 0 => ~queue.closed /\ Count(at, "pushes") >= Capacity - n
          /\ Count(at, "awaits_frame") > 0 /\ slot.full => Count(at, "takes") > 0
          BY <3>3 DEF WakeCounts
    <3>5. /\ Count(at', "awaits_packet") > 0 => ~queue.closed /\ Count(at', "pops") >= n - 1
          /\ Count(at', "awaits_room") > 0 => ~queue.closed /\ Count(at', "pushes") >= Capacity - (n - 1)
          /\ Count(at', "awaits_frame") > 0 /\ slot.full => Count(at', "takes") > 0
          BY <1>0, <1>1, <2>0, <3>1, <3>4 DEF Waiting, One
    <3> QED
        BY <2>0, <3>2, <3>3, <3>5 DEF WakeCounts
  <2>2. ASSUME queue.closed, Goes(t, "ended"), queue' = queue PROVE WakeCounts'
    <3>1. \A p \in Waiting : Count(at', p) = Count(at, p) + One(p, "ended") - One(p, "pops")
          BY <1>2, <2>0, <2>2 DEF Places
    <3> QED
        BY <1>1, <2>0, <2>2, <3>1 DEF WakeCounts, Waiting, One
  <2>3. ASSUME queue.items = <<>>, ~queue.closed, Goes(t, "awaits_packet"), queue' = queue
        PROVE  WakeCounts'
    <3>1. \A p \in Waiting : Count(at', p) = Count(at, p) + One(p, "awaits_packet") - One(p, "pops")
          BY <1>2, <2>0, <2>3 DEF Places
    <3>2. Count(at, "pops") >= 1
      <4>1. t \in At("pops")
            BY <2>0 DEF At
      <4> QED
          BY <4>1, CountIsNat
    <3> QED
        BY <1>0, <1>1, <2>0, <2>3, <3>1, <3>2 DEF WakeCounts, Waiting, One
  <2> QED
      BY <1>15, <2>1, <2>2, <2>3 DEF Pops, Flushed
<1> QED
    BY <1>0, <1>5, <1>6, <1>7, <1>8, <1>9, <1>10, <1>11, <1>12, <1>13, <1>14, <1>15
    DEF PipelineNext

\* What holds of the pipeline in every state.
PipelineInv == SequenceInv /\ WakeCounts

LEMMA PipelineInitially == PipelineInit => PipelineInv
<1> SUFFICES ASSUME PipelineInit PROVE PipelineInv
    OBVIOUS
<1>1. PipelineTyped
  <2>1. senders \in Seq(SenderRecord) /\ Len(senders) = 1 /\ queue.items = <<>>
        BY DEF PipelineInit, SenderRecord
  <2>2. /\ slot \in SlotRecord /\ queue \in QueueRecord /\ Len(queue.items) = 0
        /\ at \in [Threads -> Places] /\ packet \in [Threads -> PacketRecord]
        /\ track \in TrackRecord /\ recovery \in RecoveryRecord
        BY DEF PipelineInit, SlotRecord, QueueRecord, TrackRecord, RecoveryRecord, PacketRecord,
               NoPacket, Places
  <2> QED
      BY <2>1, <2>2, CapacityAssumption DEF PipelineTyped
<1>2. /\ \A t \in Threads : NumberedBy(packet[t].by, packet[t].id)
      /\ \A i \in 1..Len(queue.items) : NumberedBy(queue.items[i].by, queue.items[i].id)
      /\ NumberedBy(track.by, track.last)
      BY DEF PipelineInit, NumberedBy, NoPacket
<1>3. At("awaits_frame") = {} /\ At("awaits_packet") = {} /\ At("awaits_room") = {}
      BY DEF PipelineInit, At
<1>4. WakeCounts
  <2>1. /\ Count(at, "awaits_frame") = 0 /\ Count(at, "awaits_packet") = 0
        /\ Count(at, "awaits_room") = 0
        BY <1>3, FS_EmptySet DEF Count, At
  <2> QED
      BY <2>1 DEF WakeCounts
<1> QED
    BY <1>1, <1>2, <1>4 DEF PipelineInv, SequenceInv

\* Every reachable state of the buffers, the threads, the sender and the channel keeps
\* PipelineInv, for any number of encoders and workers, any capacity and any bounds
\* (pipeline.rs).
THEOREM PipelineInvariant == PipelineSpec => []PipelineInv
<1>1. PipelineInv /\ [PipelineNext]_pipelineVars => PipelineInv'
      BY SequencePreserved, WakeupsPreserved DEF PipelineInv, SequenceInv
<1> QED
    BY <1>1, PipelineInitially, PTL DEF PipelineSpec

\* No thread sleeps on a frame, a packet or a place that is there without another being
\* about to take it, and none sleeps on a closed queue, for any number of threads
\* (LatestFrame and BoundedQueue in pipeline.rs).
THEOREM WakeupsNeverLost == PipelineSpec => []NoLostWakeup
<1>1. PipelineInv => NoLostWakeup
      BY CountsSuffice DEF PipelineInv
<1> QED
    BY <1>1, PipelineInvariant, PTL

\* When the track is ahead of the sender that the last recovery returned, a packet of an
\* earlier sender put it there, one that was queued, with a worker or in transport over the
\* recovery: for any number of recoveries, encoders and workers, wherever each stands
\* (TrackSender::seeded, recover_channel, flush_one).
THEOREM SequenceContinues == PipelineSpec => []SenderContinues
<1>1. ASSUME PipelineInv PROVE SenderContinues
  <2>1. /\ NumberedBy(track.by, track.last) /\ track.last \in Nat /\ Len(senders) \in Nat
        /\ Len(senders) > 0
        BY <1>1, SendersAt DEF PipelineInv, SequenceInv, PipelineTyped, TrackRecord
  <2>2. senders[Len(senders)].last \in Nat
        BY <1>1, <2>1, SendersAt DEF PipelineInv, SequenceInv, PipelineTyped
  <2> QED
      BY <2>1, <2>2 DEF SenderContinues, NumberedBy, Newest
<1> QED
    BY <1>1, PipelineInvariant, PTL

(* VideoRate: the target a poll leaves behind.                             *)

WindowTyped == window \in [achieved : Nat, transport : Nat, backlog : BOOLEAN]

\* A target is the configured rate, the minimum, or whole steps between them, so that
\* quantizing it again takes nothing away.
TargetInSteps ==
  /\ target \in Nat /\ Minimum <= target /\ target <= Configured
  /\ target \in {Configured, Minimum} \/ \E k \in Nat : target = k * Step

RateInv == WindowTyped /\ TargetInSteps

\* Rounding down to whole steps keeps every whole number of steps below.
LEMMA RoundingKeeps ==
  ASSUME NEW d \in Nat \ {0}, NEW x \in Nat
  PROVE  /\ x \div d \in Nat /\ (x \div d) * d \in Nat /\ (x \div d) * d <= x
         /\ \A k \in Nat : k * d <= x => k * d <= (x \div d) * d
<1> DEFINE q == x \div d
           r == x % d
<1>1. q \in Int /\ r \in 0 .. (d - 1) /\ x = d * q + r
  OBVIOUS
<1>2. q \in Nat
  OBVIOUS
<1> HIDE DEF q, r
<1>3. q * d \in Nat /\ q * d <= x /\ x < q * d + d
  BY <1>1, <1>2
<1>4. ASSUME NEW k \in Nat, k * d <= x PROVE k * d <= q * d
  <2>1. CASE k <= q
    BY <1>2, <2>1
  <2>2. CASE q + 1 <= k
    <3>1. (q + 1) * d <= k * d
      BY <1>2, <2>2
    <3>2. (q + 1) * d = q * d + d
      BY <1>2
    <3>3. k * d \in Nat
      OBVIOUS
    <3>4. QED
      BY <1>3, <1>4, <3>1, <3>2, <3>3
  <2>3. QED
    BY <1>2, <2>1, <2>2
<1>5. QED
  BY <1>2, <1>3, <1>4 DEF q

\* quantize_target: in whole steps or at a limit, between the limits, and never under a
\* target that was the result of an earlier one and is not above the candidate.
LEMMA QuantizedKeeps ==
  ASSUME RateInv, NEW n \in Nat
  PROVE  /\ Quantized(n) \in Nat /\ Minimum <= Quantized(n) /\ Quantized(n) <= Configured
         /\ \/ Quantized(n) \in {Configured, Minimum}
            \/ \E k \in Nat : Quantized(n) = k * Step
         /\ target <= n => target <= Quantized(n)
<1> DEFINE clamped == AtMost(AtLeast(n, Minimum), Configured)
           steps == clamped \div Step
           whole == steps * Step
<1>1. /\ Step \in Nat \ {0} /\ Minimum \in Nat /\ Configured \in Nat
      /\ Minimum <= Configured
  BY RateAssumption
<1>2. /\ clamped \in Nat /\ Minimum <= clamped /\ clamped <= Configured
      /\ target <= n => target <= clamped
  BY <1>1 DEF AtMost, AtLeast, RateInv, TargetInSteps
<1>3. Quantized(n) = IF clamped >= Configured THEN Configured ELSE AtLeast(whole, Minimum)
  BY DEF Quantized
<1> HIDE DEF clamped
<1>4. /\ steps \in Nat /\ whole \in Nat /\ whole <= clamped
      /\ \A k \in Nat : k * Step <= clamped => k * Step <= whole
  BY <1>1, <1>2, RoundingKeeps
<1>5. whole = steps * Step
  OBVIOUS
<1> HIDE DEF steps, whole
<1>6. CASE clamped >= Configured
  BY <1>1, <1>2, <1>3, <1>6 DEF RateInv, TargetInSteps
<1>7. CASE clamped < Configured
  <2>1. Quantized(n) = AtLeast(whole, Minimum)
    BY <1>1, <1>2, <1>3, <1>7
  <2>2. \/ Quantized(n) = Minimum /\ whole <= Minimum
        \/ Quantized(n) = whole /\ Minimum < whole
    BY <1>1, <1>4, <2>1 DEF AtLeast
  <2>3. ASSUME target <= n PROVE target <= Quantized(n)
    <3>1. target \in Nat /\ target <= clamped /\ target # Configured
      BY <1>1, <1>2, <1>7, <2>3 DEF RateInv, TargetInSteps
    <3>2. target = Minimum \/ target <= whole
      BY <1>4, <3>1 DEF RateInv, TargetInSteps
    <3>3. QED
      BY <1>1, <1>4, <2>2, <3>1, <3>2
  <2>4. \/ Quantized(n) = Minimum
        \/ \E k \in Nat : Quantized(n) = k * Step
    BY <1>4, <1>5, <2>2
  <2>5. QED
    BY <1>1, <1>2, <1>4, <2>2, <2>3, <2>4
<1>8. QED
  BY <1>1, <1>2, <1>6, <1>7

\* What a poll aims at is a rate, and no lower than the target unless the audio backs up
\* or the link is full.
LEMMA CandidateKeeps ==
  ASSUME RateInv
  PROVE  /\ Candidate(window) \in Nat
         /\ ~LinkFull(window) /\ ~window.backlog => target <= Candidate(window)
<1> DEFINE used == IF window.achieved > 0 THEN AtMost(target, window.achieved) ELSE target
           less == (used * 7) \div 8
           share == Configured \div 8
<1>1. target \in Nat /\ window.achieved \in Nat /\ Configured \in Nat
  BY RateAssumption DEF RateInv, TargetInSteps, WindowTyped
<1>2. used \in Nat
  BY <1>1 DEF AtMost
<1> HIDE DEF used
<1>3. less \in Nat /\ share \in Nat
  BY <1>1, <1>2
<1>4. Candidate(window) = IF LinkFull(window) \/ window.backlog THEN less
                          ELSE IF window.transport <= Uncongested THEN target + share
                          ELSE target
  BY DEF Candidate, Grown, used
<1> HIDE DEF less, share
<1>5. target + share \in Nat /\ target <= target + share
  BY <1>1, <1>3
<1>6. QED
  BY <1>1, <1>3, <1>4, <1>5

LEMMA RatePreserved == RateInv /\ [RateNext]_rateVars => RateInv'
<1> SUFFICES ASSUME RateInv, [RateNext]_rateVars PROVE RateInv'
  OBVIOUS
<1>1. CASE ObservesSend
  <2>1. PICK r \in Rates, p \in Waits :
          window' = [window EXCEPT !.achieved = AtMost(window.achieved + r, Configured),
                                   !.transport = AtMost(window.transport + p, 100)]
    BY <1>1 DEF ObservesSend
  <2> DEFINE a == AtMost(window.achieved + r, Configured)
             t == AtMost(window.transport + p, 100)
  <2>2. a \in Nat /\ t \in Nat
    BY RateAssumption DEF AtMost, RateInv, WindowTyped
  <2>3. window' = [window EXCEPT !.achieved = a, !.transport = t]
    BY <2>1
  <2> HIDE DEF a, t
  <2>4. WindowTyped'
    BY <2>2, <2>3 DEF RateInv, WindowTyped
  <2>5. QED
    BY <1>1, <2>4 DEF ObservesSend, RateInv, TargetInSteps
<1>2. CASE ObservesBacklog \/ UNCHANGED rateVars
  BY <1>2 DEF ObservesBacklog, rateVars, RateInv, WindowTyped, TargetInSteps
<1>3. CASE Polls
  <2>1. WindowTyped'
    BY <1>3 DEF Polls, EmptyWindow, WindowTyped
  <2>2. TargetInSteps'
    BY <1>3, CandidateKeeps, QuantizedKeeps DEF Polls, TargetInSteps
  <2>3. QED
    BY <2>1, <2>2 DEF RateInv
<1>4. QED
  BY <1>1, <1>2, <1>3 DEF RateNext

\* A poll that finds the target delivered and no audio waiting never lowers it, for any
\* configured rate, step and minimum and any load (VideoRateControl::poll).
THEOREM TargetKeptWhenDelivered == RateSpec => DeliveredKeepsTarget
<1>1. RateInit => RateInv
  BY RateAssumption DEF RateInit, RateInv, WindowTyped, TargetInSteps, EmptyWindow
<1>2. RateInv /\ [RateNext]_rateVars =>
        [Polls /\ window.achieved * 100 >= target * DeliveredShare /\ ~window.backlog
           => target' >= target]_rateVars
  <2> SUFFICES ASSUME RateInv, Polls, ~window.backlog,
                      window.achieved * 100 >= target * DeliveredShare
               PROVE  target' >= target
    OBVIOUS
  <2>1. ~LinkFull(window)
    BY DEF LinkFull, Delivering
  <2>2. target <= Candidate(window) /\ Candidate(window) \in Nat
    BY <2>1, CandidateKeeps
  <2>3. target \in Nat /\ Quantized(Candidate(window)) \in Nat
        /\ target <= Quantized(Candidate(window))
    BY <2>2, QuantizedKeeps DEF RateInv, TargetInSteps
  <2>4. QED
    BY <2>3 DEF Polls
<1>3. QED
  BY <1>1, <1>2, RatePreserved, PTL DEF RateSpec, DeliveredKeepsTarget
=============================================================================
