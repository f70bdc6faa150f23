-------------------------- MODULE LeaseControlProofs --------------------------
(***************************************************************************)
(* Proofs about LeaseControl, for any controllers, leases and attempts:     *)
(* the secret a worker is given is the one of its lease, and a lease that   *)
(* was revoked stays gone.                                                  *)
(***************************************************************************)
EXTENDS LeaseControl, TLAPS

CallRecord == [op : {"none", "issue", "revoke"}, lease : Leases \union {None},
               secret : Secrets \union {0}, tries : 0 .. Attempts]
LeaseRecord == [state : Live \union {"unknown", "revoked"}, secret : Secrets \union {0}]
HandleRecord == [lease : Leases \union {None}, secret : Secrets \union {0}]

\* A call, a handle and a late request name a lease.
Named ==
  /\ \A t \in Controllers : call[t].op # "none" => call[t].lease \in Leases
  /\ \A t \in Controllers : handle[t] # NoHandle => handle[t].lease \in Leases

TypedInv == TypeOK /\ Named
-----------------------------------------------------------------------------
\* What the actions write keeps its type.
LEMMA WrittenRecords ==
  /\ NoCall \in CallRecord /\ NoHandle \in HandleRecord
  /\ \A l \in Leases, s \in Secrets :
       [op |-> "issue", lease |-> l, secret |-> s, tries |-> 1] \in CallRecord
  /\ \A l \in Leases, s \in Secrets \union {0} :
       [op |-> "revoke", lease |-> l, secret |-> s, tries |-> 1] \in CallRecord
  BY AttemptsAssumption DEF NoCall, NoHandle, CallRecord, HandleRecord

LEMMA AttemptCounted ==
  ASSUME NEW c \in CallRecord, c.tries < Attempts
  PROVE  LET d == [c EXCEPT !.tries = @ + 1]
         IN  d \in CallRecord /\ d.op = c.op /\ d.lease = c.lease /\ d.secret = c.secret
  BY AttemptsAssumption DEF CallRecord

LEMMA PresenterWrites ==
  ASSUME TypeOK, NEW l \in Leases, NEW s \in Secrets \union {0}
  PROVE  /\ Created(l, s) \in [Leases -> LeaseRecord]
         /\ Revoked(l) \in [Leases -> LeaseRecord]
         /\ Revoked(l)[l] = [state |-> "revoked", secret |-> presenter[l].secret]
         /\ \A k \in Leases : k # l => Revoked(l)[k] = presenter[k] /\ Created(l, s)[k] = presenter[k]
         /\ Created(l, s)[l] = IF presenter[l].state = "unknown"
                                 THEN [state |-> "ready", secret |-> s] ELSE presenter[l]
<1>1. presenter \in [Leases -> LeaseRecord]
      BY DEF TypeOK, LeaseRecord
<1>2. [presenter[l] EXCEPT !.state = "revoked"]
        = [state |-> "revoked", secret |-> presenter[l].secret]
      BY <1>1 DEF LeaseRecord
<1>3. [presenter[l] EXCEPT !.state = "revoked"] \in LeaseRecord
      BY <1>1 DEF LeaseRecord
<1>4. [state |-> "ready", secret |-> s] \in LeaseRecord
      BY DEF LeaseRecord, Live
<1> QED
    BY <1>1, <1>2, <1>3, <1>4 DEF Created, Revoked

\* Every step of one controller keeps the types.
LEMMA TypedInitially == Init => TypedInv
<1> SUFFICES ASSUME Init PROVE TypedInv
    OBVIOUS
<1>1. presenter \in [Leases -> LeaseRecord] /\ late \subseteq Requests
      BY DEF Init, LeaseRecord
<1>2. call \in [Controllers -> CallRecord] /\ handle \in [Controllers -> HandleRecord]
      BY WrittenRecords DEF Init
<1>3. /\ link \in BOOLEAN /\ mutex \in (Controllers \ Bridged) \union {None}
      /\ minted \in 0 .. MaxSecrets
      BY AttemptsAssumption DEF Init
<1>4. /\ worker \in [Leases -> Secrets \union {0}]
      /\ outcome \in [Leases -> {"none", "asked", "issued", "not issued", "revoked",
                                 "not revoked"}]
      BY DEF Init
<1>5. Named
      BY DEF Init, Named, NoCall
<1> QED
    BY <1>1, <1>2, <1>3, <1>4, <1>5
       DEF TypedInv, TypeOK, LeaseRecord, CallRecord, HandleRecord

\* The end of a call: the call and, of a root session, the mutex are free again.
LEMMA Returning ==
  ASSUME TypedInv, NEW t \in Controllers, Returns(t)
  PROVE  /\ call' \in [Controllers -> CallRecord] /\ call'[t] = NoCall
         /\ \A u \in Controllers : u # t => call'[u] = call[u]
         /\ mutex' \in (Controllers \ Bridged) \union {None}
<1>1. call \in [Controllers -> CallRecord]
      BY DEF TypedInv, TypeOK, CallRecord
<1> QED
    BY <1>1, WrittenRecords DEF Returns, Leaves, TypedInv, TypeOK

LEMMA Failing ==
  ASSUME TypedInv, NEW t \in Controllers, call[t].op # "none", Fails(t)
  PROVE  /\ outcome' \in [Leases -> {"none", "asked", "issued", "not issued", "revoked",
                                     "not revoked"}]
         /\ outcome'[call[t].lease] \in {"not issued", "not revoked"}
         /\ \A l \in Leases : l # call[t].lease => outcome'[l] = outcome[l]
  BY DEF Fails, TypedInv, TypeOK, Named

LEMMA Requesting ==
  ASSUME TypedInv, NEW t \in Controllers, call[t].op # "none"
  PROVE  Asked(t) \in Requests
<1>1. call[t] \in CallRecord /\ call[t].lease \in Leases
      BY DEF TypedInv, TypeOK, CallRecord, Named
<1> QED
    BY <1>1 DEF Asked, Requests, CallRecord

LEMMA TypedPreserved == TypedInv /\ [Next]_vars => TypedInv'
<1> SUFFICES ASSUME TypedInv, [Next]_vars PROVE TypedInv'
    OBVIOUS
<1> USE DEF TypedInv
<1>0. /\ presenter \in [Leases -> LeaseRecord] /\ call \in [Controllers -> CallRecord]
      /\ handle \in [Controllers -> HandleRecord] /\ minted \in 0 .. MaxSecrets
      BY DEF TypeOK, LeaseRecord, CallRecord, HandleRecord
<1>1. ASSUME NEW t \in Controllers, NEW l \in Leases, Issues(t, l) PROVE TypedInv'
  <2> DEFINE c == [op |-> "issue", lease |-> l, secret |-> minted + 1, tries |-> 1]
  <2>1. minted + 1 \in Secrets /\ minted' \in 0 .. MaxSecrets
        BY <1>0, <1>1, AttemptsAssumption DEF Issues, Secrets
  <2>2. c \in CallRecord /\ call' = [call EXCEPT ![t] = c]
        BY <1>1, <2>1, WrittenRecords DEF Issues
  <2>3. call' \in [Controllers -> CallRecord]
        BY <1>0, <2>2
  <2>4. TypeOK'
        BY <1>1, <2>1, <2>3 DEF Issues, Holds, Enters, TypeOK, CallRecord
  <2>5. Named'
        BY <1>0, <1>1, <2>2 DEF Issues, Named
  <2> QED
      BY <2>4, <2>5
<1>2. ASSUME NEW t \in Controllers, Revokes(t) PROVE TypedInv'
  <2> DEFINE c == [op |-> "revoke", lease |-> handle[t].lease, secret |-> handle[t].secret,
                   tries |-> 1]
  <2>1. handle[t].lease \in Leases /\ handle[t].secret \in Secrets \union {0}
        BY <1>0, <1>2 DEF Revokes, Named, HandleRecord
  <2>2. c \in CallRecord /\ call' = [call EXCEPT ![t] = c]
        BY <1>2, <2>1, WrittenRecords DEF Revokes
  <2>3. call' \in [Controllers -> CallRecord] /\ handle' \in [Controllers -> HandleRecord]
        BY <1>0, <1>2, <2>2, WrittenRecords DEF Revokes
  <2>4. TypeOK'
        BY <1>2, <2>3 DEF Revokes, Holds, Enters, TypeOK, CallRecord, HandleRecord
  <2>5. Named'
        BY <1>0, <1>2, <2>1, <2>2 DEF Revokes, Named
  <2> QED
      BY <2>4, <2>5
<1>3. ASSUME NEW t \in Controllers, IssueAnswered(t) PROVE TypedInv'
  <2> DEFINE l == call[t].lease
  <2>1. l \in Leases /\ call[t].secret \in Secrets \union {0} /\ call[t].op # "none"
        BY <1>0, <1>3 DEF IssueAnswered, Named, CallRecord
  <2>2. presenter' \in [Leases -> LeaseRecord] /\ Returns(t)
        BY <1>3, <2>1, PresenterWrites DEF IssueAnswered
  <2>3. /\ handle' \in [Controllers -> HandleRecord]
        /\ \A u \in Controllers : handle'[u] # NoHandle => handle'[u].lease \in Leases
        BY <1>0, <1>3, <2>1 DEF IssueAnswered, HandleRecord, Named
  <2>4. outcome' \in [Leases -> {"none", "asked", "issued", "not issued", "revoked",
                                 "not revoked"}]
    <3>1. CASE Fails(t)
          BY <2>1, <3>1, Failing
    <3>2. CASE outcome' = [outcome EXCEPT ![l] = "issued"]
          BY <3>2 DEF TypeOK
    <3> QED
        BY <1>3, <3>1, <3>2 DEF IssueAnswered
  <2>5. TypeOK'
        BY <1>3, <2>2, <2>3, <2>4, Returning
           DEF IssueAnswered, TypeOK, CallRecord, HandleRecord, LeaseRecord
  <2>6. Named'
        BY <2>2, <2>3, Returning DEF Named, NoCall
  <2> QED
      BY <2>5, <2>6
<1>4. ASSUME NEW t \in Controllers, RevokeAnswered(t) PROVE TypedInv'
  <2> DEFINE l == call[t].lease
  <2>1. l \in Leases /\ call[t].op # "none"
        BY <1>0, <1>4 DEF RevokeAnswered, Named
  <2>2. presenter' \in [Leases -> LeaseRecord] /\ Returns(t)
        BY <1>4, <2>1, PresenterWrites DEF RevokeAnswered
  <2>3. outcome' \in [Leases -> {"none", "asked", "issued", "not issued", "revoked",
                                 "not revoked"}]
    <3>1. CASE Fails(t)
          BY <2>1, <3>1, Failing
    <3>2. CASE outcome' = [outcome EXCEPT ![l] = "revoked"]
          BY <3>2 DEF TypeOK
    <3> QED
        BY <1>4, <3>1, <3>2 DEF RevokeAnswered
  <2>4. TypeOK'
        BY <1>4, <2>2, <2>3, Returning DEF RevokeAnswered, TypeOK, CallRecord, LeaseRecord
  <2>5. Named'
        BY <1>4, <2>2, Returning DEF RevokeAnswered, Named, NoCall
  <2> QED
      BY <2>4, <2>5
<1>5. ASSUME NEW t \in Controllers, TimesOut(t) PROVE TypedInv'
  <2>1. call[t].op # "none" /\ late' \subseteq Requests
        BY <1>5, Requesting DEF TimesOut, TypeOK
  <2>2. CASE call[t].tries < Attempts
    <3>1. /\ call' = [call EXCEPT ![t] = [call[t] EXCEPT !.tries = @ + 1]]
          /\ UNCHANGED <<mutex, outcome>>
          BY <1>5, <2>2 DEF TimesOut
    <3>2. /\ call'[t] \in CallRecord /\ call'[t].op = call[t].op
          /\ call'[t].lease = call[t].lease
          BY <1>0, <2>2, <3>1, AttemptCounted
    <3>3. call' \in [Controllers -> CallRecord]
          BY <1>0, <3>1, <3>2
    <3>4. TypeOK'
          BY <1>5, <2>1, <3>1, <3>3 DEF TimesOut, TypeOK, CallRecord
    <3>5. Named'
          BY <1>0, <1>5, <3>1, <3>2 DEF TimesOut, Named
    <3> QED
        BY <3>4, <3>5
  <2>3. CASE ~(call[t].tries < Attempts)
    <3>1. Fails(t) /\ Returns(t)
          BY <1>5, <2>3 DEF TimesOut
    <3>2. TypeOK'
          BY <1>5, <2>1, <3>1, Failing, Returning DEF TimesOut, TypeOK, CallRecord
    <3>3. Named'
          BY <1>5, <3>1, Returning DEF TimesOut, Named, NoCall
    <3> QED
        BY <3>2, <3>3
  <2> QED
      BY <2>2, <2>3
<1>6. ASSUME NEW t \in Controllers, TransportFails(t) PROVE TypedInv'
  <2>1. call[t].op # "none" /\ late' \subseteq Requests /\ Fails(t) /\ Returns(t)
        BY <1>6, Requesting DEF TransportFails, TypeOK
  <2>2. TypeOK'
        BY <1>6, <2>1, Failing, Returning DEF TransportFails, TypeOK, CallRecord
  <2>3. Named'
        BY <1>6, <2>1, Returning DEF TransportFails, Named, NoCall
  <2> QED
      BY <2>2, <2>3
<1>7. ASSUME NEW t \in Controllers, HandsOver(t) PROVE TypedInv'
  <2>1. handle' = [handle EXCEPT ![t] = [handle[t] EXCEPT !.secret = 0]]
        BY <1>7 DEF HandsOver
  <2>2. /\ [handle[t] EXCEPT !.secret = 0] \in HandleRecord
        /\ [handle[t] EXCEPT !.secret = 0].lease = handle[t].lease
        BY <1>0 DEF HandleRecord
  <2>3. handle[t] # NoHandle /\ handle[t].lease \in Leases
        BY <1>0, <1>7 DEF HandsOver, NoHandle, Named
  <2>4. handle' \in [Controllers -> HandleRecord]
        BY <1>0, <2>1, <2>2
  <2>5. worker' \in [Leases -> Secrets \union {0}]
        BY <1>0, <1>7 DEF HandsOver, TypeOK, HandleRecord
  <2>6. TypeOK'
        BY <1>7, <2>4, <2>5 DEF HandsOver, TypeOK, HandleRecord
  <2>7. Named'
        BY <1>0, <1>7, <2>1, <2>2, <2>3 DEF HandsOver, Named
  <2> QED
      BY <2>6, <2>7
<1>8. ASSUME NEW l \in Leases, WorkerActivates(l) PROVE TypedInv'
  <2>1. [presenter[l] EXCEPT !.state = "active"] \in LeaseRecord
        BY <1>0 DEF LeaseRecord, Live
  <2>2. presenter' \in [Leases -> LeaseRecord]
        BY <1>0, <1>8, <2>1 DEF WorkerActivates
  <2> QED
      BY <1>8, <2>2 DEF WorkerActivates, TypeOK, LeaseRecord, Named
<1>9. ASSUME NEW l \in Leases, Expires(l) PROVE TypedInv'
  <2>1. presenter' \in [Leases -> LeaseRecord]
        BY <1>9, PresenterWrites DEF Expires
  <2> QED
      BY <1>9, <2>1 DEF Expires, TypeOK, LeaseRecord, Named
<1>10. CASE ArrivesLate
  <2> PICK req \in late : presenter' = Applied(req) /\ late' = late \ {req}
      BY <1>10 DEF ArrivesLate
  <2>1. req.lease \in Leases /\ req.secret \in Secrets \union {0}
        BY DEF TypeOK, Requests
  <2>2. presenter' \in [Leases -> LeaseRecord]
        BY <2>1, PresenterWrites DEF Applied
  <2> QED
      BY <1>10, <2>2 DEF ArrivesLate, TypeOK, LeaseRecord, Named
<1>11. CASE LinkBreaks
      BY <1>11 DEF LinkBreaks, TypeOK, Named
<1>12. CASE UNCHANGED vars
      BY <1>12 DEF vars, TypeOK, Named
<1> QED
    BY <1>1, <1>2, <1>3, <1>4, <1>5, <1>6, <1>7, <1>8, <1>9, <1>10, <1>11, <1>12
       DEF Next, AttemptEnds

\* Every variable keeps its type.
THEOREM LeaseTypeCorrect == Spec => []TypeOK
<1>1. TypedInv => TypeOK
      BY DEF TypedInv
<1> QED
    BY <1>1, TypedInitially, TypedPreserved, PTL DEF Spec
-----------------------------------------------------------------------------
\* A lease that was revoked is "revoked" at the presenter, and no action leaves that state.
RevokedInv == TypedInv /\ \A l \in Leases : outcome[l] = "revoked" => presenter[l].state = "revoked"

\* The presenter changes in six ways; none of them moves a revoked lease.
LEMMA RevokedStays ==
  ASSUME TypedInv, [Next]_vars, NEW l \in Leases, presenter[l].state = "revoked"
  PROVE  presenter'[l].state = "revoked"
<1> USE DEF TypedInv
<1>0. presenter \in [Leases -> LeaseRecord]
      BY DEF TypeOK, LeaseRecord
<1>1. \A k \in Leases, s \in Secrets \union {0} :
        Created(k, s)[l].state = "revoked" /\ Revoked(k)[l].state = "revoked"
  <2> SUFFICES ASSUME NEW k \in Leases, NEW s \in Secrets \union {0}
               PROVE  Created(k, s)[l].state = "revoked" /\ Revoked(k)[l].state = "revoked"
      OBVIOUS
  <2>1. CASE k = l
    <3>1. Created(l, s)[l] = IF presenter[l].state = "unknown"
                               THEN [state |-> "ready", secret |-> s] ELSE presenter[l]
          BY PresenterWrites
    <3>2. Revoked(l)[l] = [state |-> "revoked", secret |-> presenter[l].secret]
          BY PresenterWrites
    <3> QED
        BY <2>1, <3>1, <3>2
  <2>2. CASE k # l
    <3>1. Created(k, s)[l] = presenter[l] /\ Revoked(k)[l] = presenter[l]
          BY <2>2, PresenterWrites
    <3> QED
        BY <3>1
  <2> QED
      BY <2>1, <2>2
<1>2. ASSUME NEW t \in Controllers, AttemptEnds(t) PROVE presenter'[l].state = "revoked"
  <2>1. CASE IssueAnswered(t)
    <3>1. call[t].lease \in Leases /\ call[t].secret \in Secrets \union {0}
          BY <2>1 DEF IssueAnswered, Named, TypeOK
    <3> QED
        BY <1>1, <2>1, <3>1 DEF IssueAnswered
  <2>2. CASE RevokeAnswered(t)
    <3>1. call[t].lease \in Leases
          BY <2>2 DEF RevokeAnswered, Named
    <3> QED
        BY <1>1, <2>2, <3>1 DEF RevokeAnswered
  <2>3. CASE TimesOut(t) \/ TransportFails(t)
        BY <2>3 DEF TimesOut, TransportFails
  <2> QED
      BY <1>2, <2>1, <2>2, <2>3 DEF AttemptEnds
<1>3. ASSUME NEW t \in Controllers,
             (\E k \in Leases : Issues(t, k)) \/ Revokes(t) \/ HandsOver(t)
      PROVE  presenter'[l].state = "revoked"
      BY <1>3 DEF Issues, Revokes, HandsOver
<1>4. ASSUME NEW k \in Leases, WorkerActivates(k) PROVE presenter'[l].state = "revoked"
      BY <1>0, <1>4 DEF WorkerActivates
<1>5. ASSUME NEW k \in Leases, Expires(k) PROVE presenter'[l].state = "revoked"
      BY <1>1, <1>5 DEF Expires
<1>6. CASE ArrivesLate
  <2> PICK req \in late : presenter' = Applied(req)
      BY <1>6 DEF ArrivesLate
  <2>1. req.lease \in Leases /\ req.secret \in Secrets \union {0}
        BY DEF TypeOK, Requests
  <2> QED
      BY <1>1, <2>1 DEF Applied
<1>7. CASE LinkBreaks \/ UNCHANGED vars
      BY <1>7 DEF LinkBreaks, vars
<1> QED
    BY <1>2, <1>3, <1>4, <1>5, <1>6, <1>7 DEF Next

\* Only the answer to a revocation says "revoked", and it finds the lease gone.
LEMMA RevokedReported ==
  ASSUME TypedInv, [Next]_vars, NEW l \in Leases, outcome'[l] = "revoked", outcome[l] # "revoked"
  PROVE  presenter'[l].state = "revoked"
<1> USE DEF TypedInv
<1>1. ASSUME NEW t \in Controllers, AttemptEnds(t) PROVE presenter'[l].state = "revoked"
  <2>1. call[t].op # "none" /\ call[t].lease \in Leases
        BY <1>1 DEF AttemptEnds, IssueAnswered, RevokeAnswered, TimesOut, TransportFails, Named
  <2>2. ~Fails(t)
        BY <2>1, Failing
  <2>3. CASE RevokeAnswered(t)
    <3>1. outcome' = [outcome EXCEPT ![call[t].lease] = "revoked"]
          BY <2>2, <2>3 DEF RevokeAnswered
    <3>2. l = call[t].lease
          BY <3>1 DEF TypeOK
    <3>3. Revoked(l)[l].state = "revoked"
      <4>1. 0 \in Secrets \union {0}
            OBVIOUS
      <4>2. Revoked(l)[l] = [state |-> "revoked", secret |-> presenter[l].secret]
            BY <4>1, PresenterWrites
      <4> QED
          BY <4>2
    <3> QED
        BY <2>3, <3>2, <3>3 DEF RevokeAnswered
  <2>4. CASE IssueAnswered(t)
        BY <2>1, <2>2, <2>4 DEF IssueAnswered, TypeOK
  <2>5. CASE TimesOut(t) \/ TransportFails(t)
        BY <2>2, <2>5 DEF TimesOut, TransportFails
  <2> QED
      BY <1>1, <2>3, <2>4, <2>5 DEF AttemptEnds
<1>2. ASSUME NEW t \in Controllers, NEW k \in Leases, Issues(t, k)
      PROVE  presenter'[l].state = "revoked"
      BY <1>2 DEF Issues, TypeOK
<1>3. ASSUME NEW t \in Controllers, Revokes(t) \/ HandsOver(t)
      PROVE  presenter'[l].state = "revoked"
      BY <1>3 DEF Revokes, HandsOver
<1>4. ASSUME NEW k \in Leases, WorkerActivates(k) \/ Expires(k)
      PROVE  presenter'[l].state = "revoked"
      BY <1>4 DEF WorkerActivates, Expires
<1>5. CASE ArrivesLate \/ LinkBreaks \/ UNCHANGED vars
      BY <1>5 DEF ArrivesLate, LinkBreaks, vars
<1> QED
    BY <1>1, <1>2, <1>3, <1>4, <1>5 DEF Next

\* Once revoke returned Ok the lease is gone for good, for any number of controllers,
\* attempts and late requests (LeaseHandle::revoke, BridgeAdmin::revoke).
THEOREM RevokedStaysGone == Spec => []RevokedIsGone
<1>1. Init => RevokedInv
      BY TypedInitially DEF RevokedInv, Init
<1>2. RevokedInv /\ [Next]_vars => RevokedInv'
      BY TypedPreserved, RevokedStays, RevokedReported DEF RevokedInv
<1>3. RevokedInv => RevokedIsGone
      BY DEF RevokedInv, RevokedIsGone, Live
<1> QED
    BY <1>1, <1>2, <1>3, PTL DEF Spec
-----------------------------------------------------------------------------
\* What stands between a request and the secret its lease is bound to.  A lease is asked
\* for by one call, and its late copies carry that call's secret; while the call runs, a
\* lease that is ready was created by one of its attempts; a handle and a worker have a
\* lease that exists, so that no later request binds it again.
Issuing(t) == call[t].op = "issue"

AskedOnce ==
  /\ \A t \in Controllers : Issuing(t) => outcome[call[t].lease] = "asked" /\ call[t].secret # 0
  /\ \A t, u \in Controllers : Issuing(t) /\ Issuing(u) /\ call[t].lease = call[u].lease => t = u
  /\ \A t \in Controllers :
       call[t].op = "revoke" => outcome[call[t].lease] \notin {"none", "asked"}
  /\ \A t \in Controllers :
       handle[t] # NoHandle => outcome[handle[t].lease] \notin {"none", "asked"}

LateAgrees ==
  /\ \A t \in Controllers : \A req \in late :
       Issuing(t) /\ req.op = "issue" /\ req.lease = call[t].lease => req.secret = call[t].secret
  /\ \A req \in late : req.op = "issue" => outcome[req.lease] # "none"

ReadyAgrees ==
  /\ \A t \in Controllers :
       Issuing(t) /\ presenter[call[t].lease].state = "ready"
         => presenter[call[t].lease].secret = call[t].secret
  /\ \A l \in Leases : outcome[l] = "none" => presenter[l].state # "ready"

Bound ==
  /\ \A t \in Controllers : handle[t].secret # 0 => presenter[handle[t].lease].state # "unknown"
  /\ \A l \in Leases : worker[l] # 0 => presenter[l].state # "unknown"
  /\ GrantBindsItsSecret

SecretInv == TypedInv /\ AskedOnce /\ LateAgrees /\ ReadyAgrees /\ Bound

LEMMA SecretInitially == Init => SecretInv
<1> SUFFICES ASSUME Init PROVE SecretInv
    OBVIOUS
<1>1. AskedOnce /\ LateAgrees
      BY DEF Init, AskedOnce, LateAgrees, Issuing, NoCall
<1>2. ReadyAgrees /\ Bound
      BY DEF Init, ReadyAgrees, Bound, GrantBindsItsSecret, Issuing, NoCall, NoHandle
<1> QED
    BY <1>1, <1>2, TypedInitially DEF SecretInv

\* A lease that exists keeps the secret it is bound to.
LEMMA SecretKept ==
  ASSUME TypedInv, [Next]_vars, NEW l \in Leases, presenter[l].state # "unknown"
  PROVE  presenter'[l].state # "unknown" /\ presenter'[l].secret = presenter[l].secret
<1> USE DEF TypedInv
<1> DEFINE Keeps(p) == p[l].state # "unknown" /\ p[l].secret = presenter[l].secret
<1>0. presenter \in [Leases -> LeaseRecord]
      BY DEF TypeOK, LeaseRecord
<1>1. \A k \in Leases, s \in Secrets \union {0} : Keeps(Created(k, s)) /\ Keeps(Revoked(k))
  <2> SUFFICES ASSUME NEW k \in Leases, NEW s \in Secrets \union {0}
               PROVE  Keeps(Created(k, s)) /\ Keeps(Revoked(k))
      OBVIOUS
  <2>1. CASE k = l
    <3>1. Created(l, s)[l] = IF presenter[l].state = "unknown"
                               THEN [state |-> "ready", secret |-> s] ELSE presenter[l]
          BY PresenterWrites
    <3>2. Revoked(l)[l] = [state |-> "revoked", secret |-> presenter[l].secret]
          BY PresenterWrites
    <3> QED
        BY <2>1, <3>1, <3>2
  <2>2. CASE k # l
    <3>1. Created(k, s)[l] = presenter[l] /\ Revoked(k)[l] = presenter[l]
          BY <2>2, PresenterWrites
    <3> QED
        BY <3>1
  <2> QED
      BY <2>1, <2>2
<1>2. presenter' = presenter => Keeps(presenter')
      OBVIOUS
<1> HIDE DEF Keeps
<1>3. ASSUME NEW t \in Controllers, AttemptEnds(t) PROVE Keeps(presenter')
  <2>1. /\ call[t].op # "none" /\ call[t].lease \in Leases
        /\ call[t].secret \in Secrets \union {0}
        BY <1>3 DEF AttemptEnds, IssueAnswered, RevokeAnswered, TimesOut, TransportFails, Named,
                    TypeOK
  <2> QED
      BY <1>1, <1>2, <1>3, <2>1
         DEF AttemptEnds, IssueAnswered, RevokeAnswered, TimesOut, TransportFails
<1>4. ASSUME NEW t \in Controllers,
             (\E k \in Leases : Issues(t, k)) \/ Revokes(t) \/ HandsOver(t)
      PROVE  Keeps(presenter')
      BY <1>2, <1>4 DEF Issues, Revokes, HandsOver
<1>5. ASSUME NEW k \in Leases, WorkerActivates(k) PROVE Keeps(presenter')
  <2>1. presenter' = [presenter EXCEPT ![k] = [presenter[k] EXCEPT !.state = "active"]]
        BY <1>5 DEF WorkerActivates
  <2>2. [presenter[k] EXCEPT !.state = "active"]
          = [state |-> "active", secret |-> presenter[k].secret]
        BY <1>0 DEF LeaseRecord
  <2> QED
      BY <1>0, <2>1, <2>2 DEF Keeps
<1>6. ASSUME NEW k \in Leases, Expires(k) PROVE Keeps(presenter')
  <2>1. 0 \in Secrets \union {0}
        OBVIOUS
  <2> QED
      BY <1>1, <1>6, <2>1 DEF Expires
<1>7. CASE ArrivesLate
  <2> PICK req \in late : presenter' = Applied(req)
      BY <1>7 DEF ArrivesLate
  <2>1. req.lease \in Leases /\ req.secret \in Secrets \union {0}
        BY DEF TypeOK, Requests
  <2>2. Keeps(Created(req.lease, req.secret)) /\ Keeps(Revoked(req.lease))
        BY <1>1, <2>1
  <2>3. presenter' = Created(req.lease, req.secret) \/ presenter' = Revoked(req.lease)
        BY DEF Applied
  <2> QED
      BY <2>2, <2>3 DEF Keeps
<1>8. CASE LinkBreaks \/ UNCHANGED vars
      BY <1>2, <1>8 DEF LinkBreaks, vars
<1> QED
    BY <1>3, <1>4, <1>5, <1>6, <1>7, <1>8 DEF Next, Keeps

\* What a handle and a worker hold stays bound; what a grant adds is the secret that the
\* presenter bound, by this attempt or by an earlier one of the same call.
LEMMA BoundPreserved == TypedInv /\ ReadyAgrees /\ Bound /\ [Next]_vars => Bound'
<1> SUFFICES ASSUME TypedInv, ReadyAgrees, Bound, [Next]_vars PROVE Bound'
    OBVIOUS
<1>0. /\ presenter \in [Leases -> LeaseRecord] /\ call \in [Controllers -> CallRecord]
      /\ handle \in [Controllers -> HandleRecord] /\ worker \in [Leases -> Secrets \union {0}]
      BY DEF TypedInv, TypeOK, LeaseRecord, CallRecord, HandleRecord
<1>1. \A t \in Controllers : handle[t].secret # 0 => handle[t].lease \in Leases
      BY <1>0 DEF TypedInv, Named, NoHandle
<1> DEFINE HandleBound(t) ==
             handle'[t].secret # 0 =>
               /\ presenter'[handle'[t].lease].state # "unknown"
               /\ presenter'[handle'[t].lease].secret = handle'[t].secret
           WorkerBound(l) ==
             worker'[l] # 0 => presenter'[l].state # "unknown" /\ presenter'[l].secret = worker'[l]
<1>2. \A t \in Controllers : handle'[t] = handle[t] => HandleBound(t)
      BY <1>1, SecretKept DEF Bound, GrantBindsItsSecret
<1>3. \A l \in Leases : worker'[l] = worker[l] => WorkerBound(l)
      BY SecretKept DEF Bound, GrantBindsItsSecret
<1> HIDE DEF HandleBound, WorkerBound
<1>4. ASSUME NEW t \in Controllers, IssueAnswered(t)
      PROVE  \A u \in Controllers : HandleBound(u)
  <2> DEFINE l == call[t].lease
  <2>1. l \in Leases /\ call[t].secret \in Secrets \union {0} /\ Issuing(t)
        BY <1>0, <1>4 DEF IssueAnswered, TypedInv, Named, CallRecord, Issuing
  <2>2. CASE UNCHANGED handle
        BY <1>2, <2>2
  <2>3. CASE ReportsReady(l) /\ handle' = [handle EXCEPT ![t] = [lease |-> l,
                                                           secret |-> call[t].secret]]
    <3>1. presenter'[l] = IF presenter[l].state = "unknown"
                            THEN [state |-> "ready", secret |-> call[t].secret]
                            ELSE presenter[l]
          BY <1>4, <2>1, PresenterWrites DEF IssueAnswered, TypedInv
    <3>2. presenter'[l].state # "unknown" /\ presenter'[l].secret = call[t].secret
          BY <2>1, <2>3, <3>1 DEF ReportsReady, ReadyAgrees
    <3>3. handle'[t] = [lease |-> l, secret |-> call[t].secret]
          BY <1>0, <2>3
    <3>4. HandleBound(t)
          BY <3>2, <3>3 DEF HandleBound
    <3>5. \A u \in Controllers : u # t => handle'[u] = handle[u]
          BY <1>0, <2>3
    <3> QED
        BY <1>2, <3>4, <3>5
  <2> QED
      BY <1>4, <2>2, <2>3 DEF IssueAnswered
<1>5. ASSUME NEW t \in Controllers, Revokes(t)
      PROVE  \A u \in Controllers : HandleBound(u)
  <2>1. handle'[t] = NoHandle /\ \A u \in Controllers : u # t => handle'[u] = handle[u]
        BY <1>0, <1>5 DEF Revokes
  <2>2. HandleBound(t)
        BY <2>1 DEF HandleBound, NoHandle
  <2> QED
      BY <1>2, <2>1, <2>2
<1>6. ASSUME NEW t \in Controllers, HandsOver(t)
      PROVE  (\A u \in Controllers : HandleBound(u)) /\ (\A k \in Leases : WorkerBound(k))
  <2> DEFINE l == handle[t].lease
  <2>1. l \in Leases /\ handle[t].secret # 0
        BY <1>1, <1>6 DEF HandsOver
  <2>2. handle'[t].secret = 0 /\ \A u \in Controllers : u # t => handle'[u] = handle[u]
    <3>1. handle' = [handle EXCEPT ![t] = [handle[t] EXCEPT !.secret = 0]]
          BY <1>6 DEF HandsOver
    <3>2. [handle[t] EXCEPT !.secret = 0].secret = 0
          BY <1>0 DEF HandleRecord
    <3> QED
        BY <1>0, <3>1, <3>2
  <2>3. HandleBound(t)
        BY <2>2 DEF HandleBound
  <2>4. worker'[l] = handle[t].secret /\ \A k \in Leases : k # l => worker'[k] = worker[k]
        BY <1>0, <1>6, <2>1 DEF HandsOver
  <2>5. presenter'[l].state # "unknown" /\ presenter'[l].secret = handle[t].secret
        BY <2>1, SecretKept DEF Bound, GrantBindsItsSecret
  <2>6. WorkerBound(l)
        BY <2>4, <2>5 DEF WorkerBound
  <2> QED
      BY <1>2, <1>3, <2>2, <2>3, <2>4, <2>6
<1>7. UNCHANGED handle => \A u \in Controllers : HandleBound(u)
      BY <1>2
<1>8. UNCHANGED worker => \A k \in Leases : WorkerBound(k)
      BY <1>3
<1>9. (\A u \in Controllers : HandleBound(u)) /\ (\A k \in Leases : WorkerBound(k))
      BY <1>4, <1>5, <1>6, <1>7, <1>8
         DEF Next, AttemptEnds, vars, Issues, IssueAnswered, RevokeAnswered, TimesOut,
             TransportFails, Revokes, WorkerActivates, Expires, ArrivesLate, LinkBreaks
<1> QED
    BY <1>9 DEF HandleBound, WorkerBound, Bound, GrantBindsItsSecret

\* The calls in progress, and what was told of their leases: an issue is the first thing
\* said about its lease, a handle and a revocation come after its answer.
LEMMA AskedOncePreserved == TypedInv /\ AskedOnce /\ [Next]_vars => AskedOnce'
<1> SUFFICES ASSUME TypedInv, AskedOnce, [Next]_vars PROVE AskedOnce'
    OBVIOUS
<1>0. /\ call \in [Controllers -> CallRecord] /\ handle \in [Controllers -> HandleRecord]
      /\ outcome \in [Leases -> {"none", "asked", "issued", "not issued", "revoked",
                                 "not revoked"}]
      BY DEF TypedInv, TypeOK, CallRecord, HandleRecord
<1>00. minted \in Nat
  <2>1. minted \in 0 .. MaxSecrets
        BY DEF TypedInv, TypeOK
  <2> QED
      BY <2>1
<1>1. /\ \A t \in Controllers : call[t].op # "none" => call[t].lease \in Leases
      /\ \A t \in Controllers : handle[t] # NoHandle => handle[t].lease \in Leases
      BY DEF TypedInv, Named
<1>2. ASSUME NEW t \in Controllers, NEW l \in Leases, Issues(t, l) PROVE AskedOnce'
  <2>1. /\ outcome[l] = "none" /\ outcome' = [outcome EXCEPT ![l] = "asked"]
        /\ call' = [call EXCEPT ![t] = [op |-> "issue", lease |-> l, secret |-> minted + 1,
                                        tries |-> 1]]
        /\ handle' = handle
        BY <1>2 DEF Issues
  <2>2. /\ call'[t].op = "issue" /\ call'[t].lease = l /\ call'[t].secret # 0
        /\ \A u \in Controllers : u # t => call'[u] = call[u]
    <3>1. /\ call'[t] = [op |-> "issue", lease |-> l, secret |-> minted + 1, tries |-> 1]
          /\ \A u \in Controllers : u # t => call'[u] = call[u]
          BY <1>0, <2>1
    <3> QED
        BY <1>00, <3>1
  <2>3. /\ outcome'[l] = "asked"
        /\ \A k \in Leases : k # l => outcome'[k] = outcome[k]
        BY <1>0, <2>1
  <2>4. \A u \in Controllers : u # t /\ call[u].op # "none" => call[u].lease # l
        BY <2>1 DEF AskedOnce, Issuing, TypedInv, TypeOK
  <2>5. \A u \in Controllers : handle[u] # NoHandle => handle[u].lease # l
        BY <2>1 DEF AskedOnce
  <2> QED
      BY <1>1, <2>1, <2>2, <2>3, <2>4, <2>5 DEF AskedOnce, Issuing
<1>3. ASSUME NEW t \in Controllers, Revokes(t) PROVE AskedOnce'
  <2>1. /\ handle[t] # NoHandle /\ outcome' = outcome
        /\ call'[t].op = "revoke" /\ call'[t].lease = handle[t].lease
        /\ \A u \in Controllers : u # t => call'[u] = call[u] /\ handle'[u] = handle[u]
        /\ handle'[t] = NoHandle
        BY <1>0, <1>3 DEF Revokes
  <2> QED
      BY <2>1 DEF AskedOnce, Issuing
<1>4. ASSUME NEW t \in Controllers, call[t].op # "none", Returns(t),
             NEW l \in Leases, l = call[t].lease,
             outcome'[l] \notin {"none", "asked"},
             \A k \in Leases : k # l => outcome'[k] = outcome[k],
             \A u \in Controllers : handle'[u] = handle[u] \/ (u = t /\ handle'[u].lease = l)
      PROVE  AskedOnce'
  <2>1. call'[t].op = "none" /\ \A u \in Controllers : u # t => call'[u] = call[u]
        BY <1>4, Returning DEF NoCall
  <2>2. \A u \in Controllers : u # t /\ Issuing(u) => call[u].lease # l
    <3>1. call[t].op \in {"issue", "revoke"}
          BY <1>0, <1>4 DEF CallRecord
    <3> QED
        BY <1>4, <3>1 DEF AskedOnce, Issuing
  <2>3. \A u \in Controllers : handle'[u] # NoHandle =>
          handle'[u].lease \in Leases /\ outcome'[handle'[u].lease] \notin {"none", "asked"}
        BY <1>1, <1>4 DEF AskedOnce
  <2> QED
      BY <1>1, <1>4, <2>1, <2>2, <2>3 DEF AskedOnce, Issuing
<1>5. ASSUME NEW t \in Controllers, call[t].op # "none", Fails(t), Returns(t), UNCHANGED handle
      PROVE  AskedOnce'
      BY <1>1, <1>4, <1>5, Failing
<1>6. ASSUME NEW t \in Controllers, IssueAnswered(t) PROVE AskedOnce'
  <2>1. call[t].op # "none" /\ Returns(t) /\ call[t].lease \in Leases
        BY <1>1, <1>6 DEF IssueAnswered
  <2>2. CASE Fails(t) /\ UNCHANGED handle
        BY <1>5, <2>1, <2>2
  <2>3. CASE /\ handle' = [handle EXCEPT ![t] = [lease |-> call[t].lease,
                                                 secret |-> call[t].secret]]
             /\ outcome' = [outcome EXCEPT ![call[t].lease] = "issued"]
    <3>1. /\ outcome'[call[t].lease] = "issued"
          /\ \A k \in Leases : k # call[t].lease => outcome'[k] = outcome[k]
          BY <1>0, <2>1, <2>3
    <3>2. \A u \in Controllers :
            handle'[u] = handle[u] \/ (u = t /\ handle'[u].lease = call[t].lease)
          BY <1>0, <2>3
    <3> QED
        BY <1>4, <2>1, <3>1, <3>2
  <2> QED
      BY <1>6, <2>2, <2>3 DEF IssueAnswered
<1>7. ASSUME NEW t \in Controllers, RevokeAnswered(t) PROVE AskedOnce'
  <2>1. call[t].op # "none" /\ Returns(t) /\ call[t].lease \in Leases /\ UNCHANGED handle
        BY <1>1, <1>7 DEF RevokeAnswered
  <2>2. CASE Fails(t)
        BY <1>5, <2>1, <2>2
  <2>3. CASE outcome' = [outcome EXCEPT ![call[t].lease] = "revoked"]
    <3>1. /\ outcome'[call[t].lease] = "revoked"
          /\ \A k \in Leases : k # call[t].lease => outcome'[k] = outcome[k]
          BY <1>0, <2>1, <2>3
    <3> QED
        BY <1>4, <2>1, <3>1
  <2> QED
      BY <1>7, <2>2, <2>3 DEF RevokeAnswered
<1>8. ASSUME NEW t \in Controllers, TimesOut(t) PROVE AskedOnce'
  <2>1. call[t].op # "none" /\ UNCHANGED handle
        BY <1>8 DEF TimesOut
  <2>2. CASE call[t].tries < Attempts
    <3>1. /\ call' = [call EXCEPT ![t] = [call[t] EXCEPT !.tries = @ + 1]]
          /\ outcome' = outcome
          BY <1>8, <2>2 DEF TimesOut
    <3>2. /\ call'[t].op = call[t].op /\ call'[t].lease = call[t].lease
          /\ call'[t].secret = call[t].secret
          BY <1>0, <2>2, <3>1, AttemptCounted
    <3>3. \A u \in Controllers : u # t => call'[u] = call[u]
          BY <1>0, <3>1
    <3> QED
        BY <2>1, <3>1, <3>2, <3>3 DEF AskedOnce, Issuing
  <2>3. CASE ~(call[t].tries < Attempts)
        BY <1>5, <1>8, <2>1, <2>3 DEF TimesOut
  <2> QED
      BY <2>2, <2>3
<1>9. ASSUME NEW t \in Controllers, TransportFails(t) PROVE AskedOnce'
      BY <1>5, <1>9 DEF TransportFails
<1>10. ASSUME NEW t \in Controllers, HandsOver(t) PROVE AskedOnce'
  <2>1. /\ handle[t] # NoHandle /\ handle'[t].lease = handle[t].lease
        /\ \A u \in Controllers : u # t => handle'[u] = handle[u]
    <3>1. handle' = [handle EXCEPT ![t] = [handle[t] EXCEPT !.secret = 0]]
          BY <1>10 DEF HandsOver
    <3>2. [handle[t] EXCEPT !.secret = 0].lease = handle[t].lease
          BY <1>0 DEF HandleRecord
    <3>3. handle[t] # NoHandle
          BY <1>10 DEF HandsOver, NoHandle
    <3> QED
        BY <1>0, <3>1, <3>2, <3>3
  <2> QED
      BY <1>10, <2>1 DEF HandsOver, AskedOnce, Issuing
<1>11. CASE UNCHANGED <<call, handle, outcome>>
       BY <1>11 DEF AskedOnce, Issuing
<1> QED
    BY <1>2, <1>3, <1>6, <1>7, <1>8, <1>9, <1>10, <1>11
       DEF Next, AttemptEnds, vars, WorkerActivates, Expires, ArrivesLate, LinkBreaks

\* What a step can do to the calls that issue: one starts, for a lease nobody asked for, or
\* those that go on are the ones there were, with their leases and secrets.
LEMMA IssuingAfter ==
  ASSUME TypedInv, [Next]_vars
  PROVE  \A u \in Controllers : Issuing(u)' =>
           \/ Issuing(u) /\ call'[u].lease = call[u].lease /\ call'[u].secret = call[u].secret
           \/ outcome[call'[u].lease] = "none" /\ UNCHANGED <<late, presenter>>
<1> SUFFICES ASSUME NEW u \in Controllers, call'[u].op = "issue"
             PROVE  \/ /\ call[u].op = "issue" /\ call'[u].lease = call[u].lease
                       /\ call'[u].secret = call[u].secret
                    \/ outcome[call'[u].lease] = "none" /\ UNCHANGED <<late, presenter>>
    BY DEF Issuing
<1>0. call \in [Controllers -> CallRecord]
      BY DEF TypedInv, TypeOK, CallRecord
<1>1. ASSUME NEW t \in Controllers, NEW l \in Leases, Issues(t, l)
      PROVE  \/ call'[u] = call[u]
             \/ outcome[call'[u].lease] = "none" /\ UNCHANGED <<late, presenter>>
  <2>1. call' = [call EXCEPT ![t] = [op |-> "issue", lease |-> l, secret |-> minted + 1,
                                     tries |-> 1]]
        BY <1>1 DEF Issues
  <2>2. CASE u = t
    <3>1. call'[u].lease = l
          BY <1>0, <2>1, <2>2
    <3> QED
        BY <1>1, <3>1 DEF Issues
  <2>3. CASE u # t
        BY <1>0, <2>1, <2>3
  <2> QED
      BY <2>2, <2>3
<1>2. ASSUME NEW t \in Controllers, Revokes(t) PROVE call'[u] = call[u]
  <2>1. call' = [call EXCEPT ![t] = [op |-> "revoke", lease |-> handle[t].lease,
                                     secret |-> handle[t].secret, tries |-> 1]]
        BY <1>2 DEF Revokes
  <2>2. u # t
        BY <1>0, <2>1
  <2> QED
      BY <1>0, <2>1, <2>2
<1>3. ASSUME NEW t \in Controllers, Returns(t) PROVE call'[u] = call[u]
      BY <1>0, <1>3, Returning DEF NoCall
<1>4. ASSUME NEW t \in Controllers, TimesOut(t)
      PROVE  /\ call[u].op = "issue" /\ call'[u].lease = call[u].lease
             /\ call'[u].secret = call[u].secret
  <2>1. CASE call[t].tries < Attempts
    <3>1. call' = [call EXCEPT ![t] = [call[t] EXCEPT !.tries = @ + 1]]
          BY <1>4, <2>1 DEF TimesOut
    <3>2. /\ call'[t].op = call[t].op /\ call'[t].lease = call[t].lease
          /\ call'[t].secret = call[t].secret
          BY <1>0, <2>1, <3>1, AttemptCounted
    <3>3. u # t => call'[u] = call[u]
          BY <1>0, <3>1
    <3> QED
        BY <3>2, <3>3
  <2>2. CASE ~(call[t].tries < Attempts)
        BY <1>3, <1>4, <2>2 DEF TimesOut
  <2> QED
      BY <2>1, <2>2
<1>5. ASSUME NEW t \in Controllers, IssueAnswered(t) \/ RevokeAnswered(t) \/ TransportFails(t)
      PROVE  call'[u] = call[u]
      BY <1>3, <1>5 DEF IssueAnswered, RevokeAnswered, TransportFails
<1>6. UNCHANGED call => call'[u] = call[u]
      OBVIOUS
<1> QED
    BY <1>1, <1>2, <1>4, <1>5, <1>6
       DEF Next, AttemptEnds, vars, HandsOver, WorkerActivates, Expires, ArrivesLate, LinkBreaks

\* A lease that was spoken of stays so.
LEMMA StaysAsked ==
  ASSUME TypedInv, [Next]_vars, NEW l \in Leases, outcome'[l] = "none"
  PROVE  outcome[l] = "none"
<1> SUFFICES ASSUME outcome[l] # "none" PROVE FALSE
    OBVIOUS
<1>1. ASSUME NEW t \in Controllers, AttemptEnds(t) PROVE FALSE
  <2>1. call[t].op # "none"
        BY <1>1 DEF AttemptEnds, IssueAnswered, RevokeAnswered, TimesOut, TransportFails
  <2>2. Fails(t) => FALSE
        BY <2>1, Failing
  <2> QED
      BY <1>1, <2>2
         DEF AttemptEnds, IssueAnswered, RevokeAnswered, TimesOut, TransportFails, TypedInv,
             TypeOK
<1>2. ASSUME NEW t \in Controllers, NEW k \in Leases, Issues(t, k) PROVE FALSE
      BY <1>2 DEF Issues, TypedInv, TypeOK
<1>3. UNCHANGED outcome => FALSE
      OBVIOUS
<1> QED
    BY <1>1, <1>2, <1>3
       DEF Next, vars, Revokes, HandsOver, WorkerActivates, Expires, ArrivesLate, LinkBreaks

\* Every late copy of an issue was sent by the call for its lease.
LEMMA LateAgreesPreserved ==
  TypedInv /\ AskedOnce /\ LateAgrees /\ [Next]_vars => LateAgrees'
<1> SUFFICES ASSUME TypedInv, AskedOnce, LateAgrees, [Next]_vars PROVE LateAgrees'
    OBVIOUS
<1>1. \A req \in late' : req \in late \/ \E t \in Controllers : call[t].op # "none" /\ req = Asked(t)
      BY DEF Next, AttemptEnds, vars, Issues, Revokes, IssueAnswered, RevokeAnswered, TimesOut,
             TransportFails, HandsOver, WorkerActivates, Expires, ArrivesLate, LinkBreaks
<1>2. \A req \in late : req.lease \in Leases
      BY DEF TypedInv, TypeOK, Requests
<1>3. ASSUME NEW req \in late', req.op = "issue"
      PROVE  req.lease \in Leases /\ outcome[req.lease] # "none"
  <2>1. CASE req \in late
        BY <1>2, <1>3, <2>1 DEF LateAgrees
  <2>2. ASSUME NEW t \in Controllers, call[t].op # "none", req = Asked(t)
        PROVE  req.lease \in Leases /\ outcome[req.lease] # "none"
        BY <1>3, <2>2 DEF Asked, AskedOnce, Issuing, TypedInv, Named
  <2> QED
      BY <1>1, <2>1, <2>2
<1>4. ASSUME NEW req \in late', req.op = "issue", NEW u \in Controllers, Issuing(u)',
             req.lease = call'[u].lease
      PROVE  req.secret = call'[u].secret
  <2>1. Issuing(u) /\ call'[u].lease = call[u].lease /\ call'[u].secret = call[u].secret
    <3>1. outcome[call'[u].lease] # "none"
          BY <1>3, <1>4
    <3> QED
        BY <1>4, <3>1, IssuingAfter
  <2>2. CASE req \in late
        BY <1>4, <2>1, <2>2 DEF LateAgrees
  <2>3. ASSUME NEW t \in Controllers, call[t].op # "none", req = Asked(t)
        PROVE  req.secret = call'[u].secret
        BY <1>4, <2>1, <2>3 DEF Asked, AskedOnce, Issuing
  <2> QED
      BY <1>1, <2>2, <2>3
<1> QED
    BY <1>3, <1>4, StaysAsked DEF LateAgrees

\* A lease becomes ready by a request that somebody sent: the answered call's, or a late one.
LEMMA BecomesReady ==
  ASSUME TypedInv, [Next]_vars, NEW l \in Leases, presenter'[l].state = "ready",
         presenter[l].state # "ready"
  PROVE  \/ \E req \in late : req.op = "issue" /\ req.lease = l /\ req.secret = presenter'[l].secret
         \/ \E t \in Controllers :
              Issuing(t) /\ call[t].lease = l /\ call'[t] = NoCall
<1> USE DEF TypedInv
<1>0. presenter \in [Leases -> LeaseRecord]
      BY DEF TypeOK, LeaseRecord
<1>1. \A k \in Leases : presenter' # Revoked(k)
  <2> SUFFICES ASSUME NEW k \in Leases, presenter' = Revoked(k) PROVE FALSE
      OBVIOUS
  <2>1. 0 \in Secrets \union {0}
        OBVIOUS
  <2>2. Revoked(k)[k] = [state |-> "revoked", secret |-> presenter[k].secret]
        BY <2>1, PresenterWrites
  <2>3. k # l => Revoked(k)[l] = presenter[l]
        BY <2>1, PresenterWrites
  <2> QED
      BY <2>2, <2>3
<1>2. ASSUME NEW k \in Leases, NEW s \in Secrets \union {0}, presenter' = Created(k, s)
      PROVE  k = l /\ presenter'[l].secret = s
  <2>1. k # l => Created(k, s)[l] = presenter[l]
        BY PresenterWrites
  <2>2. Created(k, s)[k] = IF presenter[k].state = "unknown"
                             THEN [state |-> "ready", secret |-> s] ELSE presenter[k]
        BY PresenterWrites
  <2> QED
      BY <1>2, <2>1, <2>2
<1>3. ASSUME NEW t \in Controllers, IssueAnswered(t)
      PROVE  Issuing(t) /\ call[t].lease = l /\ call'[t] = NoCall
  <2>1. /\ call[t].lease \in Leases /\ call[t].secret \in Secrets \union {0} /\ Returns(t)
        /\ presenter' = Created(call[t].lease, call[t].secret) /\ Issuing(t)
        BY <1>3 DEF IssueAnswered, Named, TypeOK, Issuing
  <2> QED
      BY <1>2, <2>1, Returning
<1>4. ASSUME NEW t \in Controllers, RevokeAnswered(t) PROVE FALSE
  <2>1. call[t].lease \in Leases
        BY <1>4 DEF RevokeAnswered, Named
  <2> QED
      BY <1>1, <1>4, <2>1 DEF RevokeAnswered
<1>5. ASSUME NEW k \in Leases, WorkerActivates(k) PROVE FALSE
  <2>1. presenter' = [presenter EXCEPT ![k] = [presenter[k] EXCEPT !.state = "active"]]
        BY <1>5 DEF WorkerActivates
  <2>2. [presenter[k] EXCEPT !.state = "active"].state = "active"
        BY <1>0 DEF LeaseRecord
  <2> QED
      BY <1>0, <2>1, <2>2
<1>6. ASSUME NEW k \in Leases, Expires(k) PROVE FALSE
      BY <1>1, <1>6 DEF Expires
<1>7. ASSUME NEW req \in late, presenter' = Applied(req)
      PROVE  req.op = "issue" /\ req.lease = l /\ req.secret = presenter'[l].secret
  <2>1. req.lease \in Leases /\ req.secret \in Secrets \union {0}
        BY DEF TypeOK, Requests
  <2>2. req.op = "issue" /\ presenter' = Created(req.lease, req.secret)
        BY <1>1, <1>7, <2>1 DEF Applied
  <2> QED
      BY <1>2, <2>1, <2>2
<1>8. presenter' # presenter
      OBVIOUS
<1> QED
    BY <1>3, <1>4, <1>5, <1>6, <1>7, <1>8
       DEF Next, AttemptEnds, vars, Issues, Revokes, TimesOut, TransportFails, HandsOver,
           ArrivesLate, LinkBreaks

\* A lease that is ready while its call runs was made so by that call.
LEMMA ReadyAgreesPreserved ==
  TypedInv /\ AskedOnce /\ LateAgrees /\ ReadyAgrees /\ [Next]_vars => ReadyAgrees'
<1> SUFFICES ASSUME TypedInv, AskedOnce, LateAgrees, ReadyAgrees, [Next]_vars PROVE ReadyAgrees'
    OBVIOUS
<1>1. ASSUME NEW l \in Leases, outcome[l] = "none" PROVE presenter'[l].state # "ready"
  <2> SUFFICES ASSUME presenter'[l].state = "ready" PROVE FALSE
      OBVIOUS
  <2>1. presenter[l].state # "ready"
        BY <1>1 DEF ReadyAgrees
  <2>2. CASE \E req \in late : req.op = "issue" /\ req.lease = l
        BY <1>1, <2>2 DEF LateAgrees
  <2>3. CASE \E t \in Controllers : Issuing(t) /\ call[t].lease = l
        BY <1>1, <2>3 DEF AskedOnce
  <2> QED
      BY <2>1, <2>2, <2>3, BecomesReady
<1>2. ASSUME NEW u \in Controllers, Issuing(u)', presenter'[call'[u].lease].state = "ready"
      PROVE  presenter'[call'[u].lease].secret = call'[u].secret
  <2> DEFINE l == call'[u].lease
  <2>0. l \in Leases
        BY <1>2, TypedPreserved DEF TypedInv, Named, Issuing
  <2>1. Issuing(u) /\ l = call[u].lease /\ call'[u].secret = call[u].secret
        BY <1>1, <1>2, <2>0, IssuingAfter
  <2>2. CASE presenter[l].state = "ready"
    <3>1. presenter'[l].secret = presenter[l].secret
          BY <2>0, <2>2, SecretKept
    <3> QED
        BY <2>1, <2>2, <3>1 DEF ReadyAgrees
  <2>3. CASE presenter[l].state # "ready"
    <3>1. CASE \E req \in late :
                 req.op = "issue" /\ req.lease = l /\ req.secret = presenter'[l].secret
          BY <2>1, <3>1 DEF LateAgrees
    <3>2. ASSUME NEW t \in Controllers, Issuing(t), call[t].lease = l, call'[t] = NoCall
          PROVE  FALSE
      <4>1. t = u
            BY <2>1, <3>2 DEF AskedOnce
      <4> QED
          BY <1>2, <3>2, <4>1 DEF Issuing, NoCall
    <3> QED
        BY <1>2, <2>0, <2>3, <3>1, <3>2, BecomesReady
  <2> QED
      BY <2>2, <2>3
<1> QED
    BY <1>1, <1>2, StaysAsked DEF ReadyAgrees

LEMMA SecretPreserved == SecretInv /\ [Next]_vars => SecretInv'
  BY TypedPreserved, AskedOncePreserved, LateAgreesPreserved, ReadyAgreesPreserved,
     BoundPreserved DEF SecretInv

\* The secret of a grant, and of the worker it was handed to, is the one its lease is bound
\* to, for any number of attempts and in whatever order they reach the presenter
\* (retry_on_timeout, VividoAdmin::issue, BridgeAdmin::issue, LeaseHandle::take_activation).
THEOREM GrantsBindTheirSecret == Spec => []GrantBindsItsSecret
<1>1. SecretInv => GrantBindsItsSecret
      BY DEF SecretInv, Bound
<1> QED
    BY <1>1, SecretInitially, SecretPreserved, PTL DEF Spec
-----------------------------------------------------------------------------
\* What stands between an active worker and a lease nobody owns.  A worker was given its
\* secret from a handle; a handle is given up for a revocation, and a revocation ends by
\* telling its controller how it went.
Owned(l) ==
  \/ \E t \in Controllers : handle[t].lease = l
  \/ \E t \in Controllers : call[t].op = "revoke" /\ call[t].lease = l
  \/ outcome[l] \in {"revoked", "not revoked"}

Accounted ==
  /\ \A t \in Controllers : Issuing(t) => handle[t] = NoHandle
  /\ \A l \in Leases : presenter[l].state = "active" => worker[l] # 0
  /\ \A l \in Leases : worker[l] # 0 => Owned(l)

\* How the end of a call leaves the calls, the handles and what was told.
LEMMA CallEnding ==
  ASSUME TypedInv, NEW t \in Controllers, AttemptEnds(t)
  PROVE  /\ call[t].op # "none" /\ call[t].lease \in Leases
         /\ \A u \in Controllers : u # t => call'[u] = call[u] /\ handle'[u] = handle[u]
         /\ \A l \in Leases : l # call[t].lease => outcome'[l] = outcome[l]
         /\ handle'[t] = handle[t] \/ call[t].op = "issue"
         /\ \/ call'[t] = NoCall /\ (call[t].op = "revoke" =>
                                       outcome'[call[t].lease] \in {"revoked", "not revoked"})
            \/ /\ call'[t].op = call[t].op /\ call'[t].lease = call[t].lease
               /\ outcome' = outcome /\ handle' = handle
<1>0. /\ call \in [Controllers -> CallRecord] /\ handle \in [Controllers -> HandleRecord]
      /\ outcome \in [Leases -> {"none", "asked", "issued", "not issued", "revoked",
                                 "not revoked"}]
      BY DEF TypedInv, TypeOK, CallRecord, HandleRecord
<1>1. call[t].op # "none" /\ call[t].lease \in Leases
      BY DEF AttemptEnds, IssueAnswered, RevokeAnswered, TimesOut, TransportFails, TypedInv, Named
<1>2. ASSUME Fails(t)
      PROVE  /\ \A l \in Leases : l # call[t].lease => outcome'[l] = outcome[l]
             /\ call[t].op = "revoke" => outcome'[call[t].lease] = "not revoked"
      BY <1>0, <1>1, <1>2 DEF Fails
<1>3. CASE IssueAnswered(t)
  <2>1. call[t].op = "issue" /\ Returns(t)
        BY <1>3 DEF IssueAnswered
  <2>2. \A u \in Controllers : u # t => handle'[u] = handle[u]
        BY <1>0, <1>3 DEF IssueAnswered
  <2>3. \A l \in Leases : l # call[t].lease => outcome'[l] = outcome[l]
        BY <1>0, <1>2, <1>3 DEF IssueAnswered
  <2> QED
      BY <1>1, <2>1, <2>2, <2>3, Returning
<1>4. CASE RevokeAnswered(t)
  <2>1. call[t].op = "revoke" /\ Returns(t) /\ handle' = handle
        BY <1>4 DEF RevokeAnswered
  <2>2. /\ \A l \in Leases : l # call[t].lease => outcome'[l] = outcome[l]
        /\ outcome'[call[t].lease] \in {"revoked", "not revoked"}
    <3>1. CASE Fails(t)
          BY <1>2, <2>1, <3>1
    <3>2. CASE outcome' = [outcome EXCEPT ![call[t].lease] = "revoked"]
          BY <1>0, <1>1, <3>2
    <3> QED
        BY <1>4, <3>1, <3>2 DEF RevokeAnswered
  <2> QED
      BY <1>1, <2>1, <2>2, Returning
<1>5. CASE TimesOut(t) /\ call[t].tries < Attempts
  <2>1. /\ call' = [call EXCEPT ![t] = [call[t] EXCEPT !.tries = @ + 1]]
        /\ outcome' = outcome /\ handle' = handle
        BY <1>5 DEF TimesOut
  <2>2. call'[t].op = call[t].op /\ call'[t].lease = call[t].lease
        BY <1>0, <1>5, <2>1, AttemptCounted
  <2>3. \A u \in Controllers : u # t => call'[u] = call[u]
        BY <1>0, <2>1
  <2> QED
      BY <1>1, <2>1, <2>2, <2>3
<1>6. CASE (TimesOut(t) /\ ~(call[t].tries < Attempts)) \/ TransportFails(t)
  <2>1. Fails(t) /\ Returns(t) /\ handle' = handle
        BY <1>6 DEF TimesOut, TransportFails
  <2> QED
      BY <1>1, <1>2, <2>1, Returning
<1> QED
    BY <1>3, <1>4, <1>5, <1>6 DEF AttemptEnds

\* No step leaves a lease that is owned without an owner and without an answer.
LEMMA OwnedStays ==
  ASSUME TypedInv, AskedOnce, \A t \in Controllers : Issuing(t) => handle[t] = NoHandle,
         [Next]_vars, NEW l \in Leases, Owned(l)
  PROVE  Owned(l)'
<1>0. /\ call \in [Controllers -> CallRecord] /\ handle \in [Controllers -> HandleRecord]
      /\ outcome \in [Leases -> {"none", "asked", "issued", "not issued", "revoked",
                                 "not revoked"}]
      BY DEF TypedInv, TypeOK, CallRecord, HandleRecord
<1>1. ASSUME NEW t \in Controllers, AttemptEnds(t) PROVE Owned(l)'
  <2>1. /\ call[t].op # "none" /\ call[t].lease \in Leases
        /\ \A u \in Controllers : u # t => call'[u] = call[u] /\ handle'[u] = handle[u]
        /\ \A k \in Leases : k # call[t].lease => outcome'[k] = outcome[k]
        /\ handle'[t] = handle[t] \/ call[t].op = "issue"
        /\ \/ call'[t] = NoCall /\ (call[t].op = "revoke" =>
                                      outcome'[call[t].lease] \in {"revoked", "not revoked"})
           \/ /\ call'[t].op = call[t].op /\ call'[t].lease = call[t].lease
              /\ outcome' = outcome /\ handle' = handle
        BY <1>1, CallEnding
  <2>2. ASSUME NEW u \in Controllers, handle[u].lease = l PROVE handle'[u].lease = l
    <3>1. handle[u] # NoHandle
          BY <2>2, NoneAssumption DEF NoHandle
    <3> QED
        BY <2>1, <2>2, <3>1 DEF Issuing
  <2>3. ASSUME NEW u \in Controllers, call[u].op = "revoke", call[u].lease = l PROVE Owned(l)'
    <3>1. CASE call'[u].op = "revoke" /\ call'[u].lease = l
          BY <3>1 DEF Owned
    <3>2. CASE ~(call'[u].op = "revoke" /\ call'[u].lease = l)
      <4>0. u = t
        <5>1. u # t => call'[u] = call[u]
              BY <2>1
        <5> QED
            BY <2>3, <3>2, <5>1
      <4>1. call'[t] = NoCall
        <5>1. ~(call'[t].op = call[t].op /\ call'[t].lease = call[t].lease)
              BY <2>3, <3>2, <4>0
        <5> QED
            BY <2>1, <5>1
      <4>2. outcome'[l] \in {"revoked", "not revoked"}
        <5>1. ~(call'[t].op = call[t].op /\ call'[t].lease = call[t].lease)
              BY <2>3, <3>2, <4>0
        <5> QED
            BY <2>1, <2>3, <4>0, <5>1
      <4> QED
          BY <4>2 DEF Owned
    <3> QED
        BY <3>1, <3>2
  <2>4. ASSUME outcome[l] \in {"revoked", "not revoked"}
        PROVE  outcome'[l] \in {"revoked", "not revoked"}
    <3>1. call[t].op \in {"issue", "revoke"}
          BY <1>0, <2>1 DEF CallRecord
    <3> QED
        BY <2>1, <2>4, <3>1 DEF AskedOnce, Issuing
  <2> QED
      BY <2>2, <2>3, <2>4 DEF Owned
<1>2. ASSUME NEW t \in Controllers, NEW k \in Leases, Issues(t, k) PROVE Owned(l)'
  <2>1. /\ handle' = handle /\ call[t] = NoCall /\ outcome[k] = "none"
        /\ \A u \in Controllers : u # t => call'[u] = call[u]
        /\ \A j \in Leases : j # k => outcome'[j] = outcome[j]
        BY <1>0, <1>2 DEF Issues
  <2>2. ASSUME NEW u \in Controllers, call[u].op = "revoke", call[u].lease = l
        PROVE  call'[u] = call[u]
        BY <2>1, <2>2 DEF NoCall
  <2>3. outcome[l] \in {"revoked", "not revoked"} => outcome'[l] = outcome[l]
        BY <2>1
  <2> QED
      BY <2>1, <2>2, <2>3 DEF Owned
<1>3. ASSUME NEW t \in Controllers, Revokes(t) PROVE Owned(l)'
  <2>1. /\ outcome' = outcome /\ call[t] = NoCall
        /\ call'[t].op = "revoke" /\ call'[t].lease = handle[t].lease
        /\ \A u \in Controllers : u # t => call'[u] = call[u] /\ handle'[u] = handle[u]
        BY <1>0, <1>3 DEF Revokes
  <2>2. ASSUME NEW u \in Controllers, call[u].op = "revoke", call[u].lease = l
        PROVE  call'[u] = call[u]
        BY <2>1, <2>2 DEF NoCall
  <2>3. ASSUME NEW u \in Controllers, handle[u].lease = l
        PROVE  handle'[u].lease = l \/ (call'[u].op = "revoke" /\ call'[u].lease = l)
        BY <2>1, <2>3
  <2> QED
      BY <2>1, <2>2, <2>3 DEF Owned
<1>4. ASSUME NEW t \in Controllers, HandsOver(t) PROVE Owned(l)'
  <2>1. /\ handle'[t].lease = handle[t].lease /\ call' = call /\ outcome' = outcome
        /\ \A u \in Controllers : u # t => handle'[u] = handle[u]
    <3>1. handle' = [handle EXCEPT ![t] = [handle[t] EXCEPT !.secret = 0]]
          BY <1>4 DEF HandsOver
    <3>2. [handle[t] EXCEPT !.secret = 0].lease = handle[t].lease
          BY <1>0 DEF HandleRecord
    <3> QED
        BY <1>0, <1>4, <3>1, <3>2 DEF HandsOver
  <2> QED
      BY <2>1 DEF Owned
<1>5. CASE UNCHANGED <<call, handle, outcome>>
      BY <1>5 DEF Owned
<1> QED
    BY <1>1, <1>2, <1>3, <1>4, <1>5
       DEF Next, vars, WorkerActivates, Expires, ArrivesLate, LinkBreaks

\* A lease becomes active when its worker activates it, and in no other way.
LEMMA BecomesActive ==
  ASSUME TypedInv, [Next]_vars, NEW l \in Leases, presenter'[l].state = "active",
         presenter[l].state # "active"
  PROVE  worker[l] # 0 /\ worker' = worker
<1> USE DEF TypedInv
<1>0. presenter \in [Leases -> LeaseRecord]
      BY DEF TypeOK, LeaseRecord
<1>1. \A k \in Leases : presenter' # Revoked(k)
  <2> SUFFICES ASSUME NEW k \in Leases, presenter' = Revoked(k) PROVE FALSE
      OBVIOUS
  <2>1. 0 \in Secrets \union {0}
        OBVIOUS
  <2>2. Revoked(k)[k] = [state |-> "revoked", secret |-> presenter[k].secret]
        BY <2>1, PresenterWrites
  <2>3. k # l => Revoked(k)[l] = presenter[l]
        BY <2>1, PresenterWrites
  <2> QED
      BY <2>2, <2>3
<1>2. \A k \in Leases, s \in Secrets \union {0} : presenter' # Created(k, s)
  <2> SUFFICES ASSUME NEW k \in Leases, NEW s \in Secrets \union {0}, presenter' = Created(k, s)
               PROVE  FALSE
      OBVIOUS
  <2>1. k # l => Created(k, s)[l] = presenter[l]
        BY PresenterWrites
  <2>2. Created(k, s)[k] = IF presenter[k].state = "unknown"
                             THEN [state |-> "ready", secret |-> s] ELSE presenter[k]
        BY PresenterWrites
  <2> QED
      BY <2>1, <2>2
<1>3. ASSUME NEW t \in Controllers, AttemptEnds(t) PROVE FALSE
  <2>1. call[t].op # "none" => call[t].lease \in Leases /\ call[t].secret \in Secrets \union {0}
        BY DEF Named, TypeOK
  <2>2. presenter' # presenter
        OBVIOUS
  <2> QED
      BY <1>1, <1>2, <1>3, <2>1, <2>2
         DEF AttemptEnds, IssueAnswered, RevokeAnswered, TimesOut, TransportFails
<1>4. ASSUME NEW k \in Leases, WorkerActivates(k) PROVE worker[l] # 0 /\ worker' = worker
  <2>1. k # l => presenter'[l] = presenter[l]
        BY <1>0, <1>4 DEF WorkerActivates
  <2> QED
      BY <1>4, <2>1 DEF WorkerActivates
<1>5. ~\E k \in Leases : Expires(k)
      BY <1>1 DEF Expires
<1>6. ~ArrivesLate
  <2> SUFFICES ASSUME NEW req \in late, presenter' = Applied(req) PROVE FALSE
      BY DEF ArrivesLate
  <2>1. req.lease \in Leases /\ req.secret \in Secrets \union {0}
        BY DEF TypeOK, Requests
  <2> QED
      BY <1>1, <1>2, <2>1 DEF Applied
<1>7. presenter' # presenter
      OBVIOUS
<1> QED
    BY <1>3, <1>4, <1>5, <1>6, <1>7 DEF Next, vars, Issues, Revokes, HandsOver, LinkBreaks

LEMMA AccountedPreserved == TypedInv /\ AskedOnce /\ Accounted /\ [Next]_vars => Accounted'
<1> SUFFICES ASSUME TypedInv, AskedOnce, Accounted, [Next]_vars PROVE Accounted'
    OBVIOUS
<1>0. /\ call \in [Controllers -> CallRecord] /\ handle \in [Controllers -> HandleRecord]
      /\ worker \in [Leases -> Secrets \union {0}]
      BY DEF TypedInv, TypeOK, CallRecord, HandleRecord
<1>1. worker' = worker \/ \E t \in Controllers : HandsOver(t)
      BY DEF Next, AttemptEnds, vars, Issues, Revokes, IssueAnswered, RevokeAnswered, TimesOut,
             TransportFails, WorkerActivates, Expires, ArrivesLate, LinkBreaks
<1>2. ASSUME NEW t \in Controllers, HandsOver(t), NEW l \in Leases
      PROVE  /\ worker[l] # 0 => worker'[l] # 0
             /\ worker'[l] # 0 /\ worker[l] = 0 => Owned(l)'
  <2>1. /\ \A k \in Leases : k # handle[t].lease => worker'[k] = worker[k]
        /\ handle[t].lease \in Leases => worker'[handle[t].lease] # 0
        BY <1>0, <1>2 DEF HandsOver
  <2>2. handle'[t].lease = handle[t].lease
    <3>1. handle' = [handle EXCEPT ![t] = [handle[t] EXCEPT !.secret = 0]]
          BY <1>2 DEF HandsOver
    <3>2. [handle[t] EXCEPT !.secret = 0].lease = handle[t].lease
          BY <1>0 DEF HandleRecord
    <3> QED
        BY <1>0, <3>1, <3>2
  <2> QED
      BY <2>1, <2>2 DEF Owned
<1>3. \A l \in Leases : /\ worker[l] # 0 => worker'[l] # 0
                        /\ worker'[l] # 0 /\ worker[l] = 0 => Owned(l)'
      BY <1>1, <1>2
<1>4. \A l \in Leases : worker[l] # 0 => Owned(l)'
      BY OwnedStays DEF Accounted
<1>5. \A l \in Leases : presenter'[l].state = "active" => worker'[l] # 0
      BY <1>3, BecomesActive DEF Accounted
<1>6. ASSUME NEW u \in Controllers, Issuing(u)' PROVE handle'[u] = NoHandle
  <2>1. ASSUME NEW t \in Controllers, AttemptEnds(t) PROVE handle'[u] = NoHandle
    <3>1. CASE u = t
      <4>1. call'[t].op = "issue" /\ NoCall.op = "none"
            BY <1>6, <3>1 DEF Issuing, NoCall
      <4>2. call'[t].op = call[t].op /\ handle' = handle
            BY <2>1, <4>1, CallEnding
      <4> QED
          BY <3>1, <4>1, <4>2 DEF Issuing, Accounted
    <3>2. CASE u # t
          BY <1>6, <2>1, <3>2, CallEnding DEF Issuing, Accounted
    <3> QED
        BY <3>1, <3>2
  <2>2. ASSUME NEW t \in Controllers, NEW k \in Leases, Issues(t, k) PROVE handle'[u] = NoHandle
        BY <1>0, <1>6, <2>2 DEF Issues, Issuing, Accounted
  <2>3. ASSUME NEW t \in Controllers, Revokes(t) PROVE handle'[u] = NoHandle
        BY <1>0, <1>6, <2>3 DEF Revokes, Issuing, Accounted
  <2>4. ASSUME NEW t \in Controllers, HandsOver(t) PROVE handle'[u] = NoHandle
        BY <1>0, <1>6, <2>4 DEF HandsOver, Issuing, Accounted, NoCall, NoHandle
  <2>5. CASE UNCHANGED <<call, handle>>
        BY <1>6, <2>5 DEF Issuing, Accounted
  <2> QED
      BY <2>1, <2>2, <2>3, <2>4, <2>5
         DEF Next, vars, WorkerActivates, Expires, ArrivesLate, LinkBreaks
<1> QED
    BY <1>3, <1>4, <1>5, <1>6 DEF Accounted

\* An active worker session is never forgotten: somebody owns its lease, revokes it, or
\* was told that revoking it failed, for any number of controllers, leases and attempts
\* (LeaseHandle::revoke and Drop, BridgeAdmin::revoke, take_activation).
THEOREM ActiveLeasesAccounted == Spec => []ActiveLeaseAccounted
<1> DEFINE Inv == SecretInv /\ RevokedInv /\ Accounted
<1>1. Init => Inv
  <2>1. Init => Accounted
        BY DEF Init, Accounted, Issuing, NoCall
  <2> QED
      BY <2>1, SecretInitially, TypedInitially DEF RevokedInv, Init
<1>2. Inv /\ [Next]_vars => Inv'
      BY SecretPreserved, TypedPreserved, RevokedStays, RevokedReported, AccountedPreserved
         DEF RevokedInv, SecretInv
<1>3. Inv => ActiveLeaseAccounted
      BY DEF RevokedInv, Accounted, Owned, ActiveLeaseAccounted
<1> QED
    BY <1>1, <1>2, <1>3, PTL DEF Spec
=============================================================================
