---------------------------- MODULE LeaseControl ----------------------------
(***************************************************************************)
(* A controller issues session leases, hands each activation secret to a   *)
(* worker, and revokes.  It talks to the presenter in one of two ways: the *)
(* root session of a VividoAdmin (and of a DirectBrowserAdmin, which wraps *)
(* one), behind a mutex; or the gateway socket of a BridgeAdmin, with one   *)
(* connection per attempt, repeated when the transport reports TimedOut.   *)
(*                                                                         *)
(* The presenter, the gateway and the workers are external.  The presenter *)
(* deduplicates a lease by its identifier and never reissues one that was  *)
(* revoked; a request whose sender gave up may reach it at any later time. *)
(***************************************************************************)
EXTENDS Naturals, FiniteSets

CONSTANTS
  Controllers,  \* threads that issue and revoke
  Bridged,      \* those that use a BridgeAdmin; the others share a VividoAdmin
  Leases,       \* lease identifiers, each requested once
  Attempts,     \* LEASE_ISSUE_ATTEMPTS
  None,         \* no thread, no lease
  MaxSecrets    \* bound: secrets minted

ASSUME BridgedAssumption == Bridged \subseteq Controllers
ASSUME NoneAssumption == None \notin Controllers \union Leases
ASSUME AttemptsAssumption == Attempts \in Nat \ {0} /\ MaxSecrets \in Nat

VARIABLES
  presenter,  \* per lease: its state at the presenter and the secret it is bound to
  late,       \* requests nobody waits for any more
  link,       \* the control connection of the root session
  mutex,      \* VividoAdmin.session
  minted,     \* secrets minted so far
  call,       \* per thread: the call it is in
  handle,     \* per thread: the LeaseHandle it owns
  worker,     \* per lease: the secret its worker was given, 0 for none
  outcome     \* per lease: what its controller was told

vars == <<presenter, late, link, mutex, minted, call, handle, worker, outcome>>

Secrets == 1 .. MaxSecrets
NoCall == [op |-> "none", lease |-> None, secret |-> 0, tries |-> 0]
NoHandle == [lease |-> None, secret |-> 0]
Live == {"ready", "active"}

Init ==
  /\ presenter = [l \in Leases |-> [state |-> "unknown", secret |-> 0]]
  /\ late = {} /\ link = TRUE /\ mutex = None /\ minted = 0
  /\ call = [t \in Controllers |-> NoCall]
  /\ handle = [t \in Controllers |-> NoHandle]
  /\ worker = [l \in Leases |-> 0]
  /\ outcome = [l \in Leases |-> "none"]
-----------------------------------------------------------------------------
\* What the presenter does with a request: a lease is created once, and the same
\* identifier gets the same lease again; a revoked one stays revoked.
Created(l, s) ==
  IF presenter[l].state = "unknown"
    THEN [presenter EXCEPT ![l] = [state |-> "ready", secret |-> s]] ELSE presenter
Revoked(l) == [presenter EXCEPT ![l].state = "revoked"]
Applied(req) == IF req.op = "issue" THEN Created(req.lease, req.secret) ELSE Revoked(req.lease)

\* SESSION_LEASE_READY reports a lease that waits for its activation.
ReportsReady(l) == presenter[l].state \in {"unknown", "ready"}

\* The session mutex of a VividoAdmin is held for the whole call.
Enters(t) == t \notin Bridged => mutex = None
Holds(t) == mutex' = IF t \in Bridged THEN mutex ELSE t
\* Mutant of Leaves: the guard outlives the call.
LeavesHeld(t) == mutex' = mutex

Leaves(t) == mutex' = IF t \in Bridged THEN mutex ELSE None
Returns(t) == call' = [call EXCEPT ![t] = NoCall] /\ Leaves(t)
-----------------------------------------------------------------------------
\* Mutant: the worker is given the secret with the request, not with the grant.
IssuesAndHandsOver(t, l) ==
  /\ call[t] = NoCall /\ handle[t] = NoHandle /\ outcome[l] = "none" /\ Enters(t)
  /\ minted < MaxSecrets
  /\ minted' = minted + 1
  /\ call' = [call EXCEPT ![t] = [op |-> "issue", lease |-> l, secret |-> minted + 1,
                                  tries |-> 1]]
  /\ outcome' = [outcome EXCEPT ![l] = "asked"]
  /\ worker' = [worker EXCEPT ![l] = minted + 1]
  /\ Holds(t)
  /\ UNCHANGED <<presenter, late, link, handle>>

\* issue_handle: the definition with its verifier is built once, before any attempt.
Issues(t, l) ==
  /\ call[t] = NoCall /\ handle[t] = NoHandle /\ outcome[l] = "none" /\ Enters(t)
  /\ minted < MaxSecrets
  /\ minted' = minted + 1
  /\ call' = [call EXCEPT ![t] = [op |-> "issue", lease |-> l, secret |-> minted + 1,
                                  tries |-> 1]]
  /\ outcome' = [outcome EXCEPT ![l] = "asked"]
  /\ Holds(t)
  /\ UNCHANGED <<presenter, late, link, handle, worker>>

\* LeaseHandle::revoke and Drop: the grant leaves the handle before the request.
Revokes(t) ==
  /\ call[t] = NoCall /\ handle[t] # NoHandle /\ Enters(t)
  /\ call' = [call EXCEPT ![t] = [op |-> "revoke", lease |-> handle[t].lease,
                                  secret |-> handle[t].secret, tries |-> 1]]
  /\ handle' = [handle EXCEPT ![t] = NoHandle]
  /\ Holds(t)
  /\ UNCHANGED <<presenter, late, link, minted, worker, outcome>>

Reachable(t) == t \in Bridged \/ link
Fails(t) == outcome' = [outcome EXCEPT ![call[t].lease] =
                          IF call[t].op = "issue" THEN "not issued" ELSE "not revoked"]

\* The reply to an issue is validated (create_session_lease, BridgeAdmin::issue);
\* one that is refused drops the secret and leaves the lease where it is.
IssueAnswered(t) ==
  LET l == call[t].lease IN
  /\ call[t].op = "issue" /\ Reachable(t)
  /\ presenter' = Created(l, call[t].secret)
  /\ \/ /\ ReportsReady(l)
        /\ handle' = [handle EXCEPT ![t] = [lease |-> l, secret |-> call[t].secret]]
        /\ outcome' = [outcome EXCEPT ![l] = "issued"]
     \/ Fails(t) /\ UNCHANGED handle
  /\ Returns(t)
  /\ UNCHANGED <<late, link, minted, worker>>

\* Revoking a lease that is gone already is answered with OK or with an error.
RevokeAnswered(t) ==
  LET l == call[t].lease IN
  /\ call[t].op = "revoke" /\ Reachable(t)
  /\ presenter' = Revoked(l)
  /\ \/ outcome' = [outcome EXCEPT ![l] = "revoked"]
     \/ presenter[l].state = "revoked" /\ Fails(t)
  /\ Returns(t)
  /\ UNCHANGED <<late, link, minted, handle, worker>>

Asked(t) == [op |-> call[t].op, lease |-> call[t].lease, secret |-> call[t].secret]

\* Mutant: each attempt builds its own definition.
TimesOutMinting(t) ==
  /\ call[t].op # "none" /\ t \in Bridged
  /\ late' = late \union {Asked(t)}
  /\ IF call[t].tries < Attempts
       THEN /\ minted < MaxSecrets
            /\ minted' = minted + 1
            /\ call' = [call EXCEPT ![t].tries = @ + 1, ![t].secret = minted + 1]
            /\ UNCHANGED <<mutex, outcome>>
       ELSE Fails(t) /\ Returns(t) /\ UNCHANGED minted
  /\ UNCHANGED <<presenter, link, handle, worker>>

\* Mutant: the attempts are not counted.
TimesOutForEver(t) ==
  /\ call[t].op # "none" /\ t \in Bridged
  /\ late' = late \union {Asked(t)}
  /\ UNCHANGED <<presenter, link, mutex, minted, call, handle, worker, outcome>>

\* Mutant: a revocation that keeps timing out is taken for done.
TimesOutRevoked(t) ==
  /\ call[t].op # "none" /\ t \in Bridged
  /\ late' = late \union {Asked(t)}
  /\ IF call[t].tries < Attempts
       THEN call' = [call EXCEPT ![t].tries = @ + 1] /\ UNCHANGED <<mutex, outcome>>
       ELSE /\ outcome' = [outcome EXCEPT ![call[t].lease] =
                             IF call[t].op = "issue" THEN "not issued" ELSE "revoked"]
            /\ Returns(t)
  /\ UNCHANGED <<presenter, link, minted, handle, worker>>

\* retry_on_timeout: the same request again, a bounded number of times, when the
\* transport of an attempt reports TimedOut.  The SDK sets no timeout of its own, and the
\* connection of a root session that ended stays ended.
TimesOut(t) ==
  /\ call[t].op # "none" /\ t \in Bridged
  /\ late' = late \union {Asked(t)}
  /\ IF call[t].tries < Attempts
       THEN call' = [call EXCEPT ![t].tries = @ + 1] /\ UNCHANGED <<mutex, outcome>>
       ELSE Fails(t) /\ Returns(t)
  /\ UNCHANGED <<presenter, link, minted, handle, worker>>

\* Any other error ends the call at once, whether the request was read or not.
TransportFails(t) ==
  /\ call[t].op # "none" /\ (t \in Bridged \/ ~link)
  /\ late' = late \union {Asked(t)}
  /\ Fails(t) /\ Returns(t)
  /\ UNCHANGED <<presenter, link, minted, handle, worker>>

\* take_activation empties the secret; the worker has it from then on.
HandsOver(t) ==
  /\ call[t] = NoCall /\ handle[t].secret # 0
  /\ worker' = [worker EXCEPT ![handle[t].lease] = handle[t].secret]
  /\ handle' = [handle EXCEPT ![t].secret = 0]
  /\ UNCHANGED <<presenter, late, link, mutex, minted, call, outcome>>
-----------------------------------------------------------------------------
\* A worker activates its lease with the secret the lease is bound to.
WorkerActivates(l) ==
  /\ presenter[l].state = "ready" /\ worker[l] # 0 /\ presenter[l].secret = worker[l]
  /\ presenter' = [presenter EXCEPT ![l].state = "active"]
  /\ UNCHANGED <<late, link, mutex, minted, call, handle, worker, outcome>>

\* A lease that is not activated in time ends.
Expires(l) ==
  /\ presenter[l].state = "ready"
  /\ presenter' = Revoked(l)
  /\ UNCHANGED <<late, link, mutex, minted, call, handle, worker, outcome>>

ArrivesLate ==
  /\ \E req \in late : presenter' = Applied(req) /\ late' = late \ {req}
  /\ UNCHANGED <<link, mutex, minted, call, handle, worker, outcome>>

LinkBreaks ==
  /\ link /\ link' = FALSE
  /\ UNCHANGED <<presenter, late, mutex, minted, call, handle, worker, outcome>>

\* How an attempt ends, if it ends.
AttemptEnds(t) == IssueAnswered(t) \/ RevokeAnswered(t) \/ TimesOut(t) \/ TransportFails(t)

Next ==
  \/ \E t \in Controllers :
       \/ \E l \in Leases : Issues(t, l)
       \/ Revokes(t) \/ AttemptEnds(t) \/ HandsOver(t)
  \/ \E l \in Leases : WorkerActivates(l) \/ Expires(l)
  \/ ArrivesLate \/ LinkBreaks

Spec == Init /\ [][Next]_vars

\* Neither the root session nor the socket of the gateway has a timeout: that an attempt
\* ends assumes a presenter or gateway that answers, or a transport that reports an error.
FairSpec == Spec /\ \A t \in Controllers : WF_vars(AttemptEnds(t))
-----------------------------------------------------------------------------
Requests == [op : {"issue", "revoke"}, lease : Leases, secret : Secrets \union {0}]

\* Every variable keeps its type.
TypeOK ==
  /\ presenter \in [Leases -> [state : Live \union {"unknown", "revoked"},
                               secret : Secrets \union {0}]]
  /\ late \subseteq Requests
  /\ link \in BOOLEAN /\ mutex \in (Controllers \ Bridged) \union {None}
  /\ minted \in 0 .. MaxSecrets
  /\ call \in [Controllers -> [op : {"none", "issue", "revoke"}, lease : Leases \union {None},
                               secret : Secrets \union {0}, tries : 0 .. Attempts]]
  /\ handle \in [Controllers -> [lease : Leases \union {None}, secret : Secrets \union {0}]]
  /\ worker \in [Leases -> Secrets \union {0}]
  /\ outcome \in [Leases -> {"none", "asked", "issued", "not issued", "revoked", "not revoked"}]

\* A worker can use what it is given: the secret a grant carries is the one its lease
\* is bound to, however many attempts the issue took and whichever of them the
\* presenter saw first (retry_on_timeout, VividoAdmin::issue, BridgeAdmin::issue).
GrantBindsItsSecret ==
  /\ \A t \in Controllers :
       handle[t].secret # 0 => presenter[handle[t].lease].secret = handle[t].secret
  /\ \A l \in Leases : worker[l] # 0 => presenter[l].secret = worker[l]

\* An active worker session is never forgotten: a handle owns its lease, or its
\* revocation is under way, or the controller was told that it failed.
ActiveLeaseAccounted ==
  \A l \in Leases :
    presenter[l].state = "active" =>
      \/ \E t \in Controllers : handle[t].lease = l
      \/ \E t \in Controllers : call[t].op = "revoke" /\ call[t].lease = l
      \/ outcome[l] = "not revoked"

\* Once revoke returned Ok the lease is gone, and no earlier request that arrives
\* late brings it back.
RevokedIsGone == \A l \in Leases : outcome[l] = "revoked" => presenter[l].state \notin Live

\* Every call of a controller returns if each of its attempts ends, attempts being counted
\* (LEASE_ISSUE_ATTEMPTS, retry_on_timeout), and the session mutex is given up with it, so
\* that a thread that waits for it in issue or revoke finds it free (VividoAdmin).
CallsReturn ==
  \A t \in Controllers :
    /\ call[t].op # "none" ~> call[t].op = "none"
    /\ mutex = t ~> mutex # t
=============================================================================
