----------------------------- MODULE PythonHandle -----------------------------
(***************************************************************************)
(* How Python threads call the native extension: a handle (a Session or a  *)
(* TrackChannel object) wraps Mutex<Option<..>>, and a thread runs Python  *)
(* code only while it holds the interpreter lock.  A native call locks the *)
(* handle while still holding the interpreter lock, gives the interpreter  *)
(* lock up (py.detach) around the Rust call, and takes it back before its  *)
(* guard of the handle is dropped.                                         *)
(*                                                                         *)
(* The event loop of vivid_sdk.aio is one of the threads.  It runs Python  *)
(* code only: every native call goes through run_in_executor to a worker   *)
(* thread, and those are the others.                                       *)
(***************************************************************************)
EXTENDS Naturals

CONSTANTS
  PyThreads,  \* threads that run Python code
  Loop,       \* the one that runs the asyncio event loop
  Handles,    \* Session and TrackChannel objects
  None        \* no thread and no handle

ASSUME HandleAssumption == Loop \in PyThreads /\ None \notin PyThreads \union Handles

VARIABLES
  gil,     \* the thread that holds the interpreter lock
  holder,  \* per handle: the thread that holds its Mutex
  opened,  \* per handle: the Option is Some
  thread   \* per thread: where it is, in which call on which handle

pythonVars == <<gil, holder, opened, thread>>

\* Calls that detach with the guard held (sends, session requests), calls that
\* never detach (closed, repr, supports, session_info), and close, which takes
\* the value, drops the guard, and detaches.
Ops == {"request", "inspect", "close"}

InPython == [at |-> "python", op |-> None, handle |-> None]

PythonInit ==
  /\ gil = None
  /\ holder = [h \in Handles |-> None]
  /\ opened = [h \in Handles |-> TRUE]
  /\ thread = [t \in PyThreads |-> [InPython EXCEPT !.at = "waiting"]]
-----------------------------------------------------------------------------
Continues(t, at) == thread' = [thread EXCEPT ![t].at = at]

\* The interpreter hands its lock to a thread that waits for it, and takes it
\* from one that runs Python code.
Acquires(t) ==
  /\ thread[t].at = "waiting" /\ gil = None
  /\ gil' = t
  /\ Continues(t, "python")
  /\ UNCHANGED <<holder, opened>>

Yields(t) ==
  /\ thread[t].at = "python"
  /\ gil' = None
  /\ Continues(t, "waiting")
  /\ UNCHANGED <<holder, opened>>

\* A worker enters a function of the extension, _run's argument.
EntersNative(t) ==
  /\ t # Loop
  /\ thread[t].at = "python"
  /\ \E op \in Ops, h \in Handles :
       thread' = [thread EXCEPT ![t] = [at |-> "locking", op |-> op, handle |-> h]]
  /\ UNCHANGED <<gil, holder, opened>>

\* Mutex::lock blocks here, without giving up the interpreter lock.
Locked(t, op) ==
  /\ thread[t].at = "locking" /\ thread[t].op = op
  /\ holder[thread[t].handle] = None

\* closed_session and closed_channel: the handle was closed.
Refused(t) ==
  /\ Locked(t, "request") \/ Locked(t, "close")
  /\ ~opened[thread[t].handle]
  /\ thread' = [thread EXCEPT ![t] = InPython]
  /\ UNCHANGED <<gil, holder, opened>>

\* closed, __repr__, supports, session_info, allocate_id, anchor_marker.
Inspects(t) ==
  /\ Locked(t, "inspect")
  /\ thread' = [thread EXCEPT ![t] = InPython]
  /\ UNCHANGED <<gil, holder, opened>>

\* Mutant of Guarded: the guard is dropped when the call detaches.
GuardDropped(t) == holder

\* The guard lives to the end of the function, across detach.
Guarded(t) == [holder EXCEPT ![thread[t].handle] = t]

\* Lock, as_ref or as_mut, detach.
CallsRust(t) ==
  /\ Locked(t, "request") /\ opened[thread[t].handle]
  /\ holder' = Guarded(t)
  /\ gil' = None
  /\ Continues(t, "native")
  /\ UNCHANGED opened

\* Lock, take, unlock, detach.
ClosesHandle(t) ==
  /\ Locked(t, "close") /\ opened[thread[t].handle]
  /\ opened' = [opened EXCEPT ![thread[t].handle] = FALSE]
  /\ gil' = None
  /\ Continues(t, "native")
  /\ UNCHANGED holder

\* The Rust call returns; detach wants the interpreter lock back.
NativeReturns(t) ==
  /\ thread[t].at = "native"
  /\ Continues(t, "attaching")
  /\ UNCHANGED <<gil, holder, opened>>

Reattached(t) == thread[t].at = "attaching" /\ gil = None

\* detach has returned: the guard is dropped and Python code runs again.
Attaches(t) ==
  /\ Reattached(t)
  /\ gil' = t
  /\ holder' = [h \in Handles |-> IF holder[h] = t THEN None ELSE holder[h]]
  /\ thread' = [thread EXCEPT ![t] = InPython]
  /\ UNCHANGED opened
-----------------------------------------------------------------------------
Call(t) == \/ Refused(t) \/ Inspects(t) \/ CallsRust(t) \/ ClosesHandle(t)
           \/ NativeReturns(t) \/ Attaches(t)

PythonNext == \E t \in PyThreads : Acquires(t) \/ Yields(t) \/ EntersNative(t) \/ Call(t)

PythonSpec == PythonInit /\ [][PythonNext]_pythonVars

\* The interpreter makes a thread yield and gives every waiting thread its turn;
\* a Rust call ends; a thread inside the extension runs when nothing blocks it.
PythonFairness ==
  \A t \in PyThreads :
    /\ SF_pythonVars(Acquires(t)) /\ SF_pythonVars(Attaches(t)) /\ SF_pythonVars(Yields(t))
    /\ WF_pythonVars(Call(t))

PythonFairSpec == PythonSpec /\ PythonFairness
-----------------------------------------------------------------------------
(* Properties. *)

ThreadState == [at : {"waiting", "python", "locking", "native", "attaching"},
                op : Ops \union {None}, handle : Handles \union {None}]

\* The type invariant; the interpreter lock is held by exactly the thread that
\* runs Python code or the part of a native call outside detach.
PythonTypeOK ==
  /\ holder \in [Handles -> PyThreads \union {None}]
  /\ opened \in [Handles -> BOOLEAN]
  /\ thread \in [PyThreads -> ThreadState]
  /\ gil \in PyThreads \union {None}
  /\ \A t \in PyThreads : gil = t <=> thread[t].at \in {"python", "locking"}
  /\ \A t \in PyThreads :
       thread[t].at \in {"locking", "native", "attaching"} =>
         thread[t].op \in Ops /\ thread[t].handle \in Handles

\* No Rust value is used by one thread while another closes it: a request in
\* Rust works on an open handle, and close takes the value only between requests
\* ("never abandons a handle while Rust is mutating it", aio.py:5).
RequestsUseOpenHandles ==
  \A t \in PyThreads :
    thread[t].at = "native" /\ thread[t].op = "request" => opened[thread[t].handle]

\* "Native operations run in worker threads so flow waits and control replies do
\* not block the event loop" (aio.py:3): the event loop runs again and again.
LoopKeepsRunning == []<>(thread[Loop].at = "python")

\* The strengthening that makes RequestsUseOpenHandles inductive: a guard is
\* held by exactly the request that took it, to the end of its function.
GuardsMatch ==
  \A h \in Handles, t \in PyThreads :
    holder[h] = t <=> /\ thread[t].at \in {"native", "attaching"}
                     /\ thread[t].op = "request" /\ thread[t].handle = h

HandleInv == PythonTypeOK /\ GuardsMatch /\ RequestsUseOpenHandles
=============================================================================
