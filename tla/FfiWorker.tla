----------------------------- MODULE FfiWorker -----------------------------
(***************************************************************************)
(* The C interface (ffi.rs) and its dispatch.  A host makes a runtime,     *)
(* opens engines with it and calls them; it holds each by a handle, which  *)
(* it destroys when it likes.  Every call that waits for something clones  *)
(* the engine, or the runtime, out of its handle, is sent as a job to one  *)
(* worker thread, started by the first call, and blocks for the answer.    *)
(* Failures are told by a null result and a message in a variable of the   *)
(* thread the call was made on, to be asked for in a second call.          *)
(*                                                                         *)
(* A caller is a sequence of calls: a host thread, or a goroutine of the   *)
(* Go binding (lancedbffi.go).  A host thread makes all its calls on one   *)
(* OS thread; a goroutine that is not locked to a thread makes each on     *)
(* whichever is free.                                                      *)
(***************************************************************************)
EXTENDS Naturals, Sequences, FiniteSets

CONSTANTS
  Callers,  \* host threads or goroutines
  Threads,  \* OS threads
  Home,     \* Home[c]: the thread of a caller that is locked to one
  Locked,   \* whether callers are locked to their threads
  Runtimes, \* the runtimes that can be made
  Engines,  \* the engines that can be opened
  MaxCalls, \* bound on the calls of a behaviour
  None

ASSUME HomeAssumption == /\ Home \in [Callers -> Threads]
                         /\ Locked => \A c, d \in Callers : Home[c] = Home[d] => c = d
ASSUME BoundAssumption == MaxCalls \in Nat /\ None \notin Nat /\ None \notin Threads
ASSUME ObjectsAssumption == Runtimes \cap Engines = {} /\ None \notin Runtimes \cup Engines

VARIABLES
  worker,    \* the OnceLock: "none", "starting", "ready" or "failed"
  jobs,      \* the channel to the worker: calls in the order sent
  running,   \* the call the worker serves, or None
  pc,        \* where each caller is
  call,      \* the number of its latest call, None before the first
  thread,    \* the thread that call is on, None when it has returned
  calls,     \* how many calls were made
  uses,      \* the engine or runtime each call cloned, None once the clone is dropped
  answers,   \* what came through the result channel of each call
  opened,    \* the engine that came with it
  lastCall,  \* the latest call made on each thread
  lastError, \* LAST_ERROR: the call whose message each thread keeps, or None
  read,      \* the failed call and the message the caller read after it
  made,      \* runtimes and engines made so far
  open,      \* those with a handle that is not destroyed
  freed      \* those nobody refers to any more

vars == <<worker, jobs, running, pc, call, thread, calls, uses, answers, opened,
          lastCall, lastError, read, made, open, freed>>
hostVars == <<call, calls, lastCall, read>>
objects == <<made, open>>

Calls == 1 .. MaxCalls
Objects == Runtimes \cup Engines

TypeOK ==
  /\ worker \in {"none", "starting", "ready", "failed"}
  /\ jobs \in Seq(Calls)
  /\ running \in Calls \cup {None}
  /\ pc \in [Callers -> {"idle", "worker", "starting", "send", "answer", "failed"}]
  /\ call \in [Callers -> Calls \cup {None}]
  /\ thread \in [Callers -> Threads \cup {None}]
  /\ calls \in 0 .. MaxCalls
  /\ uses \in [Calls -> Objects \cup {None}]
  /\ answers \in [Calls -> {"none", "ok", "error", "dropped"}]
  /\ opened \in [Calls -> Engines \cup {None}]
  /\ lastCall \in [Threads -> Calls \cup {None}]
  /\ lastError \in [Threads -> Calls \cup {None}]
  /\ read \in [Callers -> [failed : Calls, told : Calls \cup {None}] \cup {None}]
  /\ made \subseteq Objects
  /\ open \subseteq made
  /\ freed \subseteq made \ open

Goto(c, there) == pc' = [pc EXCEPT ![c] = there]

\* The threads caller c may make its next call on.
ThreadsFor(c) ==
  IF Locked THEN {Home[c]} ELSE Threads \ {thread[d] : d \in Callers \ {c}}

\* Faulty: the message is set where the job ran, on the worker's thread.
ReturnErrorUntold(c) ==
  /\ thread' = [thread EXCEPT ![c] = None]
  /\ Goto(c, "failed")
  /\ UNCHANGED lastError

\* The call returns null, with its message where its thread will find it.
ReturnError(c) ==
  /\ lastError' = [lastError EXCEPT ![thread[c]] = call[c]]
  /\ thread' = [thread EXCEPT ![c] = None]
  /\ Goto(c, "failed")

\* Faulty: a call owns what it was given.
DropEngine(k) ==
  /\ uses' = [uses EXCEPT ![k] = None]
  /\ freed' = IF \E j \in Calls \ {k} : uses[j] = uses[k]
              THEN freed ELSE freed \cup {uses[k]}

\* Faulty: only the handle frees what it is for.
ForgetClone(k) ==
  /\ uses' = [uses EXCEPT ![k] = None]
  /\ UNCHANGED freed

\* The clone that call k carried is dropped.
DropClone(k) ==
  /\ uses' = [uses EXCEPT ![k] = None]
  /\ freed' = IF uses[k] \in open \/ \E j \in Calls \ {k} : uses[j] = uses[k]
              THEN freed ELSE freed \cup {uses[k]}

-----------------------------------------------------------------------------
(* The caller's thread.                                                    *)

\* Faulty: an error is kept until it is read.
CallUncleared(c, t, o) ==
  /\ pc[c] \in {"idle", "failed"} /\ calls < MaxCalls /\ o \in open
  /\ calls' = calls + 1
  /\ call' = [call EXCEPT ![c] = calls']
  /\ thread' = [thread EXCEPT ![c] = t]
  /\ lastCall' = [lastCall EXCEPT ![t] = calls']
  /\ uses' = [uses EXCEPT ![calls'] = o]
  /\ Goto(c, "worker")
  /\ UNCHANGED <<worker, jobs, running, answers, opened, lastError, read, objects, freed>>

\* A call on a handle the host has not destroyed, of an engine or to open one with a
\* runtime: the thread's error is cleared, the arguments are parsed, the clone is made.
Call(c, t, o) ==
  /\ pc[c] \in {"idle", "failed"} /\ calls < MaxCalls /\ o \in open
  /\ calls' = calls + 1
  /\ call' = [call EXCEPT ![c] = calls']
  /\ thread' = [thread EXCEPT ![c] = t]
  /\ lastCall' = [lastCall EXCEPT ![t] = calls']
  /\ lastError' = [lastError EXCEPT ![t] = None]
  /\ uses' = [uses EXCEPT ![calls'] = o]
  /\ Goto(c, "worker")
  /\ UNCHANGED <<worker, jobs, running, answers, opened, read, objects, freed>>

\* A call that ends on the caller's thread: a null handle, arguments that do not
\* parse, or an operation of the runtime that has nothing to wait for.
CallLocal(c, t) ==
  /\ pc[c] \in {"idle", "failed"} /\ calls < MaxCalls
  /\ calls' = calls + 1
  /\ call' = [call EXCEPT ![c] = calls']
  /\ lastCall' = [lastCall EXCEPT ![t] = calls']
  /\ \/ lastError' = [lastError EXCEPT ![t] = None] /\ Goto(c, "idle")
     \/ lastError' = [lastError EXCEPT ![t] = calls'] /\ Goto(c, "failed")
  /\ UNCHANGED <<worker, jobs, running, thread, uses, answers, opened, read, objects, freed>>

\* runtime_create, when it succeeds: nothing is opened yet.
CreateRuntime(c, t, r) ==
  /\ pc[c] \in {"idle", "failed"} /\ calls < MaxCalls /\ r \notin made
  /\ calls' = calls + 1
  /\ call' = [call EXCEPT ![c] = calls']
  /\ lastCall' = [lastCall EXCEPT ![t] = calls']
  /\ lastError' = [lastError EXCEPT ![t] = None]
  /\ made' = made \cup {r} /\ open' = open \cup {r}
  /\ Goto(c, "idle")
  /\ UNCHANGED <<worker, jobs, running, thread, uses, answers, opened, read, freed>>

\* Faulty: the flag is looked at and set without a lock.
StartWorkerUnguarded(c) ==
  /\ pc[c] = "worker" /\ worker \in {"none", "starting"}
  /\ worker' = "starting"
  /\ Goto(c, "starting")
  /\ UNCHANGED <<hostVars, jobs, running, thread, uses, answers, opened, lastError, objects, freed>>

\* get_or_init: the first caller spawns the worker and waits for its runtime;
\* callers that come meanwhile block.
StartWorker(c) ==
  /\ pc[c] = "worker" /\ worker = "none"
  /\ worker' = "starting"
  /\ Goto(c, "starting")
  /\ UNCHANGED <<hostVars, jobs, running, thread, uses, answers, opened, lastError, objects, freed>>

\* The thread is up with its runtime, or one of the two could not be had; the
\* OnceLock keeps the answer, whichever it is.
WorkerStarted(c) ==
  /\ pc[c] = "starting"
  /\ worker' \in {"ready", "failed"}
  /\ Goto(c, "worker")
  /\ UNCHANGED <<hostVars, jobs, running, thread, uses, answers, opened, lastError, objects, freed>>

GetWorker(c) ==
  /\ pc[c] = "worker" /\ worker = "ready"
  /\ Goto(c, "send")
  /\ UNCHANGED <<hostVars, worker, jobs, running, thread, uses, answers, opened, lastError, objects, freed>>

NoWorker(c) ==
  /\ pc[c] = "worker" /\ worker = "failed"
  /\ ReturnError(c)
  /\ DropClone(call[c])
  /\ UNCHANGED <<hostVars, worker, jobs, running, answers, opened, objects>>

Send(c) ==
  /\ pc[c] = "send"
  /\ jobs' = Append(jobs, call[c])
  /\ Goto(c, "answer")
  /\ UNCHANGED <<hostVars, worker, running, thread, uses, answers, opened, lastError, objects, freed>>

\* recv: the value, which for an engine becomes a handle, the error of the job, or
\* the error of a channel whose sender went with a job that panicked.
Receive(c) ==
  /\ pc[c] = "answer"
  /\ \/ /\ answers[call[c]] = "ok"
        /\ thread' = [thread EXCEPT ![c] = None]
        /\ open' = open \cup ({opened[call[c]]} \ {None})
        /\ Goto(c, "idle")
        /\ UNCHANGED lastError
     \/ /\ answers[call[c]] \in {"error", "dropped"}
        /\ ReturnError(c)
        /\ UNCHANGED open
  /\ UNCHANGED <<hostVars, worker, jobs, running, uses, answers, opened, made, freed>>

\* vldb_lancedb_last_error_message after a null result, on the thread the caller
\* is on by then.
ReadError(c, t) ==
  /\ pc[c] = "failed"
  /\ read' = [read EXCEPT ![c] = [failed |-> call[c], told |-> lastError[t]]]
  /\ Goto(c, "idle")
  /\ UNCHANGED <<worker, jobs, running, call, thread, calls, uses, answers,
                 opened, lastCall, lastError, objects, freed>>

\* Faulty: the engine or runtime goes with its handle.
DestroyNow(o) ==
  /\ o \in open
  /\ open' = open \ {o}
  /\ freed' = freed \cup {o}
  /\ UNCHANGED <<worker, jobs, running, pc, call, thread, calls, uses, answers,
                 opened, lastCall, lastError, read, made>>

\* engine_destroy, runtime_destroy: the handle's own reference goes, calls in flight
\* keep theirs.
Destroy(o) ==
  /\ o \in open
  /\ open' = open \ {o}
  /\ freed' = IF \E k \in Calls : uses[k] = o THEN freed ELSE freed \cup {o}
  /\ UNCHANGED <<worker, jobs, running, pc, call, thread, calls, uses, answers,
                 opened, lastCall, lastError, read, made>>

-----------------------------------------------------------------------------
(* The worker thread.                                                      *)

TakeJob ==
  /\ worker = "ready" /\ running = None /\ jobs # <<>>
  /\ running' = Head(jobs)
  /\ jobs' = Tail(jobs)
  /\ UNCHANGED <<hostVars, worker, pc, thread, uses, answers, opened, lastError, objects, freed>>

\* block_on returns and the outcome is sent, with an engine if one was to be opened.
FinishJob ==
  /\ running # None
  /\ \/ answers' = [answers EXCEPT ![running] = "error"] /\ UNCHANGED <<opened, made>>
     \/ /\ answers' = [answers EXCEPT ![running] = "ok"]
        /\ \/ uses[running] \in Engines /\ UNCHANGED <<opened, made>>
           \/ /\ uses[running] \in Runtimes
              /\ \E e \in Engines \ made : /\ opened' = [opened EXCEPT ![running] = e]
                                          /\ made' = made \cup {e}
  /\ running' = None
  /\ DropClone(running)
  /\ UNCHANGED <<hostVars, worker, jobs, pc, thread, lastError, open>>

\* Faulty: the panic unwinds the loop, the channel goes with all it holds.
PanicUncaught ==
  /\ running # None
  /\ answers' = [k \in Calls |->
       IF k = running \/ k \in {jobs[i] : i \in 1 .. Len(jobs)} THEN "dropped" ELSE answers[k]]
  /\ running' = None
  /\ jobs' = <<>>
  /\ DropClone(running)
  /\ UNCHANGED <<hostVars, worker, pc, thread, lastError, opened, objects>>

\* Faulty: the worker holds the sender of the answer over the panic.
PanicKeepsSender ==
  /\ running # None
  /\ running' = None
  /\ DropClone(running)
  /\ UNCHANGED <<hostVars, worker, jobs, pc, thread, answers, lastError, opened, objects>>

\* The job panics: catch_unwind keeps the loop, the sender of the answer is gone.
PanicInJob ==
  /\ running # None
  /\ answers' = [answers EXCEPT ![running] = "dropped"]
  /\ running' = None
  /\ DropClone(running)
  /\ UNCHANGED <<hostVars, worker, jobs, pc, thread, lastError, opened, objects>>

-----------------------------------------------------------------------------

Init ==
  /\ worker = "none" /\ jobs = <<>> /\ running = None
  /\ pc = [c \in Callers |-> "idle"]
  /\ call = [c \in Callers |-> None]
  /\ thread = [c \in Callers |-> None]
  /\ calls = 0
  /\ uses = [k \in Calls |-> None]
  /\ answers = [k \in Calls |-> "none"]
  /\ lastCall = [t \in Threads |-> None]
  /\ lastError = [t \in Threads |-> None]
  /\ read = [c \in Callers |-> None]
  /\ opened = [k \in Calls |-> None]
  /\ made = {} /\ open = {} /\ freed = {}

\* What goes on by itself once a call is made.
Proceed(c) ==
  StartWorker(c) \/ WorkerStarted(c) \/ GetWorker(c) \/ NoWorker(c) \/ Send(c) \/ Receive(c)

Work == TakeJob \/ FinishJob \/ PanicInJob

Next ==
  \/ \E c \in Callers : \E t \in ThreadsFor(c) :
       \/ \E o \in Objects : Call(c, t, o)
       \/ \E r \in Runtimes : CreateRuntime(c, t, r)
       \/ CallLocal(c, t)
       \/ ReadError(c, t)
  \/ \E c \in Callers : Proceed(c)
  \/ \E o \in Objects : Destroy(o)
  \/ Work

Spec == Init /\ [][Next]_vars

\* Threads are scheduled, and every job ends: its future completes or panics.
FairSpec == Spec /\ WF_vars(Work) /\ \A c \in Callers : WF_vars(Proceed(c))

-----------------------------------------------------------------------------

\* One worker, started by one caller, whoever calls first or together.
OneWorker == Cardinality({c \in Callers : pc[c] = "starting"}) <= 1

\* A thread keeps the message of the latest call made on it, or none: no message
\* outlives the next call, and none is left by the worker on its own thread.
LastErrorIsLatest == \A t \in Threads : lastError[t] \in {None, lastCall[t]}

\* A caller that asks after a null result is told why that call failed.
ErrorReadIsOwn == \A c \in Callers : read[c] # None => read[c].told = read[c].failed

\* A call in flight keeps its engine, or the runtime it opens one with, also when the
\* handle is destroyed under it.
EngineInUse == \A k \in Calls : uses[k] # None => uses[k] \notin freed

\* When everything has returned, an engine or a runtime without a handle is gone: none
\* was opened and then lost on its way to the host.
NoEngineLeaked ==
  (\A c \in Callers : pc[c] \in {"idle", "failed"}) => freed = made \ open

\* A panic fails the call it happened in and no other.
PanicIsIsolated ==
  [][\A k \in Calls : answers'[k] = "dropped" /\ answers[k] = "none" => k = running]_vars

\* Every call returns, though the worker could not be started or a job panicked.
EveryCallReturns == \A c \in Callers : thread[c] # None ~> thread[c] = None
-----------------------------------------------------------------------------
(* Why these hold: the conjuncts below are inductive together, for any      *)
(* number of callers, threads, calls, runtimes and engines.                *)

\* What the worker serves, or has still to take.
Sent(k) == k = running \/ \E i \in DOMAIN jobs : jobs[i] = k

\* The engines that were opened and wait for their caller.
InTransit == {opened[call[c]] : c \in {c \in Callers : pc[c] = "answer"}} \ {None}

\* The worker is being started by one caller.
StartedByOne ==
  /\ \A c \in Callers : pc[c] = "starting" => worker = "starting"
  /\ \A c, d \in Callers : pc[c] = "starting" /\ pc[d] = "starting" => c = d

\* Each call is one caller's, nothing is known of calls that were not made, and the
\* worker has a call once.
CallsNumbered ==
  /\ \A c \in Callers : call[c] # None => call[c] <= calls
  /\ \A c, d \in Callers : call[c] = call[d] /\ call[c] # None => c = d
  /\ \A k \in Calls : k > calls => uses[k] = None /\ answers[k] = "none"
  /\ \A k \in Calls : uses[k] # None \/ Sent(k) => \E c \in Callers : call[c] = k
  /\ \A i, j \in DOMAIN jobs : jobs[i] = jobs[j] => i = j
  /\ \A i \in DOMAIN jobs : jobs[i] # running

\* A caller in a call is on the thread of that call; one that is locked to its thread
\* will find its message there.
ThreadOfCaller(c) ==
  /\ thread[c] # None <=> pc[c] \notin {"idle", "failed"}
  /\ thread[c] # None => lastCall[thread[c]] = call[c]
  /\ Locked => thread[c] \in {None, Home[c]}
  /\ Locked /\ pc[c] = "failed" => lastError[Home[c]] = call[c]

\* A call and its clone are with the caller, with the worker, or over.
PlaceOfCall(c) ==
  /\ pc[c] # "idle" => call[c] # None
  /\ call[c] # None =>
       /\ Sent(call[c]) => pc[c] = "answer"
       /\ pc[c] \in {"worker", "starting", "send"} => answers[call[c]] = "none"
       /\ pc[c] = "answer" => (answers[call[c]] = "none" <=> Sent(call[c]))
       /\ uses[call[c]] # None <=> \/ pc[c] \in {"worker", "starting", "send"}
                                   \/ Sent(call[c])

\* What was made is referred to by a handle, by calls, or on its way to a handle; an
\* engine on its way is nowhere else.  What nobody refers to is gone.
ObjectsCounted ==
  /\ \A k \in Calls : opened[k] # None => opened[k] \in made /\ answers[k] = "ok"
  /\ \A j, k \in Calls : opened[j] = opened[k] /\ opened[j] # None => j = k
  /\ \A k \in Calls : uses[k] # None => uses[k] \in made
  /\ \A o \in InTransit : o \notin open /\ \A k \in Calls : uses[k] # o
  /\ freed = {o \in made : o \notin open \cup InTransit /\ \A k \in Calls : uses[k] # o}

FfiInv ==
  /\ TypeOK
  /\ StartedByOne
  /\ CallsNumbered
  /\ LastErrorIsLatest
  /\ Locked => ErrorReadIsOwn
  /\ ObjectsCounted
  /\ \A c \in Callers : ThreadOfCaller(c) /\ PlaceOfCall(c)
=============================================================================
