------------------------- MODULE FfiWorker_proofs -------------------------
(***************************************************************************)
(* FfiInv is an invariant of FfiWorker, for any callers, threads, number   *)
(* of calls, runtimes and engines; its safety properties follow.           *)
(***************************************************************************)
EXTENDS FfiWorker, FiniteSetTheorems, TLAPS

\* No other caller in a call is on the thread that a caller makes its next call on,
\* and none that is locked is at home there.
LEMMA FreeThread ==
  ASSUME FfiInv, NEW c \in Callers, NEW t \in ThreadsFor(c)
  PROVE  /\ t \in Threads
         /\ Locked => t = Home[c]
         /\ \A d \in Callers : d # c => thread[d] # t /\ (Locked => Home[d] # t)
<1>1. t \in Threads /\ (Locked => t = Home[c])
  BY HomeAssumption DEF ThreadsFor
<1>2. ASSUME NEW d \in Callers, d # c
      PROVE  thread[d] # t /\ (Locked => Home[d] # t)
  <2>1. Locked => thread[d] \in {None, Home[d]}
    BY DEF FfiInv, ThreadOfCaller
  <2> QED  BY <1>1, <1>2, <2>1, HomeAssumption, BoundAssumption DEF ThreadsFor
<1> QED  BY <1>1, <1>2

\* Callers in a call are on threads of their own.
LEMMA OwnThreads ==
  ASSUME FfiInv, NEW c \in Callers, NEW d \in Callers, c # d, thread[c] # None
  PROVE  thread[c] # thread[d]
<1>1. /\ lastCall[thread[c]] = call[c] /\ call[c] # None
      /\ thread[d] = thread[c] => lastCall[thread[d]] = call[d]
  BY DEF FfiInv, ThreadOfCaller, PlaceOfCall
<1> QED  BY <1>1 DEF FfiInv, CallsNumbered

\* A caller in a call has a number, and is on a thread; the two are typed.
LEMMA InCall ==
  ASSUME FfiInv, NEW c \in Callers, pc[c] \notin {"idle", "failed"}
  PROVE  /\ call[c] \in Calls /\ thread[c] \in Threads
         /\ lastCall[thread[c]] = call[c]
         /\ Locked => thread[c] = Home[c]
BY DEF FfiInv, TypeOK, ThreadOfCaller, PlaceOfCall

\* What is known of a job at the worker: its caller waits for it, its clone is there.
LEMMA SentJob ==
  ASSUME FfiInv, NEW k \in Calls, Sent(k)
  PROVE  /\ \E c \in Callers : call[c] = k /\ pc[c] = "answer"
         /\ answers[k] = "none" /\ opened[k] = None
         /\ uses[k] # None /\ uses[k] \in made
<1>1. PICK c \in Callers : call[c] = k
  BY DEF FfiInv, CallsNumbered
<1>2. k # None
  BY BoundAssumption DEF Calls
<1>3. pc[c] = "answer" /\ answers[k] = "none" /\ uses[k] # None
  BY <1>1, <1>2 DEF FfiInv, PlaceOfCall
<1> QED  BY <1>1, <1>3 DEF FfiInv, ObjectsCounted

\* The queue of the worker, from outside.
LEMMA JobsAreCalls ==
  ASSUME FfiInv
  PROVE  /\ jobs \in Seq(Calls) /\ Len(jobs) \in Nat /\ DOMAIN jobs = 1 .. Len(jobs)
         /\ \A i \in DOMAIN jobs : jobs[i] \in Calls
         /\ \A k : Sent(k) /\ k # None => k \in Calls
BY DEF FfiInv, TypeOK, Sent

(***************************************************************************)
(* Steps that leave a caller alone.                                        *)
(***************************************************************************)

\* Nothing that the invariant says of caller d changes.
Undisturbed(d) ==
  /\ pc'[d] = pc[d] /\ call'[d] = call[d] /\ thread'[d] = thread[d]
  /\ call[d] # None =>
       /\ uses'[call[d]] = uses[call[d]] /\ answers'[call[d]] = answers[call[d]]
       /\ Sent(call[d])' <=> Sent(call[d])
  /\ thread[d] # None => lastCall'[thread[d]] = lastCall[thread[d]]
  /\ Locked => lastError'[Home[d]] = lastError[Home[d]]

\* An undisturbed caller keeps its part of the invariant.
LEMMA CallerStays ==
  ASSUME NEW d \in Callers, ThreadOfCaller(d), PlaceOfCall(d), Undisturbed(d)
  PROVE  ThreadOfCaller(d)' /\ PlaceOfCall(d)'
<1>1. ThreadOfCaller(d)'
  BY DEF Undisturbed, ThreadOfCaller
<1>2. PlaceOfCall(d)'
  <2> DEFINE k == call[d]
  <2>1. CASE k = None
    BY <2>1 DEF Undisturbed, PlaceOfCall
  <2>2. CASE k # None
    <3>1. call'[d] = k /\ pc'[d] = pc[d] /\ uses'[k] = uses[k] /\ answers'[k] = answers[k]
      BY <2>2 DEF Undisturbed
    <3>2. Sent(call[d])' <=> Sent(k)
      BY <2>2, <3>1 DEF Undisturbed
    <3> QED  BY <2>2, <3>1, <3>2 DEF PlaceOfCall
  <2> QED  BY <2>1, <2>2
<1> QED  BY <1>1, <1>2

\* Engines on their way to a caller, call by call.
LEMMA TransitOf ==
  ASSUME NEW o
  PROVE  o \in InTransit <=> /\ o # None
                             /\ \E c \in Callers : pc[c] = "answer" /\ opened[call[c]] = o
BY DEF InTransit

(***************************************************************************)
(* Calls.                                                                  *)
(***************************************************************************)

\* What all calls of caller c on thread t have in common: the next number, and the
\* message of thread t cleared or set for it.
Begins(c, t) ==
  /\ pc[c] \in {"idle", "failed"} /\ calls < MaxCalls
  /\ calls' = calls + 1
  /\ call' = [call EXCEPT ![c] = calls + 1]
  /\ lastCall' = [lastCall EXCEPT ![t] = calls + 1]
  /\ \E e \in {None, calls + 1} : lastError' = [lastError EXCEPT ![t] = e]
  /\ \E there : Goto(c, there)
  /\ thread' \in {thread, [thread EXCEPT ![c] = t]}
  /\ uses' = uses \/ \E o \in made : uses' = [uses EXCEPT ![calls + 1] = o]
  /\ UNCHANGED <<worker, jobs, running, answers, opened, read>>

\* The next number is a call, of which nothing is known.
LEMMA NextNumber ==
  ASSUME FfiInv, calls < MaxCalls
  PROVE  /\ calls \in Nat /\ calls + 1 \in Calls /\ calls + 1 # None
         /\ uses[calls + 1] = None /\ answers[calls + 1] = "none" /\ opened[calls + 1] = None
         /\ ~ Sent(calls + 1)
         /\ \A d \in Callers : call[d] # calls + 1
<1>1. calls \in Nat /\ calls + 1 \in Calls /\ calls + 1 # None /\ calls + 1 > calls
  BY BoundAssumption DEF FfiInv, TypeOK, Calls
<1>2. uses[calls + 1] = None /\ answers[calls + 1] = "none"
  BY <1>1 DEF FfiInv, CallsNumbered
<1>3. opened[calls + 1] = None
  BY <1>1, <1>2 DEF FfiInv, ObjectsCounted
<1>4. \A d \in Callers : call[d] # calls + 1
  BY <1>1 DEF FfiInv, CallsNumbered, TypeOK, Calls
<1>5. ~ Sent(calls + 1)
  BY <1>1, <1>4 DEF FfiInv, CallsNumbered
<1> QED  BY <1>1, <1>2, <1>3, <1>4, <1>5

\* A new call has a number of its own and disturbs nobody.
LEMMA CallBegins ==
  ASSUME FfiInv, NEW c \in Callers, NEW t \in ThreadsFor(c), Begins(c, t)
  PROVE  /\ CallsNumbered'
         /\ LastErrorIsLatest'
         /\ \A d \in Callers : d # c => Undisturbed(d)
         /\ lastCall'[t] = calls + 1
         /\ \A k : Sent(k)' <=> Sent(k)
<1> DEFINE n == calls + 1
<1>1. n \in Calls /\ n # None /\ calls \in Nat /\ \A d \in Callers : call[d] # n
  BY NextNumber DEF Begins
<1>2. /\ call \in [Callers -> Calls \cup {None}]
      /\ pc \in [Callers -> {"idle", "worker", "starting", "send", "answer", "failed"}]
      /\ thread \in [Callers -> Threads \cup {None}]
      /\ uses \in [Calls -> Objects \cup {None}]
      /\ lastCall \in [Threads -> Calls \cup {None}] /\ lastError \in [Threads -> Calls \cup {None}]
  BY DEF FfiInv, TypeOK
<1>3. /\ t \in Threads
      /\ \A d \in Callers : d # c => thread[d] # t /\ (Locked => Home[d] # t)
  BY FreeThread
<1>4. \A k : Sent(k)' <=> Sent(k)
  BY DEF Begins, Sent
<1>5. \A k \in Calls : k # n => uses'[k] = uses[k]
  BY <1>1, <1>2 DEF Begins
<1>6. /\ call'[c] = n
      /\ \A d \in Callers : d # c => call'[d] = call[d]
  BY <1>2 DEF Begins
<1>7. CallsNumbered'
  <2>1. \A d \in Callers : call'[d] # None => call'[d] <= calls'
    BY <1>1, <1>2, <1>6 DEF Begins, FfiInv, CallsNumbered, Calls
  <2>2. \A d, e \in Callers : call'[d] = call'[e] /\ call'[d] # None => d = e
    BY <1>1, <1>6 DEF FfiInv, CallsNumbered
  <2>3. \A k \in Calls : k > calls' => uses'[k] = None /\ answers'[k] = "none"
    BY <1>1, <1>5 DEF Begins, FfiInv, CallsNumbered, Calls
  <2>4. ASSUME NEW k \in Calls, uses'[k] # None \/ Sent(k)'
        PROVE  \E d \in Callers : call'[d] = k
    <3>1. CASE k = n
      BY <3>1, <1>6
    <3>2. CASE k # n
      <4>1. uses[k] # None \/ Sent(k)
        BY <2>4, <3>2, <1>4, <1>5
      <4>2. PICK d \in Callers : call[d] = k
        BY <4>1 DEF FfiInv, CallsNumbered
      <4>3. k # None
        BY BoundAssumption DEF Calls
      <4>4. d # c
        BY <4>1, <4>2, <4>3 DEF FfiInv, PlaceOfCall, Begins
      <4> QED  BY <4>2, <4>4, <1>6
    <3> QED  BY <3>1, <3>2
  <2>5. jobs' = jobs /\ running' = running
    BY DEF Begins
  <2> QED  BY <2>1, <2>2, <2>3, <2>4, <2>5 DEF FfiInv, CallsNumbered
<1>8. LastErrorIsLatest'
  BY <1>2, <1>3 DEF Begins, FfiInv, LastErrorIsLatest
<1>9. ASSUME NEW d \in Callers, d # c
      PROVE  Undisturbed(d)
  <2>1. pc'[d] = pc[d] /\ call'[d] = call[d] /\ thread'[d] = thread[d]
    BY <1>2, <1>9, <1>6 DEF Begins, Goto
  <2>2. call[d] # None => /\ uses'[call[d]] = uses[call[d]] /\ answers'[call[d]] = answers[call[d]]
                          /\ Sent(call[d])' <=> Sent(call[d])
    <3>1. call[d] # None => uses'[call[d]] = uses[call[d]]
      BY <1>1, <1>2, <1>5
    <3>2. answers' = answers /\ jobs' = jobs /\ running' = running
      BY DEF Begins
    <3> QED  BY <3>1, <3>2, <2>1 DEF Sent
  <2>3. thread[d] # None => lastCall'[thread[d]] = lastCall[thread[d]]
    BY <1>2, <1>3, <1>9 DEF Begins
  <2>4. Locked => lastError'[Home[d]] = lastError[Home[d]]
    BY <1>2, <1>3, <1>9, HomeAssumption DEF Begins
  <2> QED  BY <2>1, <2>2, <2>3, <2>4 DEF Undisturbed
<1>10. lastCall'[t] = n
  BY <1>2, <1>3 DEF Begins
<1> QED  BY <1>4, <1>7, <1>8, <1>9, <1>10

\* A step that moves one caller keeps the invariant if it keeps the parts that are
\* about all and what is said of that caller.
LEMMA OneMoves ==
  ASSUME FfiInv, NEW c \in Callers,
         TypeOK', StartedByOne', CallsNumbered', LastErrorIsLatest',
         Locked => ErrorReadIsOwn', ObjectsCounted',
         ThreadOfCaller(c)', PlaceOfCall(c)',
         \A d \in Callers : d # c => Undisturbed(d)
  PROVE  FfiInv'
<1>1. ASSUME NEW d \in Callers
      PROVE  ThreadOfCaller(d)' /\ PlaceOfCall(d)'
  BY CallerStays DEF FfiInv
<1> QED  BY <1>1 DEF FfiInv

\* No engine is on its way to a caller that is not there to receive it.
LEMMA SameTransit ==
  ASSUME NEW c \in Callers, pc[c] # "answer", pc'[c] # "answer", opened' = opened,
         \A d \in Callers : d # c => pc'[d] = pc[d] /\ call'[d] = call[d]
  PROVE  InTransit' = InTransit
<1>1. ASSUME NEW o
      PROVE  o \in InTransit' <=> o \in InTransit
  BY DEF InTransit
<1> QED  BY <1>1

\* What is on its way to a caller was made.
LEMMA TransitIsMade == FfiInv => InTransit \subseteq made
<1> SUFFICES ASSUME FfiInv, NEW o \in InTransit
             PROVE  o \in made
  OBVIOUS
<1>1. PICK c \in Callers : pc[c] = "answer" /\ opened[call[c]] = o
  BY TransitOf
<1>2. call[c] \in Calls /\ o # None
  BY <1>1, InCall, TransitOf
<1> QED  BY <1>1, <1>2 DEF FfiInv, ObjectsCounted

\* A call on a handle clones what has a handle.
LEMMA CallKeepsInv ==
  ASSUME FfiInv, NEW c \in Callers, NEW t \in ThreadsFor(c), NEW o \in Objects, Call(c, t, o)
  PROVE  FfiInv'
<1> DEFINE n == calls + 1
<1>1. /\ pc[c] \in {"idle", "failed"} /\ calls < MaxCalls /\ o \in open
      /\ calls' = n /\ call' = [call EXCEPT ![c] = n]
      /\ thread' = [thread EXCEPT ![c] = t]
      /\ lastCall' = [lastCall EXCEPT ![t] = n] /\ lastError' = [lastError EXCEPT ![t] = None]
      /\ uses' = [uses EXCEPT ![n] = o]
      /\ Goto(c, "worker")
      /\ UNCHANGED <<worker, jobs, running, answers, opened, read, made, open, freed>>
  BY DEF Call, objects
<1>2. TypeOK /\ ObjectsCounted /\ o \in made /\ o # None
  BY <1>1, ObjectsAssumption DEF FfiInv, TypeOK, Objects
<1>3. Begins(c, t)
  BY <1>1, <1>2 DEF Begins
<1>4. /\ n \in Calls /\ n # None /\ calls \in Nat /\ uses[n] = None /\ answers[n] = "none"
      /\ ~ Sent(n)
  BY <1>1, NextNumber
<1>5. /\ t \in Threads /\ t # None /\ (Locked => t = Home[c])
  BY FreeThread, BoundAssumption
<1>6. /\ pc'[c] = "worker" /\ call'[c] = n /\ thread'[c] = t /\ uses'[n] = o
      /\ \A d \in Callers : d # c => pc'[d] = pc[d] /\ call'[d] = call[d]
      /\ \A k \in Calls : k # n => uses'[k] = uses[k]
  BY <1>1, <1>2, <1>4 DEF TypeOK, Goto
<1>7. TypeOK'
  BY <1>1, <1>2, <1>4, <1>5, BoundAssumption DEF TypeOK, Goto, Calls
<1>8. StartedByOne'
  BY <1>1, <1>6 DEF FfiInv, StartedByOne
<1>9. ObjectsCounted'
  <2>1. InTransit' = InTransit
    BY <1>1, <1>6, SameTransit
  <2>2. o \notin InTransit
    BY <1>1, <1>2 DEF ObjectsCounted
  <2>3. \A k \in Calls : uses'[k] # None => uses'[k] \in made'
    BY <1>1, <1>2, <1>6 DEF ObjectsCounted
  <2>4. \A p \in InTransit : p \notin open /\ \A k \in Calls : uses'[k] # p
    BY <1>2, <1>6, <2>2 DEF ObjectsCounted
  <2>5. ASSUME NEW p \in made, p \notin open
        PROVE  (\A k \in Calls : uses[k] # p) <=> (\A k \in Calls : uses'[k] # p)
    <3>1. p # o /\ p # None
      BY <1>1, <1>2, <2>5, ObjectsAssumption DEF TypeOK, Objects
    <3> QED  BY <1>4, <1>6, <3>1
  <2> QED  BY <1>1, <1>2, <2>1, <2>3, <2>4, <2>5 DEF ObjectsCounted
<1>10. ThreadOfCaller(c)'
  BY <1>3, <1>5, <1>6, CallBegins DEF ThreadOfCaller
<1>11. PlaceOfCall(c)'
  BY <1>1, <1>2, <1>3, <1>4, <1>6, CallBegins DEF PlaceOfCall
<1>12. Locked => ErrorReadIsOwn'
  BY <1>1 DEF FfiInv, ErrorReadIsOwn
<1> QED  BY <1>3, <1>7, <1>8, <1>9, <1>10, <1>11, <1>12, CallBegins, OneMoves

\* A runtime is made with its handle.
LEMMA CreateRuntimeKeepsInv ==
  ASSUME FfiInv, NEW c \in Callers, NEW t \in ThreadsFor(c), NEW r \in Runtimes,
         CreateRuntime(c, t, r)
  PROVE  FfiInv'
<1> DEFINE n == calls + 1
<1>1. /\ pc[c] \in {"idle", "failed"} /\ calls < MaxCalls /\ r \notin made
      /\ calls' = n /\ call' = [call EXCEPT ![c] = n]
      /\ lastCall' = [lastCall EXCEPT ![t] = n] /\ lastError' = [lastError EXCEPT ![t] = None]
      /\ made' = made \cup {r} /\ open' = open \cup {r}
      /\ Goto(c, "idle")
      /\ UNCHANGED <<worker, jobs, running, thread, uses, answers, opened, read, freed>>
  BY DEF CreateRuntime
<1>2. TypeOK /\ ObjectsCounted
  BY DEF FfiInv
<1>3. Begins(c, t)
  BY <1>1 DEF Begins
<1>4. /\ n \in Calls /\ n # None /\ calls \in Nat /\ uses[n] = None /\ answers[n] = "none"
      /\ ~ Sent(n)
  BY <1>1, NextNumber
<1>5. t \in Threads
  BY FreeThread
<1>6. /\ pc'[c] = "idle" /\ call'[c] = n /\ thread'[c] = None
      /\ \A d \in Callers : d # c => pc'[d] = pc[d] /\ call'[d] = call[d]
  BY <1>1, <1>2 DEF TypeOK, Goto, FfiInv, ThreadOfCaller
<1>7. TypeOK'
  BY <1>1, <1>2, <1>4, <1>5, BoundAssumption DEF TypeOK, Goto, Calls, Objects
<1>8. StartedByOne'
  BY <1>1, <1>6 DEF FfiInv, StartedByOne
<1>9. ObjectsCounted'
  <2>1. InTransit' = InTransit
    BY <1>1, <1>6, SameTransit
  <2>2. InTransit \subseteq made /\ r # None
    BY TransitIsMade, ObjectsAssumption
  <2> QED  BY <1>1, <1>2, <2>1, <2>2 DEF ObjectsCounted
<1>10. ThreadOfCaller(c)'
  BY <1>6 DEF ThreadOfCaller
<1>11. PlaceOfCall(c)'
  BY <1>1, <1>3, <1>4, <1>6, CallBegins DEF PlaceOfCall
<1>12. Locked => ErrorReadIsOwn'
  BY <1>1 DEF FfiInv, ErrorReadIsOwn
<1> QED  BY <1>3, <1>7, <1>8, <1>9, <1>10, <1>11, <1>12, CallBegins, OneMoves

\* A call that ends where it was made, with its message on that thread or none.
LEMMA CallLocalKeepsInv ==
  ASSUME FfiInv, NEW c \in Callers, NEW t \in ThreadsFor(c), CallLocal(c, t)
  PROVE  FfiInv'
<1> DEFINE n == calls + 1
<1>1. /\ pc[c] \in {"idle", "failed"} /\ calls < MaxCalls
      /\ calls' = n /\ call' = [call EXCEPT ![c] = n]
      /\ lastCall' = [lastCall EXCEPT ![t] = n]
      /\ UNCHANGED <<worker, jobs, running, thread, uses, answers, opened, read, made, open, freed>>
  BY DEF CallLocal, objects
<1>2. PICK e \in {None, n}, there \in {"idle", "failed"} :
        /\ lastError' = [lastError EXCEPT ![t] = e] /\ Goto(c, there)
        /\ there = "failed" => e = n
  BY DEF CallLocal
<1>3. TypeOK /\ ObjectsCounted
  BY DEF FfiInv
<1>4. Begins(c, t)
  BY <1>1, <1>2 DEF Begins
<1>5. /\ n \in Calls /\ n # None /\ calls \in Nat /\ uses[n] = None /\ answers[n] = "none"
      /\ ~ Sent(n)
  BY <1>1, NextNumber
<1>6. t \in Threads /\ (Locked => t = Home[c])
  BY FreeThread
<1>7. /\ pc'[c] = there /\ call'[c] = n /\ thread'[c] = None /\ lastError'[t] = e
      /\ \A d \in Callers : d # c => pc'[d] = pc[d] /\ call'[d] = call[d]
  BY <1>1, <1>2, <1>3, <1>6 DEF TypeOK, Goto, FfiInv, ThreadOfCaller
<1>8. TypeOK'
  BY <1>1, <1>2, <1>3, <1>5, <1>6, BoundAssumption DEF TypeOK, Goto, Calls
<1>9. StartedByOne'
  BY <1>1, <1>2, <1>7 DEF FfiInv, StartedByOne
<1>10. ObjectsCounted'
  <2>1. InTransit' = InTransit
    BY <1>1, <1>2, <1>7, SameTransit
  <2> QED  BY <1>1, <1>3, <2>1 DEF ObjectsCounted
<1>11. ThreadOfCaller(c)'
  BY <1>2, <1>6, <1>7 DEF ThreadOfCaller
<1>12. PlaceOfCall(c)'
  BY <1>1, <1>2, <1>4, <1>5, <1>7, CallBegins DEF PlaceOfCall
<1>13. Locked => ErrorReadIsOwn'
  BY <1>1 DEF FfiInv, ErrorReadIsOwn
<1> QED  BY <1>4, <1>8, <1>9, <1>10, <1>11, <1>12, <1>13, CallBegins, OneMoves

\* A caller that was told of a failure asks for the message.
LEMMA ReadErrorKeepsInv ==
  ASSUME FfiInv, NEW c \in Callers, NEW t \in ThreadsFor(c), ReadError(c, t)
  PROVE  FfiInv'
<1>1. /\ pc[c] = "failed"
      /\ read' = [read EXCEPT ![c] = [failed |-> call[c], told |-> lastError[t]]]
      /\ Goto(c, "idle")
      /\ UNCHANGED <<worker, jobs, running, call, thread, calls, uses, answers,
                     opened, lastCall, lastError, made, open, freed>>
  BY DEF ReadError, objects
<1>2. TypeOK /\ ObjectsCounted /\ ThreadOfCaller(c) /\ PlaceOfCall(c)
  BY DEF FfiInv
<1>3. t \in Threads /\ (Locked => t = Home[c])
  BY FreeThread
<1>4. call[c] \in Calls /\ lastError[t] \in Calls \cup {None}
  BY <1>1, <1>2, <1>3 DEF TypeOK, PlaceOfCall
<1>5. /\ pc'[c] = "idle" /\ \A d \in Callers : d # c => pc'[d] = pc[d]
      /\ \A k : Sent(k)' <=> Sent(k)
  BY <1>1, <1>2 DEF TypeOK, Goto, Sent
<1>6. TypeOK'
  <2>1. read' \in [Callers -> [failed : Calls, told : Calls \cup {None}] \cup {None}]
    BY <1>1, <1>2, <1>4 DEF TypeOK
  <2> QED  BY <1>1, <1>2, <2>1 DEF TypeOK, Goto
<1>7. StartedByOne' /\ CallsNumbered' /\ LastErrorIsLatest'
  BY <1>1, <1>5 DEF FfiInv, StartedByOne, CallsNumbered, LastErrorIsLatest
<1>8. ObjectsCounted'
  <2>1. InTransit' = InTransit
    BY <1>1, <1>5, SameTransit
  <2> QED  BY <1>1, <1>2, <2>1 DEF ObjectsCounted
<1>9. ASSUME Locked
      PROVE  ErrorReadIsOwn'
  <2>1. lastError[t] = call[c]
    BY <1>1, <1>2, <1>3, <1>9 DEF ThreadOfCaller
  <2>2. read'[c].told = read'[c].failed
    BY <1>1, <1>2, <2>1 DEF TypeOK
  <2>3. \A d \in Callers : d # c => read'[d] = read[d]
    BY <1>1, <1>2 DEF TypeOK
  <2> QED  BY <1>9, <2>2, <2>3 DEF FfiInv, ErrorReadIsOwn
<1>10. ThreadOfCaller(c)' /\ PlaceOfCall(c)'
  BY <1>1, <1>2, <1>5 DEF ThreadOfCaller, PlaceOfCall
<1>11. \A d \in Callers : d # c => Undisturbed(d)
  BY <1>1, <1>5 DEF Undisturbed
<1> QED  BY <1>6, <1>7, <1>8, <1>9, <1>10, <1>11, OneMoves

(***************************************************************************)
(* A caller on its way to the worker and back.                             *)
(***************************************************************************)

\* A caller that gets to the worker, or starts it, takes nothing from anybody.
LEMMA WorkerStepKeepsInv ==
  ASSUME FfiInv, NEW c \in Callers, StartWorker(c) \/ WorkerStarted(c) \/ GetWorker(c)
  PROVE  FfiInv'
<1>1. PICK there \in {"worker", "starting", "send"} :
        /\ pc[c] \in {"worker", "starting"} /\ Goto(c, there)
        /\ UNCHANGED <<jobs, running, call, thread, calls, uses, answers, opened,
                       lastCall, lastError, read, made, open, freed>>
        /\ worker' \in {"none", "starting", "ready", "failed"}
        /\ there = "starting" => worker = "none" /\ worker' = "starting"
        /\ there # "starting" => worker' = worker \/ pc[c] = "starting"
  BY DEF StartWorker, WorkerStarted, GetWorker, hostVars, objects, FfiInv, TypeOK
<1>2. TypeOK /\ ObjectsCounted /\ ThreadOfCaller(c) /\ PlaceOfCall(c)
  BY DEF FfiInv
<1>3. /\ pc'[c] = there /\ \A d \in Callers : d # c => pc'[d] = pc[d]
      /\ \A k : Sent(k)' <=> Sent(k)
  BY <1>1, <1>2 DEF TypeOK, Goto, Sent
<1>4. TypeOK'
  BY <1>1, <1>2 DEF TypeOK, Goto
<1>5. StartedByOne'
  BY <1>1, <1>3 DEF FfiInv, StartedByOne
<1>6. CallsNumbered' /\ LastErrorIsLatest' /\ (Locked => ErrorReadIsOwn')
  BY <1>1, <1>3 DEF FfiInv, CallsNumbered, LastErrorIsLatest, ErrorReadIsOwn
<1>7. ObjectsCounted'
  <2>1. InTransit' = InTransit
    BY <1>1, <1>3, SameTransit
  <2> QED  BY <1>1, <1>2, <2>1 DEF ObjectsCounted
<1>8. ThreadOfCaller(c)' /\ PlaceOfCall(c)'
  BY <1>1, <1>2, <1>3 DEF ThreadOfCaller, PlaceOfCall
<1>9. \A d \in Callers : d # c => Undisturbed(d)
  BY <1>1, <1>3 DEF Undisturbed
<1> QED  BY <1>4, <1>5, <1>6, <1>7, <1>8, <1>9, OneMoves

\* A clone that is dropped takes what it was of with it, if it was the last reference.
LEMMA CloneDropped ==
  ASSUME FfiInv, NEW k \in Calls, uses[k] # None, DropClone(k)
  PROVE  /\ uses' \in [Calls -> Objects \cup {None}] /\ uses'[k] = None
         /\ \A j \in Calls : j # k => uses'[j] = uses[j]
         /\ freed' = {o \in made : o \notin open \cup InTransit /\ \A j \in Calls : uses'[j] # o}
<1>1. /\ TypeOK /\ ObjectsCounted
      /\ uses' = [uses EXCEPT ![k] = None]
      /\ freed' = IF uses[k] \in open \/ \E j \in Calls \ {k} : uses[j] = uses[k]
                  THEN freed ELSE freed \cup {uses[k]}
  BY DEF DropClone, FfiInv
<1>2. /\ uses' \in [Calls -> Objects \cup {None}] /\ uses'[k] = None
      /\ \A j \in Calls : j # k => uses'[j] = uses[j]
  BY <1>1 DEF TypeOK
<1>3. uses[k] \in made /\ uses[k] \notin InTransit
  BY <1>1 DEF ObjectsCounted
<1>4. ASSUME NEW o \in made, o # uses[k]
      PROVE  (\A j \in Calls : uses[j] # o) <=> (\A j \in Calls : uses'[j] # o)
  <2>1. o # None
    BY <1>1, ObjectsAssumption DEF TypeOK, Objects
  <2> QED  BY <1>2, <1>4, <2>1
<1>5. (\E j \in Calls \ {k} : uses[j] = uses[k]) <=> ~ \A j \in Calls : uses'[j] # uses[k]
  BY <1>2
<1>6. \A o \in freed' : o \in made
  BY <1>1, <1>3 DEF ObjectsCounted
<1>7. ASSUME NEW o \in made
      PROVE  o \in freed' <=> o \notin open \cup InTransit /\ \A j \in Calls : uses'[j] # o
  <2>1. o \in freed <=> o \notin open \cup InTransit /\ \A j \in Calls : uses[j] # o
    BY <1>1 DEF ObjectsCounted
  <2>2. CASE o = uses[k]
    BY <2>1, <2>2, <1>1, <1>3, <1>5
  <2>3. CASE o # uses[k]
    BY <2>1, <2>3, <1>1, <1>4
  <2> QED  BY <2>2, <2>3
<1> QED  BY <1>2, <1>6, <1>7

\* The worker cannot be had: the call returns with its message, and its clone goes.
LEMMA NoWorkerKeepsInv ==
  ASSUME FfiInv, NEW c \in Callers, NoWorker(c)
  PROVE  FfiInv'
<1> DEFINE k == call[c]
<1>1. /\ pc[c] = "worker" /\ DropClone(k)
      /\ lastError' = [lastError EXCEPT ![thread[c]] = k]
      /\ thread' = [thread EXCEPT ![c] = None]
      /\ Goto(c, "failed")
      /\ UNCHANGED <<worker, jobs, running, call, calls, answers, opened,
                     lastCall, read, made, open>>
  BY DEF NoWorker, ReturnError, hostVars, objects
<1>2. TypeOK /\ ObjectsCounted /\ ThreadOfCaller(c) /\ PlaceOfCall(c) /\ CallsNumbered
  BY DEF FfiInv
<1>3. /\ k \in Calls /\ k # None /\ thread[c] \in Threads /\ thread[c] # None
      /\ lastCall[thread[c]] = k /\ (Locked => thread[c] = Home[c])
  BY <1>1, InCall, BoundAssumption DEF Calls
<1>4. uses[k] # None /\ ~ Sent(k)
  BY <1>1, <1>2, <1>3 DEF PlaceOfCall
<1>5. /\ uses' \in [Calls -> Objects \cup {None}] /\ uses'[k] = None
      /\ \A j \in Calls : j # k => uses'[j] = uses[j]
      /\ freed' = {o \in made : o \notin open \cup InTransit /\ \A j \in Calls : uses'[j] # o}
  BY <1>1, <1>3, <1>4, CloneDropped
<1>6. /\ pc'[c] = "failed" /\ \A d \in Callers : d # c => pc'[d] = pc[d]
      /\ thread'[c] = None /\ \A d \in Callers : d # c => thread'[d] = thread[d]
      /\ lastError'[thread[c]] = k
      /\ \A t \in Threads : t # thread[c] => lastError'[t] = lastError[t]
      /\ \A j : Sent(j)' <=> Sent(j)
  BY <1>1, <1>2, <1>3 DEF TypeOK, Goto, Sent
<1>7. TypeOK'
  BY <1>1, <1>2, <1>3, <1>5 DEF TypeOK, Goto
<1>8. StartedByOne'
  BY <1>1, <1>6 DEF FfiInv, StartedByOne
<1>9. CallsNumbered'
  BY <1>1, <1>2, <1>5, <1>6 DEF CallsNumbered
<1>10. LastErrorIsLatest' /\ (Locked => ErrorReadIsOwn')
  BY <1>1, <1>3, <1>6 DEF FfiInv, LastErrorIsLatest, ErrorReadIsOwn
<1>11. ObjectsCounted'
  <2>1. InTransit' = InTransit
    BY <1>1, <1>6, SameTransit
  <2>2. \A j \in Calls : uses'[j] # None => uses'[j] = uses[j]
    BY <1>5
  <2> QED  BY <1>1, <1>2, <1>5, <2>1, <2>2, TransitOf DEF ObjectsCounted
<1>12. ThreadOfCaller(c)' /\ PlaceOfCall(c)'
  BY <1>1, <1>3, <1>4, <1>5, <1>6 DEF ThreadOfCaller, PlaceOfCall
<1>13. ASSUME NEW d \in Callers, d # c
       PROVE  Undisturbed(d)
  <2>1. call[d] # k /\ call[d] \in Calls \cup {None}
    BY <1>2, <1>3, <1>13 DEF CallsNumbered, TypeOK
  <2>2. Locked => Home[d] # thread[c] /\ Home[d] \in Threads
    BY <1>3, <1>13, HomeAssumption
  <2> QED  BY <1>1, <1>5, <1>6, <1>13, <2>1, <2>2 DEF Undisturbed
<1> QED  BY <1>7, <1>8, <1>9, <1>10, <1>11, <1>12, <1>13, OneMoves

\* A job that is sent is new to the worker, and its caller waits for it.
LEMMA SendKeepsInv ==
  ASSUME FfiInv, NEW c \in Callers, Send(c)
  PROVE  FfiInv'
<1> DEFINE k == call[c]
<1>1. /\ pc[c] = "send" /\ jobs' = Append(jobs, k) /\ Goto(c, "answer")
      /\ UNCHANGED <<worker, running, call, thread, calls, uses, answers, opened,
                     lastCall, lastError, read, made, open, freed>>
  BY DEF Send, hostVars, objects
<1>2. TypeOK /\ ObjectsCounted /\ ThreadOfCaller(c) /\ PlaceOfCall(c) /\ CallsNumbered
  BY DEF FfiInv
<1>3. k \in Calls /\ k # None
  BY <1>1, InCall, BoundAssumption DEF Calls
<1>4. uses[k] # None /\ answers[k] = "none" /\ opened[k] = None /\ ~ Sent(k)
  BY <1>1, <1>2, <1>3 DEF PlaceOfCall, ObjectsCounted
<1>5. /\ jobs' \in Seq(Calls) /\ DOMAIN jobs' = 1 .. Len(jobs) + 1
      /\ jobs'[Len(jobs) + 1] = k
      /\ DOMAIN jobs = 1 .. Len(jobs) /\ Len(jobs) \in Nat
      /\ \A i \in DOMAIN jobs : jobs'[i] = jobs[i]
  BY <1>1, <1>3, JobsAreCalls
<1>6. \A j : Sent(j)' <=> Sent(j) \/ j = k
  <2>1. ASSUME NEW j, NEW i \in DOMAIN jobs', jobs'[i] = j
        PROVE  Sent(j) \/ j = k
    BY <1>5, <2>1 DEF Sent
  <2>2. ASSUME NEW j, Sent(j) \/ j = k
        PROVE  Sent(j)'
    BY <1>1, <1>5, <2>2 DEF Sent
  <2> QED  BY <1>1, <2>1, <2>2 DEF Sent
<1>7. pc'[c] = "answer" /\ \A d \in Callers : d # c => pc'[d] = pc[d]
  BY <1>1, <1>2 DEF TypeOK, Goto
<1>8. TypeOK'
  BY <1>1, <1>2, <1>5 DEF TypeOK, Goto
<1>9. StartedByOne' /\ LastErrorIsLatest' /\ (Locked => ErrorReadIsOwn')
  BY <1>1, <1>7 DEF FfiInv, StartedByOne, LastErrorIsLatest, ErrorReadIsOwn
<1>10. CallsNumbered'
  <2>1. \A j \in Calls : uses[j] # None \/ Sent(j)' => \E d \in Callers : call[d] = j
    BY <1>2, <1>6 DEF CallsNumbered
  <2>2. k # running /\ \A i \in DOMAIN jobs : jobs[i] # k
    BY <1>4 DEF Sent
  <2>3. \A i, j \in DOMAIN jobs' : jobs'[i] = jobs'[j] => i = j
    BY <1>2, <1>5, <2>2 DEF CallsNumbered
  <2>4. \A i \in DOMAIN jobs' : jobs'[i] # running
    BY <1>2, <1>5, <2>2 DEF CallsNumbered
  <2> QED  BY <1>1, <1>2, <2>1, <2>3, <2>4 DEF CallsNumbered
<1>11. ObjectsCounted'
  <2>1. ASSUME NEW o
        PROVE  o \in InTransit' <=> o \in InTransit
    BY <1>1, <1>4, <1>7 DEF InTransit
  <2> QED  BY <1>1, <1>2, <2>1 DEF ObjectsCounted
<1>12. ThreadOfCaller(c)' /\ PlaceOfCall(c)'
  BY <1>1, <1>2, <1>4, <1>6, <1>7 DEF ThreadOfCaller, PlaceOfCall
<1>13. ASSUME NEW d \in Callers, d # c
       PROVE  Undisturbed(d)
  <2>1. call[d] # k
    BY <1>2, <1>3, <1>13 DEF CallsNumbered
  <2>2. Sent(call[d])' <=> Sent(call[d])
    BY <1>1, <1>6, <2>1 DEF Sent
  <2> QED  BY <1>1, <1>7, <1>13, <2>2 DEF Undisturbed
<1> QED  BY <1>8, <1>9, <1>10, <1>11, <1>12, <1>13, OneMoves

\* What came with the answer gets its handle; a failure leaves its message.
LEMMA ReceiveKeepsInv ==
  ASSUME FfiInv, NEW c \in Callers, Receive(c)
  PROVE  FfiInv'
<1> DEFINE k == call[c]
           e == opened[k]
<1>1. /\ pc[c] = "answer" /\ answers[k] # "none"
      /\ thread' = [thread EXCEPT ![c] = None]
      /\ UNCHANGED <<worker, jobs, running, call, calls, uses, answers, opened,
                     lastCall, read, made, freed>>
  BY DEF Receive, ReturnError, hostVars
<1>2. TypeOK /\ ObjectsCounted /\ ThreadOfCaller(c) /\ PlaceOfCall(c) /\ CallsNumbered
  BY DEF FfiInv
<1>3. /\ k \in Calls /\ k # None /\ thread[c] \in Threads /\ thread[c] # None
      /\ lastCall[thread[c]] = k /\ (Locked => thread[c] = Home[c])
  BY <1>1, InCall, BoundAssumption DEF Calls
<1>4. answers[k] \in {"error", "dropped"} => e = None
  BY <1>2, <1>3 DEF ObjectsCounted
<1>5. /\ open' = open \cup ({e} \ {None})
      /\ \/ /\ Goto(c, "idle") /\ lastError' = lastError
         \/ /\ Goto(c, "failed") /\ lastError' = [lastError EXCEPT ![thread[c]] = k]
  BY <1>4 DEF Receive, ReturnError
<1>6. PICK there \in {"idle", "failed"} :
        /\ Goto(c, there)
        /\ there = "failed" => lastError' = [lastError EXCEPT ![thread[c]] = k]
        /\ there = "idle" => lastError' = lastError
  BY <1>5
<1>7. /\ pc'[c] = there /\ \A d \in Callers : d # c => pc'[d] = pc[d]
      /\ thread'[c] = None /\ \A d \in Callers : d # c => thread'[d] = thread[d]
      /\ lastError' \in [Threads -> Calls \cup {None}]
      /\ there = "failed" => lastError'[thread[c]] = k
      /\ \A t \in Threads : lastError'[t] = lastError[t] \/ (t = thread[c] /\ lastError'[t] = k)
      /\ \A j : Sent(j)' <=> Sent(j)
  <2>1. /\ pc'[c] = there /\ \A d \in Callers : d # c => pc'[d] = pc[d]
        /\ thread'[c] = None /\ \A d \in Callers : d # c => thread'[d] = thread[d]
    BY <1>1, <1>2, <1>6 DEF TypeOK, Goto
  <2>2. \A j : Sent(j)' <=> Sent(j)
    BY <1>1 DEF Sent
  <2>3. /\ lastError' \in [Threads -> Calls \cup {None}]
        /\ there = "failed" => lastError'[thread[c]] = k
        /\ \A t \in Threads : lastError'[t] = lastError[t] \/ (t = thread[c] /\ lastError'[t] = k)
    <3>1. lastError \in [Threads -> Calls \cup {None}]
      BY <1>2 DEF TypeOK
    <3>2. CASE there = "failed"
      <4>1. lastError' = [lastError EXCEPT ![thread[c]] = k]
        BY <1>6, <3>2
      <4> QED  BY <1>3, <3>1, <4>1
    <3>3. CASE there # "failed"
      BY <1>6, <3>1, <3>3
    <3> QED  BY <3>2, <3>3
  <2> QED  BY <2>1, <2>2, <2>3
<1>8. e \in InTransit \/ e = None
  BY <1>1 DEF InTransit
<1>9. e # None => e \in made /\ e \notin freed /\ e \notin open /\ \A j \in Calls : uses[j] # e
  BY <1>2, <1>3, <1>8 DEF ObjectsCounted
<1>10. TypeOK'
  <2>1. open' \subseteq made /\ freed \subseteq made \ open'
    BY <1>2, <1>5, <1>9 DEF TypeOK
  <2> QED  BY <1>1, <1>2, <1>6, <1>7, <2>1 DEF TypeOK, Goto
<1>11. StartedByOne' /\ CallsNumbered'
  BY <1>1, <1>2, <1>7 DEF FfiInv, StartedByOne, CallsNumbered
<1>12. LastErrorIsLatest' /\ (Locked => ErrorReadIsOwn')
  BY <1>1, <1>3, <1>7 DEF FfiInv, LastErrorIsLatest, ErrorReadIsOwn
<1>13. ObjectsCounted'
  <2>1. ASSUME NEW o
        PROVE  o \in InTransit' <=> o \in InTransit /\ o # e
    <3>1. ASSUME NEW d \in Callers, d # c, pc[d] = "answer", opened[call[d]] = e
          PROVE  e = None
      <4>1. call[d] \in Calls /\ call[d] # k
        BY <1>2, <1>3, <3>1, InCall DEF CallsNumbered
      <4> QED  BY <1>2, <1>3, <3>1, <4>1 DEF ObjectsCounted
    <3>2. o \in InTransit' => o \in InTransit /\ o # e
      BY <1>1, <1>7, <3>1 DEF InTransit
    <3>3. o \in InTransit /\ o # e => o \in InTransit'
      BY <1>1, <1>7 DEF InTransit
    <3> QED  BY <3>2, <3>3
  <2>2. \A o : o \in open' \cup InTransit' <=> o \in open \cup InTransit
    BY <1>5, <1>8, <2>1, TransitOf
  <2>3. \A o \in InTransit' : o \notin open' /\ \A j \in Calls : uses[j] # o
    BY <1>2, <1>5, <2>1 DEF ObjectsCounted
  <2> QED  BY <1>1, <1>2, <2>2, <2>3 DEF ObjectsCounted
<1>14. ThreadOfCaller(c)' /\ PlaceOfCall(c)'
  BY <1>1, <1>2, <1>3, <1>7 DEF ThreadOfCaller, PlaceOfCall
<1>15. ASSUME NEW d \in Callers, d # c
       PROVE  Undisturbed(d)
  <2>1. Locked => Home[d] # thread[c] /\ Home[d] \in Threads
    BY <1>3, <1>15, HomeAssumption
  <2> QED  BY <1>1, <1>7, <1>15, <2>1 DEF Undisturbed
<1> QED  BY <1>10, <1>11, <1>12, <1>13, <1>14, <1>15, OneMoves

(***************************************************************************)
(* Handles that are destroyed, and the worker.                             *)
(***************************************************************************)

\* A handle that is destroyed frees what no call refers to.
LEMMA DestroyKeepsInv ==
  ASSUME FfiInv, NEW o \in Objects, Destroy(o)
  PROVE  FfiInv'
<1>1. /\ o \in open /\ open' = open \ {o}
      /\ freed' = IF \E k \in Calls : uses[k] = o THEN freed ELSE freed \cup {o}
      /\ UNCHANGED <<worker, jobs, running, pc, call, thread, calls, uses, answers,
                     opened, lastCall, lastError, read, made>>
  BY DEF Destroy
<1>2. TypeOK /\ ObjectsCounted
  BY DEF FfiInv
<1>3. InTransit' = InTransit /\ o \notin InTransit
  BY <1>1, <1>2 DEF InTransit, ObjectsCounted
<1>4. TypeOK'
  BY <1>1, <1>2 DEF TypeOK
<1>5. ObjectsCounted'
  <2>1. \A p \in made : p \in freed' <=> /\ p \notin open' \cup InTransit
                                         /\ \A k \in Calls : uses[k] # p
    BY <1>1, <1>2, <1>3 DEF ObjectsCounted
  <2>2. freed' \subseteq made
    BY <1>1, <1>2 DEF TypeOK
  <2> QED  BY <1>1, <1>2, <1>3, <2>1, <2>2 DEF ObjectsCounted
<1>6. \A k : Sent(k)' <=> Sent(k)
  BY <1>1 DEF Sent
<1>7. StartedByOne' /\ CallsNumbered' /\ LastErrorIsLatest' /\ (Locked => ErrorReadIsOwn')
  BY <1>1, <1>6 DEF FfiInv, StartedByOne, CallsNumbered, LastErrorIsLatest, ErrorReadIsOwn
<1>8. ASSUME NEW d \in Callers
      PROVE  ThreadOfCaller(d)' /\ PlaceOfCall(d)'
  BY <1>1, <1>6, CallerStays DEF FfiInv, Undisturbed
<1> QED  BY <1>4, <1>5, <1>7, <1>8 DEF FfiInv

\* The job that is taken is the first, and was sent once.
LEMMA TakeJobKeepsInv == ASSUME FfiInv, TakeJob PROVE FfiInv'
<1>1. /\ running = None /\ jobs # <<>> /\ running' = Head(jobs) /\ jobs' = Tail(jobs)
      /\ UNCHANGED <<worker, pc, call, thread, calls, uses, answers, opened,
                     lastCall, lastError, read, made, open, freed>>
  BY DEF TakeJob, hostVars, objects
<1>2. TypeOK /\ CallsNumbered /\ ObjectsCounted
  BY DEF FfiInv
<1>3. /\ jobs \in Seq(Calls) /\ Len(jobs) \in Nat \ {0} /\ DOMAIN jobs = 1 .. Len(jobs)
      /\ running' = jobs[1] /\ running' \in Calls
      /\ jobs' \in Seq(Calls) /\ DOMAIN jobs' = 1 .. Len(jobs) - 1
      /\ \A i \in DOMAIN jobs' : i + 1 \in DOMAIN jobs /\ jobs'[i] = jobs[i + 1]
  BY <1>1, JobsAreCalls
<1>4. ASSUME NEW k, k # None
      PROVE  Sent(k)' <=> Sent(k)
  <2>1. ASSUME Sent(k)'
        PROVE  Sent(k)
    BY <1>3, <2>1 DEF Sent
  <2>2. ASSUME NEW i \in DOMAIN jobs, jobs[i] = k
        PROVE  Sent(k)'
    <3>1. CASE i = 1
      BY <1>3, <2>2, <3>1 DEF Sent
    <3>2. CASE i # 1
      <4>1. i - 1 \in DOMAIN jobs' /\ (i - 1) + 1 = i
        BY <1>3, <3>2
      <4>2. jobs'[i - 1] = k
        BY <1>3, <2>2, <4>1
      <4> QED  BY <4>1, <4>2 DEF Sent
    <3> QED  BY <3>1, <3>2
  <2> QED  BY <1>1, <1>4, <2>1, <2>2 DEF Sent
<1>5. TypeOK'
  BY <1>1, <1>2, <1>3 DEF TypeOK
<1>6. CallsNumbered'
  <2>1. \A i, j \in DOMAIN jobs' : jobs'[i] = jobs'[j] => i = j
    <3> SUFFICES ASSUME NEW i \in DOMAIN jobs', NEW j \in DOMAIN jobs', jobs'[i] = jobs'[j]
                 PROVE  i = j
      OBVIOUS
    <3>1. i + 1 = j + 1
      BY <1>2, <1>3 DEF CallsNumbered
    <3> QED  BY <1>3, <3>1
  <2>2. ASSUME NEW i \in DOMAIN jobs'
        PROVE  jobs'[i] # running'
    <3>1. 1 \in DOMAIN jobs /\ i + 1 \in DOMAIN jobs /\ i + 1 # 1
      BY <1>3
    <3> QED  BY <1>2, <1>3, <3>1 DEF CallsNumbered
  <2>3. \A k \in Calls : Sent(k)' <=> Sent(k)
    BY <1>4, BoundAssumption DEF Calls
  <2> QED  BY <1>1, <1>2, <2>1, <2>2, <2>3 DEF CallsNumbered
<1>7. StartedByOne' /\ LastErrorIsLatest' /\ (Locked => ErrorReadIsOwn')
  BY <1>1 DEF FfiInv, StartedByOne, LastErrorIsLatest, ErrorReadIsOwn
<1>8. ObjectsCounted'
  BY <1>1, <1>2 DEF ObjectsCounted, InTransit
<1>9. ASSUME NEW d \in Callers
      PROVE  ThreadOfCaller(d)' /\ PlaceOfCall(d)'
  <2>1. call[d] # None => (Sent(call[d])' <=> Sent(call[d]))
    BY <1>1, <1>4 DEF Sent
  <2> QED  BY <1>1, <2>1, CallerStays DEF FfiInv, Undisturbed
<1> QED  BY <1>5, <1>6, <1>7, <1>8, <1>9 DEF FfiInv

\* What the end of a job does to everything but the engine it may have opened.
Ends(k) ==
  /\ k = running /\ running # None /\ running' = None
  /\ \E a \in {"ok", "error", "dropped"} : answers' = [answers EXCEPT ![k] = a]
  /\ DropClone(k)
  /\ UNCHANGED <<worker, jobs, pc, call, thread, calls, lastCall, lastError, read, open>>

\* A job that ends, by its outcome or a panic, is over for the worker, and its caller
\* has an answer to receive.
LEMMA JobEnds ==
  ASSUME FfiInv, NEW k, Ends(k)
  PROVE  /\ k \in Calls /\ k # None /\ uses[k] # None
         /\ StartedByOne' /\ CallsNumbered' /\ LastErrorIsLatest' /\ (Locked => ErrorReadIsOwn')
         /\ \A d \in Callers : ThreadOfCaller(d)' /\ PlaceOfCall(d)'
<1>1. /\ k = running /\ running # None /\ running' = None
      /\ DropClone(k)
      /\ UNCHANGED <<worker, jobs, pc, call, thread, calls, lastCall, lastError, read, open>>
  BY DEF Ends
<1>2. PICK a \in {"ok", "error", "dropped"} : answers' = [answers EXCEPT ![k] = a]
  BY DEF Ends
<1>3. TypeOK /\ CallsNumbered
  BY DEF FfiInv
<1>4. k \in Calls /\ Sent(k) /\ k # None
  BY <1>1, <1>3 DEF TypeOK, Sent
<1>5. uses[k] # None
  BY <1>4, SentJob
<1>6. uses'[k] = None /\ \A j \in Calls : j # k => uses'[j] = uses[j]
  BY <1>1, <1>4, <1>5, CloneDropped
<1>7. answers'[k] = a /\ \A j \in Calls : j # k => answers'[j] = answers[j]
  BY <1>2, <1>3, <1>4 DEF TypeOK
<1>8. ~ Sent(k)' /\ \A j : j # k /\ j # None => (Sent(j)' <=> Sent(j))
  <2>1. \A i \in DOMAIN jobs : jobs[i] # k
    BY <1>1, <1>3 DEF CallsNumbered
  <2> QED  BY <1>1, <1>4, <2>1 DEF Sent
<1>9. StartedByOne' /\ LastErrorIsLatest' /\ (Locked => ErrorReadIsOwn')
  BY <1>1 DEF FfiInv, StartedByOne, LastErrorIsLatest, ErrorReadIsOwn
<1>10. CallsNumbered'
  <2>1. ASSUME NEW j \in Calls, j > calls
        PROVE  uses'[j] = None /\ answers'[j] = "none"
    BY <1>3, <1>5, <1>6, <1>7, <2>1 DEF CallsNumbered
  <2>2. \A j \in Calls : Sent(j)' => Sent(j)
    BY <1>4, <1>8, BoundAssumption DEF Calls
  <2>3. \A i \in DOMAIN jobs : jobs[i] # None
    BY <1>3, JobsAreCalls, BoundAssumption DEF Calls
  <2> QED  BY <1>1, <1>3, <1>6, <2>1, <2>2, <2>3 DEF CallsNumbered
<1>11. ASSUME NEW d \in Callers
       PROVE  ThreadOfCaller(d)' /\ PlaceOfCall(d)'
  <2>1. ThreadOfCaller(d) /\ PlaceOfCall(d) /\ call[d] \in Calls \cup {None}
    BY <1>3 DEF FfiInv, TypeOK
  <2>2. CASE call[d] = k
    <3>1. pc[d] = "answer"
      BY <1>4, <2>1, <2>2 DEF PlaceOfCall
    <3>2. call'[d] = k /\ pc'[d] = "answer" /\ answers'[k] # "none" /\ uses'[k] = None
      BY <1>1, <1>6, <1>7, <2>2, <3>1
    <3>3. ~ Sent(call[d])'
      BY <1>8, <3>2 DEF Sent
    <3>4. PlaceOfCall(d)'
      BY <1>4, <3>2, <3>3 DEF PlaceOfCall
    <3> QED  BY <1>1, <2>1, <3>4 DEF ThreadOfCaller
  <2>3. CASE call[d] # k
    <3>1. call[d] # None => (Sent(call[d])' <=> Sent(call[d]))
      <4>1. call'[d] = call[d]
        BY <1>1
      <4> QED  BY <1>8, <2>3, <4>1 DEF Sent
    <3>2. Undisturbed(d)
      BY <1>1, <1>6, <1>7, <2>1, <2>3, <3>1 DEF Undisturbed
    <3> QED  BY <2>1, <3>2, CallerStays
  <2> QED  BY <2>2, <2>3
<1> QED  BY <1>4, <1>5, <1>9, <1>10, <1>11

\* A job that opens nothing: a call of an engine, or one that fails.
LEMMA EndKeepsInv ==
  ASSUME FfiInv, NEW k, Ends(k), UNCHANGED <<opened, made>>
  PROVE  FfiInv'
<1>1. TypeOK /\ ObjectsCounted /\ k \in Calls /\ uses[k] # None
  BY JobEnds DEF FfiInv
<1>2. /\ uses' \in [Calls -> Objects \cup {None}] /\ uses'[k] = None
      /\ \A j \in Calls : j # k => uses'[j] = uses[j]
      /\ freed' = {o \in made : o \notin open \cup InTransit /\ \A j \in Calls : uses'[j] # o}
  BY <1>1, CloneDropped DEF Ends
<1>3. InTransit' = InTransit
  BY DEF InTransit, Ends
<1>4. TypeOK'
  BY <1>1, <1>2 DEF Ends, TypeOK
<1>5. ObjectsCounted'
  <2>1. answers[k] = "none"
    <3>1. Sent(k)
      BY DEF Sent, Ends
    <3> QED  BY <1>1, <3>1, SentJob
  <2>2. \A j \in Calls : opened[j] # None => opened[j] \in made /\ answers'[j] = "ok"
    BY <1>1, <2>1 DEF ObjectsCounted, TypeOK, Ends
  <2>3. \A j \in Calls : uses'[j] # None => uses'[j] = uses[j]
    BY <1>2
  <2>4. \A o \in InTransit : o \notin open /\ \A j \in Calls : uses'[j] # o
    BY <1>1, <2>3, TransitOf DEF ObjectsCounted
  <2>5. open' = open
    BY DEF Ends
  <2> QED  BY <1>1, <1>2, <1>3, <2>2, <2>3, <2>4, <2>5 DEF ObjectsCounted
<1> QED  BY <1>4, <1>5, JobEnds DEF FfiInv

\* A job that opens an engine: the engine is new, and on its way.
LEMMA OpenKeepsInv ==
  ASSUME FfiInv, NEW k, Ends(k), answers' = [answers EXCEPT ![k] = "ok"],
         NEW e \in Engines \ made,
         opened' = [opened EXCEPT ![k] = e], made' = made \cup {e}
  PROVE  FfiInv'
<1>1. TypeOK /\ ObjectsCounted /\ k \in Calls /\ uses[k] # None /\ Sent(k)
  BY JobEnds DEF FfiInv, Sent, Ends
<1>2. /\ uses' \in [Calls -> Objects \cup {None}] /\ uses'[k] = None
      /\ \A j \in Calls : j # k => uses'[j] = uses[j]
      /\ freed' = {o \in made : o \notin open \cup InTransit /\ \A j \in Calls : uses'[j] # o}
  BY <1>1, CloneDropped DEF Ends
<1>3. open' = open /\ pc' = pc /\ call' = call
  BY DEF Ends
<1>4. opened[k] = None /\ answers[k] = "none"
  BY <1>1, SentJob
<1>5. opened'[k] = e /\ \A j \in Calls : j # k => opened'[j] = opened[j]
  BY <1>1 DEF TypeOK
<1>6. e # None /\ e \in Objects /\ \A j \in Calls : opened[j] # e /\ uses[j] # e
  BY <1>1, ObjectsAssumption DEF ObjectsCounted, Objects
<1>7. \A o : o \in InTransit' <=> o \in InTransit \/ o = e
  <2>1. PICK c \in Callers : call[c] = k /\ pc[c] = "answer"
    BY <1>1, SentJob
  <2>2. \A d \in Callers : pc[d] = "answer" => call[d] \in Calls
    BY InCall
  <2> QED  BY <1>3, <1>4, <1>5, <1>6, <2>1, <2>2 DEF InTransit
<1>8. e \notin open /\ e \notin freed
  BY <1>1 DEF TypeOK
<1>9. TypeOK'
  <2>1. freed' \subseteq made' \ open'
    BY <1>2, <1>3
  <2>2. made' \subseteq Objects /\ open' \subseteq made'
    BY <1>1, <1>3, <1>6 DEF TypeOK
  <2> QED  BY <1>1, <1>2, <2>1, <2>2 DEF TypeOK, Ends
<1>10. ObjectsCounted'
  <2>1. \A j \in Calls : opened'[j] # None => opened'[j] \in made' /\ answers'[j] = "ok"
    BY <1>1, <1>5 DEF ObjectsCounted, TypeOK
  <2>2. \A i, j \in Calls : opened'[i] = opened'[j] /\ opened'[i] # None => i = j
    BY <1>1, <1>5, <1>6 DEF ObjectsCounted
  <2>3. \A j \in Calls : uses'[j] # None => uses'[j] \in made' /\ uses'[j] = uses[j]
    BY <1>1, <1>2 DEF ObjectsCounted
  <2>4. \A o \in InTransit' : o \notin open' /\ \A j \in Calls : uses'[j] # o
    BY <1>1, <1>3, <1>6, <1>7, <1>8, <2>3, TransitOf DEF ObjectsCounted
  <2>5. freed' = {o \in made' : o \notin open' \cup InTransit' /\ \A j \in Calls : uses'[j] # o}
    BY <1>2, <1>3, <1>7
  <2> QED  BY <2>1, <2>2, <2>3, <2>4, <2>5 DEF ObjectsCounted
<1> QED  BY <1>9, <1>10, JobEnds DEF FfiInv

\* The worker's jobs end in these ways.
LEMMA FinishKeepsInv == ASSUME FfiInv, FinishJob \/ PanicInJob PROVE FfiInv'
<1> DEFINE k == running
<1>1. k \in Calls /\ k # None
  BY DEF FinishJob, PanicInJob, FfiInv, TypeOK
<1>2. Ends(k)
  BY DEF Ends, FinishJob, PanicInJob, hostVars, objects
<1>3. \/ UNCHANGED <<opened, made>>
      \/ /\ answers' = [answers EXCEPT ![k] = "ok"]
         /\ \E e \in Engines \ made : opened' = [opened EXCEPT ![k] = e] /\ made' = made \cup {e}
  BY DEF FinishJob, PanicInJob, objects
<1> QED  BY <1>2, <1>3, EndKeepsInv, OpenKeepsInv

(***************************************************************************)
(* The specification.                                                      *)
(***************************************************************************)

\* No call was made and nothing was opened.
LEMMA InitFfiInv == Init => FfiInv
<1> SUFFICES ASSUME Init
             PROVE  FfiInv
  OBVIOUS
<1>1. TypeOK
  BY BoundAssumption DEF Init, TypeOK
<1>2. \A k : Sent(k) => k = None
  BY DEF Init, Sent
<1>3. StartedByOne /\ LastErrorIsLatest /\ ErrorReadIsOwn
  BY DEF Init, StartedByOne, LastErrorIsLatest, ErrorReadIsOwn
<1>4. CallsNumbered
  BY <1>2, BoundAssumption DEF Init, CallsNumbered, Calls
<1>5. ObjectsCounted
  BY DEF Init, ObjectsCounted, InTransit
<1>6. \A c \in Callers : ThreadOfCaller(c) /\ PlaceOfCall(c)
  BY <1>2 DEF Init, ThreadOfCaller, PlaceOfCall
<1> QED  BY <1>1, <1>3, <1>4, <1>5, <1>6 DEF FfiInv

\* No step of a host thread or of the worker breaks the invariant.
LEMMA NextKeepsFfiInv == FfiInv /\ [Next]_vars => FfiInv'
<1> SUFFICES ASSUME FfiInv, [Next]_vars
             PROVE  FfiInv'
  OBVIOUS
<1>1. ASSUME NEW c \in Callers, NEW t \in ThreadsFor(c),
             \/ \E o \in Objects : Call(c, t, o)
             \/ \E r \in Runtimes : CreateRuntime(c, t, r)
             \/ CallLocal(c, t)
             \/ ReadError(c, t)
      PROVE  FfiInv'
  BY <1>1, CallKeepsInv, CreateRuntimeKeepsInv, CallLocalKeepsInv, ReadErrorKeepsInv
<1>2. ASSUME NEW c \in Callers, Proceed(c)
      PROVE  FfiInv'
  BY <1>2, WorkerStepKeepsInv, NoWorkerKeepsInv, SendKeepsInv, ReceiveKeepsInv DEF Proceed
<1>3. CASE \E o \in Objects : Destroy(o)
  BY <1>3, DestroyKeepsInv
<1>4. CASE Work
  BY <1>4, TakeJobKeepsInv, FinishKeepsInv DEF Work
<1>5. CASE UNCHANGED vars
  <2>1. \A k : Sent(k)' <=> Sent(k)
    BY <1>5 DEF vars, Sent
  <2>2. /\ TypeOK' /\ StartedByOne' /\ CallsNumbered' /\ LastErrorIsLatest'
        /\ Locked => ErrorReadIsOwn'
    BY <1>5, <2>1 DEF vars, FfiInv, TypeOK, StartedByOne, CallsNumbered, LastErrorIsLatest,
                      ErrorReadIsOwn
  <2>3. ObjectsCounted'
    BY <1>5 DEF vars, FfiInv, ObjectsCounted, InTransit
  <2>4. \A c \in Callers : ThreadOfCaller(c)' /\ PlaceOfCall(c)'
    BY <1>5, <2>1, CallerStays DEF vars, FfiInv, Undisturbed
  <2> QED  BY <2>2, <2>3, <2>4 DEF FfiInv
<1> QED  BY <1>1, <1>2, <1>3, <1>4, <1>5 DEF Next

\* FfiInv is an invariant of the C interface and its worker.
THEOREM FfiInvariant == Spec => []FfiInv
<1> QED  BY InitFfiInv, NextKeepsFfiInv, PTL DEF Spec

\* The interface keeps its types: only engines and runtimes that were made have a
\* handle, and none of those is freed.
THEOREM TypeCorrect == Spec => []TypeOK
<1>1. FfiInv => TypeOK
  BY DEF FfiInv
<1> QED  BY <1>1, FfiInvariant, PTL

\* However many threads make the first call together, one starts the worker
\* (FfiState::worker, get_or_init).
THEOREM WorkerIsOne == Spec => []OneWorker
<1>1. ASSUME FfiInv
      PROVE  OneWorker
  <2> DEFINE S == {c \in Callers : pc[c] = "starting"}
  <2>1. CASE S = {}
    BY <2>1, FS_EmptySet DEF OneWorker
  <2>2. CASE S # {}
    <3>1. PICK c : S = {c}
      BY <1>1, <2>2 DEF FfiInv, StartedByOne
    <3> QED  BY <3>1, FS_Singleton DEF OneWorker
  <2> QED  BY <2>1, <2>2
<1> QED  BY <1>1, FfiInvariant, PTL

\* The message a thread keeps is of the latest call made on it: no message is left
\* from an earlier call, and none from the worker (clear_last_error, set_last_error).
THEOREM MessagesAreLatest == Spec => []LastErrorIsLatest
<1>1. FfiInv => LastErrorIsLatest
  BY DEF FfiInv
<1> QED  BY <1>1, FfiInvariant, PTL

\* Callers that make all their calls on one thread read the message of the call that
\* failed.
THEOREM MessagesAreOwn == ASSUME Locked PROVE Spec => []ErrorReadIsOwn
<1>1. FfiInv => ErrorReadIsOwn
  BY Locked DEF FfiInv
<1> QED  BY <1>1, FfiInvariant, PTL

\* A call keeps alive what it was made on, whoever destroys the handle meanwhile.
THEOREM EnginesOutliveCalls == Spec => []EngineInUse
<1>1. FfiInv => EngineInUse
  BY DEF FfiInv, EngineInUse, ObjectsCounted
<1> QED  BY <1>1, FfiInvariant, PTL

\* When no call is in progress, what has no handle is freed: no engine is lost in the
\* channel, with the worker or on its way to the caller that opened it.
THEOREM NothingLeaks == Spec => []NoEngineLeaked
<1>1. ASSUME FfiInv, \A c \in Callers : pc[c] \in {"idle", "failed"}
      PROVE  freed = made \ open
  <2>1. InTransit = {}
    BY <1>1 DEF InTransit
  <2>2. ASSUME NEW k \in Calls, uses[k] # None
        PROVE  FALSE
    <3>1. PICK c \in Callers : call[c] = k
      BY <1>1, <2>2 DEF FfiInv, CallsNumbered
    <3>2. k # None
      BY BoundAssumption DEF Calls
    <3> QED  BY <1>1, <2>2, <3>1, <3>2 DEF FfiInv, PlaceOfCall
  <2>3. None \notin made
    BY <1>1, ObjectsAssumption DEF FfiInv, TypeOK, Objects
  <2> QED  BY <1>1, <2>1, <2>2, <2>3 DEF FfiInv, ObjectsCounted, TypeOK
<1> QED  BY <1>1, FfiInvariant, PTL DEF NoEngineLeaked

\* A job that panics fails its own call: no step takes another's answer from it.
THEOREM PanicsAreIsolated == Spec => PanicIsIsolated
<1>1. ASSUME TypeOK, [Next]_vars, NEW k \in Calls, answers'[k] = "dropped", answers[k] = "none"
      PROVE  k = running
  <2>1. CASE FinishJob
    BY <1>1, <2>1 DEF FinishJob, TypeOK
  <2>2. CASE PanicInJob
    BY <1>1, <2>2 DEF PanicInJob, TypeOK
  <2>3. CASE ~ (FinishJob \/ PanicInJob)
    <3>1. answers' = answers
      BY <1>1, <2>3 DEF Next, Work, TakeJob, Destroy, Proceed, StartWorker, WorkerStarted,
             GetWorker, NoWorker, Send, Receive, Call, CreateRuntime, CallLocal, ReadError, vars
    <3> QED  BY <1>1, <3>1
  <2> QED  BY <2>1, <2>2, <2>3
<1>2. TypeOK /\ [Next]_vars
        => [\A k \in Calls : answers'[k] = "dropped" /\ answers[k] = "none" => k = running]_vars
  BY <1>1
<1> QED  BY <1>2, TypeCorrect, PTL DEF Spec, PanicIsIsolated

=============================================================================
