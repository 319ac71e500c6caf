----------------------------- MODULE GrpcService -----------------------------
(***************************************************************************)
(* LanceDbGrpcService (service.rs): what surrounds the engine's work on a  *)
(* request: its number, its log lines, the timeout, its status.            *)
(*                                                                         *)
(* The engine is a future that may never be ready; module Engine says what *)
(* it does, also when it is dropped.  The five handlers are alike.  Their  *)
(* lines go through the logger they share (module Logger), and a handler   *)
(* goes on when its call of log() returns.  Time is counted in ticks from  *)
(* the moment the context of a request is built; a clock stops at          *)
(* MaxTicks.                                                               *)
(***************************************************************************)
EXTENDS Naturals, FiniteSets, Sequences

CONSTANTS
  Requests,
  Configs,       \* the configurations the service may be started with
  SlowThreshold, \* logging.slow_request_threshold_ms
  MaxTicks,      \* bound on the clocks
  LastDay,       \* bound on the days
  MaxFaults,     \* bound on the logger's failures
  None

ASSUME TimeAssumption ==
  MaxTicks \in Nat /\ SlowThreshold \in 0 .. MaxTicks /\ None \notin Nat

\* request_timeout (None when there is none), logging.enabled,
\* request_log_enabled and slow_request_log_enabled.
ASSUME ConfigAssumption ==
  Configs \subseteq [timeout : 0 .. MaxTicks \cup {None}, logging : BOOLEAN,
                    requestLog : BOOLEAN, slowLog : BOOLEAN]

ASSUME BoundsAssumption == LastDay \in Nat \ {0} /\ MaxFaults \in Nat

VARIABLES
  config,  \* the configuration it was started with
  nextId,  \* NEXT_REQUEST_ID
  pc,      \* where each handler is, or will be when log() returns
  id,      \* request_id of its context
  clock,   \* ticks since its context was built
  waited,  \* ticks since the engine's future was first polled
  took,    \* elapsed, as the lines at the end say
  outcome, \* what the engine returned
  status   \* what the client is told

VARIABLES today, stderr, line, holder, openDay, files, denied, lost

Errors == {"invalid_argument", "internal"}

Categories == {"start", "ok", "error", "slow_request"}

Logger == INSTANCE Logger WITH Writers <- Requests

ASSUME NoneAssumption == None \notin Requests /\ None \notin Logger!Lines

requestVars == <<id, clock, waited, took, outcome, status>>
logVars == <<today, stderr, line, holder, openDay, files, denied, lost>>
vars == <<config, nextId, pc, requestVars, logVars>>

TypeOK ==
  /\ config \in Configs
  /\ nextId \in Nat
  /\ pc \in [Requests ->
       {"new", "start", "call", "engine", "mapped", "slow", "reply", "done"}]
  /\ id \in [Requests -> Nat]
  /\ clock \in [Requests -> 0 .. MaxTicks]
  /\ waited \in [Requests -> 0 .. MaxTicks]
  /\ took \in [Requests -> 0 .. MaxTicks]
  /\ outcome \in [Requests -> {"none", "ok"} \cup Errors]
  /\ status \in [Requests -> {"none", "ok", "deadline_exceeded"} \cup Errors]
  /\ Logger!TypeOK
  /\ \A r \in Requests : Cardinality(Logger!PlacesOf(r)) <= 3

\* A handler at a step of its own is not inside log().
At(r, place) == pc[r] = place /\ Logger!Idle(r)

Goto(r, there) == pc' = [pc EXCEPT ![r] = there]

\* A line, when it is enabled, on the way to the next step.  A panic in log() ends
\* the handler: tonic resets the stream and the client has no status.
LogThenGoto(r, category, enabled, there) ==
  \/ config.logging /\ enabled /\ Logger!Begin(r, category) /\ Goto(r, there)
  \/ config.logging /\ enabled /\ Logger!Panics(r) /\ Goto(r, "done")
  \/ ~ (config.logging /\ enabled) /\ Goto(r, there) /\ UNCHANGED logVars

Reply(r, code) == status' = [status EXCEPT ![r] = code]

-----------------------------------------------------------------------------

\* Faulty: the number is read, and counted up when the line is written.
ReceiveUncounted(r) ==
  /\ At(r, "new")
  /\ id' = [id EXCEPT ![r] = nextId]
  /\ Goto(r, "start")
  /\ UNCHANGED <<config, nextId, clock, waited, took, outcome, status, logVars>>

\* build_request_context: the number is taken with fetch_add.
Receive(r) ==
  /\ At(r, "new")
  /\ id' = [id EXCEPT ![r] = nextId]
  /\ nextId' = nextId + 1
  /\ Goto(r, "start")
  /\ UNCHANGED <<config, clock, waited, took, outcome, status, logVars>>

\* log_request_started.
Start(r) ==
  /\ At(r, "start")
  /\ LogThenGoto(r, "start", config.requestLog, "call")
  /\ UNCHANGED <<config, nextId, requestVars>>

\* The engine's future is made and polled; the timeout counts from here.
CallEngine(r) ==
  /\ At(r, "call")
  /\ Goto(r, "engine")
  /\ UNCHANGED <<config, nextId, requestVars, logVars>>

\* The engine's future is ready; a timeout that is due at once loses, because the
\* future is polled first.
EngineReady(r) ==
  /\ At(r, "engine")
  /\ \E result \in {"ok"} \cup Errors : outcome' = [outcome EXCEPT ![r] = result]
  /\ Goto(r, "mapped")
  /\ UNCHANGED <<config, nextId, id, clock, waited, took, status, logVars>>

\* grpc_request_timeout_ms.map(from_millis): zero is a duration like another.
IsDue(r) == config.timeout # None /\ waited[r] >= config.timeout

\* Faulty: the time limit is on making the future, not on awaiting it.
TimeOutOfCall(r) ==
  /\ At(r, "call")
  /\ IsDue(r)
  /\ Reply(r, "deadline_exceeded")
  /\ Goto(r, "done")
  /\ UNCHANGED <<config, nextId, id, clock, waited, took, outcome, logVars>>

\* with_timeout: the future is dropped, the error returns past the log lines.
TimeOut(r) ==
  /\ At(r, "engine")
  /\ IsDue(r)
  /\ Reply(r, "deadline_exceeded")
  /\ Goto(r, "done")
  /\ UNCHANGED <<config, nextId, id, clock, waited, took, outcome, logVars>>

\* Faulty: failures are lines like the others.
LogOutcomeIfEnabled(r) ==
  /\ At(r, "mapped")
  /\ took' = [took EXCEPT ![r] = clock[r]]
  /\ LogThenGoto(r, IF outcome[r] = "ok" THEN "ok" ELSE "error", config.requestLog, "slow")
  /\ UNCHANGED <<config, nextId, id, clock, waited, outcome, status>>

\* log_request_succeeded, log_request_failed: the time is read, and failures are
\* logged in any case.
LogOutcome(r) ==
  /\ At(r, "mapped")
  /\ took' = [took EXCEPT ![r] = clock[r]]
  /\ \/ outcome[r] = "ok" /\ LogThenGoto(r, "ok", config.requestLog, "slow")
     \/ outcome[r] # "ok" /\ LogThenGoto(r, "error", TRUE, "slow")
  /\ UNCHANGED <<config, nextId, id, clock, waited, outcome, status>>

\* Faulty: the line is written again each time the handler is polled.
LogSlowRepeatedly(r) ==
  /\ At(r, "slow")
  /\ LogThenGoto(r, "slow_request", config.slowLog /\ took[r] >= SlowThreshold, "slow")
  /\ UNCHANGED <<config, nextId, requestVars>>

\* maybe_log_slow_request.
LogSlow(r) ==
  /\ At(r, "slow")
  /\ LogThenGoto(r, "slow_request", config.slowLog /\ took[r] >= SlowThreshold, "reply")
  /\ UNCHANGED <<config, nextId, requestVars>>

Answer(r) ==
  /\ At(r, "reply")
  /\ Reply(r, outcome[r])
  /\ Goto(r, "done")
  /\ UNCHANGED <<config, nextId, id, clock, waited, took, outcome, logVars>>

\* The client goes away and tonic drops the handler at its await.
Disconnect(r) ==
  /\ At(r, "engine")
  /\ Goto(r, "done")
  /\ UNCHANGED <<config, nextId, requestVars, logVars>>

Running(r) == pc[r] \notin {"new", "done"}

\* The clocks cond names move on, as far as MaxTicks.
Advance(clocks, cond(_)) ==
  [r \in Requests |-> IF cond(r) /\ clocks[r] < MaxTicks THEN clocks[r] + 1 ELSE clocks[r]]

Tick ==
  /\ \E r \in Requests : Running(r)
  /\ clock' = Advance(clock, Running)
  /\ waited' = Advance(waited, LAMBDA r : pc[r] = "engine")
  /\ UNCHANGED <<config, nextId, pc, id, took, outcome, status, logVars>>

\* log() goes on by itself, the clock and the reader of stderr as they like.
InLogger ==
  /\ (\E r \in Requests : Logger!Proceed(r)) \/ Logger!Environment
  /\ UNCHANGED <<config, nextId, pc, requestVars>>

-----------------------------------------------------------------------------

Init ==
  /\ config \in Configs
  /\ nextId = 1
  /\ pc = [r \in Requests |-> "new"]
  /\ id = [r \in Requests |-> 0]
  /\ clock = [r \in Requests |-> 0]
  /\ waited = [r \in Requests |-> 0]
  /\ took = [r \in Requests |-> 0]
  /\ outcome = [r \in Requests |-> "none"]
  /\ status = [r \in Requests |-> "none"]
  /\ Logger!Init

\* What the handler does by itself.
Handle(r) ==
  Start(r) \/ CallEngine(r) \/ TimeOut(r) \/ LogOutcome(r) \/ LogSlow(r) \/ Answer(r)

Next ==
  \/ \E r \in Requests :
       Receive(r) \/ Handle(r) \/ EngineReady(r) \/ Disconnect(r)
  \/ InLogger
  \/ Tick

Spec == Init /\ [][Next]_vars

\* Time passes, handlers are polled and log() goes on.  Nothing makes the engine
\* ready.
FairSpec ==
  /\ Spec
  /\ WF_vars(Tick)
  /\ \A r \in Requests :
       /\ WF_vars(Handle(r))
       /\ WF_vars(Logger!Proceed(r) /\ UNCHANGED <<config, nextId, pc, requestVars>>)

-----------------------------------------------------------------------------

\* Two requests are never logged under one number.
IdsAreUnique ==
  \A r, s \in Requests : pc[r] # "new" /\ pc[s] # "new" /\ id[r] = id[s] => r = s

\* The lines of a request: how it started, how it went, whether it was slow.
Rank == [start |-> 1, ok |-> 2, error |-> 2, slow_request |-> 3]

RankAt(p) == Rank[Logger!EntryAt(p).category]

\* What is logged of a request that is over.
Story(r) ==
  (IF config.requestLog THEN {"start"} ELSE {})
  \cup (IF outcome[r] # "ok" THEN {"error"} ELSE IF config.requestLog THEN {"ok"} ELSE {})
  \cup (IF config.slowLog /\ took[r] >= SlowThreshold THEN {"slow_request"} ELSE {})

Told(r) == {Logger!EntryAt(p).category : p \in Logger!PlacesOf(r)}

\* The files of the days, one after another, tell the story of an answered request
\* in order, whichever midnight it spans and whichever file failed to open: the
\* start, if starts are logged, then how the engine's answer went, an error even
\* when requests are not logged, then whether it was slow by the very time that
\* line gives.  Only a failed write leaves a line out.
LogTellsOutcome ==
  \A r \in Requests :
    /\ \A p, q \in Logger!PlacesOf(r) : Logger!IsBefore(p, q) => RankAt(p) < RankAt(q)
    /\ status[r] \in {"ok"} \cup Errors /\ config.logging /\ r \notin lost => Told(r) = Story(r)

\* With a timeout every request ends, also when the engine never answers, another
\* handler is inside log() or stderr is gone.
TimeoutEndsRequest ==
  \A r \in Requests : config.timeout # None /\ pc[r] = "start" ~> pc[r] = "done"

\* See Logger: a line is not in the file of a day before its own ...
FiledUnderItsDay == Logger!FiledUnderItsDay

\* ... and the file of a day is complete when the next one's has been opened.
FinishedDaysAreClosed == Logger!FinishedDaysAreClosed

\* "Log each request start/success/failure" (README.en.md:155): a request that is
\* answered with an error has its line.
FailuresAreLogged ==
  \A r \in Requests :
    status[r] \in Errors \cup {"deadline_exceeded"} => "error" \in Told(r)

\* "Set to `0` or `null` to disable the timeout" (concurrency_optimization_plan.md:106,
\* in Chinese): nobody is told of a deadline of zero.
ZeroDisablesTimeout ==
  \A r \in Requests : config.timeout = 0 => status[r] # "deadline_exceeded"

-----------------------------------------------------------------------------
(* Why these hold: with LoggerInv, the conjuncts below are inductive        *)
(* together, for any number of requests, days and failures.                *)

\* How many of its lines a handler is past.
Stage == [new |-> 0, start |-> 0, call |-> 1, engine |-> 1, mapped |-> 1,
          slow |-> 2, reply |-> 3, done |-> 3]

\* Numbers were given out and are given out once.
NumbersTaken == \A r \in Requests : pc[r] # "new" => id[r] < nextId

\* How far a request is, and what of its end there is by then.
OutcomeOfStage(r) ==
  /\ pc[r] \in {"new", "start", "call", "engine"} => outcome[r] = "none"
  /\ pc[r] \in {"mapped", "slow", "reply"} => outcome[r] # "none"
  /\ status[r] \in {"none", "deadline_exceeded", outcome[r]}
  /\ status[r] # "none" => pc[r] = "done"

\* What a handler has written is behind it, in order; inside log() it has its latest
\* line, which comes after them.
LinesInOrder(r) ==
  /\ line[r] # None => /\ pc[r] \in {"call", "slow", "reply"}
                       /\ Rank[line[r].category] = Stage[pc[r]]
  /\ \A p \in Logger!PlacesOf(r) : /\ RankAt(p) <= Stage[pc[r]]
                                   /\ line[r] # None => RankAt(p) < Stage[pc[r]]
  /\ \A p, q \in Logger!PlacesOf(r) : Logger!IsBefore(p, q) => RankAt(p) < RankAt(q)

\* Unless a write failed or the handler was cut off, all it is past was written, or
\* is about to be.
StorySoFar(r) ==
  config.logging /\ r \notin lost /\ (pc[r] = "done" => status[r] \in {"ok"} \cup Errors) =>
    Told(r) \cup (IF line[r] = None THEN {} ELSE {line[r].category})
      = {category \in Story(r) : Rank[category] <= Stage[pc[r]]}

ServiceInv ==
  /\ TypeOK
  /\ Logger!LoggerInv
  /\ NumbersTaken
  /\ IdsAreUnique
  /\ \A r \in Requests : OutcomeOfStage(r) /\ LinesInOrder(r) /\ StorySoFar(r)
=============================================================================
