------------------------------- MODULE Engine -------------------------------
(***************************************************************************)
(* LanceDbEngine (engine.rs): what happens to a request from the call of   *)
(* create_table, vector_upsert, vector_search, delete or drop_table to its *)
(* answer.  Each request is an asynchronous task; its program counter      *)
(* names the await it is at, and at any await the task may be dropped.     *)
(*                                                                         *)
(* The engines of one process share a connection, the db of TableStore;    *)
(* each has a semaphore and a TableAccessCoordinator of its own (`new`),   *)
(* the latter an instance of TableLocks whose names carry the engine.      *)
(***************************************************************************)
EXTENDS Naturals, FiniteSets

CONSTANTS
  Requests, Inputs, Names, Trim, Blank, Keys, Schemas, InitialDbs, None,
  Engines,               \* engines on the connection
  MaxConcurrentRequests, \* options.max_concurrent_requests.max(1)
  LockIds                \* addresses of lock objects

ASSUME LimitAssumption == MaxConcurrentRequests \in Nat \ {0}
ASSUME EnginesAssumption == Engines # {}
ASSUME TrimAssumption == /\ Trim \in [Names -> Names]
                         /\ \A n \in Names : Trim[Trim[n]] = Trim[n]

VARIABLES
  db, input, outcome, reply,                     \* as in TableStore
  locks, allocated, queue, status, arc, ask,     \* as in TableLocks
  pc,        \* the await a request is at
  engine,    \* the engine it was made on
  permits,   \* free permits of each engine's semaphore
  handle     \* the Table a request opened, at the version it last saw

lockVars == <<locks, allocated, queue, status, arc, ask>>
storeVars == <<db, input, outcome, reply>>
vars == <<storeVars, lockVars, pc, engine, permits, handle>>

Store == INSTANCE TableStore

ASSUME InputsAssumption == /\ Inputs \subseteq Store!InputShape
                           /\ \A q \in Inputs : IsFiniteSet(q.keys)
ASSUME DatabasesAssumption == \A d \in InitialDbs : Store!IsDatabase(d)

EngineNames == Engines \X Names
EngineTrim == [n \in EngineNames |-> <<n[1], Trim[n[2]]>>]

Locks == INSTANCE TableLocks WITH Clients <- Requests, Names <- EngineNames,
                                  Trim <- EngineTrim

ASSUME NoneAssumption ==
  /\ None \notin Store!TableStates /\ None \notin Store!InputShape
  /\ None \notin Store!Results /\ None \notin Store!Errors
  /\ None \notin LockIds /\ None \notin Locks!Asks

Unlocked == {"new", "permit", "permitted", "lock", "encode", "done"}
Guarded == {"open", "decode", "commit", "committed"}

TypeOK ==
  /\ Store!TypeOK
  /\ Locks!TypeOK
  /\ pc \in [Requests -> Unlocked \cup Guarded]
  /\ engine \in [Requests -> Engines]
  /\ permits \in [Engines -> 0 .. MaxConcurrentRequests]
  /\ handle \in [Requests -> Store!TableStates \cup {None}]

TableOf(r) == Store!TableOf(input[r])

\* What a request sees of its table through its handle: the version it opened
\* or, once the read consistency interval is over, the latest one.
Views(r) == {handle[r], db[TableOf(r)]} \ {None}

Goto(r, there) == pc' = [pc EXCEPT ![r] = there]

\* The future returns: the answer is given and a guard still held is dropped.
Finish(r, answer) ==
  /\ reply' = [reply EXCEPT ![r] = answer]
  /\ Goto(r, "done")
  /\ UNCHANGED <<db, input, outcome, engine, permits, handle>>
  /\ IF pc[r] \in Guarded THEN Locks!Release(r) ELSE UNCHANGED lockVars

-----------------------------------------------------------------------------

\* The call, with the argument checks that come before any await.
Call(r, q, e) ==
  /\ pc[r] = "new"
  /\ Store!Call(r, q)
  /\ Goto(r, IF reply'[r] = None THEN "permit" ELSE "done")
  /\ engine' = [engine EXCEPT ![r] = e]
  /\ UNCHANGED <<lockVars, permits, handle>>

\* Faulty: the count of free permits is not taken from.
AcquireUncounted(r) ==
  /\ pc[r] = "permit"
  /\ permits[engine[r]] > 0
  /\ Goto(r, "permitted")
  /\ UNCHANGED <<storeVars, lockVars, engine, permits, handle>>

\* acquire_concurrency_permit: the permit is acquired, and dropped by the
\* closure that maps it to ().
AcquirePermit(r) ==
  /\ pc[r] = "permit"
  /\ permits[engine[r]] > 0
  /\ permits' = [permits EXCEPT ![engine[r]] = @ - 1]
  /\ Goto(r, "permitted")
  /\ UNCHANGED <<storeVars, lockVars, engine, handle>>

DropPermit(r) ==
  /\ pc[r] = "permitted"
  /\ permits' = [permits EXCEPT ![engine[r]] = @ + 1]
  /\ Goto(r, "lock")
  /\ UNCHANGED <<storeVars, lockVars, engine, handle>>

\* Faulty: appends share the table with each other.
LockModeShared(q) == IF q.op \in {"search", "append"} THEN "read" ELSE "write"

\* Searches read, everything else writes.
LockMode(q) == IF q.op = "search" THEN "read" ELSE "write"

\* acquire_table_read, acquire_table_write.
LookUpLock(r) ==
  /\ pc[r] = "lock"
  /\ Locks!Resolve(r, <<engine[r], input[r].name>>, LockMode(input[r]))
  /\ UNCHANGED <<storeVars, pc, engine, permits, handle>>

QueueForLock(r) ==
  /\ pc[r] = "lock"
  /\ Locks!Enqueue(r)
  /\ UNCHANGED <<storeVars, pc, engine, permits, handle>>

\* create_table and drop_table go to the connection, the others open the table.
EnterLock(r) ==
  /\ pc[r] = "lock"
  /\ Locks!Enter(r)
  /\ Goto(r, IF input[r].op \in {"create", "drop"} THEN "commit" ELSE "open")
  /\ UNCHANGED <<storeVars, engine, permits, handle>>

\* open_table
OpenTable(r) ==
  /\ pc[r] = "open"
  /\ db[TableOf(r)] # None
  /\ handle' = [handle EXCEPT ![r] = db[TableOf(r)]]
  /\ Goto(r, IF input[r].op \in {"append", "merge"} THEN "decode" ELSE "commit")
  /\ UNCHANGED <<storeVars, lockVars, engine, permits>>

TableMissing(r) ==
  /\ pc[r] = "open"
  /\ db[TableOf(r)] = None
  /\ Finish(r, Store!Error("refused"))

\* The payload is decoded on a blocking thread, under the schema of the handle.
\* JSON rows that do not fit are refused here; Arrow batches carry a schema of
\* their own, which is LanceDB's to refuse.
Decode(r) ==
  /\ pc[r] = "decode"
  /\ \/ /\ Goto(r, "commit")
        /\ UNCHANGED <<storeVars, lockVars, engine, permits, handle>>
     \/ /\ \E view \in Views(r) : ~ Store!Accepts(input[r], view)
        /\ Finish(r, Store!Error("refused"))

\* The call into LanceDB takes effect: a table is created or dropped, a batch
\* added, merged or deleted.  Without rows to write the version is read.
Commit(r) ==
  /\ pc[r] = "commit"
  /\ input[r].op # "search"
  /\ Store!TakeEffect(r)
  /\ handle' = [handle EXCEPT ![r] = db'[TableOf(r)]]
  /\ Goto(r, "committed")
  /\ UNCHANGED <<lockVars, engine, permits>>

\* LanceDB cannot do it on the table as it is.
CommitRefused(r) ==
  /\ pc[r] = "commit"
  /\ ~ Store!Accepts(input[r], db[TableOf(r)])
  /\ Finish(r, Store!Error("refused"))

\* The call into LanceDB has returned.  An append asks its handle for the version
\* in a call of its own, `found`; the others have it from their result.
Return(r) ==
  /\ pc[r] = "committed"
  /\ IF input[r].op = "append"
     THEN \E view \in Views(r) :
            Finish(r, [outcome[r] EXCEPT !.version = view.version])
     ELSE Finish(r, outcome[r])

\* Faulty: the read guard lives to the end of the function.
RunQueryGuarded(r) ==
  /\ pc[r] = "commit"
  /\ input[r].op = "search"
  /\ \E view \in Views(r) :
       outcome' = [outcome EXCEPT ![r] = Store!Result(r, input[r], view)]
  /\ Goto(r, "encode")
  /\ UNCHANGED <<db, input, reply, lockVars, engine, permits, handle>>

\* The batches are collected; the read guard is dropped before they are encoded.
RunQuery(r) ==
  /\ pc[r] = "commit"
  /\ input[r].op = "search"
  /\ \E view \in Views(r) :
       outcome' = [outcome EXCEPT ![r] = Store!Result(r, input[r], view)]
  /\ Goto(r, "encode")
  /\ Locks!Release(r)
  /\ UNCHANGED <<db, input, reply, engine, permits, handle>>

Encode(r) ==
  /\ pc[r] = "encode"
  /\ Finish(r, outcome[r])

\* An error from LanceDB or a panic on the blocking thread.  After the commit
\* only an append makes one more call that can fail.
Fail(r) ==
  /\ \/ pc[r] \in {"open", "decode", "commit", "encode"}
     \/ pc[r] = "committed" /\ input[r].op = "append"
  /\ Finish(r, Store!Error("failed"))

\* Faulty: a waiting request that is dropped keeps its place.
DropInQueue(r) ==
  /\ reply' = [reply EXCEPT ![r] = Store!Error("dropped")]
  /\ Goto(r, "done")
  /\ IF pc[r] \in Guarded THEN Locks!Release(r) ELSE UNCHANGED lockVars
  /\ pc[r] \in Guarded \cup {"permit", "lock", "encode"}
  /\ UNCHANGED <<db, input, outcome, engine, permits, handle>>

\* Faulty: the caller is told of a timeout, the request runs on.
DropDetached(r) ==
  /\ pc[r] \in Guarded \cup {"permit", "lock", "encode"}
  /\ reply' = [reply EXCEPT ![r] = Store!Error("dropped")]
  /\ UNCHANGED <<db, input, outcome, pc, lockVars, engine, permits, handle>>

\* The future is dropped at an await, by a timeout or a closed connection.  A
\* place in the queue of a lock is given up with it.
Drop(r) ==
  /\ reply' = [reply EXCEPT ![r] = Store!Error("dropped")]
  /\ Goto(r, "done")
  /\ \/ pc[r] \in Guarded /\ Locks!Release(r)
     \/ pc[r] = "lock" /\ Locks!Abandon(r)
     \/ pc[r] \in {"permit", "encode"} /\ UNCHANGED lockVars
  /\ UNCHANGED <<db, input, outcome, engine, permits, handle>>

-----------------------------------------------------------------------------

Init ==
  /\ Store!Init
  /\ Locks!Init
  /\ pc = [r \in Requests |-> "new"]
  /\ engine = [r \in Requests |-> CHOOSE e \in Engines : TRUE]
  /\ permits = [e \in Engines |-> MaxConcurrentRequests]
  /\ handle = [r \in Requests |-> None]

\* What the task of r does when it is polled.
Poll(r) ==
  \/ AcquirePermit(r) \/ DropPermit(r)
  \/ LookUpLock(r) \/ QueueForLock(r) \/ EnterLock(r)
  \/ OpenTable(r) \/ TableMissing(r) \/ Decode(r)
  \/ Commit(r) \/ CommitRefused(r) \/ Return(r)
  \/ RunQuery(r) \/ Encode(r)

Next ==
  \E r \in Requests :
    \/ \E q \in Inputs, e \in Engines : Call(r, q, e)
    \/ Poll(r)
    \/ Fail(r)
    \/ Drop(r)

Spec == Init /\ [][Next]_vars

\* Tasks are polled, calls into LanceDB return, blocking tasks run.
FairSpec == Spec /\ \A r \in Requests : WF_vars(Poll(r))

-----------------------------------------------------------------------------

\* A request holds the guard of its table from its admission to its answer, a
\* search to the end of its query; whatever way it ends, nothing stays locked.
GuardScope ==
  \A r \in Requests :
    /\ status[r] = "holding" <=> pc[r] \in Guarded
    /\ pc[r] # "lock" => status[r] \in {"idle", "holding"}

\* While a request is in its table, the table is what the request opened: the
\* schema its payload was decoded under, the version it will report, the rows
\* it reads, over all its awaits and whatever the read consistency interval.
HandleIsCurrent ==
  \A r \in Requests : handle[r] # None /\ pc[r] \in Guarded => handle[r] = db[TableOf(r)]

\* Requests take effect one at a time, between call and answer, and are told
\* what they did.
Linearizable == Store!Spec

\* A request that was answered, refused or dropped has no effect any more: a caller
\* that retries is not overtaken by its own first attempt.
AnsweredIsSettled == Store!AnsweredIsSettled

\* Every request is answered or dropped.
EveryRequestAnswered ==
  \A r \in Requests : pc[r] # "new" ~> pc[r] = "done"

\* "Global max concurrent requests (queues, does not reject)" (README.en.md:146):
\* no more requests are past the semaphore than it has permits.
ConcurrencyLimited ==
  \A e \in Engines :
    Cardinality({r \in Requests : engine[r] = e /\ pc[r] \in Guarded \cup {"permitted", "lock", "encode"}})
      <= MaxConcurrentRequests

-----------------------------------------------------------------------------
(* Why these hold: with LockInv of its locks, the conjuncts below are       *)
(* inductive together, for any number of engines; HandleIsCurrent is       *)
(* inductive with them and the exclusion of TableLocks when there is one.  *)

\* A permit is out exactly while its request is about to drop it.
PermitsCounted ==
  \A e \in Engines :
    LET out == {r \in Requests : pc[r] = "permitted" /\ engine[r] = e}
    IN IsFiniteSet(out) /\ permits[e] + Cardinality(out) = MaxConcurrentRequests

\* What a request asked of its engine's locks is its table, in the mode of its
\* operation.
AskIsInput(r) ==
  status[r] # "idle" =>
    ask[r] = [name |-> <<engine[r], input[r].name>>, mode |-> LockMode(input[r])]

\* How far a request is, and what of it there is by then.
StageOfCall(r) ==
  /\ pc[r] = "new" <=> input[r] = None
  /\ pc[r] = "done" <=> reply[r] # None
  /\ pc[r] \in {"committed", "encode"} => outcome[r] # None
  /\ outcome[r] # None => pc[r] \in {"committed", "encode", "done"}
  /\ pc[r] \notin {"new", "done"} => TableOf(r) # Blank
  /\ pc[r] \in {"open", "decode"} => input[r].op \notin {"create", "drop"}

\* A request that works on an open table has its handle, and an append its answer.
HandleOfStage(r) ==
  /\ pc[r] \in {"new", "permit", "permitted", "lock", "open"} => handle[r] = None
  /\ pc[r] \in {"decode", "commit"} /\ input[r].op \notin {"create", "drop"} =>
       handle[r] # None
  /\ pc[r] = "committed" /\ input[r].op = "append" =>
       handle[r] # None /\ outcome[r].version = handle[r].version

EngineInv ==
  /\ TypeOK
  /\ Locks!LockInv
  /\ GuardScope
  /\ PermitsCounted
  /\ \A r \in Requests : AskIsInput(r) /\ StageOfCall(r) /\ HandleOfStage(r)

\* Nobody else writes the tables of an engine.
OneEngine == \A d, e \in Engines : d = e
=============================================================================
