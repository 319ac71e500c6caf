--------------------------- MODULE Engine_proofs ---------------------------
(***************************************************************************)
(* EngineInv is an invariant of Engine, for any requests, tables, limit    *)
(* and number of engines; with one engine, what a request sees of its      *)
(* table stays current, and the engine implements TableStore.              *)
(***************************************************************************)
EXTENDS Engine, FiniteSetTheorems, TLAPS

(***************************************************************************)
(* The locks.  What TableLocks_proofs proves of TableLocks holds for the   *)
(* engine's instance of it.                                                *)
(***************************************************************************)

LockFacts == INSTANCE TableLocks_proofs WITH Clients <- Requests, Names <- EngineNames,
                                             Trim <- EngineTrim

\* The names of the coordinators are trimmed like those of the tables.
LEMMA LockAssumptions == LockFacts!TrimAssumption /\ LockFacts!NoneAssumption
<1>1. EngineTrim \in [EngineNames -> EngineNames]
  BY TrimAssumption DEF EngineTrim, EngineNames
<1>2. \A n \in EngineNames : EngineTrim[EngineTrim[n]] = EngineTrim[n]
  BY TrimAssumption DEF EngineTrim, EngineNames
<1>3. None \notin LockFacts!Asks
  BY NoneAssumption DEF Locks!Asks, LockFacts!Asks, Locks!Modes, LockFacts!Modes
<1> QED  BY <1>1, <1>2, <1>3, NoneAssumption

\* The two instances are one.
LEMMA SameLocks ==
  /\ Locks!LockInv <=> LockFacts!LockInv
  /\ Locks!LockInv' <=> LockFacts!LockInv'
  /\ Locks!TableExclusion <=> LockFacts!TableExclusion
  /\ Locks!Init => LockFacts!Init
  /\ [Locks!Next]_lockVars => [LockFacts!Next]_(LockFacts!vars)
<1> USE DEF Locks!Modes, LockFacts!Modes, Locks!Entries, LockFacts!Entries,
            Locks!Asks, LockFacts!Asks, Locks!Queued, LockFacts!Queued,
            Locks!Table, LockFacts!Table, Locks!IsQueued, LockFacts!IsQueued,
            Locks!IsAdmitted, LockFacts!IsAdmitted, Locks!Admitted, LockFacts!Admitted
<1>1. Locks!LockInv <=> LockFacts!LockInv
  BY DEF Locks!LockInv, LockFacts!LockInv, Locks!TypeOK, LockFacts!TypeOK,
         Locks!EntriesDistinct, LockFacts!EntriesDistinct,
         Locks!ArcIsEntry, LockFacts!ArcIsEntry,
         Locks!EntryOfClient, LockFacts!EntryOfClient,
         Locks!OneEntryEach, LockFacts!OneEntryEach,
         Locks!ClientHasEntry, LockFacts!ClientHasEntry,
         Locks!HolderAdmitted, LockFacts!HolderAdmitted
<1>2. Locks!LockInv' <=> LockFacts!LockInv'
  BY DEF Locks!LockInv, LockFacts!LockInv, Locks!TypeOK, LockFacts!TypeOK,
         Locks!EntriesDistinct, LockFacts!EntriesDistinct,
         Locks!ArcIsEntry, LockFacts!ArcIsEntry,
         Locks!EntryOfClient, LockFacts!EntryOfClient,
         Locks!OneEntryEach, LockFacts!OneEntryEach,
         Locks!ClientHasEntry, LockFacts!ClientHasEntry,
         Locks!HolderAdmitted, LockFacts!HolderAdmitted
<1>3. Locks!TableExclusion <=> LockFacts!TableExclusion
  BY DEF Locks!TableExclusion, LockFacts!TableExclusion, Locks!SameTable, LockFacts!SameTable
<1>4. Locks!Init => LockFacts!Init
  BY DEF Locks!Init, LockFacts!Init
<1>5. [Locks!Next]_lockVars => [LockFacts!Next]_(LockFacts!vars)
  <2> USE DEF Locks!Leave, LockFacts!Leave, Locks!Without, LockFacts!Without,
              Locks!Position, LockFacts!Position, Locks!RemoveAt, LockFacts!RemoveAt
  <2>1. ASSUME NEW r \in Requests, NEW n \in EngineNames, NEW m \in Locks!Modes, Locks!Resolve(r, n, m)
        PROVE  LockFacts!Resolve(r, n, m)
    BY <2>1 DEF Locks!Resolve, LockFacts!Resolve, Locks!LockFor, LockFacts!LockFor,
                Locks!NormalizeTableName, LockFacts!NormalizeTableName,
                Locks!NewLock, LockFacts!NewLock
  <2>2. ASSUME NEW r \in Requests
        PROVE  /\ Locks!Enqueue(r) => LockFacts!Enqueue(r)
               /\ Locks!Enter(r) => LockFacts!Enter(r)
               /\ Locks!Release(r) => LockFacts!Release(r)
               /\ Locks!Abandon(r) => LockFacts!Abandon(r)
    BY DEF Locks!Enqueue, LockFacts!Enqueue, Locks!Enter, LockFacts!Enter,
           Locks!Release, LockFacts!Release, Locks!Abandon, LockFacts!Abandon
  <2>3. Locks!Next => LockFacts!Next
    BY <2>1, <2>2 DEF Locks!Next, LockFacts!Next
  <2> QED  BY <2>3 DEF LockFacts!vars, lockVars
<1> QED  BY <1>1, <1>2, <1>3, <1>4, <1>5

\* The locks keep their invariant over whatever the engine does with them.
LEMMA LocksKeepInv == Locks!LockInv /\ [Locks!Next]_lockVars => Locks!LockInv'
BY LockAssumptions, SameLocks, LockFacts!NextKeepsLockInv

\* Writers of the engine have their tables to themselves.
LEMMA LocksExclude == Locks!LockInv => Locks!TableExclusion
BY LockAssumptions, SameLocks, LockFacts!LockInvExcludes

\* What a request does to the locks when it leaves them.
LEMMA LeavingLocks ==
  ASSUME Locks!TypeOK, NEW r \in Requests, Locks!Release(r) \/ Locks!Abandon(r)
  PROVE  /\ [Locks!Next]_lockVars
         /\ status'[r] = "idle"
         /\ \A s \in Requests : s # r => status'[s] = status[s] /\ ask'[s] = ask[s]
<1>1. [Locks!Next]_lockVars
  BY DEF Locks!Next
<1> QED  BY <1>1 DEF Locks!Release, Locks!Abandon, Locks!Leave, Locks!TypeOK

(***************************************************************************)
(* The tables.                                                             *)
(***************************************************************************)

\* TableStore counts as this module does.
LEMMA SameSets ==
  ASSUME NEW S
  PROVE  Store!Cardinality(S) = Cardinality(S) /\ (Store!IsFiniteSet(S) <=> IsFiniteSet(S))
BY DEF Store!Cardinality, Cardinality, Store!IsFiniteSet, IsFiniteSet

\* The values of a function on a finite set are finitely many.
LEMMA FiniteImage ==
  ASSUME NEW S, IsFiniteSet(S), NEW T, NEW f \in [S -> T], \A y \in T : \E x \in S : f[x] = y
  PROVE  IsFiniteSet(T)
<1>1. f \in Surjection(S, T)
  BY DEF Surjection
<1> QED  BY <1>1, FS_Surjection

\* Rows a request adds or updates are rows, finitely many.
LEMMA RowsAreTyped ==
  ASSUME NEW r \in Requests, NEW q \in Inputs,
         NEW t \in Store!TableStates, IsFiniteSet(t.rows)
  PROVE  /\ Store!Fresh(r, q, t) \in SUBSET Store!Rows /\ IsFiniteSet(Store!Fresh(r, q, t))
         /\ Store!Matched(q, t) \in SUBSET Store!Rows /\ IsFiniteSet(Store!Matched(q, t))
         /\ Store!RowsAfter(r, q, t) \in SUBSET Store!Rows
         /\ IsFiniteSet(Store!RowsAfter(r, q, t))
<1>1. q \in Store!InputShape /\ q.keys \subseteq Keys /\ IsFiniteSet(q.keys)
  BY InputsAssumption DEF Store!InputShape
<1>2. t.rows \in SUBSET Store!Rows
  BY DEF Store!TableStates
<1>3. Store!Matched(q, t) \in SUBSET t.rows /\ IsFiniteSet(Store!Matched(q, t))
  BY FS_Subset DEF Store!Matched
<1>4. Store!Fresh(r, q, t) \in SUBSET Store!Rows /\ IsFiniteSet(Store!Fresh(r, q, t))
  <2> DEFINE keys == {k \in q.keys : q.op = "append" \/ \A row \in t.rows : row.key # k}
             made(k) == [key |-> k, origin |-> r, by |-> r]
  <2>1. Store!Fresh(r, q, t) = {made(k) : k \in keys}
    BY DEF Store!Fresh
  <2>2. IsFiniteSet(keys) /\ keys \subseteq Keys
    BY <1>1, FS_Subset
  <2>3. IsFiniteSet({made(k) : k \in keys})
    <3> DEFINE f == [k \in keys |-> made(k)]
    <3> HIDE DEF keys, made
    <3>1. f \in [keys -> {made(k) : k \in keys}]
      OBVIOUS
    <3>2. \A y \in {made(k) : k \in keys} : \E k \in keys : f[k] = y
      OBVIOUS
    <3> HIDE DEF f
    <3> QED  BY <2>2, <3>1, <3>2, FiniteImage
  <2>4. {made(k) : k \in keys} \subseteq Store!Rows
    BY <2>2 DEF Store!Rows
  <2> QED  BY <2>1, <2>3, <2>4
<1>5. Store!Updated(r, q, t) \in SUBSET Store!Rows /\ IsFiniteSet(Store!Updated(r, q, t))
  <2> DEFINE rows == Store!Matched(q, t)
             written(row) == [row EXCEPT !.by = r]
  <2>1. Store!Updated(r, q, t) = {written(row) : row \in rows}
    BY DEF Store!Updated
  <2>2. IsFiniteSet({written(row) : row \in rows})
    <3> DEFINE f == [row \in rows |-> written(row)]
    <3>1. IsFiniteSet(rows)
      BY <1>3
    <3> HIDE DEF rows, written
    <3>2. f \in [rows -> {written(row) : row \in rows}]
      OBVIOUS
    <3>3. \A y \in {written(row) : row \in rows} : \E row \in rows : f[row] = y
      OBVIOUS
    <3> HIDE DEF f
    <3> QED  BY <3>1, <3>2, <3>3, FiniteImage
  <2>3. {written(row) : row \in rows} \subseteq Store!Rows
    BY <1>2, <1>3 DEF Store!Rows
  <2> QED  BY <2>1, <2>2, <2>3
<1>6. IsFiniteSet(t.rows \ Store!Matched(q, t))
  BY FS_Difference
<1>7. /\ IsFiniteSet(t.rows \cup Store!Fresh(r, q, t))
      /\ IsFiniteSet(Store!Fresh(r, q, t) \cup Store!Updated(r, q, t))
      /\ IsFiniteSet((t.rows \ Store!Matched(q, t))
                       \cup (Store!Fresh(r, q, t) \cup Store!Updated(r, q, t)))
      /\ (t.rows \ Store!Matched(q, t)) \cup {} = t.rows \ Store!Matched(q, t)
  BY <1>4, <1>5, <1>6, FS_Union
<1> QED  BY <1>2, <1>3, <1>4, <1>5, <1>6, <1>7 DEF Store!RowsAfter

\* A table that serves a request is a table afterwards, or dropped; an append is
\* told the version it made, a search leaves the table as it was.
LEMMA EffectIsTyped ==
  ASSUME NEW r \in Requests, NEW q \in Inputs,
         NEW t \in Store!TableStates \cup {None}, t # None => IsFiniteSet(t.rows),
         Store!Accepts(q, t)
  PROVE  /\ Store!After(r, q, t) \in Store!TableStates \cup {None}
         /\ Store!After(r, q, t) # None => IsFiniteSet(Store!After(r, q, t).rows)
         /\ Store!Result(r, q, t) \in Store!Results
         /\ q.op = "append" =>
              /\ Store!After(r, q, t) # None
              /\ Store!Result(r, q, t).version = Store!After(r, q, t).version
         /\ q.op = "search" => t # None /\ Store!After(r, q, t) = t
<1> DEFINE after == Store!After(r, q, t)
<1>1. q \in Store!InputShape /\ q.op \in Store!Ops /\ q.schema \in Schemas
  BY InputsAssumption DEF Store!InputShape
<1>2. CASE q.op = "create"
  <2>1. after \in Store!TableStates /\ after.rows = {}
    BY <1>1, <1>2 DEF Store!After, Store!TableStates
  <2>2. IsFiniteSet({})
    BY FS_EmptySet
  <2>3. Store!Result(r, q, t) = [version |-> 0, inserted |-> 0, touched |-> 0, found |-> {}]
    BY <1>2 DEF Store!Result
  <2> QED  BY <1>2, <2>1, <2>2, <2>3 DEF Store!Results
<1>3. CASE q.op = "drop"
  BY <1>3 DEF Store!After, Store!Result, Store!Results
<1>4. CASE q.op \in {"append", "merge", "delete", "search"}
  <2>1. t \in Store!TableStates /\ t # None /\ IsFiniteSet(t.rows)
    BY <1>4 DEF Store!Accepts
  <2>2. t.rows \in SUBSET Store!Rows /\ t.version \in Nat
    BY <2>1 DEF Store!TableStates
  <2>3. /\ Store!Cardinality(Store!Fresh(r, q, t)) \in Nat
        /\ Store!Cardinality(Store!Matched(q, t)) \in Nat
    BY <2>1, RowsAreTyped, SameSets, FS_CardinalityType
  <2>4. after \in Store!TableStates /\ IsFiniteSet(after.rows)
    <3>1. CASE Store!Writes(q) \/ q.op = "delete"
      <4>1. after = [t EXCEPT !.version = @ + 1, !.rows = Store!RowsAfter(r, q, t)]
        BY <1>4, <3>1 DEF Store!After
      <4>2. /\ Store!RowsAfter(r, q, t) \in SUBSET Store!Rows
            /\ IsFiniteSet(Store!RowsAfter(r, q, t))
        BY <2>1, RowsAreTyped
      <4>3. after = [schema |-> t.schema, version |-> t.version + 1,
                     rows |-> Store!RowsAfter(r, q, t)]
        BY <2>1, <4>1 DEF Store!TableStates
      <4> HIDE DEF after
      <4>4. t.schema \in Schemas
        BY <2>1 DEF Store!TableStates
      <4> QED  BY <2>2, <4>2, <4>3, <4>4 DEF Store!TableStates
    <3>2. CASE ~ (Store!Writes(q) \/ q.op = "delete")
      BY <1>4, <2>1, <3>2 DEF Store!After
    <3> QED  BY <3>1, <3>2
  <2>5. after # None
    BY <2>4, NoneAssumption
  <2>6. Store!Result(r, q, t) \in Store!Results
    <3>1. after.version \in Nat
      BY <2>4 DEF Store!TableStates
    <3> QED  BY <2>2, <2>3, <3>1 DEF Store!Result, Store!Results
  <2>7. q.op = "append" => Store!Result(r, q, t).version = after.version
    BY DEF Store!Result
  <2>8. q.op = "search" => after = t
    BY DEF Store!After, Store!Writes
  <2> QED  BY <2>1, <2>4, <2>5, <2>6, <2>7, <2>8
<1> QED  BY <1>1, <1>2, <1>3, <1>4 DEF Store!Ops

(***************************************************************************)
(* One request at a time.                                                  *)
(***************************************************************************)

\* What EngineInv says of one request.
Consistent(r) ==
  /\ status[r] = "holding" <=> pc[r] \in Guarded
  /\ pc[r] # "lock" => status[r] \in {"idle", "holding"}
  /\ AskIsInput(r)
  /\ StageOfCall(r)
  /\ HandleOfStage(r)

Unmoved(s) ==
  /\ pc'[s] = pc[s] /\ engine'[s] = engine[s] /\ handle'[s] = handle[s]
  /\ input'[s] = input[s] /\ outcome'[s] = outcome[s] /\ reply'[s] = reply[s]
  /\ status'[s] = status[s] /\ ask'[s] = ask[s]

\* The state of the tasks.
TasksOK ==
  /\ pc \in [Requests -> Unlocked \cup Guarded]
  /\ engine \in [Requests -> Engines]
  /\ permits \in [Engines -> 0 .. MaxConcurrentRequests]
  /\ handle \in [Requests -> Store!TableStates \cup {None}]

\* EngineInv request by request: what the tasks, the store and the locks keep, and
\* what each request keeps of itself.
LEMMA InvParts ==
  EngineInv <=> /\ TasksOK /\ Store!TypeOK /\ Locks!LockInv /\ PermitsCounted
                /\ \A r \in Requests : Consistent(r)
BY DEF EngineInv, TypeOK, TasksOK, GuardScope, Consistent, Locks!LockInv

\* What is known of the input of a request that was made, and of its table.
LEMMA InputFacts ==
  ASSUME EngineInv, NEW r \in Requests, pc[r] # "new"
  PROVE  /\ input[r] \in Inputs /\ input[r] # None
         /\ input[r].op \in Store!Ops /\ input[r].name \in Names
         /\ TableOf(r) = Trim[input[r].name]
         /\ pc[r] # "done" => /\ TableOf(r) \in Store!Tables
                              /\ db[TableOf(r)] \in Store!TableStates \cup {None}
                              /\ db[TableOf(r)] # None => IsFiniteSet(db[TableOf(r)].rows)
<1>1. Consistent(r) /\ Store!TypeOK
  BY InvParts
<1>2. input[r] \in Inputs /\ input[r] # None
  BY <1>1 DEF Consistent, StageOfCall, Store!TypeOK
<1>3. input[r].op \in Store!Ops /\ input[r].name \in Names
  BY <1>2, InputsAssumption DEF Store!InputShape
<1>4. TableOf(r) = Trim[input[r].name]
  BY DEF TableOf, Store!TableOf
<1>5. pc[r] # "done" => TableOf(r) \in Store!Tables
  BY <1>1, <1>3, <1>4 DEF Consistent, StageOfCall, Store!Tables
<1> QED  BY <1>1, <1>2, <1>3, <1>4, <1>5, SameSets DEF Store!TypeOK, Store!IsDatabase

\* A step of one request keeps the invariant if it keeps the count of the permits
\* and what the invariant says of that request.
LEMMA OneMoves ==
  ASSUME EngineInv, NEW r \in Requests,
         [Locks!Next]_lockVars,
         TasksOK', Store!TypeOK', Consistent(r)', PermitsCounted',
         \A s \in Requests : s # r => Unmoved(s)
  PROVE  EngineInv'
<1>1. Locks!LockInv'
  BY LocksKeepInv DEF EngineInv
<1>2. ASSUME NEW s \in Requests
      PROVE  Consistent(s)'
  <2>1. CASE s = r
    BY <2>1
  <2>2. CASE s # r
    <3>1. Consistent(s)
      BY InvParts
    <3> QED  BY <2>2, <3>1
          DEF Consistent, Unmoved, AskIsInput, StageOfCall, HandleOfStage, TableOf
  <2> QED  BY <2>1, <2>2
<1> QED  BY <1>1, <1>2
    DEF EngineInv, TypeOK, TasksOK, GuardScope, Consistent, Locks!LockInv

\* A step that has nothing to do with permits keeps their count.
LEMMA OneWorks ==
  ASSUME EngineInv, NEW r \in Requests,
         [Locks!Next]_lockVars,
         TasksOK', Store!TypeOK', Consistent(r)',
         permits' = permits, pc[r] # "permitted", pc'[r] # "permitted",
         \A s \in Requests : s # r => Unmoved(s)
  PROVE  EngineInv'
<1>1. \A s \in Requests, e \in Engines :
        pc'[s] = "permitted" /\ engine'[s] = e <=> pc[s] = "permitted" /\ engine[s] = e
  BY DEF Unmoved
<1>2. \A e \in Engines :
        {s \in Requests : pc'[s] = "permitted" /\ engine'[s] = e}
          = {s \in Requests : pc[s] = "permitted" /\ engine[s] = e}
  BY <1>1
<1>3. PermitsCounted'
  BY <1>2 DEF EngineInv, PermitsCounted
<1> QED  BY <1>3, OneMoves

\* The end of a request, answered or dropped, wherever it is: at the locks, in its
\* table, or past it.
LEMMA EndKeepsInv ==
  ASSUME EngineInv, NEW r \in Requests, pc[r] \notin {"new", "permitted", "done"},
         NEW answer \in Store!Results \cup Store!Errors,
         reply' = [reply EXCEPT ![r] = answer],
         pc' = [pc EXCEPT ![r] = "done"],
         UNCHANGED <<db, input, outcome, engine, permits, handle>>,
         \/ Locks!Release(r) \/ Locks!Abandon(r)
         \/ UNCHANGED lockVars /\ status[r] = "idle"
  PROVE  EngineInv'
<1>1. TasksOK /\ Store!TypeOK /\ Consistent(r) /\ Locks!TypeOK
  BY InvParts DEF Locks!LockInv
<1>2. /\ [Locks!Next]_lockVars
      /\ status'[r] = "idle"
      /\ \A s \in Requests : s # r => status'[s] = status[s] /\ ask'[s] = ask[s]
  <2>1. CASE Locks!Release(r) \/ Locks!Abandon(r)
    BY <2>1, <1>1, LeavingLocks
  <2>2. CASE UNCHANGED lockVars /\ status[r] = "idle"
    BY <2>2 DEF lockVars
  <2> QED  BY <2>1, <2>2
<1>3. answer # None
  BY NoneAssumption
<1>4. TasksOK'
  BY <1>1 DEF TasksOK, Unlocked
<1>5. Store!TypeOK'
  BY <1>1 DEF Store!TypeOK
<1>6. Consistent(r)'
  BY <1>1, <1>2, <1>3
  DEF Consistent, AskIsInput, StageOfCall, HandleOfStage, TasksOK, Store!TypeOK, Guarded, TableOf
<1>7. \A s \in Requests : s # r => Unmoved(s)
  BY <1>1, <1>2 DEF Unmoved, TasksOK, Store!TypeOK
<1>8. permits' = permits /\ pc'[r] # "permitted"
  BY <1>1 DEF TasksOK
<1> QED  BY <1>2, <1>4, <1>5, <1>6, <1>7, <1>8, OneWorks

\* Finish drops the guard of a request that has one.
LEMMA FinishKeepsInv ==
  ASSUME EngineInv, NEW r \in Requests, pc[r] \in Guarded \cup {"encode"},
         NEW answer \in Store!Results \cup Store!Errors, Finish(r, answer)
  PROVE  EngineInv'
<1>1. Consistent(r)
  BY InvParts
<1>2. /\ reply' = [reply EXCEPT ![r] = answer]
      /\ pc' = [pc EXCEPT ![r] = "done"]
      /\ UNCHANGED <<db, input, outcome, engine, permits, handle>>
      /\ IF pc[r] \in Guarded THEN Locks!Release(r) ELSE UNCHANGED lockVars
  BY DEF Finish, Goto
<1>3. pc[r] \notin Guarded => status[r] = "idle"
  BY <1>1 DEF Consistent, Guarded
<1>4. pc[r] \notin {"new", "permitted", "done"}
  BY DEF Guarded
<1> QED  BY <1>2, <1>3, <1>4, EndKeepsInv

\* An error is an answer.
LEMMA ErrorsAreAnswers ==
  \A kind \in {"invalid", "refused", "failed", "dropped"} :
    Store!Error(kind) \in Store!Errors
BY DEF Store!Error, Store!Errors

\* What a handle shows is a table.
LEMMA ViewsAreTables ==
  ASSUME EngineInv, NEW r \in Requests, pc[r] \notin {"new", "done"}, NEW view \in Views(r)
  PROVE  view \in Store!TableStates /\ view # None
BY InputFacts, InvParts DEF Views, TasksOK

\* A call begins without a guard, a handle or an outcome.
LEMMA CallKeepsInv ==
  ASSUME EngineInv, NEW r \in Requests, NEW q \in Inputs, NEW e \in Engines, Call(r, q, e)
  PROVE  EngineInv'
<1>1. TasksOK /\ Store!TypeOK /\ Consistent(r)
  BY InvParts
<1>2. /\ pc[r] = "new" /\ input[r] = None
      /\ input' = [input EXCEPT ![r] = q]
      /\ reply' = [reply EXCEPT ![r] = IF q.valid /\ Store!TableOf(q) # Blank THEN None
                                         ELSE Store!Error("invalid")]
      /\ pc' = [pc EXCEPT ![r] = IF reply'[r] = None THEN "permit" ELSE "done"]
      /\ engine' = [engine EXCEPT ![r] = e]
      /\ UNCHANGED <<db, outcome, lockVars, permits, handle>>
  BY DEF Call, Goto, Store!Call
<1>3. q # None /\ Store!Error("invalid") # None
  BY NoneAssumption, InputsAssumption, ErrorsAreAnswers
<1>4. reply'[r] # None => reply'[r] \in Store!Errors
  BY <1>1, <1>2, ErrorsAreAnswers DEF Store!TypeOK
<1>5. reply'[r] = None => Store!TableOf(q) # Blank
  BY <1>1, <1>2, <1>3 DEF Store!TypeOK
<1>6. TasksOK'
  BY <1>1, <1>2 DEF TasksOK, Unlocked
<1>7. Store!TypeOK'
  BY <1>1, <1>2, ErrorsAreAnswers DEF Store!TypeOK
<1>8. pc'[r] = IF reply'[r] = None THEN "permit" ELSE "done"
  BY <1>1, <1>2 DEF TasksOK
<1>9. Consistent(r)'
  <2>1. status'[r] = status[r] /\ status[r] = "idle" /\ handle'[r] = None /\ outcome'[r] = None
    BY <1>1, <1>2 DEF Consistent, StageOfCall, HandleOfStage, Guarded, lockVars
  <2>2. input'[r] = q /\ TableOf(r)' = Store!TableOf(q)
    BY <1>1, <1>2 DEF Store!TypeOK, TableOf, Store!TableOf
  <2> QED  BY <1>3, <1>5, <1>8, <2>1, <2>2
        DEF Consistent, AskIsInput, StageOfCall, HandleOfStage, Guarded
<1>10. \A s \in Requests : s # r => Unmoved(s)
  BY <1>1, <1>2 DEF Unmoved, TasksOK, Store!TypeOK, lockVars
<1>11. permits' = permits /\ pc'[r] # "permitted"
  BY <1>2, <1>8
<1> QED  BY <1>2, <1>6, <1>7, <1>9, <1>10, <1>11, OneWorks

\* The permit that a request takes is counted until it drops it.
LEMMA AcquireKeepsInv ==
  ASSUME EngineInv, NEW r \in Requests, AcquirePermit(r)
  PROVE  EngineInv'
<1> DEFINE out(e) == {s \in Requests : pc[s] = "permitted" /\ engine[s] = e}
<1>1. TasksOK /\ Store!TypeOK /\ Consistent(r) /\ PermitsCounted
  BY InvParts
<1>2. /\ pc[r] = "permit" /\ permits[engine[r]] > 0
      /\ permits' = [permits EXCEPT ![engine[r]] = @ - 1]
      /\ pc' = [pc EXCEPT ![r] = "permitted"]
      /\ UNCHANGED <<storeVars, lockVars, engine, handle>>
  BY DEF AcquirePermit, Goto
<1>3. \A s \in Requests : s # r => Unmoved(s)
  BY <1>1, <1>2 DEF Unmoved, TasksOK, storeVars, lockVars
<1>4. TasksOK'
  BY <1>1, <1>2, LimitAssumption DEF TasksOK, Unlocked
<1>5. Store!TypeOK'
  BY <1>1, <1>2 DEF Store!TypeOK, storeVars
<1>6. Consistent(r)'
  BY <1>1, <1>2
  DEF Consistent, AskIsInput, StageOfCall, HandleOfStage, TasksOK, Guarded, TableOf, storeVars, lockVars
<1>7. PermitsCounted'
  <2> SUFFICES ASSUME NEW e \in Engines
               PROVE  IsFiniteSet(out(e)') /\ permits'[e] + Cardinality(out(e)') = MaxConcurrentRequests
    BY DEF PermitsCounted
  <2>1. IsFiniteSet(out(e)) /\ permits[e] + Cardinality(out(e)) = MaxConcurrentRequests
    BY <1>1 DEF PermitsCounted
  <2>2. Cardinality(out(e)) \in Nat /\ permits[e] \in Nat
    BY <2>1, <1>1, LimitAssumption, FS_CardinalityType DEF TasksOK
  <2>3. CASE engine[r] = e
    <3>1. out(e)' = out(e) \cup {r} /\ r \notin out(e)
      BY <2>3, <1>1, <1>2 DEF TasksOK
    <3>2. permits'[e] = permits[e] - 1
      BY <2>3, <1>1, <1>2 DEF TasksOK
    <3> HIDE DEF out
    <3>3. IsFiniteSet(out(e)') /\ Cardinality(out(e)') = Cardinality(out(e)) + 1
      BY <2>1, <3>1, FS_AddElement
    <3> QED  BY <2>1, <2>2, <3>2, <3>3, LimitAssumption
  <2>4. CASE engine[r] # e
    <3>1. out(e)' = out(e) /\ permits'[e] = permits[e]
      BY <2>4, <1>1, <1>2 DEF TasksOK
    <3> QED  BY <2>1, <3>1
  <2> QED  BY <2>3, <2>4
<1> QED  BY <1>2, <1>3, <1>4, <1>5, <1>6, <1>7, OneMoves

\* The permit that is given back is the one that was counted.
LEMMA DropPermitKeepsInv ==
  ASSUME EngineInv, NEW r \in Requests, DropPermit(r)
  PROVE  EngineInv'
<1> DEFINE out(e) == {s \in Requests : pc[s] = "permitted" /\ engine[s] = e}
<1>1. TasksOK /\ Store!TypeOK /\ Consistent(r) /\ PermitsCounted
  BY InvParts
<1>2. /\ pc[r] = "permitted"
      /\ permits' = [permits EXCEPT ![engine[r]] = @ + 1]
      /\ pc' = [pc EXCEPT ![r] = "lock"]
      /\ UNCHANGED <<storeVars, lockVars, engine, handle>>
  BY DEF DropPermit, Goto
<1>3. \A s \in Requests : s # r => Unmoved(s)
  BY <1>1, <1>2 DEF Unmoved, TasksOK, storeVars, lockVars
<1>4. PermitsCounted' /\ permits'[engine[r]] <= MaxConcurrentRequests
  <2> DEFINE mine == engine[r]
  <2>1. ASSUME NEW e \in Engines
        PROVE  /\ IsFiniteSet(out(e)') /\ permits'[e] + Cardinality(out(e)') = MaxConcurrentRequests
               /\ Cardinality(out(e)') \in Nat /\ permits'[e] \in Int
    <3>1. IsFiniteSet(out(e)) /\ permits[e] + Cardinality(out(e)) = MaxConcurrentRequests
      BY <1>1 DEF PermitsCounted
    <3>2. Cardinality(out(e)) \in Nat /\ permits[e] \in Nat
      BY <3>1, <1>1, LimitAssumption, FS_CardinalityType DEF TasksOK
    <3>3. CASE engine[r] = e
      <4>1. out(e)' = out(e) \ {r} /\ r \in out(e)
        BY <3>3, <1>1, <1>2 DEF TasksOK
      <4>2. permits'[e] = permits[e] + 1
        BY <3>3, <1>1, <1>2 DEF TasksOK
      <4> HIDE DEF out
      <4>3. IsFiniteSet(out(e)') /\ Cardinality(out(e)') = Cardinality(out(e)) - 1
        BY <3>1, <4>1, FS_RemoveElement
      <4>4. Cardinality(out(e)') \in Nat
        BY <4>3, FS_CardinalityType
      <4> QED  BY <3>1, <3>2, <4>2, <4>3, <4>4, LimitAssumption
    <3>4. CASE engine[r] # e
      <4>1. out(e)' = out(e) /\ permits'[e] = permits[e]
        BY <3>4, <1>1, <1>2 DEF TasksOK
      <4> QED  BY <3>1, <3>2, <4>1
    <3> QED  BY <3>3, <3>4
  <2>2. PermitsCounted'
    BY <2>1 DEF PermitsCounted
  <2>3. mine \in Engines
    BY <1>1 DEF TasksOK
  <2> HIDE DEF out, mine
  <2>4. permits'[mine] <= MaxConcurrentRequests
    BY <2>1, <2>3, LimitAssumption
  <2> QED  BY <2>2, <2>4 DEF mine
<1>5. TasksOK'
  BY <1>1, <1>2, <1>4, LimitAssumption DEF TasksOK, Unlocked
<1>6. Store!TypeOK'
  BY <1>1, <1>2 DEF Store!TypeOK, storeVars
<1>7. Consistent(r)'
  BY <1>1, <1>2
  DEF Consistent, AskIsInput, StageOfCall, HandleOfStage, TasksOK, Guarded, TableOf, storeVars, lockVars
<1> QED  BY <1>2, <1>3, <1>4, <1>5, <1>6, <1>7, OneMoves

\* A request asks the locks of its engine for its table.
LEMMA LookUpKeepsInv ==
  ASSUME EngineInv, NEW r \in Requests, LookUpLock(r)
  PROVE  EngineInv'
<1>1. TasksOK /\ Store!TypeOK /\ Consistent(r) /\ Locks!TypeOK
  BY InvParts DEF Locks!LockInv
<1>2. /\ pc[r] = "lock"
      /\ Locks!Resolve(r, <<engine[r], input[r].name>>, LockMode(input[r]))
      /\ UNCHANGED <<storeVars, pc, engine, permits, handle>>
  BY DEF LookUpLock
<1>3. /\ status' = [status EXCEPT ![r] = "resolved"]
      /\ ask' = [ask EXCEPT ![r] = [name |-> <<engine[r], input[r].name>>,
                                    mode |-> LockMode(input[r])]]
  BY <1>2 DEF Locks!Resolve
<1>4. [Locks!Next]_lockVars
  <2>1. <<engine[r], input[r].name>> \in EngineNames
    BY <1>1, <1>2, InputFacts DEF EngineNames, TasksOK
  <2>2. LockMode(input[r]) \in Locks!Modes
    BY DEF LockMode, Locks!Modes
  <2> QED  BY <1>2, <2>1, <2>2 DEF Locks!Next
<1>5. Consistent(r)'
  BY <1>1, <1>2, <1>3
  DEF Consistent, AskIsInput, StageOfCall, HandleOfStage, Locks!TypeOK, Guarded, TableOf, storeVars
<1>6. \A s \in Requests : s # r => Unmoved(s)
  BY <1>1, <1>2, <1>3 DEF Unmoved, Locks!TypeOK, storeVars
<1>7. TasksOK' /\ Store!TypeOK'
  BY <1>1, <1>2 DEF TasksOK, Store!TypeOK, storeVars
<1> QED  BY <1>2, <1>4, <1>5, <1>6, <1>7, OneWorks

\* A request waits for its lock without having touched anything.
LEMMA QueueKeepsInv ==
  ASSUME EngineInv, NEW r \in Requests, QueueForLock(r)
  PROVE  EngineInv'
<1>1. TasksOK /\ Store!TypeOK /\ Consistent(r) /\ Locks!TypeOK
  BY InvParts DEF Locks!LockInv
<1>2. /\ pc[r] = "lock" /\ Locks!Enqueue(r)
      /\ UNCHANGED <<storeVars, pc, engine, permits, handle>>
  BY DEF QueueForLock
<1>3. status[r] = "resolved" /\ status' = [status EXCEPT ![r] = "waiting"] /\ ask' = ask
  BY <1>2 DEF Locks!Enqueue
<1>4. [Locks!Next]_lockVars
  BY <1>2 DEF Locks!Next
<1>5. Consistent(r)'
  BY <1>1, <1>2, <1>3
  DEF Consistent, AskIsInput, StageOfCall, HandleOfStage, Locks!TypeOK, Guarded, TableOf, storeVars
<1>6. \A s \in Requests : s # r => Unmoved(s)
  BY <1>1, <1>2, <1>3 DEF Unmoved, Locks!TypeOK, storeVars
<1>7. TasksOK' /\ Store!TypeOK'
  BY <1>1, <1>2 DEF TasksOK, Store!TypeOK, storeVars
<1> QED  BY <1>2, <1>4, <1>5, <1>6, <1>7, OneWorks

\* A request that is admitted has its guard, and no handle yet.
LEMMA EnterKeepsInv ==
  ASSUME EngineInv, NEW r \in Requests, EnterLock(r)
  PROVE  EngineInv'
<1>1. TasksOK /\ Store!TypeOK /\ Consistent(r) /\ Locks!TypeOK
  BY InvParts DEF Locks!LockInv
<1>2. /\ pc[r] = "lock" /\ Locks!Enter(r)
      /\ pc' = [pc EXCEPT ![r] = IF input[r].op \in {"create", "drop"} THEN "commit" ELSE "open"]
      /\ UNCHANGED <<storeVars, engine, permits, handle>>
  BY DEF EnterLock, Goto
<1>3. status[r] = "waiting" /\ status' = [status EXCEPT ![r] = "holding"] /\ ask' = ask
  BY <1>2 DEF Locks!Enter
<1>4. [Locks!Next]_lockVars
  BY <1>2 DEF Locks!Next
<1>5. Consistent(r)'
  BY <1>1, <1>2, <1>3
  DEF Consistent, AskIsInput, StageOfCall, HandleOfStage, Locks!TypeOK, TasksOK, Guarded, TableOf, storeVars
<1>6. \A s \in Requests : s # r => Unmoved(s)
  BY <1>1, <1>2, <1>3 DEF Unmoved, Locks!TypeOK, TasksOK, storeVars
<1>7. TasksOK' /\ Store!TypeOK'
  BY <1>1, <1>2 DEF TasksOK, Store!TypeOK, storeVars, Guarded
<1>8. pc'[r] # "permitted"
  BY <1>1, <1>2 DEF TasksOK
<1> QED  BY <1>2, <1>4, <1>5, <1>6, <1>7, <1>8, OneWorks

\* The handle is on the table that is there.
LEMMA OpenKeepsInv ==
  ASSUME EngineInv, NEW r \in Requests, OpenTable(r)
  PROVE  EngineInv'
<1>1. TasksOK /\ Store!TypeOK /\ Consistent(r)
  BY InvParts
<1>2. /\ pc[r] = "open" /\ db[TableOf(r)] # None
      /\ handle' = [handle EXCEPT ![r] = db[TableOf(r)]]
      /\ pc' = [pc EXCEPT ![r] = IF input[r].op \in {"append", "merge"} THEN "decode" ELSE "commit"]
      /\ UNCHANGED <<storeVars, lockVars, engine, permits>>
  BY DEF OpenTable, Goto
<1>3. db[TableOf(r)] \in Store!TableStates
  BY <1>2, InputFacts
<1>4. TasksOK' /\ Store!TypeOK'
  BY <1>1, <1>2, <1>3 DEF TasksOK, Store!TypeOK, storeVars, Guarded
<1>5. Consistent(r)'
  BY <1>1, <1>2
  DEF Consistent, AskIsInput, StageOfCall, HandleOfStage, TasksOK, Guarded, TableOf, storeVars, lockVars
<1>6. \A s \in Requests : s # r => Unmoved(s)
  BY <1>1, <1>2 DEF Unmoved, TasksOK, storeVars, lockVars
<1>7. permits' = permits /\ pc'[r] # "permitted" /\ [Locks!Next]_lockVars
  BY <1>1, <1>2 DEF TasksOK
<1> QED  BY <1>2, <1>4, <1>5, <1>6, <1>7, OneWorks

\* Decoding changes nothing but how far the request is.
LEMMA DecodeKeepsInv ==
  ASSUME EngineInv, NEW r \in Requests, Decode(r)
  PROVE  EngineInv'
<1>1. TasksOK /\ Store!TypeOK /\ Consistent(r)
  BY InvParts
<1>2. CASE Finish(r, Store!Error("refused"))
  BY <1>2, ErrorsAreAnswers, FinishKeepsInv DEF Decode, Guarded
<1>3. CASE Goto(r, "commit") /\ UNCHANGED <<storeVars, lockVars, engine, permits, handle>>
  <2>1. pc[r] = "decode" /\ pc' = [pc EXCEPT ![r] = "commit"]
    BY <1>3 DEF Decode, Goto
  <2>2. TasksOK' /\ Store!TypeOK'
    BY <1>1, <1>3, <2>1 DEF TasksOK, Store!TypeOK, storeVars, Guarded
  <2>3. Consistent(r)'
    BY <1>1, <1>3, <2>1
    DEF Consistent, AskIsInput, StageOfCall, HandleOfStage, TasksOK, Guarded, TableOf, storeVars, lockVars
  <2>4. \A s \in Requests : s # r => Unmoved(s)
    BY <1>1, <1>3, <2>1 DEF Unmoved, TasksOK, storeVars, lockVars
  <2>5. permits' = permits /\ pc'[r] # "permitted" /\ [Locks!Next]_lockVars
    BY <1>1, <1>3, <2>1 DEF TasksOK
  <2> QED  BY <2>1, <2>2, <2>3, <2>4, <2>5, OneWorks
<1> QED  BY <1>2, <1>3 DEF Decode

\* The write leaves a table, or none, and its outcome; its handle follows it.
LEMMA CommitKeepsInv ==
  ASSUME EngineInv, NEW r \in Requests, Commit(r)
  PROVE  EngineInv'
<1> DEFINE q == input[r]
           t == db[TableOf(r)]
<1>1. TasksOK /\ Store!TypeOK /\ Consistent(r)
  BY InvParts
<1>2. /\ pc[r] = "commit" /\ q.op # "search"
      /\ Store!Accepts(q, t)
      /\ db' = [db EXCEPT ![TableOf(r)] = Store!After(r, q, t)]
      /\ outcome' = [outcome EXCEPT ![r] = Store!Result(r, q, t)]
      /\ handle' = [handle EXCEPT ![r] = db'[TableOf(r)]]
      /\ pc' = [pc EXCEPT ![r] = "committed"]
      /\ UNCHANGED <<input, reply, lockVars, engine, permits>>
  BY DEF Commit, Goto, Store!TakeEffect, TableOf
<1>3. /\ TableOf(r) \in Store!Tables /\ q \in Inputs
      /\ t \in Store!TableStates \cup {None}
      /\ t # None => IsFiniteSet(t.rows)
  BY <1>2, InputFacts
<1>4. /\ Store!After(r, q, t) \in Store!TableStates \cup {None}
      /\ Store!After(r, q, t) # None => IsFiniteSet(Store!After(r, q, t).rows)
      /\ Store!Result(r, q, t) \in Store!Results
      /\ q.op = "append" =>
           /\ Store!After(r, q, t) # None
           /\ Store!Result(r, q, t).version = Store!After(r, q, t).version
  BY <1>2, <1>3, EffectIsTyped
<1>5. /\ db'[TableOf(r)] = Store!After(r, q, t)
      /\ \A u \in Store!Tables : u # TableOf(r) => db'[u] = db[u]
      /\ db' \in [Store!Tables -> Store!TableStates \cup {None}]
  BY <1>1, <1>2, <1>3, <1>4 DEF Store!TypeOK, Store!IsDatabase
<1> HIDE DEF q, t
<1>6. Store!TypeOK'
  <2>1. Store!IsDatabase(db)'
    <3>1. \A u \in Store!Tables : db'[u] # None => Store!IsFiniteSet(db'[u].rows)
      BY <1>1, <1>4, <1>5, SameSets DEF Store!TypeOK, Store!IsDatabase
    <3> QED  BY <1>5, <3>1 DEF Store!IsDatabase
  <2> QED  BY <1>1, <1>2, <1>4, <2>1 DEF Store!TypeOK
<1>7. TasksOK'
  BY <1>1, <1>2, <1>4, <1>5 DEF TasksOK, Guarded
<1>8. Consistent(r)'
  <2>1. /\ pc'[r] = "committed" /\ handle'[r] = Store!After(r, q, t)
        /\ outcome'[r] = Store!Result(r, q, t) /\ outcome'[r] # None
        /\ status'[r] = status[r] /\ ask'[r] = ask[r] /\ engine'[r] = engine[r]
        /\ input' = input /\ reply' = reply
    BY <1>1, <1>2, <1>4, <1>5, NoneAssumption DEF TasksOK, Store!TypeOK, lockVars
  <2> QED  BY <1>1, <1>2, <1>4, <2>1
      DEF Consistent, AskIsInput, StageOfCall, HandleOfStage, Guarded, TableOf, q
<1>9. \A s \in Requests : s # r => Unmoved(s)
  BY <1>1, <1>2 DEF Unmoved, TasksOK, Store!TypeOK, lockVars
<1>10. permits' = permits /\ pc'[r] # "permitted" /\ [Locks!Next]_lockVars
  BY <1>1, <1>2 DEF TasksOK
<1> QED  BY <1>2, <1>6, <1>7, <1>8, <1>9, <1>10, OneWorks

\* A search gives its guard up with its result.
LEMMA QueryKeepsInv ==
  ASSUME EngineInv, NEW r \in Requests, RunQuery(r)
  PROVE  EngineInv'
<1>1. TasksOK /\ Store!TypeOK /\ Consistent(r) /\ Locks!TypeOK
  BY InvParts DEF Locks!LockInv
<1>2. PICK view \in Views(r) : outcome' = [outcome EXCEPT ![r] = Store!Result(r, input[r], view)]
  BY DEF RunQuery
<1>3. /\ pc[r] = "commit" /\ input[r].op = "search"
      /\ pc' = [pc EXCEPT ![r] = "encode"]
      /\ Locks!Release(r)
      /\ UNCHANGED <<db, input, reply, engine, permits, handle>>
  BY DEF RunQuery, Goto
<1>4. /\ [Locks!Next]_lockVars
      /\ status'[r] = "idle"
      /\ \A s \in Requests : s # r => status'[s] = status[s] /\ ask'[s] = ask[s]
  BY <1>1, <1>3, LeavingLocks
<1>5. Store!Result(r, input[r], view) \in Store!Results
  <2>1. view \in Store!TableStates
    BY <1>3, ViewsAreTables
  <2>2. view.rows \in SUBSET Store!Rows
    BY <2>1 DEF Store!TableStates
  <2>3. Store!Result(r, input[r], view)
          = [version |-> 0, inserted |-> 0, touched |-> 0, found |-> view.rows]
    BY <1>3 DEF Store!Result
  <2> QED  BY <2>2, <2>3 DEF Store!Results
<1>6. TasksOK' /\ Store!TypeOK'
  BY <1>1, <1>2, <1>3, <1>5 DEF TasksOK, Store!TypeOK, Unlocked
<1>7. Consistent(r)'
  <2>1. pc'[r] = "encode" /\ outcome'[r] # None
    BY <1>1, <1>2, <1>3, <1>5, NoneAssumption DEF TasksOK, Store!TypeOK
  <2> QED  BY <1>1, <1>3, <1>4, <2>1
      DEF Consistent, AskIsInput, StageOfCall, HandleOfStage, Guarded, TableOf
<1>8. \A s \in Requests : s # r => Unmoved(s)
  BY <1>1, <1>2, <1>3, <1>4 DEF Unmoved, TasksOK, Store!TypeOK
<1>9. permits' = permits /\ pc'[r] # "permitted"
  BY <1>1, <1>3 DEF TasksOK
<1> QED  BY <1>3, <1>4, <1>6, <1>7, <1>8, <1>9, OneWorks

\* What a call that committed answers is a result.
LEMMA ReturnKeepsInv ==
  ASSUME EngineInv, NEW r \in Requests, Return(r) \/ Encode(r)
  PROVE  EngineInv'
<1>1. pc[r] \in {"committed", "encode"}
  BY DEF Return, Encode
<1>2. outcome[r] \in Store!Results
  <2>1. Store!TypeOK /\ Consistent(r)
    BY InvParts
  <2> QED  BY <1>1, <2>1 DEF Consistent, StageOfCall, Store!TypeOK
<1>3. CASE Finish(r, outcome[r])
  BY <1>1, <1>2, <1>3, FinishKeepsInv DEF Guarded
<1>4. CASE \E view \in Views(r) : Finish(r, [outcome[r] EXCEPT !.version = view.version])
  <2>1. PICK view \in Views(r) : Finish(r, [outcome[r] EXCEPT !.version = view.version])
    BY <1>4
  <2>2. view.version \in Nat
    BY <1>1, ViewsAreTables DEF Store!TableStates
  <2>3. [outcome[r] EXCEPT !.version = view.version] \in Store!Results
    BY <1>2, <2>2 DEF Store!Results
  <2> QED  BY <1>1, <2>1, <2>3, FinishKeepsInv DEF Guarded
<1> QED  BY <1>3, <1>4 DEF Return, Encode

\* Every step of the engine keeps its invariant.
LEMMA NextKeepsEngineInv == EngineInv /\ [Next]_vars => EngineInv'
<1> SUFFICES ASSUME EngineInv, [Next]_vars PROVE EngineInv'
  OBVIOUS
<1>1. ASSUME NEW r \in Requests, NEW q \in Inputs, NEW e \in Engines, Call(r, q, e)
      PROVE  EngineInv'
  BY <1>1, CallKeepsInv
<1>2. ASSUME NEW r \in Requests, AcquirePermit(r) \/ DropPermit(r)
      PROVE  EngineInv'
  BY <1>2, AcquireKeepsInv, DropPermitKeepsInv
<1>3. ASSUME NEW r \in Requests, LookUpLock(r) \/ QueueForLock(r) \/ EnterLock(r)
      PROVE  EngineInv'
  BY <1>3, LookUpKeepsInv, QueueKeepsInv, EnterKeepsInv
<1>4. ASSUME NEW r \in Requests, OpenTable(r) \/ Decode(r) \/ Commit(r) \/ RunQuery(r)
      PROVE  EngineInv'
  BY <1>4, OpenKeepsInv, DecodeKeepsInv, CommitKeepsInv, QueryKeepsInv
<1>5. ASSUME NEW r \in Requests, TableMissing(r) \/ CommitRefused(r) \/ Fail(r)
      PROVE  EngineInv'
  BY <1>5, ErrorsAreAnswers, FinishKeepsInv DEF TableMissing, CommitRefused, Fail, Guarded
<1>6. ASSUME NEW r \in Requests, Return(r) \/ Encode(r)
      PROVE  EngineInv'
  BY <1>6, ReturnKeepsInv
<1>7. ASSUME NEW r \in Requests, Drop(r)
      PROVE  EngineInv'
  <2>1. Consistent(r)
    BY InvParts
  <2>2. pc[r] \in {"permit", "encode"} => status[r] = "idle"
    BY <2>1 DEF Consistent, Guarded
  <2> QED  BY <1>7, <2>2, ErrorsAreAnswers, EndKeepsInv DEF Drop, Goto, Guarded
<1>8. CASE UNCHANGED vars
  <2>1. /\ db' = db /\ input' = input /\ outcome' = outcome /\ reply' = reply
        /\ status' = status /\ ask' = ask /\ lockVars' = lockVars
        /\ pc' = pc /\ engine' = engine /\ permits' = permits /\ handle' = handle
    BY <1>8 DEF vars, storeVars, lockVars
  <2>2. Locks!LockInv'
    BY <2>1, LocksKeepInv DEF EngineInv
  <2>3. TasksOK' /\ Store!TypeOK' /\ PermitsCounted'
    BY <2>1, InvParts DEF TasksOK, Store!TypeOK, PermitsCounted
  <2>4. \A r \in Requests : Consistent(r)'
    BY <2>1, InvParts DEF Consistent, AskIsInput, StageOfCall, HandleOfStage, TableOf
  <2> QED  BY <2>2, <2>3, <2>4
      DEF EngineInv, TypeOK, TasksOK, GuardScope, Consistent, Locks!LockInv
<1> QED  BY <1>1, <1>2, <1>3, <1>4, <1>5, <1>6, <1>7, <1>8 DEF Next, Poll

\* A new engine has free permits, no lock and no request.
LEMMA InitEngineInv == Init => EngineInv
<1> SUFFICES ASSUME Init PROVE EngineInv
  OBVIOUS
<1>1. /\ db \in InitialDbs
      /\ input = [r \in Requests |-> None] /\ outcome = [r \in Requests |-> None]
      /\ reply = [r \in Requests |-> None] /\ handle = [r \in Requests |-> None]
      /\ pc = [r \in Requests |-> "new"]
      /\ engine = [r \in Requests |-> CHOOSE e \in Engines : TRUE]
      /\ permits = [e \in Engines |-> MaxConcurrentRequests]
      /\ status = [r \in Requests |-> "idle"]
  BY DEF Init, Store!Init, Locks!Init
<1>2. Locks!LockInv
  BY LockAssumptions, SameLocks, LockFacts!InitLockInv DEF Init
<1>3. TasksOK
  <2>1. (CHOOSE e \in Engines : TRUE) \in Engines
    BY EnginesAssumption
  <2> QED  BY <1>1, <2>1, LimitAssumption DEF TasksOK, Unlocked
<1>4. Store!TypeOK
  BY <1>1, DatabasesAssumption DEF Store!TypeOK
<1>5. PermitsCounted
  <2>1. ASSUME NEW e \in Engines
        PROVE  {r \in Requests : pc[r] = "permitted" /\ engine[r] = e} = {}
    BY <1>1
  <2>2. \A e \in Engines : permits[e] + 0 = MaxConcurrentRequests
    BY <1>1, LimitAssumption
  <2> QED  BY <2>1, <2>2, FS_EmptySet DEF PermitsCounted
<1>6. \A r \in Requests : Consistent(r)
  BY <1>1 DEF Consistent, AskIsInput, StageOfCall, HandleOfStage, Guarded
<1> QED  BY <1>2, <1>3, <1>4, <1>5, <1>6, InvParts

\* The inductive invariant of the engine.
THEOREM EngineInvariant == Spec => []EngineInv
BY InitEngineInv, NextKeepsEngineInv, PTL DEF Spec

\* The engine keeps its types, those of its tables and locks included: the permits
\* are never fewer than none nor more than there were.
THEOREM TypeCorrect == Spec => []TypeOK
<1>1. EngineInv => TypeOK
  BY DEF EngineInv
<1> QED  BY <1>1, EngineInvariant, PTL

\* However a request ends, answered, failed or dropped at any await, its guard ends
\* with it and not before.
THEOREM GuardsAreScoped == Spec => []GuardScope
<1>1. EngineInv => GuardScope
  BY DEF EngineInv
<1> QED  BY <1>1, EngineInvariant, PTL

(***************************************************************************)
(* The engine and its locks.                                               *)
(***************************************************************************)

\* What a step of the engine does to the locks is a step of the locks.
LEMMA StepOfLocks == EngineInv /\ [Next]_vars => [Locks!Next]_lockVars
<1> SUFFICES ASSUME EngineInv, Next PROVE [Locks!Next]_lockVars
  BY DEF vars
<1> PICK r \in Requests :
      (\E q \in Inputs, e \in Engines : Call(r, q, e)) \/ Poll(r) \/ Fail(r) \/ Drop(r)
  BY DEF Next
<1>1. CASE \E q \in Inputs, e \in Engines : Call(r, q, e)
  BY <1>1 DEF Call
<1>2. CASE LookUpLock(r)
  <2>1. <<engine[r], input[r].name>> \in EngineNames
    BY <1>2, InputFacts, InvParts DEF LookUpLock, EngineNames, TasksOK
  <2>2. LockMode(input[r]) \in Locks!Modes
    BY DEF LockMode, Locks!Modes
  <2> QED  BY <1>2, <2>1, <2>2 DEF LookUpLock, Locks!Next
<1>3. CASE QueueForLock(r) \/ EnterLock(r) \/ RunQuery(r)
  BY <1>3 DEF QueueForLock, EnterLock, RunQuery, Locks!Next
<1>4. CASE \E answer : Finish(r, answer)
  BY <1>4 DEF Finish, Locks!Next
<1>5. CASE AcquirePermit(r) \/ DropPermit(r) \/ OpenTable(r) \/ Commit(r)
  BY <1>5 DEF AcquirePermit, DropPermit, OpenTable, Commit
<1>6. CASE TableMissing(r) \/ Decode(r) \/ CommitRefused(r) \/ Return(r) \/ Encode(r) \/ Fail(r)
  BY <1>4, <1>6 DEF TableMissing, Decode, CommitRefused, Return, Encode, Fail
<1>7. CASE Drop(r)
  BY <1>7 DEF Drop, Locks!Next
<1> QED  BY <1>1, <1>2, <1>3, <1>5, <1>6, <1>7 DEF Poll

\* The engine uses its locks as TableLocks describes, so what is proved of TableLocks
\* holds in the engine.
THEOREM EngineUsesLocks == Spec => Locks!Spec
<1>1. Init => Locks!Init
  BY DEF Init
<1>2. EngineInv /\ [Next]_vars => [Locks!Next]_(Locks!vars)
  BY StepOfLocks DEF lockVars, Locks!vars
<1> QED  BY <1>1, <1>2, EngineInvariant, PTL DEF Spec, Locks!Spec

(***************************************************************************)
(* One engine: nobody else writes its tables.                              *)
(***************************************************************************)

\* A request in its table and another that writes the same table are not there
\* together.
LEMMA WritersAreAlone ==
  ASSUME OneEngine, EngineInv, NEW r \in Requests, NEW s \in Requests, r # s,
         pc[r] \in Guarded, pc[s] \in Guarded, TableOf(r) = TableOf(s)
  PROVE  input[r].op = "search" /\ input[s].op = "search"
<1>1. Locks!TableExclusion /\ TasksOK /\ Consistent(r) /\ Consistent(s)
  BY InvParts, LocksExclude
<1>2. /\ status[r] = "holding" /\ status[s] = "holding"
      /\ ask[r] = [name |-> <<engine[r], input[r].name>>, mode |-> LockMode(input[r])]
      /\ ask[s] = [name |-> <<engine[s], input[s].name>>, mode |-> LockMode(input[s])]
  BY <1>1 DEF Consistent, AskIsInput
<1>3. /\ input[r].name \in Names /\ TableOf(r) = Trim[input[r].name]
      /\ input[s].name \in Names /\ TableOf(s) = Trim[input[s].name]
  BY InputFacts DEF Guarded
<1>4. /\ engine[r] \in Engines /\ engine[r] = engine[s]
  BY <1>1 DEF TasksOK, OneEngine
<1>5. Locks!SameTable(r, s)
  <2>1. ASSUME NEW e \in Engines, NEW n \in Names
        PROVE  EngineTrim[<<e, n>>] = <<e, Trim[n]>>
    BY DEF EngineTrim, EngineNames
  <2>2. /\ EngineTrim[ask[r].name] = <<engine[r], TableOf(r)>>
        /\ EngineTrim[ask[s].name] = <<engine[s], TableOf(s)>>
    <3>1. /\ ask[r].name = <<engine[r], input[r].name>>
          /\ ask[s].name = <<engine[s], input[s].name>>
      BY <1>2
    <3>2. /\ EngineTrim[<<engine[r], input[r].name>>] = <<engine[r], Trim[input[r].name]>>
          /\ EngineTrim[<<engine[s], input[s].name>>] = <<engine[s], Trim[input[s].name]>>
      BY <1>3, <1>4, <2>1
    <3> QED  BY <1>3, <3>1, <3>2
  <2> QED  BY <1>4, <2>2 DEF Locks!SameTable, Locks!Table
<1>6. ask[r].mode = "read" /\ ask[s].mode = "read"
  BY <1>1, <1>2, <1>5 DEF Locks!TableExclusion
<1> QED  BY <1>2, <1>6 DEF LockMode

\* Only a commit changes a table, and a commit changes its own.
LEMMA TablesChangeByCommit ==
  ASSUME EngineInv, Next, NEW t \in Store!Tables, db'[t] # db[t]
  PROVE  \E s \in Requests : Commit(s) /\ TableOf(s) = t
<1>1. PICK s \in Requests :
        (\E q \in Inputs, e \in Engines : Call(s, q, e)) \/ Poll(s) \/ Fail(s) \/ Drop(s)
  BY DEF Next
<1>2. Commit(s)
  <2>1. ~ \E answer : Finish(s, answer)
    BY DEF Finish
  <2> QED  BY <1>1, <2>1
    DEF Poll, Call, Store!Call, AcquirePermit, DropPermit, LookUpLock, QueueForLock, EnterLock,
        OpenTable, TableMissing, Decode, CommitRefused, Return, RunQuery, Encode, Fail, Drop,
        storeVars
<1>3. db' = [db EXCEPT ![TableOf(s)] = Store!After(s, input[s], db[TableOf(s)])]
  BY <1>2 DEF Commit, Store!TakeEffect, TableOf
<1>4. db \in [Store!Tables -> Store!TableStates \cup {None}]
  BY DEF EngineInv, TypeOK, Store!TypeOK, Store!IsDatabase
<1> QED  BY <1>2, <1>3, <1>4

\* A request keeps its input, and its handle while the table it is on cannot change.
LEMMA HandleStaysCurrent ==
  OneEngine /\ EngineInv /\ HandleIsCurrent /\ [Next]_vars => HandleIsCurrent'
<1> SUFFICES ASSUME OneEngine, EngineInv, HandleIsCurrent, [Next]_vars,
                    NEW r \in Requests, handle'[r] # None, pc'[r] \in Guarded
             PROVE  handle'[r] = db'[TableOf(r)']
  BY DEF HandleIsCurrent
<1>1. TasksOK /\ Store!TypeOK /\ Consistent(r)
  BY InvParts
<1>2. CASE UNCHANGED vars
  BY <1>2 DEF HandleIsCurrent, TableOf, vars, storeVars
<1>3. CASE OpenTable(r)
  BY <1>1, <1>3 DEF OpenTable, TableOf, TasksOK, storeVars
<1>4. CASE Commit(r)
  BY <1>1, <1>4 DEF Commit, Store!TakeEffect, TableOf, TasksOK
<1>5. CASE Next /\ ~ OpenTable(r) /\ ~ Commit(r)
  <2>1. handle'[r] = handle[r] /\ input'[r] = input[r] /\ pc[r] \in Guarded
    <3>1. \A s \in Requests :
            /\ (\E answer : Finish(s, answer)) =>
                 s # r /\ handle'[r] = handle[r] /\ input'[r] = input[r] /\ pc'[r] = pc[r]
            /\ (\E q \in Inputs, e \in Engines : Call(s, q, e)) =>
                 s # r /\ handle'[r] = handle[r] /\ input'[r] = input[r] /\ pc'[r] = pc[r]
      BY <1>1 DEF Finish, Call, Store!Call, Goto, TasksOK, Store!TypeOK, Guarded
    <3>2. PICK s \in Requests :
            (\E q \in Inputs, e \in Engines : Call(s, q, e)) \/ Poll(s) \/ Fail(s) \/ Drop(s)
      BY <1>5 DEF Next
    <3>3. CASE LookUpLock(s) \/ QueueForLock(s) \/ AcquirePermit(s) \/ DropPermit(s)
      BY <1>1, <3>3 DEF LookUpLock, QueueForLock, AcquirePermit, DropPermit, Goto,
                        TasksOK, storeVars, Guarded
    <3>4. CASE EnterLock(s)
      <4>1. CASE s = r
        BY <1>1, <3>4, <4>1 DEF EnterLock, Consistent, HandleOfStage, Goto
      <4>2. CASE s # r
        BY <1>1, <3>4, <4>2 DEF EnterLock, Goto, TasksOK, storeVars
      <4> QED  BY <4>1, <4>2
    <3>5. CASE OpenTable(s) \/ Commit(s) \/ RunQuery(s)
      BY <1>1, <1>5, <3>5 DEF OpenTable, Commit, Store!TakeEffect, RunQuery, Goto,
                              TasksOK, storeVars, Guarded
    <3>6. CASE Decode(s) \/ Drop(s)
      BY <1>1, <3>1, <3>6 DEF Decode, Drop, Goto, TasksOK, storeVars, Guarded
    <3> QED  BY <3>1, <3>2, <3>3, <3>4, <3>5, <3>6
        DEF Poll, TableMissing, CommitRefused, Return, Encode, Fail
  <2>2. handle[r] = db[TableOf(r)] /\ TableOf(r)' = TableOf(r)
    BY <2>1 DEF HandleIsCurrent, TableOf, Store!TableOf
  <2>3. TableOf(r) \in Store!Tables
    BY <2>1, InputFacts DEF Guarded
  <2>4. ASSUME db'[TableOf(r)] # db[TableOf(r)]
        PROVE  FALSE
    <3>1. PICK s \in Requests : Commit(s) /\ TableOf(s) = TableOf(r)
      BY <1>5, <2>3, <2>4, TablesChangeByCommit
    <3>2. s # r /\ pc[s] \in Guarded /\ input[s].op # "search"
      BY <1>5, <3>1 DEF Commit, Guarded
    <3> QED  BY <2>1, <3>1, <3>2, WritersAreAlone
  <2> QED  BY <2>1, <2>2, <2>4
<1> QED  BY <1>2, <1>3, <1>4, <1>5

\* What a request sees of its table, over all its awaits, is the table, whoever else
\* is admitted, queued or dropped, and whatever version its handle shows.
THEOREM HandlesAreCurrent == ASSUME OneEngine PROVE Spec => []HandleIsCurrent
<1>1. Init => HandleIsCurrent
  BY DEF Init, HandleIsCurrent
<1>2. EngineInv /\ HandleIsCurrent /\ [Next]_vars => HandleIsCurrent'
  BY HandleStaysCurrent
<1> QED  BY <1>1, <1>2, EngineInvariant, PTL DEF Spec

(***************************************************************************)
(* The engine and the store it promises.                                   *)
(***************************************************************************)

\* A request at work is open, and has an outcome once it has taken effect.
LEMMA RequestIsOpen ==
  ASSUME EngineInv, NEW r \in Requests, pc[r] \notin {"new", "done"}
  PROVE  /\ Store!IsOpen(r)
         /\ outcome[r] = None <=> pc[r] \notin {"committed", "encode"}
BY InvParts DEF Consistent, StageOfCall, Store!IsOpen

\* With a current handle there is one view of a table: the table.
LEMMA ViewIsTable ==
  ASSUME EngineInv, HandleIsCurrent, NEW r \in Requests, pc[r] \in Guarded,
         handle[r] # None, NEW view \in Views(r)
  PROVE  view = db[TableOf(r)] /\ view = handle[r]
BY DEF HandleIsCurrent, Views

\* An error other than a refusal is a request given up.
LEMMA ErrorGivesUp ==
  ASSUME EngineInv, NEW r \in Requests, pc[r] \notin {"new", "done"},
         NEW kind \in {"failed", "dropped"},
         reply' = [reply EXCEPT ![r] = Store!Error(kind)],
         UNCHANGED <<db, input, outcome>>
  PROVE  Store!GiveUp(r)
BY RequestIsOpen DEF Store!GiveUp, Store!Answer

\* A refusal is one of the table as it is.
LEMMA RefusalIsRefuse ==
  ASSUME EngineInv, NEW r \in Requests, pc[r] \in {"open", "decode", "commit"},
         ~ Store!Accepts(input[r], db[TableOf(r)]), Finish(r, Store!Error("refused"))
  PROVE  Store!Refuse(r)
BY RequestIsOpen DEF Store!Refuse, Store!Answer, Finish, TableOf

\* A query whose view is the table takes effect as the store says.
LEMMA QueryIsApply ==
  ASSUME EngineInv, HandleIsCurrent, NEW r \in Requests, RunQuery(r)
  PROVE  Store!Apply(r)
<1> DEFINE q == input[r]
           t == db[TableOf(r)]
<1>1. /\ pc[r] = "commit" /\ q.op = "search"
      /\ UNCHANGED <<db, input, reply>>
  BY DEF RunQuery
<1>2. Store!TypeOK /\ Consistent(r)
  BY InvParts
<1>3. /\ TableOf(r) \in Store!Tables /\ q \in Inputs
      /\ t \in Store!TableStates \cup {None}
      /\ t # None => IsFiniteSet(t.rows)
  BY <1>1, InputFacts
<1>4. handle[r] # None
  BY <1>1, <1>2 DEF Consistent, HandleOfStage
<1>5. PICK view \in Views(r) : outcome' = [outcome EXCEPT ![r] = Store!Result(r, q, view)]
  BY DEF RunQuery
<1>6. view = t /\ t # None
  BY <1>1, <1>4, <1>5, ViewIsTable DEF Guarded
<1>7. Store!Accepts(q, t)
  BY <1>1, <1>6 DEF Store!Accepts, Store!Writes
<1>8. Store!After(r, q, t) = t
  BY <1>1, <1>3, <1>7, EffectIsTyped
<1>9. db' = [db EXCEPT ![TableOf(r)] = Store!After(r, q, @)]
  BY <1>1, <1>2, <1>3, <1>8 DEF Store!TypeOK, Store!IsDatabase
<1>10. Store!IsOpen(r) /\ outcome[r] = None
  BY <1>1, RequestIsOpen
<1> QED  BY <1>1, <1>5, <1>6, <1>7, <1>9, <1>10 DEF Store!Apply, Store!TakeEffect, TableOf

\* The version an append asks for in a call of its own is the one it made.
LEMMA ReturnIsSucceed ==
  ASSUME EngineInv, HandleIsCurrent, NEW r \in Requests, Return(r) \/ Encode(r)
  PROVE  Store!Succeed(r)
<1>1. Store!TypeOK /\ Consistent(r)
  BY InvParts
<1>2. pc[r] \in {"committed", "encode"} /\ outcome[r] # None /\ Store!IsOpen(r)
  BY RequestIsOpen DEF Return, Encode
<1>3. Finish(r, outcome[r])
  <2>1. CASE Return(r) /\ input[r].op = "append"
    <3>1. PICK view \in Views(r) : Finish(r, [outcome[r] EXCEPT !.version = view.version])
      BY <2>1 DEF Return
    <3>2. handle[r] # None /\ outcome[r].version = handle[r].version /\ pc[r] \in Guarded
      BY <1>1, <2>1 DEF Return, Consistent, HandleOfStage, Guarded
    <3>3. view = handle[r]
      BY <3>2, ViewIsTable
    <3>4. outcome[r] \in Store!Results
      BY <1>1, <1>2 DEF Store!TypeOK
    <3>5. [outcome[r] EXCEPT !.version = view.version] = outcome[r]
      BY <3>2, <3>3, <3>4 DEF Store!Results
    <3> QED  BY <3>1, <3>5
  <2>2. CASE ~ (Return(r) /\ input[r].op = "append")
    BY <2>2 DEF Return, Encode
  <2> QED  BY <2>1, <2>2
<1> QED  BY <1>2, <1>3 DEF Store!Succeed, Store!Answer, Finish

\* Every step of the engine is one of the store, or none.
LEMMA StepOfStore ==
  EngineInv /\ HandleIsCurrent /\ [Next]_vars => [Store!Next]_(Store!vars)
<1> SUFFICES ASSUME EngineInv, HandleIsCurrent, [Next]_vars
             PROVE  [Store!Next]_(Store!vars)
  OBVIOUS
<1>1. ASSUME NEW r \in Requests, NEW q \in Inputs, NEW e \in Engines, Call(r, q, e)
      PROVE  Store!Next
  BY <1>1 DEF Call, Store!Next
<1>2. ASSUME NEW r \in Requests,
             \/ AcquirePermit(r) \/ DropPermit(r) \/ LookUpLock(r) \/ QueueForLock(r)
             \/ EnterLock(r) \/ OpenTable(r)
      PROVE  UNCHANGED Store!vars
  BY <1>2 DEF AcquirePermit, DropPermit, LookUpLock, QueueForLock, EnterLock, OpenTable,
              storeVars, Store!vars
<1>3. ASSUME NEW r \in Requests, TableMissing(r)
      PROVE  Store!Next
  <2>1. pc[r] = "open" /\ db[TableOf(r)] = None /\ Finish(r, Store!Error("refused"))
    BY <1>3 DEF TableMissing
  <2>2. input[r].op # "create"
    BY <2>1, InvParts DEF Consistent, StageOfCall
  <2>3. ~ Store!Accepts(input[r], db[TableOf(r)])
    BY <2>1, <2>2 DEF Store!Accepts
  <2> QED  BY <2>1, <2>3, RefusalIsRefuse DEF Store!Next
<1>4. ASSUME NEW r \in Requests, Decode(r)
      PROVE  [Store!Next]_(Store!vars)
  <2>1. CASE UNCHANGED storeVars
    BY <2>1 DEF storeVars, Store!vars
  <2>2. CASE /\ \E view \in Views(r) : ~ Store!Accepts(input[r], view)
             /\ Finish(r, Store!Error("refused"))
    <3>1. PICK view \in Views(r) : ~ Store!Accepts(input[r], view)
      BY <2>2
    <3>2. pc[r] = "decode"
      BY <1>4 DEF Decode
    <3>3. handle[r] # None
      BY <3>2, InvParts DEF Consistent, HandleOfStage, StageOfCall
    <3>4. view = db[TableOf(r)]
      BY <3>1, <3>2, <3>3, ViewIsTable DEF Guarded
    <3> QED  BY <2>2, <3>1, <3>2, <3>4, RefusalIsRefuse DEF Store!Next
  <2> QED  BY <1>4, <2>1, <2>2 DEF Decode
<1>5. ASSUME NEW r \in Requests, Commit(r)
      PROVE  Store!Next
  <2>1. Store!IsOpen(r) /\ outcome[r] = None
    BY <1>5, RequestIsOpen DEF Commit
  <2> QED  BY <1>5, <2>1 DEF Commit, Store!Apply, Store!Next
<1>6. ASSUME NEW r \in Requests, CommitRefused(r)
      PROVE  Store!Next
  BY <1>6, RefusalIsRefuse DEF CommitRefused, Store!Next
<1>7. ASSUME NEW r \in Requests, RunQuery(r)
      PROVE  Store!Next
  BY <1>7, QueryIsApply DEF Store!Next
<1>8. ASSUME NEW r \in Requests, Return(r) \/ Encode(r)
      PROVE  Store!Next
  BY <1>8, ReturnIsSucceed DEF Store!Next
<1>9. ASSUME NEW r \in Requests, Fail(r) \/ Drop(r)
      PROVE  Store!Next
  <2>1. Store!GiveUp(r)
    BY <1>9, ErrorGivesUp DEF Fail, Drop, Finish, Guarded
  <2> QED  BY <2>1 DEF Store!Next
<1>10. CASE UNCHANGED vars
  BY <1>10 DEF vars, storeVars, Store!vars
<1> QED  BY <1>1, <1>2, <1>3, <1>4, <1>5, <1>6, <1>7, <1>8, <1>9, <1>10 DEF Next, Poll

\* The engine is linearizable: over all awaits, cancellations and errors, requests take
\* effect one at a time between call and answer, and are told what they did.
THEOREM EngineIsLinearizable == ASSUME OneEngine PROVE Spec => Linearizable
<1>1. Init => Store!Init
  BY DEF Init
<1>2. EngineInv /\ HandleIsCurrent /\ [Next]_vars => [Store!Next]_(Store!vars)
  BY StepOfStore
<1> QED  BY <1>1, <1>2, EngineInvariant, HandlesAreCurrent, PTL
    DEF Spec, Linearizable, Store!Spec

\* A request that was answered or dropped has no effect any more, on any number of
\* engines: a retry is not overtaken by its own first attempt.
THEOREM AnswersAreSettled == Spec => AnsweredIsSettled
<1>1. EngineInv /\ [Next]_vars =>
        [\A r \in Requests : reply[r] # None => outcome'[r] = outcome[r]]_(Store!vars)
  <2> SUFFICES ASSUME EngineInv, Next, NEW r \in Requests, reply[r] # None
               PROVE  outcome'[r] = outcome[r]
    BY DEF vars, storeVars, Store!vars
  <2>1. pc[r] = "done" /\ Store!TypeOK
    BY InvParts DEF Consistent, StageOfCall
  <2>2. PICK s \in Requests :
          (\E q \in Inputs, e \in Engines : Call(s, q, e)) \/ Poll(s) \/ Fail(s) \/ Drop(s)
    BY DEF Next
  <2>3. CASE Commit(s) \/ RunQuery(s)
    BY <2>1, <2>3 DEF Commit, Store!TakeEffect, RunQuery, Store!TypeOK
  <2>4. CASE ~ (Commit(s) \/ RunQuery(s))
    <3>1. (\E answer : Finish(s, answer)) => outcome' = outcome
      BY DEF Finish
    <3> QED  BY <2>2, <2>4, <3>1
        DEF Poll, Call, Store!Call, AcquirePermit, DropPermit, LookUpLock, QueueForLock,
            EnterLock, OpenTable, TableMissing, Decode, CommitRefused, Return, Encode, Fail,
            Drop, storeVars
  <2> QED  BY <2>3, <2>4
<1> QED  BY <1>1, EngineInvariant, PTL DEF Spec, AnsweredIsSettled, Store!AnsweredIsSettled
=============================================================================
