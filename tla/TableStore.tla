----------------------------- MODULE TableStore -----------------------------
(***************************************************************************)
(* What the engine promises its callers: a store of tables on which every  *)
(* request takes effect at one instant between its call and its answer.    *)
(*                                                                         *)
(* A request that is answered with a result did what the result says, at   *)
(* that instant.  A refused one met a table it could not work on.  One     *)
(* that fails or is dropped after its call may have taken effect or not,   *)
(* and takes none afterwards.                                              *)
(*                                                                         *)
(* The effects are those of LanceDB, which is external: they are modelled  *)
(* as far as the engine's answers show them.                               *)
(***************************************************************************)
EXTENDS Naturals, FiniteSets

CONSTANTS
  Requests,  \* calls; each is made once, a retry is another request
  Inputs,    \* what may be asked, see InputShape
  Names,     \* table names as spelled by the callers
  Trim,      \* the name without surrounding white space
  Blank,     \* the trimmed name that is empty
  Keys,      \* row keys
  Schemas,   \* Arrow schemas
  InitialDbs,\* the databases an engine may be opened on
  None       \* nothing

Ops == {"create", "append", "merge", "delete", "drop", "search"}

\* What the callers send.  `valid` stands for the remaining argument checks of
\* the operation: columns, payload size, vector, condition.  `schema` is the
\* schema to create, or the one the payload decodes under; `keys` the rows of
\* the payload, or those the condition selects.
InputShape == [op : Ops, name : Names, valid : BOOLEAN, overwrite : BOOLEAN,
               schema : Schemas, keys : SUBSET Keys]

\* A row remembers the request that inserted it and the last one that wrote it.
Rows == [key : Keys, origin : Requests, by : Requests]
TableStates == [schema : Schemas, version : Nat, rows : SUBSET Rows]

\* What the callers are told.
Results == [version : Nat, inserted : Nat, touched : Nat, found : SUBSET Rows]
Errors == [error : {"invalid", "refused", "failed", "dropped"}]

VARIABLES
  db,        \* the tables of the database, None where there is none
  input,     \* what each request asked, None before its call
  outcome,   \* the effect a request had, None before it
  reply      \* the answer, None before it

vars == <<db, input, outcome, reply>>

TableOf(q) == Trim[q.name]
Tables == {Trim[n] : n \in Names} \ {Blank}

\* Tables and payloads have finitely many rows.
IsDatabase(d) ==
  /\ d \in [Tables -> TableStates \cup {None}]
  /\ \A t \in Tables : d[t] # None => IsFiniteSet(d[t].rows)

TypeOK ==
  /\ IsDatabase(db)
  /\ input \in [Requests -> Inputs \cup {None}]
  /\ outcome \in [Requests -> Results \cup {None}]
  /\ reply \in [Requests -> Results \cup Errors \cup {None}]

-----------------------------------------------------------------------------
(* LanceDB.                                                                *)

Writes(q) == q.op \in {"append", "merge"} /\ q.keys # {}

\* Whether table t (a table state or None) can serve q.  A payload without rows
\* fits every schema.
Accepts(q, t) ==
  IF q.op = "create" THEN t = None \/ q.overwrite
  ELSE t # None /\ (Writes(q) => t.schema = q.schema)

Fresh(r, q, t) ==
  {[key |-> k, origin |-> r, by |-> r] :
     k \in {k \in q.keys : q.op = "append" \/ \A row \in t.rows : row.key # k}}

\* Rows of t the request selects by key.
Matched(q, t) == {row \in t.rows : row.key \in q.keys}

Updated(r, q, t) == {[row EXCEPT !.by = r] : row \in Matched(q, t)}

\* The rows after an append, a merge or a delete.
RowsAfter(r, q, t) ==
  IF q.op = "append" THEN t.rows \cup Fresh(r, q, t)
  ELSE (t.rows \ Matched(q, t))
         \cup (IF q.op = "merge" THEN Fresh(r, q, t) \cup Updated(r, q, t) ELSE {})

\* The table once r has asked q of it.
After(r, q, t) ==
  IF q.op = "create"
  THEN [schema |-> q.schema, version |-> IF t = None THEN 1 ELSE t.version + 1, rows |-> {}]
  ELSE IF q.op = "drop" THEN None
  ELSE IF Writes(q) \/ q.op = "delete"
  THEN [t EXCEPT !.version = @ + 1, !.rows = RowsAfter(r, q, t)]
  ELSE t

\* What the request is told: the version its write made, the rows it counted,
\* the rows it found.
Result(r, q, t) ==
  [version |-> IF q.op \in {"append", "merge", "delete"} THEN After(r, q, t).version ELSE 0,
   inserted |-> IF q.op \in {"append", "merge"} THEN Cardinality(Fresh(r, q, t)) ELSE 0,
   touched |-> IF q.op \in {"merge", "delete"} THEN Cardinality(Matched(q, t)) ELSE 0,
   found |-> IF q.op = "search" THEN t.rows ELSE {}]

-----------------------------------------------------------------------------

Error(kind) == [error |-> kind]

IsOpen(r) == input[r] # None /\ reply[r] = None

Call(r, q) ==
  /\ input[r] = None
  /\ input' = [input EXCEPT ![r] = q]
  /\ reply' = [reply EXCEPT ![r] = IF q.valid /\ TableOf(q) # Blank THEN None
                                         ELSE Error("invalid")]
  /\ UNCHANGED <<db, outcome>>

\* What r asked happens to its table.
TakeEffect(r) ==
  LET q == input[r]
  IN /\ Accepts(q, db[TableOf(q)])
     /\ db' = [db EXCEPT ![TableOf(q)] = After(r, q, @)]
     /\ outcome' = [outcome EXCEPT ![r] = Result(r, q, db[TableOf(q)])]
     /\ UNCHANGED <<input, reply>>

Apply(r) == IsOpen(r) /\ outcome[r] = None /\ TakeEffect(r)

Answer(r, answer) ==
  /\ IsOpen(r)
  /\ reply' = [reply EXCEPT ![r] = answer]
  /\ UNCHANGED <<db, input, outcome>>

Succeed(r) == outcome[r] # None /\ Answer(r, outcome[r])

Refuse(r) ==
  /\ IsOpen(r)
  /\ outcome[r] = None
  /\ ~ Accepts(input[r], db[TableOf(input[r])])
  /\ Answer(r, Error("refused"))

GiveUp(r) == \E answer \in {"failed", "dropped"} : Answer(r, Error(answer))

Init ==
  /\ db \in InitialDbs
  /\ input = [r \in Requests |-> None]
  /\ outcome = [r \in Requests |-> None]
  /\ reply = [r \in Requests |-> None]

Next ==
  \E r \in Requests :
    \/ \E q \in Inputs : Call(r, q)
    \/ Apply(r)
    \/ Succeed(r)
    \/ Refuse(r)
    \/ GiveUp(r)

Spec == Init /\ [][Next]_vars

-----------------------------------------------------------------------------

\* A request that was answered, refused or given up on has no effect any more: a
\* caller that retries cannot be overtaken by its own first attempt.
AnsweredIsSettled ==
  [][\A r \in Requests : reply[r] # None => outcome'[r] = outcome[r]]_vars
=============================================================================
