------------------------------ MODULE MCEngine ------------------------------
(* One table with two spellings, two schemas, the requests that meet on it. *)
EXTENDS Engine

CONSTANTS docs, docsPadded, blank, k1, k2, s1, s2

MCNames == {docs, docsPadded, blank}
MCTrim == [n \in MCNames |-> IF n = docsPadded THEN docs ELSE n]

Ask(op, name, schema, keys) ==
  [op |-> op, name |-> name, valid |-> TRUE, overwrite |-> FALSE,
   schema |-> schema, keys |-> keys]

Invalid == [Ask("delete", docs, s1, {}) EXCEPT !.valid = FALSE]
Overwrite == [Ask("create", docsPadded, s2, {}) EXCEPT !.overwrite = TRUE]

MCInputs ==
  {Ask("create", docs, s1, {}), Overwrite,
   Ask("append", docs, s1, {k1}), Ask("append", docsPadded, s2, {}),
   Ask("merge", docsPadded, s1, {k1, k2}),
   Ask("delete", docs, s1, {k1}), Invalid,
   Ask("search", docsPadded, s1, {}), Ask("search", blank, s1, {}),
   Ask("drop", docs, s1, {})}

MCWrites == {q \in MCInputs : q.op = "append" /\ q.keys # {}}

\* The second request is a write with a second call for its version, a read, or a
\* write that takes the table away.
MCMix ==
  MCWrites \cup {Ask("search", docsPadded, s1, {}), Ask("drop", docs, s1, {})}

CONSTANTS r1, r2, r3

\* The first request may be any, the third is an append.
Mixed ==
  /\ input'[r2] \in MCMix \cup {None}
  /\ input'[r3] \in MCWrites \cup {None}

MCDbs ==
  {[t \in {docs} |-> t0] :
     t0 \in {None, [schema |-> s1, version |-> 1, rows |-> {}]}}
=============================================================================
