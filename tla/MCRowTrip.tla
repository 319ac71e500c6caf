------------------------------ MODULE MCRowTrip ------------------------------
(* Integers of 3 to 6 bits; floats of 5 and 2 bits of precision, in eighths, *)
(* the wider reaching further at both ends.  The numbers of f32 are eight    *)
(* steps of f64 apart, so that a text misread by two more than the nearest   *)
(* is still nearest to its f32; the real ones are 2^29 apart.                *)
EXTENDS RowTrip

MCI64 == -32 .. 31
MCU64 == 0 .. 63
MCI32 == -4 .. 3
MCU32 == 0 .. 7

MCF64 == 0 .. 31 \cup {step * m : step \in {2, 4, 8, 16, 32}, m \in 16 .. 31}
MCBeyond == {1024, 1088, 1152}
MCF32 == {0, 8, 16, 24, 32, 48, 64, 96}
MCShort == {16 * n : n \in 0 .. 15}

Define(type, dim, nullable) == [type |-> type, dim |-> dim, nullable |-> nullable]

MCDefinitions ==
  {Define(type, 0, nullable) : type \in ColumnTypes \ {"bool"}, nullable \in {TRUE, Omitted}}
    \cup {Define("bool", 0, FALSE)}
    \cup {Define("vector_float32", dim, nullable) : dim \in {1, 2, 5}, nullable \in {TRUE, FALSE}}

Str == [kind |-> "string", data |-> "a"]
Bool == [kind |-> "bool", data |-> "true"]
Array(items) == [kind |-> "array", items |-> items]
NoObject == [kind |-> "no_object"]

\* Ends of the ranges and one beyond, zero, numbers between two f32 or two f64, long
\* and short texts, integers written as floats, floats at the end and past it.
Numbers ==
  {Text(8 * n, FALSE) : n \in {-33, -32, -5, -4, -1, 0, 3, 4, 7, 8, 31, 32, 63, 65, 124}}
    \cup {Text(u, TRUE) : u \in {-100, 4, 8, 12, 16, 20, 33, 88, 112, 120, 1000, 1500}}

Values == Numbers \cup {Null, Missing, Str, Bool, NoObject,
  Array(<<Text(8, TRUE)>>), Array(<<Text(24, TRUE), Text(16, FALSE)>>),
  Array(<<Text(16, TRUE), Text(960, TRUE)>>), Array(<<Text(16, FALSE), Null>>),
  Array(<<>>)}

MCPayloads == {<<v>> : v \in Values} \cup {<<>>, <<Text(16, FALSE), Str>>, <<Null, Text(24, TRUE)>>}

\* Rows come from one upsert, and only an int64 column is asked in every way there is:
\* what a column is read as does not depend on how it is asked for.
MCNext ==
  \/ \E interface \in Interfaces, def \in Definitions : CreateTable(interface, def)
  \/ \E payload \in Payloads : rows = <<>> /\ Upsert(payload)
  \/ \E interface \in Interfaces, limit \in Limits \cup {Omitted}, wanted \in Formats \cup {Omitted} :
       /\ column # None /\ (column.type # "int64" => interface = "json" /\ limit = 1)
       /\ Search(interface, limit, wanted)
  \/ \E i \in 1 .. MaxRows : WriteBack(i)

MCSpec == Init /\ [][MCNext]_vars
=============================================================================
