------------------------------- MODULE RowTrip -------------------------------
(***************************************************************************)
(* Rows on their way through the program: a table of one column is made,   *)
(* JSON rows are written to it, found again and written back as they were  *)
(* found, by callers of the three interfaces: the gRPC service             *)
(* (service.rs), the JSON functions of the C interface and its raw ones    *)
(* (ffi.rs).  RowCodec has the conversions.  One call is made at a time:   *)
(* module Engine says what happens when they meet.                         *)
(*                                                                         *)
(* Besides the column a table has a vector to search by and, in what is    *)
(* found, a distance; names that are no column's are ignored when written. *)
(***************************************************************************)
EXTENDS RowCodec

CONSTANTS
  Definitions,    \* columns a caller may ask for
  Payloads,       \* sequences of JSON texts a caller may write
  Limits,         \* limits a caller may give, besides none
  DefaultLimit,   \* 10
  MaxSearchLimit, \* options.max_search_limit
  MaxRows,        \* bound on the rows of the table
  MaxTrips,       \* bound on the trips of a row
  Omitted,        \* what the caller leaves out of a request
  None

Interfaces == {"grpc", "json", "raw"}
Formats == {"arrow_ipc", "json"}

ASSUME DefinitionsAssumption ==
  Definitions \subseteq [type : ColumnTypes, dim : U32, nullable : BOOLEAN \cup {Omitted}]
ASSUME PayloadsAssumption ==
  \A payload \in Payloads : /\ payload \in Seq({payload[i] : i \in DOMAIN payload})
                            /\ \A i \in DOMAIN payload : IsText(payload[i])
ASSUME LimitsAssumption ==
  Limits \subseteq Nat /\ DefaultLimit \in Nat /\ MaxSearchLimit \in Nat \ {0}

VARIABLES
  column, \* the column of the table, None before there is one
  rows,   \* its rows, each with what the first of its writers wrote
  answer, \* what the last search found, None before one and after an upsert
  told    \* how the last call ended: "ok" or "refused"

vars == <<column, rows, answer, told>>

-----------------------------------------------------------------------------
(* What the interfaces make of a request.                                  *)

\* default_nullable of the JSON interface; proto3 has false for what is not there.
\* (The raw interface makes no tables.)
NullableFor(interface, nullable) ==
  IF nullable = Omitted THEN interface = "json" ELSE nullable

\* default_search_limit; proto3 and the raw interface send 0.
LimitFor(interface, limit) ==
  IF limit # Omitted THEN limit ELSE IF interface = "json" THEN DefaultLimit ELSE 0

\* vector_search: 0 is a limit of ten, whatever the largest one is.
EngineLimit(limit) ==
  IF limit = 0 THEN DefaultLimit
  ELSE IF limit < MaxSearchLimit THEN limit ELSE MaxSearchLimit

\* OutputFormat, VldbLancedbFfiOutputFormat and the words of parse_output_format.
FormatSent(interface, wanted) ==
  IF interface = "json" THEN (IF wanted = Omitted THEN "" ELSE wanted)
  ELSE IF wanted = Omitted THEN 0 ELSE IF wanted = "arrow_ipc" THEN 1 ELSE 2

\* map_output_format, parse_ffi_output_format, parse_output_format and
\* normalize_output_format.
FormatFor(interface, sent) ==
  IF interface = "json" THEN (IF sent = "json" THEN "json" ELSE "arrow_ipc")
  ELSE IF sent = 2 THEN "json" ELSE "arrow_ipc"

\* Faulty: the codes of the input formats.
FormatToldAsInput(interface, format) ==
  IF interface = "raw" THEN (IF format = "json" THEN 1 ELSE 2) ELSE format

\* as_wire_name, ffi_output_format_code.
FormatTold(interface, format) ==
  IF interface = "raw" THEN (IF format = "json" THEN 2 ELSE 1) ELSE format

\* How the caller reads it.
FormatRead(interface, code) ==
  IF interface = "raw" THEN (IF code = 2 THEN "json" ELSE "arrow_ipc") ELSE code

-----------------------------------------------------------------------------

\* create_table.  LanceDB may refuse a list of negative size, or not.
CreateTable(interface, def) ==
  /\ column = None
  /\ interface # "raw"
  /\ LET field == FieldOf([def EXCEPT !.nullable = NullableFor(interface, def.nullable)])
     IN \/ field # Refused /\ column' = field /\ told' = "ok"
        \/ field # Refused /\ field.size < 0 /\ told' = "refused" /\ UNCHANGED column
        \/ field = Refused /\ told' = "refused" /\ UNCHANGED column
  /\ UNCHANGED <<rows, answer>>

\* decode_json_rows_to_batches: what the array of the column may be for a payload.
\* A list of negative size has no builder.
Decoded(payload) ==
  {cells \in [1 .. Len(payload) -> UNION {{CellOf(v, column) : v \in ValuesOf(payload[i])} :
                                            i \in DOMAIN payload}] :
     \A i \in DOMAIN payload : \E v \in ValuesOf(payload[i]) : cells[i] = CellOf(v, column)}

IsRefused(cells) == \/ \E i \in DOMAIN cells : cells[i] = Refused
                    \/ cells # <<>> /\ column.size < 0

\* vector_upsert: one row that cannot be decoded refuses them all.  Of a list of
\* negative size not even an empty array may be made.
Write(cells, from) ==
  \/ /\ ~ IsRefused(cells)
     /\ told' = "ok"
     /\ rows' = rows \o [i \in DOMAIN cells |-> [from[i] EXCEPT !.cell = cells[i]]]
  \/ /\ IsRefused(cells) \/ column.size < 0
     /\ told' = "refused"
     /\ UNCHANGED rows

\* A caller writes rows of its own; `first` is the cell they make, `origin` the text.
Upsert(payload) ==
  /\ column # None
  /\ Len(rows) + Len(payload) <= MaxRows
  /\ \E cells \in Decoded(payload) :
       Write(cells, [i \in DOMAIN payload |->
               [cell |-> cells[i], first |-> cells[i], origin |-> payload[i], trips |-> 0]])
  /\ answer' = None
  /\ UNCHANGED column

\* vector_search: LanceDB finds some rows, at most as many as the limit, and they are
\* sent in the format wanted.
Search(interface, limit, wanted) ==
  /\ column # None
  /\ LET format == FormatFor(interface, FormatSent(interface, wanted))
     IN \E found \in SUBSET DOMAIN rows :
          /\ Cardinality(found) <= EngineLimit(LimitFor(interface, limit))
          /\ answer' =
               [interface |-> interface, limit |-> limit, wanted |-> wanted,
                format |-> FormatTold(interface, format), encoding |-> format,
                data |-> [i \in found |-> IF format = "json" THEN TextOf(rows[i].cell, column)
                                                             ELSE rows[i].cell]]
  /\ told' = "ok"
  /\ UNCHANGED <<column, rows>>

\* A caller writes back a row it found as JSON.
WriteBack(i) ==
  /\ answer # None /\ answer.encoding = "json" /\ i \in DOMAIN answer.data
  /\ Len(rows) < MaxRows /\ rows[i].trips < MaxTrips
  /\ \E cells \in Decoded(<<answer.data[i]>>) :
       Write(cells, <<[rows[i] EXCEPT !.trips = @ + 1]>>)
  /\ UNCHANGED <<column, answer>>

-----------------------------------------------------------------------------

Init == column = None /\ rows = <<>> /\ answer = None /\ told = "ok"

Next ==
  \/ \E interface \in Interfaces :
       \/ \E def \in Definitions : CreateTable(interface, def)
       \/ \E limit \in Limits \cup {Omitted}, wanted \in Formats \cup {Omitted} :
            Search(interface, limit, wanted)
  \/ \E payload \in Payloads : Upsert(payload)
  \/ \E i \in 1 .. MaxRows : WriteBack(i)

Spec == Init /\ [][Next]_vars

-----------------------------------------------------------------------------
IsF32(units) == Magnitude(units) \in F32 \cup {InfinityAt}

Fits(cell) ==
  LET type == column.type
  IN IF cell = Null THEN column.nullable
     ELSE IF type = "vector_float32"
          THEN DOMAIN cell.data = 1 .. column.dim /\ \A i \in 1 .. column.dim : IsF32(cell.data[i])
     ELSE \/ type = "int64" /\ cell.data \in I64
          \/ type = "int32" /\ cell.data \in I32
          \/ type = "uint64" /\ cell.data \in U64
          \/ type = "uint32" /\ cell.data \in U32
          \/ type = "float64" /\ Magnitude(cell.data) \in F64
          \/ type = "float32" /\ IsF32(cell.data)
          \/ type \in {"string", "bool"}

\* Every row fits its column as it was asked for: integers within its type, vectors
\* of the dimension in the request whatever became of it as an i32, null only
\* where the column may be null.
RowsFitColumn == \A i \in DOMAIN rows : Fits(rows[i].cell)

\* No number of a float type lies between two numbers.
Beside(x, y, floats) ==
  \A z \in floats \cup {-z : z \in floats} : ~ (x < z /\ z < y) /\ ~ (y < z /\ z < x)

TellsNumber(text, number) ==
  \/ column.type \in IntTypes /\ text = number
  \/ /\ column.type = "float64" /\ text # Null
     /\ text.units = Signed(number.units, Magnitude(text.units))
     /\ IsNear(Magnitude(number.units), Magnitude(text.units))
     /\ Magnitude(number.units) \in Short => text.units = number.units
  \/ column.type \in {"float32", "vector_float32"} /\
       IF text = Null THEN ~ IsWithin(number.units, F32)
                      ELSE Beside(text.units, number.units, F32)

Tells(text, origin) ==
  \/ origin.kind \in {"null", "missing"} /\ text = Null
  \/ origin.kind \in {"string", "bool"} /\ text = origin
  \/ origin.kind = "number" /\ TellsNumber(text, origin)
  \/ /\ origin.kind = "array"
     /\ DOMAIN text.items = DOMAIN origin.items
     /\ \A i \in DOMAIN text.items : TellsNumber(text.items[i], origin.items[i])

\* What is read as JSON is what was written as JSON: integers, strings and booleans
\* exactly; an f32 up to the next one, although an f64 that is read inexactly comes
\* between; a float64 up to the slip of the reader, exactly if the text was short.  A
\* null is a null or a name that was left out, or a number beyond the range of f32.
\* (A float64 that was written back may have moved on.)
ReadBack ==
  answer # None /\ answer.encoding = "json" =>
    \A i \in DOMAIN answer.data :
      rows[i].trips = 0 \/ column.type # "float64" => Tells(answer.data[i], rows[i].origin)

HasInfinity(cell) ==
  /\ cell # Null
  /\ \/ column.type = "float32" /\ Magnitude(cell.data) = InfinityAt
     \/ column.type = "vector_float32"
        /\ \E i \in DOMAIN cell.data : Magnitude(cell.data[i]) = InfinityAt

\* A row that was read as JSON and written back, however often, is the same to the
\* bit, but for a float64 and for an infinity, which is null from then on: an f32
\* survives its detour over a decimal text that is read inexactly.
WrittenBackIsSame ==
  \A i \in DOMAIN rows :
    \/ rows[i].cell = rows[i].first
    \/ column.type = "float64" /\ rows[i].trips > 0
    \/ HasInfinity(rows[i].first) /\ rows[i].cell = Null

\* The text of a float64 so near the end may be read as what lies beyond.
MayOverflow(cell) ==
  column.type = "float64" /\ cell # Null /\ \E y \in Beyond : IsNear(Magnitude(cell.data), y)

\* A row the program gave is a row it takes, unless an infinity in it was given as a
\* null that the column, or a vector, cannot have, or a float64 was at the very end.
WriteBackIsAccepted ==
  [][\A i \in 1 .. MaxRows :
       told' = "refused" /\ WriteBack(i) =>
         \/ HasInfinity(rows[i].cell) /\ (column.type = "vector_float32" \/ ~ column.nullable)
         \/ MayOverflow(rows[i].cell)]_vars

\* Over every interface a caller that reads the format of its answer finds it so, and
\* as it wanted.
FormatIsAsAsked ==
  answer # None =>
    /\ FormatRead(answer.interface, answer.format) = answer.encoding
    /\ answer.wanted \in {Omitted, answer.encoding}

\* And has no more rows than it asked for, than the largest limit of a single search
\* (LIBRARY_USAGE.zh-CN.md:307), or than the default when it gave no limit or 0
\* (README.en.md:297).  (The second fails where the largest limit is below the default.)
AnswerIsAsAsked ==
  /\ FormatIsAsAsked
  /\ answer # None =>
       LET n == Cardinality(DOMAIN answer.data)
       IN /\ n <= MaxSearchLimit
          /\ n <= IF answer.limit \in {0, Omitted} THEN DefaultLimit ELSE answer.limit

-----------------------------------------------------------------------------
(* Why these hold: the conjuncts of RowInv are inductive together.         *)

\* A column is one that FieldOf makes.
ColumnIsMade ==
  /\ column.type \in ColumnTypes \ {"unspecified"}
  /\ column.nullable \in BOOLEAN
  /\ column.dim \in U32
  /\ column.size \in Int
  /\ column.type = "vector_float32" => column.size = column.dim \/ column.size < 0

IsCell(cell) ==
  \/ cell = Null
  \/ /\ cell = Cell(cell.data)
     /\ column.type \in {"float64", "float32"} => cell.data \in Int
     /\ column.type = "vector_float32" => cell.data \in [1 .. column.dim -> Int]

\* The row as it is now is what its origin was decoded to, or what that has become.
SameCell(row) ==
  \/ row.cell = row.first
  \/ column.type = "float64" /\ row.trips > 0
  \/ column.type = "float32" /\ HasInfinity(row.first) /\ row.cell = Null

RowIsMade(row) ==
  /\ row = [cell |-> row.cell, first |-> row.first, origin |-> row.origin, trips |-> row.trips]
  /\ row.trips \in Nat
  /\ column.size >= 0
  /\ IsText(row.origin)
  /\ row.first # Refused
  /\ \E v \in ValuesOf(row.origin) : row.first = CellOf(v, column)
  /\ IsCell(row.cell) /\ Fits(row.cell)
  /\ SameCell(row)

\* An answer has as many rows as the engine allows.
AnswerIsLimited ==
  /\ answer.interface \in Interfaces /\ answer.limit \in Limits \cup {Omitted}
  /\ Cardinality(DOMAIN answer.data) \in Nat
  /\ Cardinality(DOMAIN answer.data) <= EngineLimit(LimitFor(answer.interface, answer.limit))

\* An answer is about rows that are still there as they were found.
AnswerIsOfRows ==
  /\ DOMAIN answer.data \subseteq DOMAIN rows
  /\ answer.encoding = "json" =>
       \A i \in DOMAIN answer.data : answer.data[i] = TextOf(rows[i].cell, column)

Stored == {rows[i] : i \in DOMAIN rows}

RowInv ==
  /\ IF column = None THEN rows = <<>> /\ answer = None ELSE ColumnIsMade
  /\ rows \in Seq(Stored)
  /\ \A row \in Stored : RowIsMade(row)
  /\ answer # None => AnswerIsOfRows /\ AnswerIsLimited
  /\ FormatIsAsAsked
=============================================================================
