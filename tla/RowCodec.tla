------------------------------ MODULE RowCodec ------------------------------
(***************************************************************************)
(* The conversions of engine.rs between JSON rows and Arrow arrays, for    *)
(* rows of one column.                                                     *)
(*                                                                         *)
(* A number is a count of units, of which One make the number one; in a    *)
(* text it also says whether it is written with a point or an exponent.    *)
(* The widths are constants, small for TLC: what matters is which numbers  *)
(* one type has and another has not.                                       *)
(***************************************************************************)
EXTENDS Integers, Sequences, FiniteSets

CONSTANTS
  I64, U64, I32, U32, \* the integers of each type
  One,                \* units in the number one
  F64, F32,           \* the magnitudes of each float type, in units
  Beyond,             \* those F64 would have next, did it not end
  Slip,               \* numbers of F64 a text may be misread by, besides the nearest
  Short,              \* those of F64 whose decimal text has few digits
  InfinityAt          \* the next number after F32's last; stands for the infinity

ASSUME WidthsAssumption ==
  /\ I64 \subseteq Int /\ U64 \subseteq Nat /\ I32 \subseteq I64 /\ U32 \subseteq U64
  /\ 0 \in F32 /\ F32 \subseteq F64 /\ Short \subseteq F64 /\ F64 \subseteq Nat
  /\ One \in Nat \ {0} /\ Slip \in Nat
  /\ InfinityAt \in Nat /\ \A x \in F32 : x < InfinityAt
  \* The 32-bit integers are as many, with and without a sign.
  /\ \E half \in U32 : I32 = -half .. half - 1 /\ U32 = 0 .. 2 * half - 1
  \* The floats end, and no text of a number further on is misread as one of them.
  /\ IsFiniteSet(Beyond) /\ Cardinality(Beyond) > Slip /\ Beyond \subseteq Nat
  /\ \A x \in F64, y \in Beyond : x < y
  /\ \E last \in Beyond : \A x \in Beyond : x <= last

ColumnTypes == {"string", "int64", "float64", "bool", "vector_float32", "float32",
                "uint64", "int32", "uint32", "unspecified"}

IntTypes == {"int64", "int32", "uint64", "uint32"}

Null == [kind |-> "null"]
Missing == [kind |-> "missing"]
Text(units, dotted) == [kind |-> "number", units |-> units, dotted |-> dotted]

\* The result of a conversion that refuses its input.
Refused == [kind |-> "refused"]

-----------------------------------------------------------------------------
(* Numbers.                                                                *)

Magnitude(x) == IF x < 0 THEN -x ELSE x
Signed(sign, x) == IF sign < 0 THEN -x ELSE x

\* The numbers of a float type next to magnitude x, one or two.
Below(x, floats) == CHOOSE y \in floats : y <= x /\ \A z \in floats : z <= x => z <= y
Above(x, floats) == CHOOSE y \in floats : y >= x /\ \A z \in floats : z >= x => z >= y
IsWithin(x, floats) == \E y \in floats : y >= Magnitude(x)

\* The nearest, and between two the one with an even significand: it is a multiple
\* of twice their distance.
Nearest(x, floats) ==
  LET low == Below(x, floats)
      high == Above(x, floats)
  IN IF x \in floats THEN x
     ELSE IF \/ x - low < high - x
             \/ x - low = high - x /\ low % (2 * (high - low)) = 0
          THEN low ELSE high

\* F64 and how it would go on, and the last of that.
Line == F64 \cup Beyond
Last == CHOOSE x \in Line : \A y \in Line : y <= x

Between(x, y) == {z \in Line : (x < z /\ z < y) \/ (y < z /\ z < x)}
IsNear(x, y) == Cardinality(Between(x, y)) <= Slip
Near == [x \in 0 .. Last |-> {y \in Line : IsNear(x, y)}]

\* What the text of magnitude x may be read as: itself, if it has few digits and is an
\* f64, else a number near it.  (serde_json multiplies the digits, as an f64, by a power
\* of ten, as an f64, and so rounds up to three times, unless it has its feature
\* float_roundtrip, which Cargo.toml does not ask for.)
ReadAs(x) == IF x \in Short THEN {x} ELSE Near[x]

\* Every integer is within f64.  What the text of an f32 may be read as is an f64, and
\* nearer to it than to any other f32, or to where the infinity begins.
ASSUME FloatsAssumption ==
  /\ \A n \in I64 \cup U64 : IsWithin(One * n, F64)
  /\ \A z \in F32 : \A y \in Line : IsNear(z, y) =>
       /\ y \in F64
       /\ \A other \in (F32 \cup {InfinityAt}) \ {z} : Magnitude(y - z) < Magnitude(y - other)

\* Digits alone are an integer, if they fit one, anything else is a float; what comes
\* out beyond F64 fails the whole text.
Parsed(t) ==
  IF ~ t.dotted /\ t.units \div One \in I64 \cup U64
  THEN {[kind |-> "int", n |-> t.units \div One]}
  ELSE IF Magnitude(t.units) > Last THEN {Refused}
  ELSE {IF y \in F64 THEN [kind |-> "float", units |-> Signed(t.units, y)] ELSE Refused :
          y \in ReadAs(Magnitude(t.units))}

\* Value::as_f64.
AsF64(number) ==
  IF number.kind = "float" THEN number.units
  ELSE Signed(number.n, Nearest(Magnitude(One * number.n), F64))

\* Faulty: the cast truncates.
AsF32Truncating(units) ==
  IF IsWithin(units, F32) THEN Signed(units, Below(Magnitude(units), F32))
  ELSE Signed(units, InfinityAt)

\* `as f32` of an f64.
AsF32(units) ==
  IF IsWithin(units, F32 \cup {InfinityAt})
  THEN Signed(units, Nearest(Magnitude(units), F32 \cup {InfinityAt}))
  ELSE Signed(units, InfinityAt)

\* The values a JSON text may be read as.
ValuesOf(t) ==
  IF t.kind = "number" THEN Parsed(t)
  ELSE IF t.kind = "array"
  THEN LET n == Len(t.items)
           item(i) == IF t.items[i].kind = "number" THEN Parsed(t.items[i]) ELSE {t.items[i]}
       IN {[kind |-> "array", items |-> items] :
             items \in {f \in [1 .. n -> UNION {item(i) : i \in 1 .. n}] :
                          \A i \in 1 .. n : f[i] \in item(i)}}
  ELSE {t}

\* A JSON text: a number without a point is a whole one.
IsNumeral(t) == /\ t.kind = "number"
                /\ t = Text(t.units, t.dotted)
                /\ t.units \in Int /\ t.dotted \in BOOLEAN
                /\ t.dotted \/ t.units % One = 0

IsScalar(t) == \/ t.kind \in {"null", "missing", "no_object"} /\ t = [kind |-> t.kind]
               \/ t.kind \in {"string", "bool"} /\ t = [kind |-> t.kind, data |-> t.data]
               \/ IsNumeral(t)

IsText(t) == \/ IsScalar(t)
             \/ /\ t.kind = "array"
                /\ t = [kind |-> "array", items |-> t.items]
                /\ t.items \in Seq({t.items[i] : i \in DOMAIN t.items})
                /\ \A i \in DOMAIN t.items : t.items[i].kind = "array" \/ IsScalar(t.items[i])

-----------------------------------------------------------------------------
(* JSON to Arrow.  A value is null, missing, a bool, a string, a parsed      *)
(* number or an array of values; a cell is null or [data |-> ...].           *)

Cell(data) == [data |-> data]

\* n in the range, modulo its size: `as`.
Wrap(n, range) == CHOOSE i \in range : (n - i) % Cardinality(range) = 0

\* Faulty: the cast wraps what does not fit.
ExpectIntWrapping(value, all, range) ==
  IF value.kind = "int" /\ value.n \in all THEN Cell(Wrap(value.n, range)) ELSE Refused

\* expect_i64, expect_u64 with the range of the type itself; expect_i32 and
\* expect_u32 go through them to a narrower range.
ExpectInt(value, all, range) ==
  IF value.kind = "int" /\ value.n \in all /\ value.n \in range
  THEN Cell(value.n) ELSE Refused

IsNumber(value) == value.kind \in {"int", "float"}

\* expect_f64, expect_f32.
ExpectF64(value) == IF IsNumber(value) THEN Cell(AsF64(value)) ELSE Refused
ExpectF32(value) == IF IsNumber(value) THEN Cell(AsF32(AsF64(value))) ELSE Refused

\* expect_string, expect_bool.
ExpectData(value, kind) == IF value.kind = kind THEN Cell(value.data) ELSE Refused

\* Faulty: the vector is as long as it is.
ExpectAnyVector(value, dim) ==
  IF value.kind = "array" /\ dim > 0 /\ \A i \in DOMAIN value.items : IsNumber(value.items[i])
  THEN Cell([i \in DOMAIN value.items |-> AsF32(AsF64(value.items[i]))])
  ELSE Refused

\* An array of exactly dim numbers.
ExpectVector(value, dim) ==
  IF value.kind = "array" /\ Len(value.items) = dim
     /\ \A i \in 1 .. dim : IsNumber(value.items[i])
  THEN Cell([i \in 1 .. dim |-> AsF32(AsF64(value.items[i]))])
  ELSE Refused

Expect(value, column) ==
  LET type == column.type
  IN IF type = "int64" THEN ExpectInt(value, I64, I64)
     ELSE IF type = "int32" THEN ExpectInt(value, I64, I32)
     ELSE IF type = "uint64" THEN ExpectInt(value, U64, U64)
     ELSE IF type = "uint32" THEN ExpectInt(value, U64, U32)
     ELSE IF type = "float64" THEN ExpectF64(value)
     ELSE IF type = "float32" THEN ExpectF32(value)
     ELSE IF type = "vector_float32" THEN ExpectVector(value, column.size)
     ELSE ExpectData(value, type)

\* extract_field_value and build_array_for_field, for one row.
CellOf(value, column) ==
  IF value.kind \in {"null", "missing"}
  THEN IF column.nullable THEN Null ELSE Refused
  ELSE Expect(value, column)

-----------------------------------------------------------------------------
(* Arrow to JSON.                                                          *)

\* Value::from of an f32, as an f64: an infinity is no JSON number and becomes null.
F32Text(units) == IF Magnitude(units) = InfinityAt THEN Null ELSE Text(units, TRUE)

\* Faulty: integers become floats.
IntTextAsFloat(n) == Text(One * n, TRUE)

IntText(n) == Text(One * n, FALSE)

\* json_value_from_array.
TextOf(cell, column) ==
  LET type == column.type
  IN IF cell = Null THEN Null
     ELSE IF type \in IntTypes THEN IntText(cell.data)
     ELSE IF type = "float64" THEN Text(cell.data, TRUE)
     ELSE IF type = "float32" THEN F32Text(cell.data)
     ELSE IF type = "vector_float32"
          THEN [kind |-> "array", items |-> [i \in DOMAIN cell.data |-> F32Text(cell.data[i])]]
     ELSE [kind |-> type, data |-> cell.data]

-----------------------------------------------------------------------------
(* What a column is made of.                                               *)

\* column_to_field; the size is that of the list type.
FieldOf(def) ==
  IF \/ def.type = "unspecified"
     \/ def.type = "vector_float32" /\ def.dim = 0 THEN Refused
  ELSE [type |-> def.type, nullable |-> def.nullable, dim |-> def.dim,
        size |-> IF def.type = "vector_float32" THEN Wrap(def.dim, I32) ELSE 0]
=============================================================================
