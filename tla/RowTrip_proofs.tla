----------------------------- MODULE RowTrip_proofs -----------------------------
(***************************************************************************)
(* RowInv is an invariant of RowTrip, for any widths, floats, columns,     *)
(* payloads, limits and numbers of rows and trips; its safety properties   *)
(* follow.  RowCodec_proofs has the lemmas about numbers.                  *)
(***************************************************************************)
EXTENDS RowTrip, RowCodec_proofs

\* A number of its sign whose magnitude is next to that of another is next to it.
LEMMA SignedIsBeside ==
  ASSUME NEW floats \in SUBSET Nat, NEW s \in Int, NEW m \in Nat,
         Adjacent(Magnitude(s), m, floats)
  PROVE  Beside(Signed(s, m), s, floats)
<1>1. \A z \in floats : z \in Nat
  OBVIOUS
<1>2. ASSUME NEW z \in floats
      PROVE  LET x == Signed(s, m) IN /\ ~ (x < z /\ z < s) /\ ~ (s < z /\ z < x)
                                      /\ ~ (x < -z /\ -z < s) /\ ~ (s < -z /\ -z < x)
  BY <1>1, <1>2 DEF Adjacent, Signed, Magnitude
<1> QED BY <1>2 DEF Beside

\* What an f64 column holds for a number is near it and of its sign.
LEMMA F64Tells ==
  ASSUME NEW t, IsNumeral(t), NEW v \in Parsed(t), IsNumber(v)
  PROVE  LET u == AsF64(v)
         IN /\ u \in Int
            /\ Magnitude(u) \in F64
            /\ u = Signed(t.units, Magnitude(u))
            /\ IsNear(Magnitude(t.units), Magnitude(u))
            /\ Magnitude(t.units) \in Short => u = t.units
<1>1. v # Refused /\ t.units \in Int
  BY DEF IsNumber, Refused, IsNumeral
<1>2. PICK y : Reading(Magnitude(t.units), y) /\ AsF64(v) = Signed(t.units, y)
  BY <1>1, NumberOfNumeral
<1>3. y \in F64 /\ y \in Nat /\ IsNear(Magnitude(t.units), y)
      /\ (Magnitude(t.units) \in Short => y = Magnitude(t.units))
  BY <1>2, WidthsAssumption DEF Reading
<1>4. AsF64(v) \in Int /\ Magnitude(AsF64(v)) = y
  BY <1>1, <1>2, <1>3, SignedIs
<1>5. Signed(t.units, Magnitude(t.units)) = t.units
  BY <1>1 DEF Signed, Magnitude
<1> QED BY <1>2, <1>3, <1>4, <1>5

\* And so does an f32 column, and a vector.
LEMMA F32Tells ==
  ASSUME NEW t, IsNumeral(t), NEW v \in Parsed(t), IsNumber(v),
         column.type \in {"float32", "vector_float32"}
  PROVE  /\ AsF32(AsF64(v)) \in Int
         /\ IsF32(AsF32(AsF64(v)))
         /\ TellsNumber(F32Text(AsF32(AsF64(v))), t)
<1> DEFINE u == AsF32(AsF64(v))
           x == Magnitude(t.units)
<1>1. v # Refused /\ t.units \in Int
  BY DEF IsNumber, Refused, IsNumeral
<1>2. PICK y : Reading(x, y) /\ AsF64(v) = Signed(t.units, y)
  BY <1>1, NumberOfNumeral
<1>3. PICK m \in F32 \cup {InfinityAt} : /\ u = Signed(t.units, m)
                                         /\ m = InfinityAt => \A z \in F32 : z < x
                                         /\ m # InfinityAt => Adjacent(x, m, F32)
  BY <1>1, <1>2, F32OfReading
<1>4. m \in Nat /\ F32 \in SUBSET Nat /\ x \in Nat
  BY <1>1, WidthsAssumption DEF Magnitude
<1> HIDE DEF u
<1>5. u \in Int /\ Magnitude(u) = m
  BY <1>1, <1>3, <1>4, SignedIs
<1>6. CASE m = InfinityAt
  <2>1. F32Text(u) = Null
    BY <1>5, <1>6 DEF F32Text
  <2>2. ~ IsWithin(t.units, F32)
    BY <1>3, <1>4, <1>6 DEF IsWithin
  <2>3. TellsNumber(F32Text(u), t)
    BY <2>1, <2>2 DEF TellsNumber
  <2> QED BY <1>5, <2>3 DEF IsF32, u
<1>7. CASE m # InfinityAt
  <2>1. F32Text(u) = Text(u, TRUE)
    BY <1>5, <1>7 DEF F32Text
  <2>2. Beside(u, t.units, F32)
    BY <1>1, <1>3, <1>4, <1>7, SignedIsBeside
  <2>3. Text(u, TRUE) # Null /\ Text(u, TRUE).units = u
    BY DEF Text, Null
  <2>4. TellsNumber(F32Text(u), t)
    BY <2>1, <2>2, <2>3 DEF TellsNumber
  <2> QED BY <1>5, <2>4 DEF IsF32, u
<1> QED BY <1>6, <1>7

\* Cells are neither null nor refused.
LEMMA CellIs ==
  ASSUME NEW d
  PROVE  Cell(d) # Null /\ Cell(d) # Refused /\ Null # Refused /\ Cell(d).data = d
BY DEF Cell, Null, Refused

\* What a numeral is parsed to.
LEMMA KindOfParsed ==
  ASSUME NEW t, NEW v \in Parsed(t)
  PROVE  v = Refused \/ v.kind \in {"int", "float"}
BY DEF Parsed

\* The types of columns there are.
LEMMA TypesAre ==
  ASSUME ColumnIsMade
  PROVE  \/ column.type \in {"string", "bool"}
         \/ column.type \in IntTypes
         \/ column.type \in {"float64", "float32", "vector_float32"}
BY DEF ColumnIsMade, ColumnTypes, IntTypes

\* An integer column takes integers of its type, and tells them as they were.
LEMMA IntCell ==
  ASSUME ColumnIsMade, column.type \in IntTypes, NEW v, Expect(v, column) # Refused
  PROVE  LET c == Expect(v, column)
         IN /\ v.kind = "int" /\ c = Cell(v.n)
            /\ IsCell(c) /\ Fits(c) /\ TextOf(c, column) = IntText(v.n)
<1> DEFINE c == Expect(v, column)
           type == column.type
<1>1. /\ v.kind = "int" /\ c = Cell(v.n)
      /\ \/ type = "int64" /\ v.n \in I64
         \/ type = "int32" /\ v.n \in I32
         \/ type = "uint64" /\ v.n \in U64
         \/ type = "uint32" /\ v.n \in U32
  BY DEF Expect, ExpectInt, IntTypes
<1>2. c # Null /\ c.data = v.n /\ c = Cell(c.data)
  BY <1>1, CellIs
<1> HIDE DEF c
<1>3. IsCell(c)
  BY <1>2 DEF IsCell, IntTypes
<1>4. Fits(c)
  BY <1>1, <1>2 DEF Fits
<1>5. TextOf(c, column) = IntText(v.n)
  BY <1>2 DEF TextOf
<1> QED BY <1>1, <1>3, <1>4, <1>5 DEF c

\* What a number becomes fits its column, and is told as it was.
LEMMA NumeralTells ==
  ASSUME ColumnIsMade, NEW t, IsNumeral(t), NEW v \in Parsed(t), CellOf(v, column) # Refused
  PROVE  LET c == CellOf(v, column)
         IN IsCell(c) /\ Fits(c) /\ Tells(TextOf(c, column), t)
<1> DEFINE c == CellOf(v, column)
<1>1. t.kind = "number" /\ v # Refused /\ v.kind \in {"int", "float"}
  <2>1. t.kind = "number"
    BY DEF IsNumeral
  <2>2. ASSUME v = Refused
        PROVE  FALSE
    BY <2>2, TypesAre DEF CellOf, Expect, ExpectInt, ExpectF64, ExpectF32, ExpectVector, ExpectData,
           IsNumber, Refused, IntTypes
  <2> QED BY <2>1, <2>2, KindOfParsed
<1>2. c = Expect(v, column)
  BY <1>1 DEF CellOf
<1>3. IsNumber(v)
  BY <1>1 DEF IsNumber
<1>4. CASE column.type \in IntTypes
  <2>1. v.kind = "int" /\ IsCell(c) /\ Fits(c) /\ TextOf(c, column) = IntText(v.n)
    BY <1>2, <1>4, IntCell
  <2>2. TextOf(c, column) = t
    BY <1>1, <2>1, NumberOfNumeral
  <2> HIDE DEF c
  <2>3. Tells(TextOf(c, column), t)
    BY <1>1, <1>4, <2>2 DEF Tells, TellsNumber
  <2> QED BY <2>1, <2>3 DEF c
<1>5. CASE column.type = "float64"
  <2> DEFINE u == AsF64(v)
  <2>1. c = Cell(u)
    BY <1>2, <1>3, <1>5 DEF Expect, ExpectF64
  <2>2. /\ u \in Int /\ Magnitude(u) \in F64
        /\ u = Signed(t.units, Magnitude(u))
        /\ IsNear(Magnitude(t.units), Magnitude(u))
        /\ Magnitude(t.units) \in Short => u = t.units
    BY <1>3, F64Tells
  <2> HIDE DEF c, u
  <2>3. c # Null /\ c.data = u /\ c = Cell(c.data)
    BY <2>1, CellIs
  <2>4. TextOf(c, column) = Text(u, TRUE)
    BY <1>5, <2>3 DEF TextOf, IntTypes
  <2>5. Text(u, TRUE) # Null /\ Text(u, TRUE).units = u
    BY DEF Text, Null
  <2>6. Tells(TextOf(c, column), t)
    BY <1>1, <1>5, <2>2, <2>4, <2>5 DEF Tells, TellsNumber
  <2>7. Fits(c)
    BY <1>5, <2>2, <2>3 DEF Fits
  <2>8. IsCell(c)
    BY <1>5, <2>2, <2>3 DEF IsCell
  <2> QED BY <2>6, <2>7, <2>8 DEF c
<1>6. CASE column.type = "float32"
  <2> DEFINE u == AsF32(AsF64(v))
  <2>1. c = Cell(u)
    BY <1>2, <1>3, <1>6 DEF Expect, ExpectF32
  <2>2. u \in Int /\ IsF32(u) /\ TellsNumber(F32Text(u), t)
    BY <1>3, <1>6, F32Tells
  <2> HIDE DEF c, u
  <2>3. c # Null /\ c.data = u /\ c = Cell(c.data)
    BY <2>1, CellIs
  <2>4. TextOf(c, column) = F32Text(u)
    BY <1>6, <2>3 DEF TextOf, IntTypes
  <2>5. Tells(TextOf(c, column), t)
    BY <1>1, <2>2, <2>4 DEF Tells
  <2>6. Fits(c)
    BY <1>6, <2>2, <2>3 DEF Fits
  <2>7. IsCell(c)
    BY <1>6, <2>2, <2>3 DEF IsCell
  <2> QED BY <2>5, <2>6, <2>7 DEF c
<1>7. CASE column.type \in {"string", "bool", "vector_float32"}
  BY <1>1, <1>2, <1>7 DEF Expect, ExpectData, ExpectVector
<1> QED BY <1>4, <1>5, <1>6, <1>7, TypesAre

\* A value that is no number, no array and no null is taken by the columns of its kind.
LEMMA DataTells ==
  ASSUME ColumnIsMade, NEW t, IsScalar(t), ~ IsNumeral(t), CellOf(t, column) # Refused
  PROVE  LET c == CellOf(t, column)
         IN IsCell(c) /\ Fits(c) /\ Tells(TextOf(c, column), t)
<1> DEFINE c == CellOf(t, column)
<1>1. CASE t.kind \in {"null", "missing"}
  <2>1. c = Null /\ column.nullable
    BY <1>1 DEF CellOf
  <2> HIDE DEF c
  <2>2. TextOf(c, column) = Null
    BY <2>1 DEF TextOf
  <2> QED BY <1>1, <2>1, <2>2 DEF IsCell, Fits, Tells, c
<1>2. CASE t.kind = "no_object"
  BY <1>2, TypesAre DEF CellOf, Expect, ExpectInt, ExpectF64, ExpectF32, ExpectVector, ExpectData,
     IsNumber, IntTypes
<1>3. CASE t.kind \in {"string", "bool"}
  <2>1. t = [kind |-> t.kind, data |-> t.data]
    BY <1>3 DEF IsScalar, IsNumeral
  <2>2. c = Cell(t.data) /\ t.kind = column.type
    BY <1>3, TypesAre DEF CellOf, Expect, ExpectInt, ExpectF64, ExpectF32, ExpectVector, ExpectData,
       IsNumber, IntTypes
  <2> HIDE DEF c
  <2>3. c # Null /\ c.data = t.data /\ c = Cell(c.data)
    BY <2>2, CellIs
  <2>4. TextOf(c, column) = t
    BY <1>3, <2>1, <2>2, <2>3 DEF TextOf, IntTypes
  <2> QED BY <1>3, <2>2, <2>3, <2>4 DEF IsCell, Fits, Tells, c
<1> QED BY <1>1, <1>2, <1>3 DEF IsScalar

\* An array's values are those of its items.
LEMMA ValuesOfArray ==
  ASSUME NEW t, IsText(t), t.kind = "array", NEW v \in ValuesOf(t)
  PROVE  /\ Len(t.items) \in Nat /\ DOMAIN t.items = 1 .. Len(t.items)
         /\ v.kind = "array" /\ DOMAIN v.items = 1 .. Len(t.items) /\ Len(v.items) = Len(t.items)
         /\ \A i \in 1 .. Len(t.items) :
              IF IsNumeral(t.items[i]) THEN v.items[i] \in Parsed(t.items[i])
              ELSE ~ IsNumber(v.items[i])
<1> DEFINE n == Len(t.items)
           item(i) == IF t.items[i].kind = "number" THEN Parsed(t.items[i]) ELSE {t.items[i]}
<1>1. /\ t.items \in Seq({t.items[i] : i \in DOMAIN t.items})
      /\ \A i \in DOMAIN t.items : t.items[i].kind = "array" \/ IsScalar(t.items[i])
  BY DEF IsText, IsScalar, IsNumeral
<1>2. n \in Nat /\ DOMAIN t.items = 1 .. n
  BY <1>1
<1>3. v \in {[kind |-> "array", items |-> items] :
               items \in {f \in [1 .. n -> UNION {item(i) : i \in 1 .. n}] :
                            \A i \in 1 .. n : f[i] \in item(i)}}
  BY Zenon DEF ValuesOf
<1>4. PICK f \in [1 .. n -> UNION {item(i) : i \in 1 .. n}] :
        (\A i \in 1 .. n : f[i] \in item(i)) /\ v = [kind |-> "array", items |-> f]
  <2> HIDE DEF item, n
  <2> QED BY <1>3
<1>5. v.kind = "array" /\ v.items = f
  BY <1>4
<1>6. DOMAIN v.items = 1 .. n /\ Len(v.items) = n
  <2> HIDE DEF item, n
  <2>1. f \in Seq(UNION {item(i) : i \in 1 .. n}) /\ Len(f) = n
    BY <1>2
  <2> QED BY <1>5, <2>1
<1>7. ASSUME NEW i \in 1 .. n
      PROVE  IF IsNumeral(t.items[i]) THEN v.items[i] \in Parsed(t.items[i])
             ELSE ~ IsNumber(v.items[i])
  <2>1. v.items[i] \in item(i) /\ (t.items[i].kind = "array" \/ IsScalar(t.items[i]))
    BY <1>1, <1>2, <1>4, <1>5, <1>7
  <2>2. CASE IsNumeral(t.items[i])
    <3>1. t.items[i].kind = "number"
      BY <2>2 DEF IsNumeral
    <3> QED BY <2>1, <2>2, <3>1
  <2>3. CASE ~ IsNumeral(t.items[i])
    <3>1. t.items[i].kind \in {"array", "null", "missing", "no_object", "string", "bool"}
      BY <2>1, <2>3 DEF IsScalar
    <3>2. v.items[i] = t.items[i]
      BY <2>1, <3>1
    <3> QED BY <2>3, <3>1, <3>2 DEF IsNumber
  <2> QED BY <2>2, <2>3
<1> QED BY <1>2, <1>5, <1>6, <1>7

\* An array fits a vector of as many items.
LEMMA ArrayTells ==
  ASSUME ColumnIsMade, NEW t, IsText(t), t.kind = "array", NEW v \in ValuesOf(t),
         CellOf(v, column) # Refused
  PROVE  LET c == CellOf(v, column)
         IN /\ IsCell(c) /\ Fits(c) /\ Tells(TextOf(c, column), t)
            /\ column.type = "vector_float32"
            /\ \A i \in 1 .. column.dim : /\ IsNumber(v.items[i])
                                          /\ c.data[i] = AsF32(AsF64(v.items[i]))
<1> DEFINE c == CellOf(v, column)
           dim == column.dim
           data == [i \in 1 .. dim |-> AsF32(AsF64(v.items[i]))]
<1>1. /\ Len(t.items) \in Nat /\ DOMAIN t.items = 1 .. Len(t.items)
      /\ v.kind = "array" /\ Len(v.items) = Len(t.items)
      /\ \A i \in 1 .. Len(t.items) :
           IF IsNumeral(t.items[i]) THEN v.items[i] \in Parsed(t.items[i])
           ELSE ~ IsNumber(v.items[i])
  BY ValuesOfArray
<1>2. /\ column.type = "vector_float32" /\ Len(v.items) = column.size
      /\ \A i \in 1 .. column.size : IsNumber(v.items[i])
      /\ c = Cell([i \in 1 .. column.size |-> AsF32(AsF64(v.items[i]))])
  BY <1>1, TypesAre DEF CellOf, Expect, ExpectInt, ExpectF64, ExpectF32, ExpectVector, ExpectData,
     IsNumber, IntTypes
<1>3. column.size = dim /\ Len(t.items) = dim /\ dim \in Nat
  BY <1>1, <1>2 DEF ColumnIsMade
<1>4. c = Cell(data)
  BY <1>2, <1>3
<1> HIDE DEF c
<1>5. ASSUME NEW i \in 1 .. dim
      PROVE  /\ IsNumber(v.items[i]) /\ data[i] = AsF32(AsF64(v.items[i]))
             /\ data[i] \in Int /\ IsF32(data[i]) /\ TellsNumber(F32Text(data[i]), t.items[i])
  <2>1. IsNumber(v.items[i]) /\ IsNumeral(t.items[i]) /\ v.items[i] \in Parsed(t.items[i])
    BY <1>1, <1>2, <1>3, <1>5
  <2>2. data[i] = AsF32(AsF64(v.items[i]))
    OBVIOUS
  <2> HIDE DEF data
  <2> QED BY <1>2, <2>1, <2>2, F32Tells
<1>6. c # Null /\ c.data = data /\ c = Cell(c.data)
  BY <1>4, CellIs
<1>7. data \in [1 .. dim -> Int] /\ DOMAIN data = 1 .. dim
  BY <1>5
<1> HIDE DEF data
<1>8. IsCell(c)
  BY <1>2, <1>6, <1>7 DEF IsCell
<1>9. Fits(c)
  BY <1>2, <1>5, <1>6, <1>7 DEF Fits
<1> DEFINE items == [i \in DOMAIN c.data |-> F32Text(c.data[i])]
           text == [kind |-> "array", items |-> items]
<1>10. TextOf(c, column) = text
  BY <1>2, <1>6 DEF TextOf, IntTypes
<1>11. DOMAIN items = 1 .. dim /\ \A i \in 1 .. dim : TellsNumber(items[i], t.items[i])
  BY <1>5, <1>6, <1>7
<1> HIDE DEF items
<1>12. text.items = items
  OBVIOUS
<1>13. Tells(text, t)
  <2> HIDE DEF text
  <2> QED BY <1>1, <1>3, <1>11, <1>12 DEF Tells
<1> QED BY <1>2, <1>5, <1>6, <1>8, <1>9, <1>10, <1>13 DEF c

\* What a text becomes fits the column, and is told as it was.
LEMMA TextTells ==
  ASSUME ColumnIsMade, NEW t, IsText(t), NEW v \in ValuesOf(t), CellOf(v, column) # Refused
  PROVE  LET c == CellOf(v, column)
         IN IsCell(c) /\ Fits(c) /\ Tells(TextOf(c, column), t)
<1>1. CASE IsNumeral(t)
  <2>1. v \in Parsed(t)
    BY <1>1 DEF IsNumeral, ValuesOf
  <2> QED BY <1>1, <2>1, NumeralTells
<1>2. CASE ~ IsNumeral(t) /\ IsScalar(t)
  <2>1. v = t
    BY <1>2 DEF IsScalar, ValuesOf
  <2> QED BY <1>2, <2>1, DataTells
<1>3. CASE t.kind = "array"
  BY <1>3, ArrayTells
<1> QED BY <1>1, <1>2, <1>3 DEF IsText

\* What is read as JSON is a JSON text.
LEMMA TextIsText ==
  ASSUME ColumnIsMade, NEW cell, IsCell(cell), Fits(cell)
  PROVE  IsText(TextOf(cell, column))
<1>1. \A u \in Int : IsScalar(F32Text(u)) /\ IsScalar(Text(u, TRUE))
  BY DEF F32Text, IsScalar, IsNumeral, Text, Null
<1>2. CASE cell = Null
  BY <1>2 DEF TextOf, IsText, IsScalar, Null
<1>3. CASE cell # Null /\ column.type \in IntTypes
  <2>1. TextOf(cell, column) = IntText(cell.data)
    BY <1>3 DEF TextOf
  <2>2. cell.data \in I64 \cup U64
    BY <1>3, WidthsAssumption DEF Fits, IntTypes
  <2>3. One * cell.data \in Int /\ (One * cell.data) % One = 0
    <3>1. PICK n \in I64 \cup U64 : n = cell.data
      BY <2>2
    <3>2. n \in Int /\ One \in Nat /\ One # 0
      BY WidthsAssumption
    <3>3. One * n \in Int /\ (One * n) % One = 0
      BY <3>2
    <3> QED BY <3>1, <3>3
  <2>4. IsNumeral(IntText(cell.data))
    BY <2>3 DEF IntText, IsNumeral, Text
  <2> QED BY <2>1, <2>4 DEF IsText, IsScalar
<1>4. CASE cell # Null /\ column.type \in {"float64", "float32"}
  <2>1. cell.data \in Int
    BY <1>4 DEF IsCell
  <2>2. TextOf(cell, column) \in {Text(cell.data, TRUE), F32Text(cell.data)}
    BY <1>4 DEF TextOf, IntTypes
  <2> QED BY <1>1, <2>1, <2>2 DEF IsText
<1>5. CASE cell # Null /\ column.type = "vector_float32"
  <2> DEFINE items == [i \in DOMAIN cell.data |-> F32Text(cell.data[i])]
             text == [kind |-> "array", items |-> items]
  <2>1. cell.data \in [1 .. column.dim -> Int] /\ column.dim \in Nat
    BY <1>5, WidthsAssumption DEF IsCell, ColumnIsMade
  <2>2. TextOf(cell, column) = text
    BY <1>5 DEF TextOf, IntTypes
  <2>3. DOMAIN items = 1 .. column.dim /\ \A i \in DOMAIN items : IsScalar(items[i])
    BY <1>1, <2>1
  <2>4. items \in Seq({items[i] : i \in DOMAIN items})
    <3>1. items \in [1 .. column.dim -> {items[i] : i \in DOMAIN items}]
      BY <2>1
    <3> QED BY <2>1, <3>1
  <2> HIDE DEF items
  <2>5. text.kind = "array" /\ text.items = items /\ text = [kind |-> "array", items |-> text.items]
    OBVIOUS
  <2> HIDE DEF text
  <2> QED BY <2>2, <2>3, <2>4, <2>5 DEF IsText
<1>6. CASE cell # Null /\ column.type \in {"string", "bool"}
  <2>1. TextOf(cell, column) = [kind |-> column.type, data |-> cell.data]
    BY <1>6 DEF TextOf, IntTypes
  <2> QED BY <1>6, <2>1 DEF IsText, IsScalar
<1> QED BY <1>2, <1>3, <1>4, <1>5, <1>6, TypesAre

\* The infinity of a vector is null when it is read, and no vector holds a null.
LEMMA VectorSurvivesText ==
  ASSUME ColumnIsMade, column.size >= 0, column.type = "vector_float32",
         NEW cell, cell # Null, IsCell(cell), Fits(cell),
         NEW v \in ValuesOf(TextOf(cell, column))
  PROVE  LET c == CellOf(v, column) IN c = cell \/ (c = Refused /\ HasInfinity(cell))
<1> DEFINE dim == column.dim
           items == [i \in DOMAIN cell.data |-> F32Text(cell.data[i])]
           text == [kind |-> "array", items |-> items]
<1>1. /\ cell.data \in [1 .. dim -> Int] /\ dim \in Nat /\ column.size = dim
      /\ cell = Cell(cell.data) /\ \A i \in 1 .. dim : IsF32(cell.data[i])
  BY WidthsAssumption DEF IsCell, Fits, ColumnIsMade
<1>2. TextOf(cell, column) = text
  BY DEF TextOf, IntTypes
<1>3. DOMAIN items = 1 .. dim /\ \A i \in 1 .. dim : items[i] = F32Text(cell.data[i])
  BY <1>1
<1> HIDE DEF items
<1>4. text.kind = "array" /\ text.items = items
  OBVIOUS
<1>5. IsText(text)
  BY <1>2, TextIsText
<1> HIDE DEF text
<1>6. /\ Len(items) \in Nat /\ 1 .. dim = 1 .. Len(items)
      /\ v.kind = "array" /\ Len(v.items) = Len(items)
      /\ \A i \in 1 .. Len(items) :
           IF IsNumeral(items[i]) THEN v.items[i] \in Parsed(items[i]) ELSE ~ IsNumber(v.items[i])
  BY <1>2, <1>3, <1>4, <1>5, ValuesOfArray
<1>7. Len(items) = dim
  BY <1>1, <1>6
<1>8. CASE \E i \in 1 .. dim : Magnitude(cell.data[i]) = InfinityAt
  <2>1. PICK i \in 1 .. dim : Magnitude(cell.data[i]) = InfinityAt
    BY <1>8
  <2>2. items[i] = Null
    BY <1>3, <2>1 DEF F32Text
  <2>3. ~ IsNumber(v.items[i])
    BY <1>6, <1>7, <2>2 DEF IsNumeral, Null
  <2>4. CellOf(v, column) = Refused
    BY <1>1, <1>6, <2>3 DEF CellOf, Expect, ExpectVector
  <2>5. HasInfinity(cell)
    BY <1>1, <2>1 DEF HasInfinity
  <2> QED BY <2>4, <2>5
<1>9. CASE \A i \in 1 .. dim : Magnitude(cell.data[i]) # InfinityAt
  <2>1. ASSUME NEW i \in 1 .. dim
        PROVE  IsNumber(v.items[i]) /\ AsF32(AsF64(v.items[i])) = cell.data[i]
    <3>1. items[i] = Text(cell.data[i], TRUE)
      BY <1>3, <1>9, <2>1 DEF F32Text
    <3>2. cell.data[i] \in Int /\ Magnitude(cell.data[i]) \in F32
      BY <1>1, <1>9, <2>1 DEF IsF32
    <3>3. IsNumeral(items[i])
      BY <3>1, <3>2 DEF IsNumeral, Text
    <3>4. v.items[i] \in Parsed(Text(cell.data[i], TRUE))
      BY <1>6, <1>7, <3>1, <3>3
    <3> QED BY <3>2, <3>4, F32SurvivesText
  <2>2. CellOf(v, column) = Cell([i \in 1 .. dim |-> AsF32(AsF64(v.items[i]))])
    BY <1>1, <1>6, <1>7, <2>1 DEF CellOf, Expect, ExpectVector
  <2>3. [i \in 1 .. dim |-> AsF32(AsF64(v.items[i]))] = cell.data
    BY <1>1, <2>1
  <2> QED BY <1>1, <2>2, <2>3
<1> QED BY <1>8, <1>9

\* A cell that was read as JSON is written back as it was, but for a float64 and for an
\* infinity, which becomes null or, where that cannot be, is refused.
LEMMA CellSurvivesText ==
  ASSUME ColumnIsMade, column.size >= 0, NEW cell, IsCell(cell), Fits(cell),
         NEW v \in ValuesOf(TextOf(cell, column))
  PROVE  LET c == CellOf(v, column)
         IN \/ c = cell /\ c # Refused
            \/ column.type = "float64" /\ c # Refused
            \/ MayOverflow(cell) /\ c = Refused
            \/ HasInfinity(cell) /\ column.type = "float32" /\ c = Null
            \/ /\ HasInfinity(cell) /\ c = Refused
               /\ column.type = "vector_float32" \/ ~ column.nullable
<1>1. cell # Refused
  BY CellIs DEF IsCell
<1>2. CASE cell = Null
  <2>1. v = Null
    BY <1>2 DEF TextOf, ValuesOf, Null
  <2>2. CellOf(v, column) = Null
    BY <1>2, <2>1 DEF CellOf, Fits, Null
  <2> QED BY <1>1, <1>2, <2>2
<1>3. CASE cell # Null /\ column.type \in IntTypes
  <2>1. cell.data \in I64 \cup U64 /\ cell = Cell(cell.data)
    BY <1>3, WidthsAssumption DEF IsCell, Fits, IntTypes
  <2>2. v \in Parsed(IntText(cell.data))
    BY <1>3 DEF TextOf, ValuesOf, IntText, Text
  <2>3. v.kind = "int" /\ v.n = cell.data
    BY <2>1, <2>2, IntSurvivesText
  <2>4. CellOf(v, column) = Expect(v, column)
    BY <2>3 DEF CellOf
  <2>5. Expect(v, column) = Cell(cell.data)
    BY <1>3, <2>3, WidthsAssumption DEF Expect, ExpectInt, Fits, IntTypes
  <2> QED BY <1>1, <2>1, <2>4, <2>5
<1>4. CASE cell # Null /\ column.type = "float64"
  <2>1. v \in Parsed(Text(cell.data, TRUE)) /\ cell.data \in Int /\ Magnitude(cell.data) \in F64
    BY <1>4 DEF TextOf, ValuesOf, Text, IsCell, Fits, IntTypes
  <2>2. CASE IsNumber(v)
    <3>1. CellOf(v, column) = Cell(AsF64(v))
      BY <1>4, <2>2 DEF CellOf, Expect, ExpectF64, IsNumber
    <3> QED BY <1>4, <3>1, CellIs
  <2>3. CASE v = Refused /\ \E y \in Beyond : IsNear(Magnitude(cell.data), y)
    <3>1. MayOverflow(cell)
      BY <1>4, <2>3 DEF MayOverflow
    <3>2. CellOf(v, column) = Refused
      BY <1>4, <2>3 DEF CellOf, Expect, ExpectF64, IsNumber, Refused
    <3> QED BY <3>1, <3>2
  <2> QED BY <2>1, <2>2, <2>3, F64SurvivesText
<1>5. CASE cell # Null /\ column.type = "float32"
  <2>1. cell.data \in Int /\ IsF32(cell.data) /\ cell = Cell(cell.data)
    BY <1>5 DEF IsCell, Fits
  <2>2. TextOf(cell, column) = F32Text(cell.data)
    BY <1>5 DEF TextOf, IntTypes
  <2>3. CASE Magnitude(cell.data) = InfinityAt
    <3>1. v = Null
      BY <2>2, <2>3 DEF F32Text, ValuesOf, Null
    <3>2. HasInfinity(cell)
      BY <1>5, <2>3 DEF HasInfinity
    <3>3. CellOf(v, column) = IF column.nullable THEN Null ELSE Refused
      BY <3>1 DEF CellOf, Null
    <3> QED BY <1>5, <3>2, <3>3
  <2>4. CASE Magnitude(cell.data) # InfinityAt
    <3>1. v \in Parsed(Text(cell.data, TRUE)) /\ Magnitude(cell.data) \in F32
      BY <2>1, <2>2, <2>4 DEF F32Text, ValuesOf, Text, IsF32
    <3>2. IsNumber(v) /\ AsF32(AsF64(v)) = cell.data
      BY <2>1, <3>1, F32SurvivesText
    <3>3. CellOf(v, column) = Cell(cell.data)
      BY <1>5, <3>2 DEF CellOf, Expect, ExpectF32, IsNumber
    <3> QED BY <1>1, <2>1, <3>3
  <2> QED BY <2>3, <2>4
<1>6. CASE cell # Null /\ column.type = "vector_float32"
  BY <1>1, <1>6, VectorSurvivesText
<1>7. CASE cell # Null /\ column.type \in {"string", "bool"}
  <2>1. TextOf(cell, column) = [kind |-> column.type, data |-> cell.data] /\ cell = Cell(cell.data)
    BY <1>7 DEF TextOf, IsCell, IntTypes
  <2>2. v = [kind |-> column.type, data |-> cell.data]
    BY <1>7, <2>1 DEF ValuesOf
  <2>3. CellOf(v, column) = Cell(cell.data)
    BY <1>7, <2>2 DEF CellOf, Expect, ExpectData
  <2> QED BY <1>1, <2>1, <2>3
<1> QED BY <1>2, <1>3, <1>4, <1>5, <1>6, <1>7, TypesAre

-----------------------------------------------------------------------------
(* The invariant.                                                          *)

\* What a row is depends on the column only.
LEMMA SameColumn ==
  ASSUME column' = column
  PROVE  /\ ColumnIsMade => ColumnIsMade'
         /\ \A row : RowIsMade(row) => RowIsMade(row)'
<1>1. ColumnIsMade => ColumnIsMade'
  BY DEF ColumnIsMade
<1>2. ASSUME NEW cell
      PROVE  /\ IsCell(cell)' <=> IsCell(cell)
             /\ Fits(cell)' <=> Fits(cell)
             /\ HasInfinity(cell)' <=> HasInfinity(cell)
  BY DEF IsCell, Fits, HasInfinity
<1>3. ASSUME NEW row, RowIsMade(row)
      PROVE  RowIsMade(row)'
  <2>1. SameCell(row)'
    BY <1>2, <1>3 DEF RowIsMade, SameCell
  <2> QED BY <1>2, <1>3, <2>1 DEF RowIsMade
<1> QED BY <1>1, <1>3

\* Rows are added behind those there are.
LEMMA RowsAdded ==
  ASSUME RowInv, UNCHANGED column, NEW n \in Nat, NEW new, DOMAIN new = 1 .. n,
         new = [i \in 1 .. n |-> new[i]], \A i \in 1 .. n : RowIsMade(new[i]), rows' = rows \o new
  PROVE  /\ rows' \in Seq(Stored')
         /\ \A row \in Stored' : RowIsMade(row)'
         /\ \A i \in DOMAIN rows : i \in DOMAIN rows' /\ rows'[i] = rows[i]
<1> DEFINE News == {new[i] : i \in 1 .. n}
           All == Stored \cup News
<1>1. rows \in Seq(Stored) /\ \A row \in Stored : RowIsMade(row)
  BY DEF RowInv
<1>2. new \in Seq(News) /\ Len(new) = n
  <2>1. new \in [1 .. n -> News]
    OBVIOUS
  <2> HIDE DEF News
  <2> QED BY <2>1
<1>3. rows \in Seq(All) /\ new \in Seq(All)
  <2>1. Stored \subseteq All /\ News \subseteq All
    OBVIOUS
  <2> HIDE DEF All, News
  <2> QED BY <1>1, <1>2, <2>1
<1>4. Len(rows) \in Nat /\ DOMAIN rows = 1 .. Len(rows)
  BY <1>1
<1>5. /\ rows' \in Seq(All)
      /\ Len(rows') = Len(rows) + n
      /\ DOMAIN rows' = 1 .. Len(rows) + n
      /\ \A i \in 1 .. Len(rows) + n :
           rows'[i] = IF i <= Len(rows) THEN rows[i] ELSE new[i - Len(rows)]
  <2> HIDE DEF All
  <2> QED BY <1>2, <1>3, <1>4
<1>6. \A i \in DOMAIN rows : i \in DOMAIN rows' /\ rows'[i] = rows[i]
  BY <1>4, <1>5
<1>7. rows' \in Seq(Stored')
  <2>1. rows' \in [1 .. Len(rows') -> Stored']
    <3>1. rows' = [i \in 1 .. Len(rows') |-> rows'[i]]
      <4> HIDE DEF All
      <4> QED BY <1>5
    <3>2. \A i \in 1 .. Len(rows') : rows'[i] \in Stored'
      BY <1>5 DEF Stored
    <3> QED BY <3>1, <3>2
  <2>2. Len(rows') \in Nat
    <3>1. Len(rows') = Len(rows) + n
      BY <1>5
    <3>2. Len(rows) + n \in Nat
      BY <1>4
    <3> QED BY <3>1, <3>2
  <2>3. ASSUME NEW S, NEW s, NEW k \in Nat, s \in [1 .. k -> S]
        PROVE  s \in Seq(S)
    BY <2>3
  <2> HIDE DEF All
  <2> QED BY <2>1, <2>2, <2>3
<1>8. ASSUME NEW row \in Stored'
      PROVE  RowIsMade(row)'
  <2>1. PICK i \in 1 .. Len(rows) + n : row = rows'[i]
    BY <1>5, <1>8 DEF Stored
  <2>2. RowIsMade(row)
    <3>1. CASE i <= Len(rows)
      <4>1. row = rows[i] /\ i \in DOMAIN rows
        BY <1>4, <1>5, <2>1, <3>1
      <4> QED BY <1>1, <4>1 DEF Stored
    <3>2. CASE ~ (i <= Len(rows))
      <4>1. i - Len(rows) \in 1 .. n /\ row = new[i - Len(rows)]
        BY <1>4, <1>5, <2>1, <3>2
      <4> QED BY <4>1
    <3> QED BY <3>1, <3>2
  <2> QED BY <2>2, SameColumn
<1> QED BY <1>6, <1>7, <1>8

\* What is decoded is one cell per row.
LEMMA DecodedIs ==
  ASSUME NEW payload, Len(payload) \in Nat, DOMAIN payload = 1 .. Len(payload),
         NEW cells \in Decoded(payload)
  PROVE  /\ DOMAIN cells = 1 .. Len(payload)
         /\ \A i \in 1 .. Len(payload) :
              \E v \in ValuesOf(payload[i]) : cells[i] = CellOf(v, column)
BY DEF Decoded

\* Rows that are taken have cells that fit, in a column that can have them.
LEMMA TakenCells ==
  ASSUME ColumnIsMade, NEW payload, Len(payload) \in Nat, DOMAIN payload = 1 .. Len(payload),
         \A i \in DOMAIN payload : IsText(payload[i]),
         NEW cells \in Decoded(payload), ~ IsRefused(cells), NEW i \in 1 .. Len(payload)
  PROVE  /\ column.size >= 0
         /\ IsCell(cells[i]) /\ Fits(cells[i]) /\ cells[i] # Refused
         /\ \E v \in ValuesOf(payload[i]) : cells[i] = CellOf(v, column)
<1>1. DOMAIN cells = 1 .. Len(payload)
  BY DecodedIs
<1>2. PICK v \in ValuesOf(payload[i]) : cells[i] = CellOf(v, column)
  BY DecodedIs
<1>3. cells[i] # Refused
  BY <1>1 DEF IsRefused
<1>4. cells # <<>>
  BY <1>1
<1>5. column.size >= 0
  BY <1>4 DEF IsRefused, ColumnIsMade
<1>6. IsText(payload[i])
  OBVIOUS
<1>7. IsCell(cells[i]) /\ Fits(cells[i])
  BY <1>2, <1>3, <1>6, TextTells
<1> QED BY <1>2, <1>3, <1>5, <1>7

\* The rows of an upsert are made.
LEMMA UpsertKeepsInv ==
  ASSUME RowInv, NEW payload \in Payloads, Upsert(payload)
  PROVE  RowInv'
<1>1. column # None /\ ColumnIsMade /\ UNCHANGED column /\ answer' = None
  BY DEF RowInv, Upsert
<1>2. /\ Len(payload) \in Nat /\ DOMAIN payload = 1 .. Len(payload)
      /\ \A i \in DOMAIN payload : IsText(payload[i])
  <2>1. /\ payload \in Seq({payload[i] : i \in DOMAIN payload})
        /\ \A i \in DOMAIN payload : IsText(payload[i])
    BY PayloadsAssumption
  <2> QED BY <2>1
<1> DEFINE from(cells) ==
             [i \in DOMAIN payload |->
               [cell |-> cells[i], first |-> cells[i], origin |-> payload[i], trips |-> 0]]
<1>3. PICK cells \in Decoded(payload) : Write(cells, from(cells))
  BY DEF Upsert
<1>4. DOMAIN cells = 1 .. Len(payload)
  BY <1>2, DecodedIs
<1>5. rows' \in Seq(Stored') /\ \A row \in Stored' : RowIsMade(row)'
  <2>1. CASE UNCHANGED rows
    <3>1. Stored' = Stored
      BY <2>1 DEF Stored
    <3> QED BY <1>1, <2>1, <3>1, SameColumn DEF RowInv
  <2>2. CASE ~ UNCHANGED rows
    <3> DEFINE new == [i \in DOMAIN cells |-> [from(cells)[i] EXCEPT !.cell = cells[i]]]
    <3>1. ~ IsRefused(cells) /\ rows' = rows \o new
      BY <1>3, <2>2 DEF Write
    <3>2. DOMAIN new = 1 .. Len(payload) /\ new = [i \in 1 .. Len(payload) |-> new[i]]
      BY <1>4
    <3>3. ASSUME NEW i \in 1 .. Len(payload)
          PROVE  RowIsMade(new[i])
      <4>1. new[i] = [cell |-> cells[i], first |-> cells[i], origin |-> payload[i], trips |-> 0]
        BY <1>2, <1>4, <3>3
      <4>2. /\ column.size >= 0 /\ IsCell(cells[i]) /\ Fits(cells[i]) /\ cells[i] # Refused
            /\ \E v \in ValuesOf(payload[i]) : cells[i] = CellOf(v, column)
        BY <1>1, <1>2, <3>1, <3>3, TakenCells
      <4>3. IsText(payload[i])
        BY <1>2, <3>3
      <4> HIDE DEF new
      <4>4. /\ new[i].cell = cells[i] /\ new[i].first = cells[i] /\ new[i].origin = payload[i]
            /\ new[i].trips = 0 /\ SameCell(new[i])
        BY <4>1 DEF SameCell
      <4> QED BY <4>1, <4>2, <4>3, <4>4 DEF RowIsMade
    <3> HIDE DEF new
    <3> QED BY <1>1, <1>2, <3>1, <3>2, <3>3, RowsAdded
  <2> QED BY <2>1, <2>2
<1>6. ColumnIsMade' /\ column' # None
  BY <1>1, SameColumn
<1> QED BY <1>1, <1>5, <1>6 DEF RowInv, FormatIsAsAsked

\* A row that is written back is the same, or what one that could not stay so becomes;
\* and it is taken, unless it has an infinity that the column cannot have as a null,
\* or is at the end of the floats.
LEMMA RowWrittenBack ==
  ASSUME RowInv, NEW i, WriteBack(i)
  PROVE  /\ ColumnIsMade /\ UNCHANGED <<column, answer>>
         /\ i \in DOMAIN rows /\ RowIsMade(rows[i])
         /\ \/ /\ told' = "refused" /\ UNCHANGED rows
               /\ \/ /\ HasInfinity(rows[i].cell)
                     /\ column.type = "vector_float32" \/ ~ column.nullable
                  \/ MayOverflow(rows[i].cell)
            \/ /\ told' = "ok"
               /\ \E cell :
                    LET row == [rows[i] EXCEPT !.trips = @ + 1, !.cell = cell]
                    IN rows' = rows \o [j \in 1 .. 1 |-> row] /\ RowIsMade(row)
<1>1. /\ answer # None /\ answer.encoding = "json" /\ i \in DOMAIN answer.data
      /\ UNCHANGED <<column, answer>>
  BY DEF WriteBack
<1>2. ColumnIsMade /\ AnswerIsOfRows
  BY <1>1 DEF RowInv
<1>3. i \in DOMAIN rows /\ answer.data[i] = TextOf(rows[i].cell, column)
  BY <1>1, <1>2 DEF AnswerIsOfRows
<1>4. RowIsMade(rows[i])
  BY <1>3 DEF RowInv, Stored
<1> DEFINE row == rows[i]
           text == TextOf(row.cell, column)
           payload == <<text>>
           from == <<[row EXCEPT !.trips = @ + 1]>>
<1>5. column.size >= 0 /\ IsCell(row.cell) /\ Fits(row.cell) /\ SameCell(row) /\ row.trips \in Nat
  BY <1>4 DEF RowIsMade
<1>6. IsText(text)
  BY <1>2, <1>5, TextIsText
<1>7. PICK cells \in Decoded(payload) : Write(cells, from)
  BY <1>3 DEF WriteBack
<1> DEFINE cell == cells[1]
           new == [row EXCEPT !.trips = @ + 1, !.cell = cell]
<1> HIDE DEF text
<1>8. Len(payload) = 1 /\ DOMAIN payload = 1 .. 1 /\ payload[1] = text
  OBVIOUS
<1>9. DOMAIN cells = 1 .. 1 /\ \E v \in ValuesOf(text) : cell = CellOf(v, column)
  <2> HIDE DEF payload, cell
  <2>1. /\ DOMAIN cells = 1 .. Len(payload)
        /\ \A j \in 1 .. Len(payload) : \E v \in ValuesOf(payload[j]) : cells[j] = CellOf(v, column)
    BY <1>8, DecodedIs
  <2> QED BY <1>8, <2>1 DEF cell
<1> HIDE DEF payload
<1>10. \/ cell = row.cell /\ cell # Refused
       \/ column.type = "float64" /\ cell # Refused
       \/ MayOverflow(row.cell) /\ cell = Refused
       \/ HasInfinity(row.cell) /\ column.type = "float32" /\ cell = Null
       \/ /\ HasInfinity(row.cell) /\ cell = Refused
          /\ column.type = "vector_float32" \/ ~ column.nullable
  <2> HIDE DEF cell, row
  <2> QED BY <1>2, <1>5, <1>9, CellSurvivesText DEF text
<1>11. ~ (column.size < 0) /\ (IsRefused(cells) <=> cell = Refused)
  <2>1. column.size \in Int /\ ~ (column.size < 0)
    BY <1>2, <1>5 DEF ColumnIsMade
  <2> QED BY <1>9, <2>1 DEF IsRefused
<1>12. CASE cell = Refused
  <2>1. told' = "refused" /\ UNCHANGED rows
    BY <1>7, <1>11, <1>12 DEF Write
  <2>2. \/ HasInfinity(row.cell) /\ (column.type = "vector_float32" \/ ~ column.nullable)
        \/ MayOverflow(row.cell)
    BY <1>10, <1>12, CellIs
  <2> QED BY <1>1, <1>2, <1>3, <1>4, <2>1, <2>2
<1>13. CASE cell # Refused
  <2>1. told' = "ok" /\ rows' = rows \o [j \in DOMAIN cells |-> [from[j] EXCEPT !.cell = cells[j]]]
    BY <1>7, <1>11, <1>13 DEF Write
  <2>2. row = [cell |-> row.cell, first |-> row.first, origin |-> row.origin, trips |-> row.trips]
    BY <1>4 DEF RowIsMade
  <2>3. from[1] = [row EXCEPT !.trips = @ + 1]
    OBVIOUS
  <2>4. new = [from[1] EXCEPT !.cell = cells[1]]
    <3> HIDE DEF row
    <3> QED BY <2>2
  <2>5. [j \in DOMAIN cells |-> [from[j] EXCEPT !.cell = cells[j]]] = [j \in 1 .. 1 |-> new]
    <3>1. \A j \in 1 .. 1 : j = 1
      OBVIOUS
    <3> HIDE DEF from, new, cell
    <3> QED BY <1>9, <2>4, <3>1
  <2>6. IsCell(cell) /\ Fits(cell)
    <3>1. PICK v \in ValuesOf(text) : cell = CellOf(v, column)
      BY <1>9
    <3> HIDE DEF cell
    <3> QED BY <1>2, <1>6, <1>13, <3>1, TextTells
  <2>7. new = [cell |-> cell, first |-> row.first, origin |-> row.origin, trips |-> row.trips + 1]
    <3> HIDE DEF row, cell
    <3>1. ASSUME NEW c, NEW f, NEW o, NEW n,
                 row = [cell |-> c, first |-> f, origin |-> o, trips |-> n]
          PROVE  new = [cell |-> cell, first |-> f, origin |-> o, trips |-> n + 1]
      <4>1. [row EXCEPT !.trips = @ + 1] = [cell |-> c, first |-> f, origin |-> o, trips |-> n + 1]
        BY <3>1
      <4>2. ASSUME NEW r, r = [cell |-> c, first |-> f, origin |-> o, trips |-> n + 1]
            PROVE  [r EXCEPT !.cell = cell] =
                     [cell |-> cell, first |-> f, origin |-> o, trips |-> n + 1]
        BY <4>2
      <4>3. new = [[row EXCEPT !.trips = @ + 1] EXCEPT !.cell = cell]
        BY <3>1
      <4> HIDE DEF new
      <4> QED BY <4>1, <4>2, <4>3
    <3> HIDE DEF new
    <3> QED BY <2>2, <3>1
  <2> HIDE DEF new
  <2>8. /\ new.cell = cell /\ new.first = row.first /\ new.origin = row.origin
        /\ new.trips = row.trips + 1 /\ new.trips \in Nat /\ new.trips > 0
    BY <1>5, <2>7
  <2>9. SameCell(new)
    <3> HIDE DEF row, cell
    <3>1. CASE cell = row.cell
      BY <1>5, <2>8, <3>1 DEF SameCell
    <3>2. CASE column.type = "float64"
      BY <2>8, <3>2 DEF SameCell
    <3>3. CASE HasInfinity(row.cell) /\ column.type = "float32" /\ cell = Null
      <4>1. row.cell # Null
        BY <3>3 DEF HasInfinity
      <4>2. row.cell = row.first
        BY <1>5, <3>3, <4>1 DEF SameCell
      <4> QED BY <2>8, <3>3, <4>2 DEF SameCell
    <3> QED BY <1>10, <1>13, <3>1, <3>2, <3>3
  <2>10. RowIsMade(new)
    <3>1. /\ IsText(row.origin) /\ row.first # Refused
          /\ \E v \in ValuesOf(row.origin) : row.first = CellOf(v, column)
      BY <1>4 DEF RowIsMade
    <3> HIDE DEF row, cell
    <3> QED BY <1>5, <2>6, <2>7, <2>8, <2>9, <3>1 DEF RowIsMade
  <2> QED BY <1>1, <1>2, <1>3, <1>4, <2>1, <2>5, <2>10 DEF new
<1> QED BY <1>12, <1>13

\* A row that is written back keeps the invariant.
LEMMA WriteBackKeepsInv ==
  ASSUME RowInv, NEW i, WriteBack(i)
  PROVE  RowInv'
<1>1. column # None /\ ColumnIsMade /\ answer # None /\ UNCHANGED <<column, answer>>
  <2>1. answer # None
    BY DEF WriteBack
  <2>2. column # None
    BY <2>1 DEF RowInv
  <2> QED BY <2>1, <2>2, RowWrittenBack
<1>2. /\ rows' \in Seq(Stored') /\ \A row \in Stored' : RowIsMade(row)'
      /\ \A j \in DOMAIN rows : j \in DOMAIN rows' /\ rows'[j] = rows[j]
  <2>1. CASE UNCHANGED rows
    <3>1. Stored' = Stored
      BY <2>1 DEF Stored
    <3> QED BY <1>1, <2>1, <3>1, SameColumn DEF RowInv
  <2>2. CASE ~ UNCHANGED rows
    <3>1. PICK row : rows' = rows \o [j \in 1 .. 1 |-> row] /\ RowIsMade(row)
      BY <2>2, RowWrittenBack
    <3> DEFINE new == [j \in 1 .. 1 |-> row]
    <3>2. /\ DOMAIN new = 1 .. 1 /\ new = [j \in 1 .. 1 |-> new[j]]
          /\ \A j \in 1 .. 1 : RowIsMade(new[j])
      BY <3>1
    <3>3. rows' = rows \o new
      BY <3>1
    <3> HIDE DEF new
    <3> QED BY <1>1, <3>2, <3>3, RowsAdded
  <2> QED BY <2>1, <2>2
<1>3. AnswerIsOfRows' /\ AnswerIsLimited'
  <2>1. AnswerIsOfRows /\ AnswerIsLimited
    BY <1>1 DEF RowInv
  <2> QED BY <1>1, <1>2, <2>1 DEF AnswerIsOfRows, AnswerIsLimited
<1>4. FormatIsAsAsked'
  BY <1>1 DEF RowInv, FormatIsAsAsked
<1>5. ColumnIsMade' /\ column' # None
  BY <1>1, SameColumn
<1> QED BY <1>2, <1>3, <1>4, <1>5 DEF RowInv

\* A search answers in the format and with the rows it was asked for.
LEMMA SearchKeepsInv ==
  ASSUME RowInv, NEW interface \in Interfaces, NEW limit \in Limits \cup {Omitted},
         NEW wanted \in Formats \cup {Omitted}, Search(interface, limit, wanted)
  PROVE  RowInv'
<1> DEFINE format == FormatFor(interface, FormatSent(interface, wanted))
           most == EngineLimit(LimitFor(interface, limit))
<1>1. column # None /\ ColumnIsMade /\ UNCHANGED <<column, rows>>
  BY DEF Search, RowInv
<1>2. PICK found \in SUBSET DOMAIN rows :
        /\ Cardinality(found) <= most
        /\ answer' =
             [interface |-> interface, limit |-> limit, wanted |-> wanted,
              format |-> FormatTold(interface, format), encoding |-> format,
              data |-> [i \in found |-> IF format = "json" THEN TextOf(rows[i].cell, column)
                                                            ELSE rows[i].cell]]
  BY DEF Search
<1>3. /\ answer'.interface = interface /\ answer'.limit = limit /\ answer'.wanted = wanted
      /\ answer'.format = FormatTold(interface, format) /\ answer'.encoding = format
      /\ DOMAIN answer'.data = found
      /\ format = "json" => \A i \in found : answer'.data[i] = TextOf(rows[i].cell, column)
  <2> HIDE DEF format
  <2> QED BY <1>2
<1>4. FormatRead(interface, FormatTold(interface, format)) = format /\ wanted \in {Omitted, format}
  BY DEF FormatRead, FormatTold, FormatFor, FormatSent, Interfaces, Formats
<1>5. Cardinality(found) \in Nat
  <2>1. DOMAIN rows = 1 .. Len(rows) /\ Len(rows) \in Int
    BY DEF RowInv
  <2>2. IsFiniteSet(1 .. Len(rows))
    BY <2>1, FS_Interval
  <2>3. IsFiniteSet(found)
    BY <2>1, <2>2, FS_Subset
  <2> QED BY <2>3, FS_CardinalityType
<1>6. FormatIsAsAsked'
  <2> HIDE DEF format
  <2> QED BY <1>3, <1>4 DEF FormatIsAsAsked
<1>7. AnswerIsLimited'
  <2> HIDE DEF format
  <2> QED BY <1>2, <1>3, <1>5 DEF AnswerIsLimited
<1>8. AnswerIsOfRows'
  <2> HIDE DEF format
  <2> QED BY <1>1, <1>3 DEF AnswerIsOfRows
<1>9. Stored' = Stored /\ rows' = rows /\ column' = column
  BY <1>1 DEF Stored
<1>10. rows' \in Seq(Stored') /\ \A row \in Stored' : RowIsMade(row)'
  BY <1>9, SameColumn DEF RowInv
<1>11. ColumnIsMade' /\ column' # None
  BY <1>1, SameColumn
<1> QED BY <1>6, <1>7, <1>8, <1>10, <1>11 DEF RowInv

\* A table is made before there are rows or answers.
LEMMA CreateTableKeepsInv ==
  ASSUME RowInv, NEW interface \in Interfaces, NEW def \in Definitions, CreateTable(interface, def)
  PROVE  RowInv'
<1>1. rows = <<>> /\ answer = None /\ rows' = <<>> /\ answer' = None
  BY DEF CreateTable, RowInv
<1>2. Stored' = {}
  BY <1>1 DEF Stored
<1>3. rows' \in Seq(Stored')
  BY <1>1
<1> DEFINE asked == [def EXCEPT !.nullable = NullableFor(interface, def.nullable)]
           field == FieldOf(asked)
<1>4. column' = column \/ (field # Refused /\ column' = field)
  BY DEF CreateTable
<1>5. ASSUME field # Refused, column' = field
      PROVE  ColumnIsMade'
  <2>1. def \in [type : ColumnTypes, dim : U32, nullable : BOOLEAN \cup {Omitted}]
    BY DefinitionsAssumption
  <2>2. asked.type = def.type /\ asked.dim = def.dim /\ asked.nullable \in BOOLEAN
    <3>1. NullableFor(interface, def.nullable) \in BOOLEAN
      BY <2>1 DEF NullableFor
    <3> QED BY <2>1, <3>1
  <2>3. asked.type \in ColumnTypes /\ asked.dim \in U32
    BY <2>1, <2>2
  <2> HIDE DEF asked
  <2>4. /\ asked.type # "unspecified"
        /\ field = [type |-> asked.type, nullable |-> asked.nullable, dim |-> asked.dim,
                    size |-> IF asked.type = "vector_float32" THEN Wrap(asked.dim, I32) ELSE 0]
    BY <1>5 DEF FieldOf
  <2> DEFINE size == IF asked.type = "vector_float32" THEN Wrap(asked.dim, I32) ELSE 0
  <2>5. size \in Int /\ (asked.type = "vector_float32" => size = asked.dim \/ size < 0)
    BY <2>3, WrapIs
  <2> HIDE DEF size
  <2>6. /\ column'.type = asked.type /\ column'.nullable = asked.nullable /\ column'.dim = asked.dim
        /\ column'.size = size
    BY <1>5, <2>4 DEF size
  <2> QED BY <2>2, <2>3, <2>4, <2>5, <2>6 DEF ColumnIsMade
<1> HIDE DEF field
<1>6. IF column' = None THEN rows' = <<>> /\ answer' = None ELSE ColumnIsMade'
  <2>1. CASE column' = column
    BY <1>1, <2>1, SameColumn DEF RowInv
  <2> QED BY <1>1, <1>4, <1>5, <2>1
<1> QED BY <1>1, <1>2, <1>3, <1>6 DEF RowInv, FormatIsAsAsked

LEMMA InitRowInv == Init => RowInv
BY DEF Init, RowInv, Stored, FormatIsAsAsked

LEMMA NextKeepsRowInv == RowInv /\ [Next]_vars => RowInv'
<1> SUFFICES ASSUME RowInv, [Next]_vars
             PROVE  RowInv'
  OBVIOUS
<1>1. ASSUME NEW interface \in Interfaces, NEW def \in Definitions, CreateTable(interface, def)
      PROVE  RowInv'
  BY <1>1, CreateTableKeepsInv
<1>2. ASSUME NEW interface \in Interfaces, NEW limit \in Limits \cup {Omitted},
             NEW wanted \in Formats \cup {Omitted}, Search(interface, limit, wanted)
      PROVE  RowInv'
  BY <1>2, SearchKeepsInv
<1>3. ASSUME NEW payload \in Payloads, Upsert(payload)
      PROVE  RowInv'
  BY <1>3, UpsertKeepsInv
<1>4. ASSUME NEW i \in 1 .. MaxRows, WriteBack(i)
      PROVE  RowInv'
  BY <1>4, WriteBackKeepsInv
<1>5. CASE UNCHANGED vars
  <2>1. Stored' = Stored /\ rows' = rows /\ column' = column /\ answer' = answer
    BY <1>5 DEF vars, Stored
  <2>2. rows' \in Seq(Stored') /\ \A row \in Stored' : RowIsMade(row)'
    BY <2>1, SameColumn DEF RowInv
  <2>3. /\ AnswerIsOfRows => AnswerIsOfRows'
        /\ AnswerIsLimited => AnswerIsLimited'
    BY <2>1 DEF AnswerIsOfRows, AnswerIsLimited
  <2>4. FormatIsAsAsked => FormatIsAsAsked'
    BY <2>1 DEF FormatIsAsAsked
  <2>5. ColumnIsMade => ColumnIsMade'
    BY <2>1, SameColumn
  <2> QED BY <2>1, <2>2, <2>3, <2>4, <2>5 DEF RowInv
<1> QED BY <1>1, <1>2, <1>3, <1>4, <1>5 DEF Next

\* RowInv holds in every state the program can be in.
THEOREM RowInvariant == Spec => []RowInv
BY InitRowInv, NextKeepsRowInv, PTL DEF Spec

\* Rows fit the column as it was asked for, whatever was written and written back
\* through the conversions of engine.rs.
THEOREM RowsFit == Spec => []RowsFitColumn
<1>1. RowInv => RowsFitColumn
  BY DEF RowInv, Stored, RowIsMade, RowsFitColumn
<1> QED BY <1>1, RowInvariant, PTL

\* Callers of the three interfaces read their answers in the format they are in; and
\* have no more rows than they asked for, than the default or than the largest limit,
\* if that is not below the default.
THEOREM AnswersAreAsAsked ==
  ASSUME DefaultLimit <= MaxSearchLimit
  PROVE  Spec => []AnswerIsAsAsked
<1>1. RowInv => AnswerIsAsAsked
  <2> SUFFICES ASSUME RowInv, answer # None
               PROVE  LET n == Cardinality(DOMAIN answer.data)
                      IN /\ n <= MaxSearchLimit
                         /\ n <= IF answer.limit \in {0, Omitted} THEN DefaultLimit ELSE answer.limit
    BY DEF RowInv, AnswerIsAsAsked
  <2> DEFINE n == Cardinality(DOMAIN answer.data)
             most == EngineLimit(LimitFor(answer.interface, answer.limit))
  <2>1. n \in Nat /\ n <= most /\ answer.limit \in Limits \cup {Omitted}
    BY DEF RowInv, AnswerIsLimited
  <2>2. Limits \subseteq Nat /\ DefaultLimit \in Nat /\ MaxSearchLimit \in Nat
    BY LimitsAssumption
  <2>3. /\ most \in Nat /\ most <= MaxSearchLimit
        /\ answer.limit \in {0, Omitted} => most <= DefaultLimit
        /\ answer.limit \notin {0, Omitted} => answer.limit \in Nat /\ most <= answer.limit
    <3>1. DefaultLimit <= MaxSearchLimit
      OBVIOUS
    <3>2. ASSUME NEW limit \in Nat
          PROVE  /\ EngineLimit(limit) \in Nat /\ EngineLimit(limit) <= MaxSearchLimit
                 /\ limit = 0 => EngineLimit(limit) = DefaultLimit
                 /\ limit # 0 => EngineLimit(limit) <= limit
      BY <2>2, <3>1 DEF EngineLimit
    <3>3. CASE answer.limit = Omitted
      <4>1. LimitFor(answer.interface, answer.limit) \in {0, DefaultLimit}
        BY <3>3 DEF LimitFor
      <4> QED BY <2>2, <3>2, <3>3, <4>1
    <3>4. CASE answer.limit # Omitted
      <4>1. LimitFor(answer.interface, answer.limit) = answer.limit /\ answer.limit \in Nat
        BY <2>1, <2>2, <3>4 DEF LimitFor
      <4> QED BY <2>2, <3>2, <3>4, <4>1
    <3> QED BY <3>3, <3>4
  <2> HIDE DEF n, most
  <2>4. n <= MaxSearchLimit
        /\ n <= IF answer.limit \in {0, Omitted} THEN DefaultLimit ELSE answer.limit
    BY <2>1, <2>2, <2>3
  <2> QED BY <2>4 DEF n
<1> QED BY <1>1, RowInvariant, PTL

\* A row that was read as JSON and written back, however often, is the same.
THEOREM RowsSurviveTrips == Spec => []WrittenBackIsSame
<1>1. RowInv => WrittenBackIsSame
  BY DEF RowInv, Stored, RowIsMade, SameCell, WrittenBackIsSame
<1> QED BY <1>1, RowInvariant, PTL

\* What is read as JSON tells what was written: exactly, but for an f32 up to the next
\* one and for a float64 up to the slip of the reader.
THEOREM RowsAreReadBack == Spec => []ReadBack
<1>1. RowInv => ReadBack
  <2> SUFFICES ASSUME RowInv, answer # None, answer.encoding = "json", NEW i \in DOMAIN answer.data,
                      rows[i].trips = 0 \/ column.type # "float64"
               PROVE  Tells(answer.data[i], rows[i].origin)
    BY DEF ReadBack
  <2> DEFINE row == rows[i]
  <2>1. ColumnIsMade /\ AnswerIsOfRows
    BY DEF RowInv
  <2>2. i \in DOMAIN rows /\ answer.data[i] = TextOf(row.cell, column)
    BY <2>1 DEF AnswerIsOfRows
  <2>3. RowIsMade(row)
    BY <2>2 DEF RowInv, Stored
  <2>4. PICK v \in ValuesOf(row.origin) : row.first = CellOf(v, column)
    BY <2>3 DEF RowIsMade
  <2> HIDE DEF row
  <2>5. IsText(row.origin) /\ row.first # Refused
    BY <2>3 DEF RowIsMade
  <2>6. Tells(TextOf(row.first, column), row.origin) /\ IsCell(row.first)
    BY <2>1, <2>4, <2>5, TextTells
  <2>7. CASE row.cell = row.first
    BY <2>2, <2>6, <2>7 DEF row
  <2>8. CASE column.type = "float32" /\ HasInfinity(row.first) /\ row.cell = Null
    <3>1. TextOf(row.cell, column) = Null
      BY <2>8 DEF TextOf
    <3>2. TextOf(row.first, column) = Null
      BY <2>8 DEF TextOf, HasInfinity, F32Text, IntTypes
    <3> QED BY <2>2, <2>6, <3>1, <3>2 DEF row
  <2>9. ~ (column.type = "float64" /\ row.trips > 0)
    BY DEF row
  <2> QED BY <2>3, <2>7, <2>8, <2>9 DEF RowIsMade, SameCell
<1> QED BY <1>1, RowInvariant, PTL

\* A row the program gave as JSON is a row it takes.
THEOREM WriteBacksAreAccepted == Spec => WriteBackIsAccepted
<1>1. ASSUME RowInv, [Next]_vars
      PROVE  [\A i \in 1 .. MaxRows :
                told' = "refused" /\ WriteBack(i) =>
                  \/ HasInfinity(rows[i].cell)
                       /\ (column.type = "vector_float32" \/ ~ column.nullable)
                  \/ MayOverflow(rows[i].cell)]_vars
  BY <1>1, RowWrittenBack
<1> QED BY <1>1, RowInvariant, PTL DEF Spec, WriteBackIsAccepted

=============================================================================
