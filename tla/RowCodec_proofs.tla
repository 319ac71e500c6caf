---------------------------- MODULE RowCodec_proofs ----------------------------
(***************************************************************************)
(* What the conversions of RowCodec give, for any widths and floats its    *)
(* assumptions allow: which number a decimal text becomes in a column of   *)
(* each type, and that the way to a text and back ends where it began.     *)
(***************************************************************************)
EXTENDS RowCodec, FiniteSetTheorems, NaturalsInduction, WellFoundedInduction, TLAPS

\* A set of numbers that is not empty has a smallest one.
LEMMA SmallestExists ==
  ASSUME NEW T, T \subseteq Nat, T # {}
  PROVE  \E x \in T : \A y \in T : x <= y
<1>1. PICK R : R = OpToRel(<, Nat)
  OBVIOUS
<1>2. IsWellFoundedOn(R, Nat)
  BY <1>1, NatLessThanWellFounded, Zenon
<1>3. \A x, y \in Nat : x < y => <<x, y>> \in R
  BY <1>1 DEF OpToRel
<1>4. PICK x \in T : \A y \in T : ~ (<<y, x>> \in R)
  BY <1>2, WFMin, Zenon
<1>5. \A y \in T : ~ (y < x)
  BY <1>3, <1>4
<1>6. \A y \in T : x \in Nat /\ y \in Nat
  BY <1>4
<1> QED BY <1>5, <1>6

\* The numbers next to x are what their names say, where there are any.
LEMMA BelowIs ==
  ASSUME NEW floats \in SUBSET Nat, NEW x \in Nat, NEW w \in floats, w <= x
  PROVE  /\ Below(x, floats) \in floats
         /\ Below(x, floats) <= x
         /\ \A z \in floats : z <= x => z <= Below(x, floats)
<1> DEFINE Gaps == {x - y : y \in {u \in floats : u <= x}}
<1>1. Gaps \subseteq Nat /\ Gaps # {}
  OBVIOUS
<1>2. PICK gap \in Gaps : \A other \in Gaps : gap <= other
  BY <1>1, SmallestExists, Zenon
<1>3. PICK y \in floats : y <= x /\ gap = x - y
  BY <1>2
<1>4. \A z \in floats : z <= x => z <= y
  <2>1. SUFFICES ASSUME NEW z \in floats, z <= x
                 PROVE  z <= y
    OBVIOUS
  <2>2. x - z \in Gaps
    BY <2>1
  <2>3. x - y <= x - z
    BY <1>2, <1>3, <2>2
  <2> QED BY <2>3
<1>5. \E u \in floats : u <= x /\ \A z \in floats : z <= x => z <= u
  BY <1>3, <1>4
<1> QED BY <1>5 DEF Below

LEMMA AboveIs ==
  ASSUME NEW floats \in SUBSET Nat, NEW x \in Nat, NEW w \in floats, w >= x
  PROVE  /\ Above(x, floats) \in floats
         /\ Above(x, floats) >= x
         /\ \A z \in floats : z >= x => z >= Above(x, floats)
<1> DEFINE Higher == {y \in floats : y >= x}
<1>1. Higher \subseteq Nat /\ Higher # {}
  OBVIOUS
<1>2. PICK y \in Higher : \A z \in Higher : y <= z
  BY <1>1, SmallestExists, Zenon
<1>3. \E u \in floats : u >= x /\ \A z \in floats : z >= x => z >= u
  BY <1>2
<1> QED BY <1>3 DEF Above

\* No number of a type lies between two magnitudes.
Adjacent(x, y, floats) ==
  \A z \in floats : ~ (x < z /\ z < y) /\ ~ (y < z /\ z < x)

\* Rounding leads to a number that is nowhere further than any other.
LEMMA NearestIs ==
  ASSUME NEW floats \in SUBSET Nat, 0 \in floats, NEW x \in Nat, IsWithin(x, floats)
  PROVE  /\ Nearest(x, floats) \in floats
         /\ Adjacent(x, Nearest(x, floats), floats)
         /\ \A z \in floats : Magnitude(x - Nearest(x, floats)) <= Magnitude(x - z)
<1> DEFINE low == Below(x, floats)
           high == Above(x, floats)
           tie == low % (2 * (high - low)) = 0
<1>1. low \in floats /\ low <= x /\ \A z \in floats : z <= x => z <= low
  BY BelowIs
<1>2. PICK w \in floats : w >= x
  BY DEF IsWithin, Magnitude
<1>3. high \in floats /\ high >= x /\ \A z \in floats : z >= x => z >= high
  BY <1>2, AboveIs
<1>4. \/ Nearest(x, floats) = x /\ x \in floats
      \/ Nearest(x, floats) = low /\ x - low <= high - x
      \/ Nearest(x, floats) = high /\ high - x <= x - low
  <2>1. Nearest(x, floats) =
          IF x \in floats THEN x
          ELSE IF x - low < high - x \/ (x - low = high - x /\ tie) THEN low ELSE high
    BY DEF Nearest
  <2>2. low \in Nat /\ high \in Nat
    BY <1>1, <1>3
  <2> HIDE DEF low, high, tie
  <2> QED BY <2>1, <2>2
<1>5. \A z \in floats : z \in Nat
  OBVIOUS
<1> HIDE DEF low, high
<1>6. CASE Nearest(x, floats) = x /\ x \in floats
  BY <1>5, <1>6 DEF Adjacent, Magnitude
<1>7. CASE Nearest(x, floats) = low /\ x - low <= high - x
  BY <1>1, <1>3, <1>5, <1>7 DEF Adjacent, Magnitude
<1>8. CASE Nearest(x, floats) = high /\ high - x <= x - low
  BY <1>1, <1>3, <1>5, <1>8 DEF Adjacent, Magnitude
<1> QED BY <1>4, <1>6, <1>7, <1>8

\* The line of numbers ends.
LEMMA LastIs == Last \in Nat /\ \A x \in Line : x \in Nat /\ x <= Last
<1>1. \A x \in Line : x \in Nat
  BY WidthsAssumption DEF Line
<1>2. PICK last \in Beyond : \A x \in Beyond : x <= last
  BY WidthsAssumption
<1>3. last \in Line /\ \A x \in Line : x <= last
  <2>1. \A x \in F64 : x < last
    BY <1>2, WidthsAssumption
  <2>2. \A x \in F64 : x <= last
    BY <1>1, <1>2, <2>1 DEF Line
  <2> QED BY <1>2, <2>2 DEF Line
<1>4. Last \in Line /\ \A y \in Line : y <= Last
  BY <1>3 DEF Last
<1> QED BY <1>1, <1>4

\* What lies between two numbers can be counted.
LEMMA BetweenIsFinite ==
  ASSUME NEW x \in Nat, NEW y \in Nat
  PROVE  IsFiniteSet(Between(x, y)) /\ Cardinality(Between(x, y)) \in Nat
<1>1. Between(x, y) \subseteq 0 .. Last
  BY LastIs DEF Between
<1>2. IsFiniteSet(0 .. Last)
  BY LastIs, FS_Interval
<1>3. IsFiniteSet(Between(x, y))
  BY <1>1, <1>2, FS_Subset
<1> QED BY <1>3, FS_CardinalityType

\* With nothing between them numbers are near.
LEMMA AdjacentIsNear ==
  ASSUME NEW x \in Nat, NEW y \in Nat, Adjacent(x, y, Line)
  PROVE  IsNear(x, y)
<1>1. Between(x, y) = {}
  BY DEF Between, Adjacent
<1>2. Cardinality(Between(x, y)) = 0
  BY <1>1, FS_EmptySet
<1> QED BY <1>2, WidthsAssumption DEF IsNear

\* A number near another one is near all those on the way to it.
LEMMA NearOnTheWay ==
  ASSUME NEW x \in Nat, NEW y \in Nat, NEW z \in Nat, IsNear(x, y),
         (x <= z /\ z <= y) \/ (y <= z /\ z <= x)
  PROVE  IsNear(z, y)
<1>1. \A n \in Line : n \in Nat
  BY LastIs
<1>2. Between(z, y) \subseteq Between(x, y)
  BY <1>1 DEF Between
<1>3. /\ Cardinality(Between(z, y)) <= Cardinality(Between(x, y))
      /\ Cardinality(Between(z, y)) \in Nat /\ Cardinality(Between(x, y)) \in Nat
  <2>1. IsFiniteSet(Between(x, y)) /\ Cardinality(Between(x, y)) \in Nat
    BY BetweenIsFinite
  <2>2. Cardinality(Between(z, y)) \in Nat
    BY BetweenIsFinite
  <2>3. Cardinality(Between(z, y)) <= Cardinality(Between(x, y))
    BY <1>2, <2>1, FS_Subset
  <2> QED BY <2>1, <2>2, <2>3
<1> QED BY <1>3, WidthsAssumption DEF IsNear

\* What a text is read as is an f64 near the number it spells, that number if it has
\* few digits.
Reading(x, y) ==
  /\ y \in F64
  /\ IsNear(x, y)
  /\ x \in Short => y = x

\* serde_json reads such a number, if any.
LEMMA ReadAsIs ==
  ASSUME NEW x \in Nat, x <= Last, NEW y \in ReadAs(x)
  PROVE  y \in Line /\ IsNear(x, y) /\ (x \in Short => y = x)
<1>1. CASE x \in Short
  <2>1. y = x /\ x \in Line
    BY <1>1, WidthsAssumption DEF ReadAs, Line
  <2>2. Adjacent(x, x, Line)
    BY LastIs DEF Adjacent
  <2> QED BY <1>1, <2>1, <2>2, AdjacentIsNear
<1>2. CASE x \notin Short
  <2>1. x \in 0 .. Last
    BY LastIs
  <2>2. Near[x] = {n \in Line : IsNear(x, n)}
    BY <2>1 DEF Near
  <2> QED BY <1>2, <2>2 DEF ReadAs
<1> QED BY <1>1, <1>2

\* And so does the conversion of an integer to f64.
LEMMA IntReading ==
  ASSUME NEW x \in Nat, IsWithin(x, F64)
  PROVE  Reading(x, Nearest(x, F64))
<1> DEFINE y == Nearest(x, F64)
<1>1. F64 \in SUBSET Nat /\ 0 \in F64 /\ Short \subseteq F64
  BY WidthsAssumption
<1>2. y \in F64 /\ Adjacent(x, y, F64)
  BY <1>1, NearestIs
<1>3. x \in Short => y = x
  BY <1>1 DEF Nearest
<1> HIDE DEF y
<1>4. PICK w \in F64 : w >= x
  BY DEF IsWithin, Magnitude
<1>5. \A b \in Beyond : b \in Nat /\ w < b /\ y < b
  BY <1>2, <1>4, WidthsAssumption
<1>6. y \in Nat /\ w \in Nat
  BY <1>1, <1>2, <1>4
<1>7. Adjacent(x, y, Line)
  BY <1>2, <1>4, <1>5, <1>6 DEF Adjacent, Line
<1>8. IsNear(x, y)
  BY <1>6, <1>7, AdjacentIsNear
<1> QED BY <1>2, <1>3, <1>8 DEF Reading, y

\* A numeral is a number once it is parsed, of the magnitude it spells and of its sign.
LEMMA NumberOfNumeral ==
  ASSUME NEW t, IsNumeral(t), NEW v \in Parsed(t), v # Refused
  PROVE  /\ IsNumber(v)
         /\ \E y : Reading(Magnitude(t.units), y) /\ AsF64(v) = Signed(t.units, y)
         /\ v.kind = "int" => /\ v.n \in I64 \cup U64
                              /\ t = IntText(v.n)
<1> DEFINE x == Magnitude(t.units)
<1>1. t.units \in Int /\ t.dotted \in BOOLEAN /\ x \in Nat /\ One \in Nat /\ One # 0
  BY WidthsAssumption DEF IsNumeral, Magnitude
<1>2. CASE ~ t.dotted /\ t.units \div One \in I64 \cup U64
  <2> DEFINE n == t.units \div One
  <2>1. v = [kind |-> "int", n |-> n]
    BY <1>2 DEF Parsed
  <2>2. t.units % One = 0
    BY <1>2 DEF IsNumeral
  <2>3. n \in Int /\ t.units = One * n
    BY <1>1, <2>2
  <2>4. t = IntText(n)
    BY <1>2, <2>3 DEF IntText, Text, IsNumeral
  <2>5. IsWithin(One * n, F64)
    BY <1>2, FloatsAssumption
  <2>6. x = Magnitude(One * n)
    BY <2>3
  <2>7. IsWithin(x, F64)
    BY <1>1, <2>3, <2>5, <2>6 DEF IsWithin, Magnitude
  <2>8. Reading(x, Nearest(x, F64))
    BY <1>1, <2>7, IntReading
  <2>9. (n < 0) <=> (t.units < 0)
    BY <1>1, <2>3
  <2>10. AsF64(v) = Signed(t.units, Nearest(x, F64))
    <3> HIDE DEF n, x
    <3>1. v.kind = "int" /\ v.n = n
      BY <2>1
    <3> QED BY <2>6, <2>9, <3>1 DEF AsF64, Signed
  <2> HIDE DEF n, x
  <2>11. v.kind = "int" /\ v.n = n /\ n \in I64 \cup U64
    BY <1>2, <2>1 DEF n
  <2> QED BY <2>4, <2>8, <2>10, <2>11 DEF IsNumber, x
<1>3. CASE ~ (~ t.dotted /\ t.units \div One \in I64 \cup U64)
  <2>1. ~ (x > Last)
    BY <1>3 DEF Parsed
  <2>2. v \in {IF y \in F64 THEN [kind |-> "float", units |-> Signed(t.units, y)] ELSE Refused :
                 y \in ReadAs(x)}
    BY <1>3, <2>1, Zenon DEF Parsed
  <2>3. PICK y \in ReadAs(x) : y \in F64 /\ v = [kind |-> "float", units |-> Signed(t.units, y)]
    <3> HIDE DEF x
    <3> QED BY <2>2
  <2>4. Reading(x, y)
    BY <1>1, <2>1, <2>3, LastIs, ReadAsIs DEF Reading
  <2> QED BY <2>3, <2>4 DEF IsNumber, AsF64
<1> QED BY <1>2, <1>3

\* The f32 that a number becomes on its way through an f64 is next to it, the infinity
\* if it is beyond the last; and it is the number itself if that is an f32.
LEMMA F32OfReading ==
  ASSUME NEW s \in Int, NEW y, Reading(Magnitude(s), y)
  PROVE  \E m \in F32 \cup {InfinityAt} :
           /\ AsF32(Signed(s, y)) = Signed(s, m)
           /\ m = InfinityAt => \A z \in F32 : z < Magnitude(s)
           /\ m # InfinityAt => Adjacent(Magnitude(s), m, F32)
           /\ Magnitude(s) \in F32 => m = Magnitude(s)
<1> DEFINE x == Magnitude(s)
           G == F32 \cup {InfinityAt}
           u == Signed(s, y)
<1>1. /\ G \in SUBSET Nat /\ 0 \in G /\ F32 \subseteq G /\ F32 \subseteq F64 /\ F64 \subseteq Nat
      /\ InfinityAt \in G /\ InfinityAt \in Nat /\ \A z \in F32 : z \in Nat /\ z < InfinityAt
      /\ \A z \in G : z \in Nat
  BY WidthsAssumption
<1>2. x \in Nat /\ y \in Nat /\ y \in F64 /\ IsNear(x, y)
  BY <1>1 DEF Reading, Magnitude
<1>3. ASSUME NEW z \in F32, (x <= z /\ z <= y) \/ (y <= z /\ z <= x)
      PROVE  \A other \in G \ {z} : Magnitude(y - z) < Magnitude(y - other)
  <2>1. y \in Line /\ z \in Nat
    BY <1>1, <1>2 DEF Line
  <2>2. IsNear(z, y)
    BY <1>2, <1>3, <2>1, NearOnTheWay
  <2> QED BY <2>1, <2>2, FloatsAssumption
<1>4. u \in Int /\ Magnitude(u) = y /\ (y # 0 => (u < 0 <=> s < 0)) /\ (y = 0 => u = 0)
  BY <1>2 DEF Signed, Magnitude
<1>7. CASE IsWithin(u, G)
  <2> DEFINE m == Nearest(y, G)
  <2>1. IsWithin(y, G)
    BY <1>2, <1>4, <1>7 DEF IsWithin, Magnitude
  <2>2. m \in G /\ Adjacent(y, m, G) /\ \A z \in G : Magnitude(y - m) <= Magnitude(y - z)
    <3> HIDE DEF G
    <3> QED BY <1>1, <1>2, <2>1, NearestIs
  <2>3. AsF32(u) = Signed(u, m)
    BY <1>4, <1>7 DEF AsF32
  <2> HIDE DEF m, u, x, G
  <2>4. m \in Nat
    BY <1>1, <2>2
  <2>5. ASSUME NEW z \in F32, (x <= z /\ z <= y) \/ (y <= z /\ z <= x)
        PROVE  m = z
    <3>1. ASSUME m # z
          PROVE  FALSE
      <4>1. Magnitude(y - z) < Magnitude(y - m)
        BY <1>3, <2>2, <2>5, <3>1 DEF G
      <4>2. Magnitude(y - m) <= Magnitude(y - z)
        BY <1>1, <2>2, <2>5
      <4>3. z \in Nat
        BY <1>1
      <4> QED BY <1>2, <2>4, <4>1, <4>2, <4>3 DEF Magnitude
    <3> QED BY <3>1
  <2>6. Signed(u, m) = Signed(s, m)
    <3>1. CASE y = 0
      <4>1. 0 \in G /\ Magnitude(y - m) <= Magnitude(y - 0)
        BY <1>1, <2>2
      <4>2. m = 0
        BY <2>4, <3>1, <4>1 DEF Magnitude
      <4> QED BY <4>2 DEF Signed
    <3>2. CASE y # 0
      BY <1>4, <3>2 DEF Signed
    <3> QED BY <3>1, <3>2
  <2>7. x \in F32 => m = x
    <3>1. x <= x
      BY <1>2
    <3>2. x <= y \/ y <= x
      BY <1>2
    <3> QED BY <2>5, <3>1, <3>2
  <2>8. m = InfinityAt => \A z \in F32 : z < x
    <3> SUFFICES ASSUME m = InfinityAt, NEW z \in F32, z >= x
                 PROVE  FALSE
      BY <1>1, <1>2
    <3>1. z \in Nat /\ z \in G /\ z < InfinityAt
      BY <1>1
    <3>2. y < z
      BY <1>2, <2>5, <3>1
    <3> QED BY <2>2, <3>1, <3>2 DEF Adjacent
  <2>9. Adjacent(x, m, F32)
    <3>1. ASSUME NEW z \in F32, x < z, z < m
          PROVE  FALSE
      <4>1. z \in Nat /\ z \in G
        BY <1>1
      <4>2. y < z
        BY <1>2, <2>4, <2>5, <3>1, <4>1
      <4> QED BY <2>2, <3>1, <4>1, <4>2 DEF Adjacent
    <3>2. ASSUME NEW z \in F32, m < z, z < x
          PROVE  FALSE
      <4>1. z \in Nat /\ z \in G
        BY <1>1
      <4>2. z < y
        BY <1>2, <2>4, <2>5, <3>2, <4>1
      <4> QED BY <2>2, <3>2, <4>1, <4>2 DEF Adjacent
    <3> QED BY <3>1, <3>2 DEF Adjacent
  <2> QED BY <2>2, <2>3, <2>6, <2>7, <2>8, <2>9 DEF u, x, G
<1>8. CASE ~ IsWithin(u, G)
  <2>1. \A z \in G : z < y
    BY <1>1, <1>2, <1>4, <1>8 DEF IsWithin
  <2>2. AsF32(u) = Signed(u, InfinityAt)
    BY <1>8 DEF AsF32
  <2> HIDE DEF u, x
  <2>3. Signed(u, InfinityAt) = Signed(s, InfinityAt)
    BY <1>1, <1>2, <1>4, <2>1 DEF Signed
  <2>4. \A z \in F32 : z < x
    <3> SUFFICES ASSUME NEW z \in F32, z >= x
                 PROVE  FALSE
      BY <1>1, <1>2
    <3>1. z \in Nat /\ z < InfinityAt /\ z < y /\ InfinityAt < y /\ InfinityAt \in G \ {z}
      BY <1>1, <2>1
    <3>2. x <= z /\ z <= y
      BY <1>2, <3>1
    <3>3. Magnitude(y - z) < Magnitude(y - InfinityAt)
      BY <1>3, <3>1, <3>2
    <3> QED BY <1>1, <1>2, <3>1, <3>3 DEF Magnitude
  <2>5. x \notin F32
    BY <1>2, <2>4
  <2> QED BY <1>1, <2>2, <2>3, <2>4, <2>5 DEF u, x, G
<1> QED BY <1>7, <1>8

\* A magnitude with a sign is that of the number, and in order with it.
LEMMA SignedIs ==
  ASSUME NEW s \in Int, NEW m \in Nat
  PROVE  Signed(s, m) \in Int /\ Magnitude(Signed(s, m)) = m /\ Signed(s, Magnitude(s)) = s
BY DEF Signed, Magnitude

\* What the text of an f64 may be read as.
LEMMA ParsedF64 ==
  ASSUME NEW u \in Int, Magnitude(u) \in F64, NEW v \in Parsed(Text(u, TRUE))
  PROVE  \E y \in Line :
           /\ IsNear(Magnitude(u), y)
           /\ v = IF y \in F64 THEN [kind |-> "float", units |-> Signed(u, y)] ELSE Refused
<1> DEFINE t == Text(u, TRUE)
           x == Magnitude(u)
<1>1. t.units = u /\ t.dotted
  BY DEF Text
<1>2. x \in Nat /\ x <= Last /\ Last \in Nat
  BY LastIs DEF Line, Magnitude
<1>3. v \in Parsed(t)
  OBVIOUS
<1> HIDE DEF t, x
<1>4. ~ (Magnitude(t.units) > Last)
  BY <1>1, <1>2 DEF x
<1>5. v \in {IF y \in F64 THEN [kind |-> "float", units |-> Signed(u, y)] ELSE Refused :
               y \in ReadAs(x)}
  BY <1>1, <1>3, <1>4, Zenon DEF Parsed, x
<1>6. PICK y \in ReadAs(x) :
        v = IF y \in F64 THEN [kind |-> "float", units |-> Signed(u, y)] ELSE Refused
  BY <1>5
<1>7. y \in Line /\ IsNear(x, y)
  BY <1>2, ReadAsIs
<1> QED BY <1>6, <1>7 DEF x

\* An f32 that is no infinity is itself again after it was a text, to the bit.
LEMMA F32SurvivesText ==
  ASSUME NEW u \in Int, Magnitude(u) \in F32, NEW v \in Parsed(Text(u, TRUE))
  PROVE  IsNumber(v) /\ AsF32(AsF64(v)) = u
<1> DEFINE t == Text(u, TRUE)
<1>1. IsNumeral(t) /\ t.units = u
  BY DEF IsNumeral, Text
<1>2. v # Refused
  <2>1. Magnitude(u) \in F64
    BY WidthsAssumption
  <2>2. PICK y \in Line :
          /\ IsNear(Magnitude(u), y)
          /\ v = IF y \in F64 THEN [kind |-> "float", units |-> Signed(u, y)] ELSE Refused
    BY <2>1, ParsedF64
  <2>3. y \in F64
    BY <2>2, FloatsAssumption
  <2> QED BY <2>2, <2>3 DEF Refused
<1> HIDE DEF t
<1>3. PICK y : Reading(Magnitude(u), y) /\ AsF64(v) = Signed(u, y) /\ IsNumber(v)
  BY <1>1, <1>2, NumberOfNumeral DEF t
<1>4. PICK m : AsF32(AsF64(v)) = Signed(u, m) /\ m = Magnitude(u)
  BY <1>3, F32OfReading
<1> QED BY <1>3, <1>4, SignedIs

\* So is an integer.
LEMMA IntSurvivesText ==
  ASSUME NEW n \in I64 \cup U64, NEW v \in Parsed(IntText(n))
  PROVE  v = [kind |-> "int", n |-> n]
<1>1. n \in Int /\ One \in Nat /\ One # 0
  BY WidthsAssumption
<1>2. (One * n) \div One = n
  BY <1>1
<1> QED BY <1>2 DEF Parsed, IntText, Text

\* An f64 comes back as an f64, if not as itself, or is refused so near the end.
LEMMA F64SurvivesText ==
  ASSUME NEW u \in Int, Magnitude(u) \in F64, NEW v \in Parsed(Text(u, TRUE))
  PROVE  \/ IsNumber(v)
         \/ v = Refused /\ \E y \in Beyond : IsNear(Magnitude(u), y)
<1>1. PICK y \in Line :
        /\ IsNear(Magnitude(u), y)
        /\ v = IF y \in F64 THEN [kind |-> "float", units |-> Signed(u, y)] ELSE Refused
  BY ParsedF64
<1>2. CASE y \in F64
  BY <1>1, <1>2 DEF IsNumber
<1>3. CASE y \notin F64
  BY <1>1, <1>3 DEF Line
<1> QED BY <1>2, <1>3

\* `as i32` of a dimension is the dimension, or negative.
LEMMA WrapIs ==
  ASSUME NEW dim \in U32
  PROVE  Wrap(dim, I32) \in Int /\ (Wrap(dim, I32) = dim \/ Wrap(dim, I32) < 0)
<1>1. PICK half \in U32 : I32 = -half .. half - 1 /\ U32 = 0 .. 2 * half - 1
  BY WidthsAssumption
<1>2. half \in Nat /\ half > 0 /\ dim \in Nat /\ dim < 2 * half
  BY <1>1, WidthsAssumption
<1>3. Cardinality(I32) = 2 * half
  <2>1. -half \in Int /\ half - 1 \in Int
    BY <1>2
  <2>2. Cardinality(-half .. half - 1) =
          IF -half > half - 1 THEN 0 ELSE half - 1 - (-half) + 1
    BY <2>1, FS_Interval, Zenon
  <2>3. ~ (-half > half - 1) /\ half - 1 - (-half) + 1 = 2 * half
    BY <1>2
  <2> QED BY <1>1, <2>2, <2>3
<1> DEFINE range == 2 * half
<1>4. \E i \in I32 : (dim - i) % range = 0
  <2>1. CASE dim < half
    <3>1. dim \in I32 /\ (dim - dim) % range = 0
      BY <1>1, <1>2, <2>1
    <3> QED BY <3>1
  <2>2. CASE ~ (dim < half)
    <3>1. dim - range \in I32 /\ (dim - (dim - range)) % range = 0
      BY <1>1, <1>2, <2>2
    <3> QED BY <3>1
  <2> QED BY <2>1, <2>2
<1> DEFINE w == Wrap(dim, I32)
<1>5. w \in I32 /\ (dim - w) % range = 0
  BY <1>3, <1>4 DEF Wrap
<1> HIDE DEF w
<1>6. w \in Int /\ -half <= w /\ w < half
  BY <1>1, <1>2, <1>5
<1>7. ASSUME w >= 0
      PROVE  w = dim
  <2>1. CASE w <= dim
    BY <1>2, <1>5, <1>6, <1>7, <2>1
  <2>2. CASE dim < w
    BY <1>2, <1>5, <1>6, <1>7, <2>2
  <2> QED BY <1>2, <1>6, <2>1, <2>2
<1> QED BY <1>6, <1>7 DEF w

=============================================================================
