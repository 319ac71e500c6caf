------------------------- MODULE GrpcService_proofs -------------------------
(***************************************************************************)
(* ServiceInv is an invariant of GrpcService, for any requests,            *)
(* configurations, days and failures of the logger; its safety properties  *)
(* and those of the logger follow.                                         *)
(***************************************************************************)
EXTENDS GrpcService, FiniteSetTheorems, SequenceTheorems, TLAPS

(***************************************************************************)
(* The logger, whoever uses it.                                            *)
(***************************************************************************)

\* The types of the logger, and what they say of its days.
LEMMA LoggerTypes ==
  ASSUME Logger!TypeOK
  PROVE  /\ today \in 1 .. LastDay /\ today \in Nat /\ openDay \in 1 .. today
         /\ openDay \in Logger!Days /\ openDay \in Nat /\ Logger!Days \subseteq Nat
         /\ \A d \in Logger!Days : /\ files[d] \in Seq(Logger!Lines) /\ Len(files[d]) \in Nat
                                   /\ DOMAIN files[d] = 1 .. Len(files[d])
<1>1. today \in 1 .. LastDay /\ LastDay \in Nat
  BY BoundsAssumption DEF Logger!TypeOK, Logger!Days
<1>2. openDay \in 1 .. today
  BY DEF Logger!TypeOK
<1> QED  BY <1>1, <1>2 DEF Logger!TypeOK, Logger!Days

\* What is in a file was stamped on a day and is about something.
LEMMA EntriesAreLines ==
  ASSUME Logger!TypeOK, NEW d \in Logger!Days, NEW i \in DOMAIN files[d]
  PROVE  /\ files[d][i] \in Logger!Lines
         /\ files[d][i].category \in Categories /\ files[d][i].stamped \in Nat
<1>1. files[d][i] \in Logger!Lines /\ Logger!Days \subseteq Nat
  BY LoggerTypes
<1> QED  BY <1>1 DEF Logger!Lines

\* A line that is written comes last in the file that is open, and nothing else is
\* written.
LEMMA WriteAppends ==
  ASSUME Logger!TypeOK, NEW w \in Requests, line[w] # None,
         files' = [files EXCEPT ![openDay] = Append(@, line[w])]
  PROVE  /\ line[w] \in Logger!Lines
         /\ files' \in [Logger!Days -> Seq(Logger!Lines)]
         /\ \A d \in Logger!Days : d # openDay => files'[d] = files[d]
         /\ files'[openDay] = Append(files[openDay], line[w])
         /\ DOMAIN files'[openDay] = 1 .. Len(files[openDay]) + 1
         /\ files'[openDay][Len(files[openDay]) + 1] = line[w]
         /\ \A i \in DOMAIN files[openDay] : files'[openDay][i] = files[openDay][i]
<1>1. openDay \in Logger!Days /\ files \in [Logger!Days -> Seq(Logger!Lines)]
  BY LoggerTypes DEF Logger!TypeOK
<1>2. line[w] \in Logger!Lines
  BY DEF Logger!TypeOK
<1>3. /\ files[openDay] \in Seq(Logger!Lines)
      /\ files'[openDay] = Append(files[openDay], line[w])
      /\ \A d \in Logger!Days : d # openDay => files'[d] = files[d]
  BY <1>1
<1>4. files' \in [Logger!Days -> Seq(Logger!Lines)]
  <2>1. Append(files[openDay], line[w]) \in Seq(Logger!Lines)
    BY <1>2, <1>3
  <2> QED  BY <1>1, <2>1
<1> QED  BY <1>2, <1>3, <1>4

\* Before a line is written its file was opened for it, and it is filed right.
LEMMA WriteKeepsLoggerInv ==
  ASSUME Logger!LoggerInv, NEW w \in Requests, Logger!Write(w)
  PROVE  Logger!LoggerInv'
<1>1. /\ holder = w /\ holder' = None /\ line' = [line EXCEPT ![w] = None]
      /\ UNCHANGED <<today, stderr, openDay, denied>>
      /\ \/ files' = [files EXCEPT ![openDay] = Append(@, line[w])] /\ UNCHANGED lost
         \/ lost' = lost \cup {w} /\ UNCHANGED files
  BY DEF Logger!Write
<1>2. Logger!TypeOK /\ line[w] # None /\ w # None
  BY <1>1, NoneAssumption DEF Logger!LoggerInv, Logger!HolderMayWrite
<1>3. line'[w] = None /\ \A v \in Requests : v # w => line'[v] = line[v]
  BY <1>1, <1>2 DEF Logger!TypeOK
<1>4. Logger!LinesAreStamped' /\ Logger!HolderMayWrite'
  BY <1>1, <1>3 DEF Logger!LoggerInv, Logger!LinesAreStamped, Logger!HolderMayWrite
<1>5. CASE files' = files
  <2>1. Logger!TypeOK'
    BY <1>1, <1>2, <1>5 DEF Logger!TypeOK
  <2> QED  BY <1>1, <1>4, <1>5, <2>1
        DEF Logger!LoggerInv, Logger!LaterFilesEmpty, Logger!FiledUnderItsDay
<1>6. CASE files' = [files EXCEPT ![openDay] = Append(@, line[w])] /\ UNCHANGED lost
  <2>1. Logger!TypeOK'
    BY <1>1, <1>2, <1>6, WriteAppends DEF Logger!TypeOK
  <2>2. Logger!LaterFilesEmpty'
    BY <1>1, <1>2, <1>6, WriteAppends, LoggerTypes DEF Logger!LoggerInv, Logger!LaterFilesEmpty
  <2>3. ASSUME NEW d \in Logger!Days, NEW i \in 1 .. Len(files'[d])
        PROVE  \/ files'[d][i].stamped <= d
               \/ \E day \in files'[d][i].stamped .. today : day \in denied
    <3>1. CASE d = openDay /\ i = Len(files[d]) + 1
      BY <1>1, <1>2, <1>6, <3>1, WriteAppends DEF Logger!LoggerInv, Logger!HolderMayWrite
    <3>2. CASE ~ (d = openDay /\ i = Len(files[d]) + 1)
      <4>1. Len(files[d]) \in Nat /\ i \in 1 .. Len(files[d]) /\ files'[d][i] = files[d][i]
        <5>1. CASE d # openDay
          BY <1>2, <1>6, <2>3, <5>1, WriteAppends, LoggerTypes
        <5>2. CASE d = openDay
          <6>1. Len(files'[d]) = Len(files[d]) + 1 /\ Len(files[d]) \in Nat
            <7>1. /\ files'[d] = Append(files[d], line[w]) /\ files[d] \in Seq(Logger!Lines)
                  /\ line[w] \in Logger!Lines
              BY <1>2, <1>6, <5>2, WriteAppends, LoggerTypes
            <7> QED  BY <7>1
          <6>2. i \in DOMAIN files[d]
            BY <1>2, <2>3, <3>2, <5>2, <6>1, LoggerTypes
          <6> QED  BY <1>2, <1>6, <5>2, <6>1, <6>2, WriteAppends, LoggerTypes
        <5> QED  BY <5>1, <5>2
      <4> QED  BY <4>1 DEF Logger!LoggerInv, Logger!FiledUnderItsDay
    <3> QED  BY <3>1, <3>2
  <2>4. Logger!FiledUnderItsDay'
    BY <1>1, <2>3 DEF Logger!FiledUnderItsDay
  <2> QED  BY <1>4, <2>1, <2>2, <2>4 DEF Logger!LoggerInv
<1> QED  BY <1>1, <1>5, <1>6

\* No step of the logger breaks its invariant.
LEMMA LoggerKeepsInv == Logger!LoggerInv /\ [Logger!Next]_logVars => Logger!LoggerInv'
<1> SUFFICES ASSUME Logger!LoggerInv, [Logger!Next]_logVars
             PROVE  Logger!LoggerInv'
  OBVIOUS
<1>1. Logger!TypeOK /\ today \in Nat /\ openDay \in 1 .. today /\ today \in 1 .. LastDay
  BY LoggerTypes DEF Logger!LoggerInv
<1>2. ASSUME NEW w \in Requests, NEW category \in Categories, Logger!Begin(w, category)
      PROVE  Logger!LoggerInv'
  <2> DEFINE entry == [by |-> w, category |-> category, stamped |-> today]
  <2>1. /\ line[w] = None /\ line' = [line EXCEPT ![w] = entry]
        /\ UNCHANGED <<today, stderr, holder, openDay, files, denied, lost>>
    BY <1>2 DEF Logger!Begin, Logger!Idle
  <2>2. entry \in Logger!Lines
    BY <1>1 DEF Logger!Lines, Logger!Days
  <2>3. Logger!TypeOK'
    BY <1>1, <2>1, <2>2 DEF Logger!TypeOK
  <2>4. line'[w] = entry /\ \A v \in Requests : v # w => line'[v] = line[v]
    BY <1>1, <2>1 DEF Logger!TypeOK
  <2>5. Logger!LinesAreStamped'
    BY <1>1, <2>1, <2>4 DEF Logger!LoggerInv, Logger!LinesAreStamped
  <2>6. Logger!HolderMayWrite'
    BY <1>1, <2>1, <2>4 DEF Logger!LoggerInv, Logger!HolderMayWrite, Logger!TypeOK
  <2> QED  BY <2>1, <2>3, <2>5, <2>6
        DEF Logger!LoggerInv, Logger!LaterFilesEmpty, Logger!FiledUnderItsDay
<1>3. ASSUME NEW w \in Requests, Logger!Lock(w)
      PROVE  Logger!LoggerInv'
  <2>1. /\ line[w] # None /\ holder = None /\ holder' = w
        /\ \/ openDay' = today /\ UNCHANGED denied
           \/ openDay' = openDay /\ denied' = denied \cup {today}
        /\ UNCHANGED <<today, stderr, line, files, lost>>
    BY <1>3 DEF Logger!Lock, Logger!Takes
  <2>2. line[w].stamped <= today /\ line[w].stamped \in Nat
    BY <1>1, <2>1 DEF Logger!LoggerInv, Logger!LinesAreStamped, Logger!TypeOK, Logger!Lines,
                     Logger!Days
  <2>3. Logger!TypeOK'
    <3>1. today \in 1 .. today /\ today \in Logger!Days
      BY <1>1, BoundsAssumption DEF Logger!Days
    <3>2. openDay' \in 1 .. today /\ denied' \subseteq Logger!Days
      BY <1>1, <2>1, <3>1 DEF Logger!TypeOK
    <3> QED  BY <1>1, <2>1, <3>2 DEF Logger!TypeOK
  <2>4. Logger!LinesAreStamped'
    BY <2>1 DEF Logger!LoggerInv, Logger!LinesAreStamped
  <2>5. Logger!HolderMayWrite'
    BY <1>1, <2>1, <2>2 DEF Logger!HolderMayWrite
  <2>6. Logger!LaterFilesEmpty'
    BY <1>1, <2>1 DEF Logger!LoggerInv, Logger!LaterFilesEmpty, Logger!Days
  <2>7. Logger!FiledUnderItsDay'
    BY <2>1 DEF Logger!LoggerInv, Logger!FiledUnderItsDay
  <2> QED  BY <2>3, <2>4, <2>5, <2>6, <2>7 DEF Logger!LoggerInv
<1>4. CASE Logger!Environment
  <2>1. /\ today' \in {today, today + 1} /\ today' \in 1 .. LastDay
        /\ stderr' \in {"open", "gone"}
        /\ UNCHANGED <<line, holder, openDay, files, denied, lost>>
    BY <1>1, <1>4, BoundsAssumption DEF Logger!Environment, Logger!NextDay, Logger!LoseStderr,
                                      Logger!TypeOK
  <2>2. today' \in Nat /\ today <= today'
    BY <1>1, <2>1
  <2>3. Logger!TypeOK'
    BY <1>1, <2>1, <2>2 DEF Logger!TypeOK, Logger!Days
  <2>4. \A w \in Requests : line[w] # None => line[w].stamped \in Nat
    BY <1>1 DEF Logger!TypeOK, Logger!Lines, Logger!Days
  <2>5. Logger!LinesAreStamped'
    BY <1>1, <2>1, <2>2, <2>4 DEF Logger!LoggerInv, Logger!LinesAreStamped
  <2>6. Logger!HolderMayWrite'
    <3>1. holder # None => holder \in Requests
      BY <1>1 DEF Logger!TypeOK
    <3> QED  BY <1>1, <2>1, <2>2, <2>4, <3>1 DEF Logger!LoggerInv, Logger!HolderMayWrite
  <2>7. Logger!LaterFilesEmpty'
    BY <2>1 DEF Logger!LoggerInv, Logger!LaterFilesEmpty
  <2>8. Logger!FiledUnderItsDay'
    <3> SUFFICES ASSUME NEW d \in Logger!Days, NEW i \in 1 .. Len(files[d])
                 PROVE  \/ files[d][i].stamped <= d
                        \/ \E day \in files[d][i].stamped .. today' : day \in denied
      BY <2>1 DEF Logger!FiledUnderItsDay
    <3>1. files[d][i].stamped \in Nat
      BY <1>1, EntriesAreLines, LoggerTypes
    <3> QED  BY <1>1, <2>2, <3>1 DEF Logger!LoggerInv, Logger!FiledUnderItsDay
  <2> QED  BY <2>3, <2>5, <2>6, <2>7, <2>8 DEF Logger!LoggerInv
<1>5. CASE UNCHANGED logVars
  BY <1>5 DEF logVars, Logger!LoggerInv, Logger!TypeOK, Logger!LinesAreStamped,
              Logger!HolderMayWrite, Logger!LaterFilesEmpty, Logger!FiledUnderItsDay
<1>6. ASSUME NEW w \in Requests, Logger!Panics(w)
      PROVE  UNCHANGED logVars
  BY <1>6 DEF Logger!Panics, Logger!vars, logVars
<1> QED  BY <1>2, <1>3, <1>4, <1>5, <1>6, WriteKeepsLoggerInv DEF Logger!Next, Logger!Proceed

\* No line moves or goes, and only the open file and later ones grow.
LEMMA LoggerCloses ==
  ASSUME Logger!LoggerInv, [Logger!Next]_logVars
  PROVE  /\ openDay <= openDay'
         /\ \A d \in Logger!Days : /\ SubSeq(files'[d], 1, Len(files[d])) = files[d]
                                  /\ d < openDay => files'[d] = files[d]
<1>1. Logger!TypeOK /\ openDay \in Nat /\ openDay <= today /\ openDay \in Logger!Days
  BY LoggerTypes DEF Logger!LoggerInv
<1>2. \A d \in Logger!Days : SubSeq(files[d], 1, Len(files[d])) = files[d]
  BY <1>1, LoggerTypes
<1>3. ASSUME files' = files, openDay' \in {openDay, today}
      PROVE  /\ openDay <= openDay'
             /\ \A d \in Logger!Days : /\ SubSeq(files'[d], 1, Len(files[d])) = files[d]
                                      /\ d < openDay => files'[d] = files[d]
  BY <1>1, <1>2, <1>3
<1>4. ASSUME NEW w \in Requests, Logger!Write(w)
      PROVE  /\ openDay <= openDay'
             /\ \A d \in Logger!Days : /\ SubSeq(files'[d], 1, Len(files[d])) = files[d]
                                      /\ d < openDay => files'[d] = files[d]
  <2>1. /\ holder = w /\ openDay' = openDay
        /\ \/ files' = [files EXCEPT ![openDay] = Append(@, line[w])]
           \/ files' = files
    BY <1>4 DEF Logger!Write
  <2>2. line[w] # None
    BY <2>1, NoneAssumption DEF Logger!LoggerInv, Logger!HolderMayWrite
  <2>3. CASE files' = [files EXCEPT ![openDay] = Append(@, line[w])]
    <3>1. /\ files'[openDay] = Append(files[openDay], line[w]) /\ line[w] \in Logger!Lines
          /\ \A d \in Logger!Days : d # openDay => files'[d] = files[d]
      BY <1>1, <2>2, <2>3, WriteAppends
    <3>2. SubSeq(files'[openDay], 1, Len(files[openDay])) = files[openDay]
      BY <1>1, <3>1, LoggerTypes
    <3> QED  BY <1>1, <1>2, <2>1, <3>1, <3>2
  <2> QED  BY <1>3, <2>1, <2>3
<1>5. ASSUME ~ \E w \in Requests : Logger!Write(w)
      PROVE  files' = files /\ openDay' \in {openDay, today}
  BY <1>5 DEF Logger!Next, Logger!Begin, Logger!Panics, Logger!vars, Logger!Proceed, Logger!Lock,
     Logger!Environment, Logger!NextDay, Logger!LoseStderr, logVars
<1> QED  BY <1>3, <1>4, <1>5

(***************************************************************************)
(* The lines of a request.                                                 *)
(***************************************************************************)

\* The lines come in three ranks, and a handler is past none to three of them.
LEMMA Ranks ==
  /\ Rank["start"] = 1 /\ Rank["ok"] = 2 /\ Rank["error"] = 2 /\ Rank["slow_request"] = 3
  /\ \A category \in Categories : Rank[category] \in 1 .. 3
  /\ Stage["new"] = 0 /\ Stage["start"] = 0 /\ Stage["call"] = 1 /\ Stage["engine"] = 1
  /\ Stage["mapped"] = 1 /\ Stage["slow"] = 2 /\ Stage["reply"] = 3 /\ Stage["done"] = 3
BY DEF Rank, Stage, Categories

\* The places of a request's lines, day by day.
LEMMA PlacesByDay ==
  ASSUME NEW r, NEW p
  PROVE  p \in Logger!PlacesOf(r) <=>
           \E d \in Logger!Days : \E i \in DOMAIN files[d] : p = <<d, i>> /\ files[d][i].by = r
BY DEF Logger!PlacesOf, Logger!Places, Logger!EntryAt

\* The rank of a line that is written.
LEMMA RankOfPlace ==
  ASSUME Logger!TypeOK, NEW r \in Requests, NEW p \in Logger!PlacesOf(r)
  PROVE  RankAt(p) \in 1 .. 3
<1>1. PICK d \in Logger!Days, i \in Nat : i \in DOMAIN files[d] /\ p = <<d, i>>
  BY PlacesByDay, LoggerTypes
<1>2. Logger!EntryAt(p).category \in Categories
  BY <1>1, EntriesAreLines DEF Logger!EntryAt
<1> QED  BY <1>2, Ranks DEF RankAt

\* A handler writes three lines at most.
LEMMA ThreeLines ==
  ASSUME Logger!TypeOK, NEW r \in Requests, LinesInOrder(r)
  PROVE  Cardinality(Logger!PlacesOf(r)) <= 3
<1> DEFINE P == Logger!PlacesOf(r)
           f == [p \in P |-> RankAt(p)]
<1>1. f \in [P -> 1 .. 3]
  BY RankOfPlace
<1>2. ASSUME NEW p \in P, NEW q \in P, f[p] = f[q]
      PROVE  p = q
  <2>1. RankAt(p) = RankAt(q) /\ RankAt(p) \in 1 .. 3
    BY <1>2, RankOfPlace
  <2>2. ~ Logger!IsBefore(p, q) /\ ~ Logger!IsBefore(q, p)
    BY <2>1 DEF LinesInOrder
  <2>3. PICK d \in Logger!Days, i \in Nat : i \in DOMAIN files[d] /\ p = <<d, i>>
    BY PlacesByDay, LoggerTypes
  <2>4. PICK e \in Logger!Days, j \in Nat : j \in DOMAIN files[e] /\ q = <<e, j>>
    BY PlacesByDay, LoggerTypes
  <2>5. d \in Nat /\ e \in Nat /\ i \in Nat /\ j \in Nat
    BY <2>3, <2>4, LoggerTypes
  <2>6. d = e
    BY <2>2, <2>3, <2>4, <2>5 DEF Logger!IsBefore
  <2>7. i = j
    BY <2>2, <2>3, <2>4, <2>5, <2>6 DEF Logger!IsBefore
  <2> QED  BY <2>3, <2>4, <2>6, <2>7
<1>3. f \in Injection(P, 1 .. 3)
  BY <1>1, <1>2 DEF Injection, IsInjective
<1>4. IsFiniteSet(1 .. 3) /\ Cardinality(1 .. 3) = 3
  <2>1. IsFiniteSet(1 .. 3) /\ Cardinality(1 .. 3) = IF 1 > 3 THEN 0 ELSE 3 - 1 + 1
    <3>1. 1 \in Int /\ 3 \in Int
      OBVIOUS
    <3> QED  BY <3>1, FS_Interval, Zenon
  <2> QED  BY <2>1
<1> HIDE DEF f
<1>5. Cardinality(P) <= Cardinality(1 .. 3)
  BY <1>3, <1>4, FS_Injection
<1> QED  BY <1>4, <1>5

\* Nothing that the invariant says of request r changes.
Untouched(r) ==
  /\ config' = config
  /\ pc'[r] = pc[r] /\ line'[r] = line[r] /\ (r \in lost' <=> r \in lost)
  /\ outcome'[r] = outcome[r] /\ status'[r] = status[r] /\ took'[r] = took[r]
  /\ Logger!PlacesOf(r)' = Logger!PlacesOf(r)
  /\ \A p \in Logger!PlacesOf(r) : Logger!EntryAt(p)' = Logger!EntryAt(p)

\* An untouched request keeps its part of the invariant.
LEMMA UntouchedStays ==
  ASSUME NEW r \in Requests, OutcomeOfStage(r), LinesInOrder(r), StorySoFar(r), Untouched(r)
  PROVE  OutcomeOfStage(r)' /\ LinesInOrder(r)' /\ StorySoFar(r)'
<1>1. OutcomeOfStage(r)'
  BY DEF Untouched, OutcomeOfStage
<1>2. \A p \in Logger!PlacesOf(r) : RankAt(p)' = RankAt(p)
  BY DEF Untouched, RankAt
<1>3. LinesInOrder(r)'
  BY <1>2 DEF Untouched, LinesInOrder, Logger!IsBefore
<1>4. Told(r)' = Told(r)
  BY DEF Told, Untouched
<1>5. Story(r)' = Story(r)
  BY DEF Story, Untouched
<1>6. StorySoFar(r)'
  BY <1>4, <1>5 DEF Untouched, StorySoFar
<1> QED  BY <1>1, <1>3, <1>6

\* As long as no file changes, every line keeps its place.
LEMMA PlacesStay ==
  ASSUME files' = files
  PROVE  /\ \A r : Logger!PlacesOf(r)' = Logger!PlacesOf(r) /\ Told(r)' = Told(r)
         /\ \A p : Logger!EntryAt(p)' = Logger!EntryAt(p) /\ RankAt(p)' = RankAt(p)
<1>1. \A p : Logger!EntryAt(p)' = Logger!EntryAt(p) /\ RankAt(p)' = RankAt(p)
  BY DEF Logger!EntryAt, RankAt
<1>2. \A r : Logger!PlacesOf(r)' = Logger!PlacesOf(r)
  BY DEF Logger!PlacesOf, Logger!Places, Logger!EntryAt
<1>3. \A r : Told(r)' = Told(r)
  BY <1>1, <1>2 DEF Told
<1> QED  BY <1>1, <1>2, <1>3

\* A line that is written is the last of all, and its writer's.
LEMMA PlaceOfWrite ==
  ASSUME Logger!LoggerInv, NEW w \in Requests, line[w] # None,
         files' = [files EXCEPT ![openDay] = Append(@, line[w])],
         NEW p0, p0 = <<openDay, Len(files[openDay]) + 1>>
  PROVE  /\ \A r \in Requests :
              /\ \A p \in Logger!PlacesOf(r) : /\ Logger!EntryAt(p)' = Logger!EntryAt(p)
                                               /\ ~ Logger!IsBefore(p0, p)
              /\ Logger!PlacesOf(r)' = Logger!PlacesOf(r) \cup (IF r = w THEN {p0} ELSE {})
         /\ Logger!EntryAt(p0)' = line[w] /\ ~ Logger!IsBefore(p0, p0)
<1>1. Logger!TypeOK /\ line[w].by = w
  BY DEF Logger!LoggerInv, Logger!LinesAreStamped
<1>2. /\ openDay \in Logger!Days /\ openDay \in Nat /\ Logger!Days \subseteq Nat
      /\ \A d \in Logger!Days : Len(files[d]) \in Nat /\ DOMAIN files[d] = 1 .. Len(files[d])
  BY <1>1, LoggerTypes
<1>3. /\ \A d \in Logger!Days : d # openDay => files'[d] = files[d]
      /\ DOMAIN files'[openDay] = 1 .. Len(files[openDay]) + 1
      /\ files'[openDay][Len(files[openDay]) + 1] = line[w]
      /\ \A i \in DOMAIN files[openDay] : files'[openDay][i] = files[openDay][i]
  BY <1>1, WriteAppends
<1>4. \A d \in Logger!Days : \A i \in DOMAIN files[d] :
        /\ i \in DOMAIN files'[d] /\ files'[d][i] = files[d][i]
        /\ <<d, i>> # p0
  BY <1>2, <1>3
<1>5. \A d \in Logger!Days : \A i \in DOMAIN files'[d] : i \in DOMAIN files[d] \/ <<d, i>> = p0
  BY <1>2, <1>3
<1>6. Logger!EntryAt(p0)' = line[w]
  BY <1>3 DEF Logger!EntryAt
<1>7. ~ Logger!IsBefore(p0, p0)
  BY <1>2 DEF Logger!IsBefore
<1>8. ASSUME NEW r \in Requests, NEW p \in Logger!PlacesOf(r)
      PROVE  Logger!EntryAt(p)' = Logger!EntryAt(p) /\ ~ Logger!IsBefore(p0, p)
  <2>1. PICK d \in Logger!Days, i \in Nat : i \in DOMAIN files[d] /\ p = <<d, i>>
    BY <1>1, <1>8, PlacesByDay, LoggerTypes
  <2>2. Logger!EntryAt(p)' = Logger!EntryAt(p)
    BY <1>4, <2>1 DEF Logger!EntryAt
  <2>3. d <= openDay
    <3>1. files[d] # <<>>
      BY <1>2, <2>1
    <3> QED  BY <1>2, <3>1 DEF Logger!LoggerInv, Logger!LaterFilesEmpty
  <2> QED  BY <1>2, <2>1, <2>2, <2>3 DEF Logger!IsBefore
<1>9. ASSUME NEW r \in Requests, NEW p
      PROVE  p \in Logger!PlacesOf(r)' <=> p \in Logger!PlacesOf(r) \/ (r = w /\ p = p0)
  <2>1. p \in Logger!PlacesOf(r)' <=>
          \E d \in Logger!Days : \E i \in DOMAIN files'[d] : p = <<d, i>> /\ files'[d][i].by = r
    BY DEF Logger!PlacesOf, Logger!Places, Logger!EntryAt
  <2>2. p0 \in Logger!PlacesOf(w)'
    BY <1>1, <1>2, <1>3 DEF Logger!PlacesOf, Logger!Places, Logger!EntryAt
  <2>3. ASSUME p \in Logger!PlacesOf(r)'
        PROVE  p \in Logger!PlacesOf(r) \/ (r = w /\ p = p0)
    <3>1. PICK d \in Logger!Days, i \in Nat : i \in DOMAIN files'[d] /\ p = <<d, i>> /\ files'[d][i].by = r
      BY <1>2, <1>3, <2>1, <2>3
    <3>2. CASE i \in DOMAIN files[d]
      BY <1>4, <3>1, <3>2, PlacesByDay
    <3>3. CASE <<d, i>> = p0
      BY <1>1, <1>3, <3>1, <3>3
    <3> QED  BY <1>5, <3>1, <3>2, <3>3
  <2>4. ASSUME p \in Logger!PlacesOf(r)
        PROVE  p \in Logger!PlacesOf(r)'
    BY <1>4, <2>1, <2>4, PlacesByDay
  <2> QED  BY <2>2, <2>3, <2>4
<1> QED  BY <1>6, <1>7, <1>8, <1>9

(***************************************************************************)
(* The handlers.                                                           *)
(***************************************************************************)

\* The state of the handlers.
HandlersOK ==
  /\ config \in Configs
  /\ nextId \in Nat
  /\ pc \in [Requests ->
       {"new", "start", "call", "engine", "mapped", "slow", "reply", "done"}]
  /\ id \in [Requests -> Nat]
  /\ clock \in [Requests -> 0 .. MaxTicks]
  /\ waited \in [Requests -> 0 .. MaxTicks]
  /\ took \in [Requests -> 0 .. MaxTicks]
  /\ outcome \in [Requests -> {"none", "ok"} \cup Errors]
  /\ status \in [Requests -> {"none", "ok", "deadline_exceeded"} \cup Errors]

\* ServiceInv without the number of lines, which follows from the rest.
ServiceCore ==
  /\ HandlersOK
  /\ Logger!LoggerInv
  /\ NumbersTaken
  /\ IdsAreUnique
  /\ \A r \in Requests : OutcomeOfStage(r) /\ LinesInOrder(r) /\ StorySoFar(r)

\* The core is the whole.
LEMMA CoreIsInv == ServiceCore => ServiceInv
BY ThreeLines DEF ServiceCore, ServiceInv, HandlersOK, TypeOK, Logger!LoggerInv

\* A step of one handler keeps the invariant if it keeps what is said of all, and of
\* that handler.
LEMMA OneMoves ==
  ASSUME ServiceCore, NEW r \in Requests, [Logger!Next]_logVars,
         HandlersOK', NumbersTaken', IdsAreUnique',
         OutcomeOfStage(r)', LinesInOrder(r)', StorySoFar(r)',
         \A s \in Requests : s # r => Untouched(s)
  PROVE  ServiceCore'
<1>1. Logger!LoggerInv'
  BY LoggerKeepsInv DEF ServiceCore
<1>2. ASSUME NEW s \in Requests
      PROVE  OutcomeOfStage(s)' /\ LinesInOrder(s)' /\ StorySoFar(s)'
  BY UntouchedStays DEF ServiceCore
<1> QED  BY <1>1, <1>2 DEF ServiceCore

\* While no file changes, a step that leaves the variables of a request alone leaves
\* the request alone.
LEMMA OthersUntouched ==
  ASSUME files' = files, lost' = lost, config' = config, NEW s \in Requests,
         pc'[s] = pc[s], line'[s] = line[s], outcome'[s] = outcome[s],
         status'[s] = status[s], took'[s] = took[s]
  PROVE  Untouched(s)
BY PlacesStay DEF Untouched

\* A line on the way to the next step: it is begun, or the handler panics, or no line
\* is due.  In each case the story goes on as it should.
LEMMA LineBegun ==
  ASSUME ServiceCore, NEW r \in Requests, NEW c \in Categories, NEW enabled \in BOOLEAN,
         NEW there \in {"call", "slow", "reply"},
         Logger!Idle(r), pc[r] # "done", LogThenGoto(r, c, enabled, there),
         config' = config, status' = status,
         Rank[c] = Stage[there], Stage[there] = Stage[pc[r]] + 1,
         {x \in Story(r)' : Rank[x] <= Stage[there]}
           = {x \in Story(r) : Rank[x] <= Stage[pc[r]]} \cup (IF enabled THEN {c} ELSE {})
  PROVE  /\ [Logger!Next]_logVars /\ files' = files /\ lost' = lost
         /\ \A s \in Requests : s # r => line'[s] = line[s]
         /\ \E to \in {there, "done"} : Goto(r, to)
         /\ LinesInOrder(r)' /\ StorySoFar(r)'
<1> DEFINE entry == [by |-> r, category |-> c, stamped |-> today]
<1>1. HandlersOK /\ Logger!TypeOK /\ LinesInOrder(r) /\ StorySoFar(r) /\ OutcomeOfStage(r)
  BY DEF ServiceCore, Logger!LoggerInv
<1>2. line[r] = None
  BY DEF Logger!Idle
<1>3. \/ /\ config.logging /\ enabled /\ Goto(r, there)
         /\ Logger!Begin(r, c) /\ line' = [line EXCEPT ![r] = entry]
      \/ config.logging /\ enabled /\ Goto(r, "done") /\ Logger!Panics(r) /\ line' = line
      \/ ~ (config.logging /\ enabled) /\ Goto(r, there) /\ UNCHANGED logVars /\ line' = line
  BY DEF LogThenGoto, Logger!Begin, Logger!Panics, Logger!vars, logVars
<1>4. [Logger!Next]_logVars
  BY <1>3 DEF Logger!Next
<1>5. files' = files /\ lost' = lost
  BY <1>3 DEF Logger!Begin, Logger!Panics, Logger!vars, logVars
<1>6. \A s \in Requests : s # r => line'[s] = line[s]
  BY <1>1, <1>3 DEF Logger!TypeOK
<1>7. \E to \in {there, "done"} : Goto(r, to)
  BY <1>3
<1>8. /\ Logger!PlacesOf(r)' = Logger!PlacesOf(r) /\ Told(r)' = Told(r)
      /\ \A p : RankAt(p)' = RankAt(p)
  BY <1>5, PlacesStay
<1>9. /\ \A p \in Logger!PlacesOf(r) : RankAt(p) <= Stage[pc[r]] /\ RankAt(p) \in 1 .. 3
      /\ \A p, q \in Logger!PlacesOf(r) : Logger!IsBefore(p, q) => RankAt(p) < RankAt(q)
      /\ Stage[pc[r]] \in 0 .. 3 /\ Stage[there] \in 1 .. 3
  BY <1>1, RankOfPlace, Ranks DEF LinesInOrder, HandlersOK
<1>10. status'[r] = "none"
  BY <1>1 DEF OutcomeOfStage
<1>11. \A p, q : Logger!IsBefore(p, q)' <=> Logger!IsBefore(p, q)
  BY DEF Logger!IsBefore
<1>12. CASE pc'[r] = "done" /\ line'[r] = None
  <2>1. LinesInOrder(r)'
    BY <1>8, <1>9, <1>11, <1>12, Ranks DEF LinesInOrder
  <2>2. StorySoFar(r)'
    BY <1>10, <1>12 DEF StorySoFar, Errors
  <2> QED  BY <1>4, <1>5, <1>6, <1>7, <2>1, <2>2
<1>13. CASE pc'[r] = there /\ line'[r] = None /\ ~ (config.logging /\ enabled)
  <2>1. LinesInOrder(r)'
    BY <1>8, <1>9, <1>11, <1>13 DEF LinesInOrder
  <2>2. StorySoFar(r)'
    BY <1>1, <1>2, <1>5, <1>8, <1>13 DEF StorySoFar
  <2> QED  BY <1>4, <1>5, <1>6, <1>7, <2>1, <2>2
<1>14. CASE pc'[r] = there /\ line'[r] = entry /\ enabled
  <2>1. line'[r] # None
    <3>1. entry \in Logger!Lines
      BY <1>1, LoggerTypes DEF Logger!Lines, Logger!Days
    <3> QED  BY <1>14, <3>1, NoneAssumption
  <2>2. LinesInOrder(r)'
    <3>1. Rank[line'[r].category] = Stage[there]
      BY <1>14
    <3> QED  BY <1>8, <1>9, <1>11, <1>14, <3>1 DEF LinesInOrder
  <2>3. StorySoFar(r)'
    BY <1>1, <1>2, <1>5, <1>8, <1>14, <2>1 DEF StorySoFar
  <2> QED  BY <1>4, <1>5, <1>6, <1>7, <2>2, <2>3
<1> QED  BY <1>1, <1>2, <1>3, <1>12, <1>13, <1>14 DEF Goto, HandlersOK, Logger!TypeOK

\* A step without a line, to a place that is no earlier in the story.
LEMMA NoLine ==
  ASSUME ServiceCore, NEW r \in Requests, Logger!Idle(r), UNCHANGED logVars, config' = config,
         Stage[pc[r]] <= Stage[pc'[r]], Stage[pc'[r]] \in Nat,
         \/ /\ {x \in Story(r)' : Rank[x] <= Stage[pc'[r]]} = {x \in Story(r) : Rank[x] <= Stage[pc[r]]}
            /\ pc[r] # "done"
         \/ pc'[r] = "done" /\ status'[r] \notin {"ok"} \cup Errors
  PROVE  LinesInOrder(r)' /\ StorySoFar(r)'
<1>1. HandlersOK /\ Logger!TypeOK /\ LinesInOrder(r) /\ StorySoFar(r)
  BY DEF ServiceCore, Logger!LoggerInv
<1>2. line[r] = None /\ line' = line /\ lost' = lost /\ files' = files
  BY DEF Logger!Idle, logVars
<1>3. /\ Logger!PlacesOf(r)' = Logger!PlacesOf(r) /\ Told(r)' = Told(r)
      /\ \A p : RankAt(p)' = RankAt(p)
  BY <1>2, PlacesStay
<1>4. \A p \in Logger!PlacesOf(r) : RankAt(p) <= Stage[pc'[r]]
  <2>1. \A p \in Logger!PlacesOf(r) : RankAt(p) <= Stage[pc[r]] /\ RankAt(p) \in 1 .. 3
    BY <1>1, RankOfPlace DEF LinesInOrder
  <2>2. Stage[pc[r]] \in 0 .. 3
    BY <1>1, Ranks DEF HandlersOK
  <2> QED  BY <2>1, <2>2
<1>5. LinesInOrder(r)'
  BY <1>1, <1>2, <1>3, <1>4 DEF LinesInOrder, Logger!IsBefore
<1>6. StorySoFar(r)'
  BY <1>1, <1>2, <1>3 DEF StorySoFar
<1> QED  BY <1>5, <1>6

\* A handler takes the next number.
LEMMA ReceiveKeepsCore == ASSUME ServiceCore, NEW r \in Requests, Receive(r) PROVE ServiceCore'
<1>1. /\ pc[r] = "new" /\ Logger!Idle(r)
      /\ id' = [id EXCEPT ![r] = nextId] /\ nextId' = nextId + 1
      /\ pc' = [pc EXCEPT ![r] = "start"]
      /\ UNCHANGED <<config, clock, waited, took, outcome, status, logVars>>
  BY DEF Receive, At, Goto
<1>2. HandlersOK /\ OutcomeOfStage(r)
  BY DEF ServiceCore
<1>3. /\ pc'[r] = "start" /\ id'[r] = nextId
      /\ \A s \in Requests : s # r => pc'[s] = pc[s] /\ id'[s] = id[s]
  BY <1>1, <1>2 DEF HandlersOK
<1>4. HandlersOK'
  BY <1>1, <1>2 DEF HandlersOK
<1>5. NumbersTaken' /\ IdsAreUnique'
  BY <1>1, <1>2, <1>3 DEF ServiceCore, NumbersTaken, IdsAreUnique, HandlersOK
<1>6. OutcomeOfStage(r)'
  BY <1>1, <1>2, <1>3 DEF OutcomeOfStage
<1>7. LinesInOrder(r)' /\ StorySoFar(r)'
  <2>1. Story(r)' = Story(r)
    BY <1>1 DEF Story
  <2> QED  BY <1>1, <1>3, <2>1, Ranks, NoLine
<1>8. \A s \in Requests : s # r => Untouched(s)
  BY <1>1, <1>3, OthersUntouched DEF logVars
<1>9. [Logger!Next]_logVars
  BY <1>1
<1> QED  BY <1>4, <1>5, <1>6, <1>7, <1>8, <1>9, OneMoves

\* The start is logged, or not.
LEMMA StartKeepsCore == ASSUME ServiceCore, NEW r \in Requests, Start(r) PROVE ServiceCore'
<1>1. /\ pc[r] = "start" /\ Logger!Idle(r)
      /\ LogThenGoto(r, "start", config.requestLog, "call")
      /\ UNCHANGED <<config, nextId, requestVars>>
      /\ UNCHANGED <<id, clock, waited, took, outcome, status>>
  BY DEF Start, At, requestVars
<1>2. HandlersOK /\ OutcomeOfStage(r) /\ config.requestLog \in BOOLEAN
  BY ConfigAssumption DEF ServiceCore, HandlersOK
<1>3. /\ [Logger!Next]_logVars /\ files' = files /\ lost' = lost
      /\ \A s \in Requests : s # r => line'[s] = line[s]
      /\ \E to \in {"call", "done"} : Goto(r, to)
      /\ LinesInOrder(r)' /\ StorySoFar(r)'
  <2>1. {x \in Story(r)' : Rank[x] <= 1}
          = {x \in Story(r) : Rank[x] <= 0} \cup (IF config.requestLog THEN {"start"} ELSE {})
    BY <1>1, Ranks DEF Story
  <2>2. Stage["call"] = 1 /\ Stage[pc[r]] = 0 /\ Rank["start"] = 1 /\ "start" \in Categories
    BY <1>1, Ranks DEF Categories
  <2> QED  BY <1>1, <1>2, <2>1, <2>2, LineBegun
<1>4. PICK to \in {"call", "done"} : pc' = [pc EXCEPT ![r] = to]
  BY <1>3 DEF Goto
<1>5. pc'[r] = to /\ \A s \in Requests : s # r => pc'[s] = pc[s]
  BY <1>2, <1>4 DEF HandlersOK
<1>6. HandlersOK' /\ NumbersTaken' /\ IdsAreUnique'
  BY <1>1, <1>2, <1>4, <1>5 DEF ServiceCore, HandlersOK, NumbersTaken, IdsAreUnique
<1>7. OutcomeOfStage(r)'
  BY <1>1, <1>2, <1>5 DEF OutcomeOfStage
<1>8. \A s \in Requests : s # r => Untouched(s)
  BY <1>1, <1>3, <1>5, OthersUntouched
<1> QED  BY <1>3, <1>6, <1>7, <1>8, OneMoves

\* The outcome is logged with the time it took: a failure always, a success if
\* requests are logged.
LEMMA LogOutcomeKeepsCore ==
  ASSUME ServiceCore, NEW r \in Requests, LogOutcome(r)
  PROVE  ServiceCore'
<1>1. /\ pc[r] = "mapped" /\ Logger!Idle(r)
      /\ took' = [took EXCEPT ![r] = clock[r]]
      /\ \/ outcome[r] = "ok" /\ LogThenGoto(r, "ok", config.requestLog, "slow")
         \/ outcome[r] # "ok" /\ LogThenGoto(r, "error", TRUE, "slow")
      /\ UNCHANGED <<config, nextId, id, clock, waited, outcome, status>>
  BY DEF LogOutcome, At
<1>2. HandlersOK /\ OutcomeOfStage(r) /\ config.requestLog \in BOOLEAN
  BY ConfigAssumption DEF ServiceCore, HandlersOK
<1>3. /\ [Logger!Next]_logVars /\ files' = files /\ lost' = lost
      /\ \A s \in Requests : s # r => line'[s] = line[s]
      /\ \E to \in {"slow", "done"} : Goto(r, to)
      /\ LinesInOrder(r)' /\ StorySoFar(r)'
  <2> DEFINE start == IF config.requestLog THEN {"start"} ELSE {}
  <2>1. {x \in Story(r) : Rank[x] <= 1} = start
    BY Ranks DEF Story
  <2>2. {x \in Story(r)' : Rank[x] <= 2}
          = start \cup (IF outcome[r] # "ok" THEN {"error"}
                        ELSE IF config.requestLog THEN {"ok"} ELSE {})
    BY <1>1, Ranks DEF Story
  <2>3. /\ Stage["slow"] = 2 /\ Stage[pc[r]] = 1 /\ Rank["ok"] = 2 /\ Rank["error"] = 2
        /\ "ok" \in Categories /\ "error" \in Categories
    BY <1>1, Ranks DEF Categories
  <2>4. CASE outcome[r] = "ok" /\ LogThenGoto(r, "ok", config.requestLog, "slow")
    <3>1. {x \in Story(r)' : Rank[x] <= Stage["slow"]}
            = {x \in Story(r) : Rank[x] <= Stage[pc[r]]}
                \cup (IF config.requestLog THEN {"ok"} ELSE {})
      BY <2>1, <2>2, <2>3, <2>4
    <3> QED  BY <1>1, <1>2, <2>3, <2>4, <3>1, LineBegun
  <2>5. CASE outcome[r] # "ok" /\ LogThenGoto(r, "error", TRUE, "slow")
    <3> DEFINE always == TRUE
    <3>1. /\ always \in BOOLEAN /\ LogThenGoto(r, "error", always, "slow")
          /\ {x \in Story(r)' : Rank[x] <= Stage["slow"]}
               = {x \in Story(r) : Rank[x] <= Stage[pc[r]]} \cup (IF always THEN {"error"} ELSE {})
      BY <2>1, <2>2, <2>3, <2>5
    <3> HIDE DEF always
    <3> QED  BY <1>1, <1>2, <2>3, <2>5, <3>1, LineBegun
  <2> QED  BY <1>1, <2>4, <2>5
<1>4. PICK to \in {"slow", "done"} : pc' = [pc EXCEPT ![r] = to]
  BY <1>3 DEF Goto
<1>5. /\ pc'[r] = to
      /\ \A s \in Requests : s # r => pc'[s] = pc[s] /\ took'[s] = took[s]
  BY <1>1, <1>2, <1>4 DEF HandlersOK
<1>6. HandlersOK' /\ NumbersTaken' /\ IdsAreUnique'
  BY <1>1, <1>2, <1>4, <1>5 DEF ServiceCore, HandlersOK, NumbersTaken, IdsAreUnique
<1>7. OutcomeOfStage(r)'
  BY <1>1, <1>2, <1>5 DEF OutcomeOfStage
<1>8. \A s \in Requests : s # r => Untouched(s)
  BY <1>1, <1>3, <1>5, OthersUntouched
<1> QED  BY <1>3, <1>6, <1>7, <1>8, OneMoves

\* A request that took long is logged as slow, by the time the line before it gave.
LEMMA LogSlowKeepsCore ==
  ASSUME ServiceCore, NEW r \in Requests, LogSlow(r)
  PROVE  ServiceCore'
<1> DEFINE isSlow == config.slowLog /\ took[r] >= SlowThreshold
<1>1. /\ pc[r] = "slow" /\ Logger!Idle(r)
      /\ LogThenGoto(r, "slow_request", isSlow, "reply")
      /\ UNCHANGED <<config, nextId, id, clock, waited, took, outcome, status>>
  BY DEF LogSlow, At, requestVars
<1>2. HandlersOK /\ OutcomeOfStage(r) /\ isSlow \in BOOLEAN
  BY DEF ServiceCore
<1>3. /\ [Logger!Next]_logVars /\ files' = files /\ lost' = lost
      /\ \A s \in Requests : s # r => line'[s] = line[s]
      /\ \E to \in {"reply", "done"} : Goto(r, to)
      /\ LinesInOrder(r)' /\ StorySoFar(r)'
  <2>1. {x \in Story(r)' : Rank[x] <= 3}
          = {x \in Story(r) : Rank[x] <= 2} \cup (IF isSlow THEN {"slow_request"} ELSE {})
    BY <1>1, Ranks DEF Story
  <2>2. /\ Stage["reply"] = 3 /\ Stage[pc[r]] = 2 /\ Rank["slow_request"] = 3
        /\ "slow_request" \in Categories
    BY <1>1, Ranks DEF Categories
  <2> HIDE DEF isSlow
  <2> QED  BY <1>1, <1>2, <2>1, <2>2, LineBegun
<1>4. PICK to \in {"reply", "done"} : pc' = [pc EXCEPT ![r] = to]
  BY <1>3 DEF Goto
<1>5. pc'[r] = to /\ \A s \in Requests : s # r => pc'[s] = pc[s]
  BY <1>2, <1>4 DEF HandlersOK
<1>6. HandlersOK' /\ NumbersTaken' /\ IdsAreUnique'
  BY <1>1, <1>2, <1>4, <1>5 DEF ServiceCore, HandlersOK, NumbersTaken, IdsAreUnique
<1>7. OutcomeOfStage(r)'
  BY <1>1, <1>2, <1>5 DEF OutcomeOfStage
<1>8. \A s \in Requests : s # r => Untouched(s)
  BY <1>1, <1>3, <1>5, OthersUntouched
<1> QED  BY <1>3, <1>6, <1>7, <1>8, OneMoves

\* A handler past its start goes on without a line: only what is said of it, and what
\* is left of its story, is to be seen to.
LEMMA QuietStep ==
  ASSUME ServiceCore, NEW r \in Requests, Logger!Idle(r), pc[r] # "new",
         UNCHANGED <<config, nextId, id, logVars>>, HandlersOK', OutcomeOfStage(r)',
         Stage[pc[r]] <= Stage[pc'[r]], Stage[pc'[r]] \in Nat,
         \/ /\ {x \in Story(r)' : Rank[x] <= Stage[pc'[r]]} = {x \in Story(r) : Rank[x] <= Stage[pc[r]]}
            /\ pc[r] # "done"
         \/ pc'[r] = "done" /\ status'[r] \notin {"ok"} \cup Errors,
         \A s \in Requests : s # r =>
           /\ pc'[s] = pc[s] /\ outcome'[s] = outcome[s] /\ status'[s] = status[s]
           /\ took'[s] = took[s]
  PROVE  ServiceCore'
<1>1. [Logger!Next]_logVars /\ files' = files /\ lost' = lost /\ line' = line /\ UNCHANGED logVars
  BY DEF logVars
<1>2. LinesInOrder(r)' /\ StorySoFar(r)'
  BY <1>1, NoLine
<1>3. NumbersTaken' /\ IdsAreUnique'
  BY DEF ServiceCore, NumbersTaken, IdsAreUnique
<1>4. \A s \in Requests : s # r => Untouched(s)
  BY <1>1, OthersUntouched
<1> QED  BY <1>1, <1>2, <1>3, <1>4, OneMoves

\* Calling the engine and its answer change what the engine returned, and end no line.
LEMMA EngineKeepsCore ==
  ASSUME ServiceCore, NEW r \in Requests, CallEngine(r) \/ EngineReady(r)
  PROVE  ServiceCore'
<1>1. HandlersOK /\ OutcomeOfStage(r) /\ config.requestLog \in BOOLEAN
  BY ConfigAssumption DEF ServiceCore, HandlersOK
<1>2. CASE CallEngine(r)
  <2>1. /\ pc[r] = "call" /\ Logger!Idle(r) /\ pc' = [pc EXCEPT ![r] = "engine"]
        /\ UNCHANGED <<config, nextId, logVars>>
        /\ UNCHANGED <<id, clock, waited, took, outcome, status>>
    BY <1>2 DEF CallEngine, At, Goto, requestVars
  <2>2. pc'[r] = "engine" /\ \A s \in Requests : s # r => pc'[s] = pc[s]
    BY <1>1, <2>1 DEF HandlersOK
  <2>3. HandlersOK' /\ OutcomeOfStage(r)'
    BY <1>1, <2>1, <2>2 DEF HandlersOK, OutcomeOfStage
  <2>4. Story(r)' = Story(r) /\ Stage[pc[r]] = 1 /\ Stage[pc'[r]] = 1
    BY <2>1, <2>2, Ranks DEF Story
  <2> QED  BY <2>1, <2>2, <2>3, <2>4, QuietStep
<1>3. CASE EngineReady(r)
  <2>1. PICK result \in {"ok"} \cup Errors : outcome' = [outcome EXCEPT ![r] = result]
    BY <1>3 DEF EngineReady
  <2>2. /\ pc[r] = "engine" /\ Logger!Idle(r) /\ pc' = [pc EXCEPT ![r] = "mapped"]
        /\ UNCHANGED <<config, nextId, id, clock, waited, took, status, logVars>>
    BY <1>3 DEF EngineReady, At, Goto
  <2>3. /\ pc'[r] = "mapped" /\ outcome'[r] = result
        /\ \A s \in Requests : s # r => pc'[s] = pc[s] /\ outcome'[s] = outcome[s]
    BY <1>1, <2>1, <2>2 DEF HandlersOK
  <2>4. HandlersOK'
    BY <1>1, <2>1, <2>2 DEF HandlersOK
  <2>5. OutcomeOfStage(r)'
    <3>1. status[r] = "none"
      BY <1>1, <2>2 DEF OutcomeOfStage
    <3> QED  BY <1>1, <2>1, <2>2, <2>3, <3>1 DEF OutcomeOfStage, Errors
  <2>6. {x \in Story(r)' : Rank[x] <= 1} = {x \in Story(r) : Rank[x] <= 1}
    <3> DEFINE start == IF config.requestLog THEN {"start"} ELSE {}
    <3>1. {x \in Story(r) : Rank[x] <= 1} = start
      BY Ranks DEF Story
    <3>2. {x \in Story(r)' : Rank[x] <= 1} = start
      BY <2>2, Ranks DEF Story
    <3> QED  BY <3>1, <3>2
  <2>7. Stage[pc[r]] = 1 /\ Stage[pc'[r]] = 1
    BY <2>2, <2>3, Ranks
  <2>8. pc[r] # "done" /\ pc[r] # "new"
    BY <2>2
  <2> QED  BY <2>2, <2>3, <2>4, <2>5, <2>6, <2>7, <2>8, QuietStep
<1> QED  BY <1>2, <1>3

\* A handler that is cut off, by the timeout or because the client is gone, ends with
\* its story unfinished.
LEMMA CutOffKeepsCore ==
  ASSUME ServiceCore, NEW r \in Requests, TimeOut(r) \/ Disconnect(r)
  PROVE  ServiceCore'
<1>1. HandlersOK /\ OutcomeOfStage(r)
  BY DEF ServiceCore
<1>2. /\ pc[r] = "engine" /\ Logger!Idle(r) /\ pc' = [pc EXCEPT ![r] = "done"]
      /\ status' = [status EXCEPT ![r] = "deadline_exceeded"] \/ status' = status
      /\ UNCHANGED <<config, nextId, id, logVars>>
      /\ UNCHANGED <<clock, waited, took, outcome>>
  BY DEF TimeOut, Disconnect, At, Goto, Reply, requestVars
<1>3. /\ pc'[r] = "done" /\ status'[r] \in {"deadline_exceeded", "none"} /\ outcome[r] = "none"
      /\ \A s \in Requests : s # r => pc'[s] = pc[s] /\ status'[s] = status[s]
  BY <1>1, <1>2 DEF HandlersOK, OutcomeOfStage
<1>4. HandlersOK'
  <2>1. status' \in [Requests -> {"none", "ok", "deadline_exceeded"} \cup Errors]
    BY <1>1, <1>2 DEF HandlersOK
  <2> QED  BY <1>1, <1>2, <2>1 DEF HandlersOK
<1>5. OutcomeOfStage(r)'
  BY <1>2, <1>3 DEF OutcomeOfStage
<1>6. /\ Stage[pc[r]] = 1 /\ Stage[pc'[r]] = 3 /\ pc[r] # "new"
      /\ status'[r] \notin {"ok"} \cup Errors
  BY <1>2, <1>3, Ranks DEF Errors
<1> QED  BY <1>2, <1>3, <1>4, <1>5, <1>6, QuietStep

\* The client is told how it went.
LEMMA AnswerKeepsCore == ASSUME ServiceCore, NEW r \in Requests, Answer(r) PROVE ServiceCore'
<1>1. /\ pc[r] = "reply" /\ Logger!Idle(r) /\ pc' = [pc EXCEPT ![r] = "done"]
      /\ status' = [status EXCEPT ![r] = outcome[r]]
      /\ UNCHANGED <<config, nextId, id, logVars>>
      /\ UNCHANGED <<clock, waited, took, outcome>>
  BY DEF Answer, At, Goto, Reply
<1>2. HandlersOK /\ OutcomeOfStage(r)
  BY DEF ServiceCore
<1>3. /\ pc'[r] = "done" /\ status'[r] = outcome[r] /\ outcome[r] \in {"ok"} \cup Errors
      /\ \A s \in Requests : s # r => pc'[s] = pc[s] /\ status'[s] = status[s]
  BY <1>1, <1>2 DEF HandlersOK, OutcomeOfStage
<1>4. HandlersOK'
  <2>1. status' \in [Requests -> {"none", "ok", "deadline_exceeded"} \cup Errors]
    BY <1>1, <1>2, <1>3 DEF HandlersOK
  <2> QED  BY <1>1, <1>2, <2>1 DEF HandlersOK
<1>5. OutcomeOfStage(r)'
  BY <1>1, <1>2, <1>3 DEF OutcomeOfStage
<1>6. /\ Stage[pc[r]] = 3 /\ Stage[pc'[r]] = 3 /\ pc[r] # "new" /\ pc[r] # "done"
      /\ Story(r)' = Story(r)
  BY <1>1, <1>3, Ranks DEF Story
<1> QED  BY <1>1, <1>3, <1>4, <1>5, <1>6, QuietStep

\* The clocks are of no consequence for what was already decided.
LEMMA TickKeepsCore == ASSUME ServiceCore, Tick PROVE ServiceCore'
<1>1. /\ UNCHANGED <<config, nextId, pc, id, took, outcome, status, logVars>>
      /\ clock' = Advance(clock, Running)
      /\ waited' = Advance(waited, LAMBDA r : pc[r] = "engine")
  BY DEF Tick
<1>2. HandlersOK /\ MaxTicks \in Nat
  BY TimeAssumption DEF ServiceCore
<1>3. clock' \in [Requests -> 0 .. MaxTicks] /\ waited' \in [Requests -> 0 .. MaxTicks]
  BY <1>1, <1>2 DEF HandlersOK, Advance
<1>4. HandlersOK' /\ NumbersTaken' /\ IdsAreUnique'
  BY <1>1, <1>2, <1>3 DEF ServiceCore, HandlersOK, NumbersTaken, IdsAreUnique
<1>5. Logger!LoggerInv'
  BY <1>1, LoggerKeepsInv DEF ServiceCore
<1>6. \A r \in Requests : Untouched(r)
  BY <1>1, OthersUntouched DEF logVars
<1> QED  BY <1>4, <1>5, <1>6, UntouchedStays DEF ServiceCore

\* A line that is written takes its place after the others, or is lost with a failure
\* that the story allows for.
LEMMA WriteKeepsCore ==
  ASSUME ServiceCore, NEW w \in Requests, Logger!Write(w),
         UNCHANGED <<config, nextId, pc, requestVars>>
  PROVE  ServiceCore'
<1>1. /\ holder = w /\ line' = [line EXCEPT ![w] = None]
      /\ \/ files' = [files EXCEPT ![openDay] = Append(@, line[w])] /\ UNCHANGED lost
         \/ lost' = lost \cup {w} /\ UNCHANGED files
      /\ UNCHANGED <<config, nextId, pc, id, clock, waited, took, outcome, status>>
  BY DEF Logger!Write, requestVars
<1>2. /\ HandlersOK /\ Logger!LoggerInv /\ Logger!TypeOK /\ w # None /\ line[w] # None
      /\ OutcomeOfStage(w) /\ LinesInOrder(w) /\ StorySoFar(w)
  BY <1>1, NoneAssumption DEF ServiceCore, Logger!LoggerInv, Logger!HolderMayWrite
<1>3. line'[w] = None /\ \A s \in Requests : s # w => line'[s] = line[s]
  BY <1>1, <1>2 DEF Logger!TypeOK
<1>4. HandlersOK' /\ NumbersTaken' /\ IdsAreUnique' /\ OutcomeOfStage(w)'
  BY <1>1, <1>2 DEF ServiceCore, HandlersOK, NumbersTaken, IdsAreUnique, OutcomeOfStage
<1>5. [Logger!Next]_logVars
  BY DEF Logger!Next, Logger!Proceed
<1>6. CASE lost' = lost \cup {w} /\ UNCHANGED files
  <2>1. /\ Logger!PlacesOf(w)' = Logger!PlacesOf(w)
        /\ \A p : RankAt(p)' = RankAt(p)
        /\ \A s : Logger!PlacesOf(s)' = Logger!PlacesOf(s)
        /\ \A p : Logger!EntryAt(p)' = Logger!EntryAt(p)
    BY <1>6, PlacesStay
  <2>2. LinesInOrder(w)'
    BY <1>1, <1>2, <1>3, <2>1 DEF LinesInOrder, Logger!IsBefore
  <2>3. StorySoFar(w)'
    BY <1>6 DEF StorySoFar
  <2>4. \A s \in Requests : s # w => Untouched(s)
    BY <1>1, <1>3, <1>6, <2>1 DEF Untouched
  <2> QED  BY <1>4, <1>5, <2>2, <2>3, <2>4, OneMoves
<1>7. CASE files' = [files EXCEPT ![openDay] = Append(@, line[w])] /\ UNCHANGED lost
  <2> DEFINE old == Logger!PlacesOf(w)
             c == line[w].category
  <2>1. PICK p0 : p0 = <<openDay, Len(files[openDay]) + 1>>
    OBVIOUS
  <2>2. /\ \A r \in Requests :
             /\ \A p \in Logger!PlacesOf(r) : /\ Logger!EntryAt(p)' = Logger!EntryAt(p)
                                              /\ ~ Logger!IsBefore(p0, p)
             /\ Logger!PlacesOf(r)' = Logger!PlacesOf(r) \cup (IF r = w THEN {p0} ELSE {})
        /\ Logger!EntryAt(p0)' = line[w] /\ ~ Logger!IsBefore(p0, p0)
    BY <1>2, <1>7, <2>1, PlaceOfWrite
  <2>3. /\ Logger!PlacesOf(w)' = old \cup {p0}
        /\ \A p \in old : /\ RankAt(p)' = RankAt(p) /\ Logger!EntryAt(p)' = Logger!EntryAt(p)
                          /\ ~ Logger!IsBefore(p0, p)
        /\ RankAt(p0)' = Rank[c]
    BY <2>2 DEF RankAt
  <2>4. /\ Rank[c] = Stage[pc[w]] /\ Rank[c] \in 1 .. 3
        /\ \A p \in old : RankAt(p) < Rank[c] /\ RankAt(p) \in 1 .. 3
        /\ \A p, q \in old : Logger!IsBefore(p, q) => RankAt(p) < RankAt(q)
    <3>1. Rank[c] = Stage[pc[w]] /\ \A p \in old : RankAt(p) < Stage[pc[w]]
      BY <1>2 DEF LinesInOrder
    <3>2. Rank[c] \in 1 .. 3
      <4>1. c \in Categories
        BY <1>2 DEF Logger!TypeOK, Logger!Lines
      <4> QED  BY <4>1, Ranks
    <3>3. \A p, q \in old : Logger!IsBefore(p, q) => RankAt(p) < RankAt(q)
      BY <1>2 DEF LinesInOrder
    <3>4. \A p \in old : RankAt(p) \in 1 .. 3
      BY <1>2, RankOfPlace
    <3> QED  BY <3>1, <3>2, <3>3, <3>4
  <2>5. LinesInOrder(w)'
    <3>1. \A p \in Logger!PlacesOf(w)' : RankAt(p)' <= Stage[pc[w]]
      BY <2>3, <2>4
    <3>2. ASSUME NEW p \in Logger!PlacesOf(w)', NEW q \in Logger!PlacesOf(w)',
                 Logger!IsBefore(p, q)
          PROVE  RankAt(p)' < RankAt(q)'
      <4>1. CASE q = p0
        <5>1. p \in old
          BY <2>2, <2>3, <3>2, <4>1
        <5> QED  BY <2>3, <2>4, <4>1, <5>1
      <4>2. CASE q \in old
        <5>1. p \in old
          BY <2>2, <2>3, <3>2, <4>2
        <5> QED  BY <2>3, <2>4, <3>2, <4>2, <5>1
      <4> QED  BY <2>3, <4>1, <4>2
    <3>3. \A p, q : Logger!IsBefore(p, q)' <=> Logger!IsBefore(p, q)
      BY DEF Logger!IsBefore
    <3> QED  BY <1>1, <1>3, <3>1, <3>2, <3>3 DEF LinesInOrder
  <2>6. Told(w)' = Told(w) \cup {c}
    BY <2>2, <2>3 DEF Told
  <2>7. StorySoFar(w)'
    <3>1. Story(w)' = Story(w)
      BY <1>1 DEF Story
    <3> QED  BY <1>1, <1>2, <1>3, <1>7, <2>6, <3>1 DEF StorySoFar
  <2>8. \A s \in Requests : s # w => Untouched(s)
    BY <1>1, <1>3, <1>7, <2>2 DEF Untouched
  <2> QED  BY <1>4, <1>5, <2>5, <2>7, <2>8, OneMoves
<1> QED  BY <1>1, <1>6, <1>7

\* Between a handler's steps the logger takes its mutex, looks up its file, writes;
\* midnight passes and stderr may go.
LEMMA LoggerKeepsCore == ASSUME ServiceCore, InLogger PROVE ServiceCore'
<1>1. /\ (\E w \in Requests : Logger!Lock(w) \/ Logger!Write(w)) \/ Logger!Environment
      /\ UNCHANGED <<config, nextId, pc, requestVars>>
  BY DEF InLogger, Logger!Proceed
<1>2. ASSUME (\E w \in Requests : Logger!Lock(w)) \/ Logger!Environment
      PROVE  ServiceCore'
  <2>1. line' = line /\ files' = files /\ lost' = lost /\ [Logger!Next]_logVars
    BY <1>2 DEF Logger!Lock, Logger!Environment, Logger!NextDay, Logger!LoseStderr,
                Logger!Next, Logger!Proceed
  <2>2. UNCHANGED <<config, nextId, pc, id, clock, waited, took, outcome, status>>
    BY <1>1 DEF requestVars
  <2>3. HandlersOK' /\ NumbersTaken' /\ IdsAreUnique'
    BY <2>2 DEF ServiceCore, HandlersOK, NumbersTaken, IdsAreUnique
  <2>4. Logger!LoggerInv'
    BY <2>1, LoggerKeepsInv DEF ServiceCore
  <2>5. \A r \in Requests : Untouched(r)
    BY <2>1, <2>2, OthersUntouched
  <2> QED  BY <2>3, <2>4, <2>5, UntouchedStays DEF ServiceCore
<1> QED  BY <1>1, <1>2, WriteKeepsCore

\* Nothing has happened at first.
LEMMA InitServiceCore == Init => ServiceCore
<1> SUFFICES ASSUME Init PROVE ServiceCore
  OBVIOUS
<1>1. HandlersOK
  BY TimeAssumption DEF Init, HandlersOK
<1>2. Logger!LoggerInv
  <2>1. 1 \in Logger!Days /\ today = 1 /\ openDay = 1
    BY BoundsAssumption DEF Init, Logger!Init, Logger!Days
  <2>2. Logger!TypeOK
    BY <2>1 DEF Init, Logger!Init, Logger!TypeOK
  <2> QED  BY <2>2 DEF Init, Logger!Init, Logger!LoggerInv, Logger!LinesAreStamped,
              Logger!HolderMayWrite, Logger!LaterFilesEmpty, Logger!FiledUnderItsDay
<1>3. NumbersTaken /\ IdsAreUnique
  BY DEF Init, NumbersTaken, IdsAreUnique
<1>4. ASSUME NEW r \in Requests
      PROVE  OutcomeOfStage(r) /\ LinesInOrder(r) /\ StorySoFar(r)
  <2>1. /\ pc[r] = "new" /\ outcome[r] = "none" /\ status[r] = "none" /\ line[r] = None
        /\ \A d \in Logger!Days : files[d] = <<>>
    BY DEF Init, Logger!Init
  <2>2. Logger!PlacesOf(r) = {} /\ Told(r) = {}
    BY <2>1 DEF Logger!PlacesOf, Logger!Places, Told
  <2>3. Stage[pc[r]] = 0 /\ {c \in Story(r) : Rank[c] <= 0} = {}
    BY <2>1, Ranks DEF Story
  <2> QED  BY <2>1, <2>2, <2>3 DEF OutcomeOfStage, LinesInOrder, StorySoFar
<1> QED  BY <1>1, <1>2, <1>3, <1>4 DEF ServiceCore

\* Every step keeps the invariant.
LEMMA NextKeepsServiceCore == ServiceCore /\ [Next]_vars => ServiceCore'
<1> SUFFICES ASSUME ServiceCore, [Next]_vars PROVE ServiceCore'
  OBVIOUS
<1>1. CASE UNCHANGED vars
  <2>1. UNCHANGED <<config, nextId, pc, id, clock, waited, took, outcome, status, logVars>>
    BY <1>1 DEF vars, requestVars
  <2>2. HandlersOK' /\ NumbersTaken' /\ IdsAreUnique'
    BY <2>1 DEF ServiceCore, HandlersOK, NumbersTaken, IdsAreUnique
  <2>3. Logger!LoggerInv'
    BY <2>1, LoggerKeepsInv DEF ServiceCore
  <2>4. \A r \in Requests : Untouched(r)
    BY <2>1, OthersUntouched DEF logVars
  <2> QED  BY <2>2, <2>3, <2>4, UntouchedStays DEF ServiceCore
<1> QED  BY <1>1, ReceiveKeepsCore, StartKeepsCore, EngineKeepsCore, CutOffKeepsCore,
         LogOutcomeKeepsCore, LogSlowKeepsCore, AnswerKeepsCore, TickKeepsCore, LoggerKeepsCore
         DEF Next, Handle

(***************************************************************************)
(* The theorems.                                                           *)
(***************************************************************************)

\* With any number of requests in progress, and whatever becomes of the files and of
\* stderr, the handlers and the logger stay within ServiceInv.
THEOREM ServiceInvariant == Spec => []ServiceInv
BY InitServiceCore, NextKeepsServiceCore, CoreIsInv, PTL DEF Spec

\* The types, and three lines a request at most.
THEOREM TypeCorrect == Spec => []TypeOK
<1>1. ServiceInv => TypeOK
  BY DEF ServiceInv
<1> QED  BY <1>1, ServiceInvariant, PTL

\* No two requests are logged under one number (build_request_context's fetch_add).
THEOREM NumbersAreUnique == Spec => []IdsAreUnique
<1>1. ServiceInv => IdsAreUnique
  BY DEF ServiceInv
<1> QED  BY <1>1, ServiceInvariant, PTL

\* The files tell the story of every answered request, in order and once, over any
\* number of midnights (logging.rs's log() after build_request_context's clock).
THEOREM LogsTellOutcomes == Spec => []LogTellsOutcome
<1>1. ServiceInv => LogTellsOutcome
  <2> SUFFICES ASSUME ServiceInv, NEW r \in Requests
               PROVE  /\ \A p, q \in Logger!PlacesOf(r) :
                           Logger!IsBefore(p, q) => RankAt(p) < RankAt(q)
                      /\ status[r] \in {"ok"} \cup Errors /\ config.logging /\ r \notin lost =>
                           Told(r) = Story(r)
    BY DEF LogTellsOutcome
  <2>1. TypeOK /\ OutcomeOfStage(r) /\ LinesInOrder(r) /\ StorySoFar(r)
    BY DEF ServiceInv
  <2>2. ASSUME status[r] \in {"ok"} \cup Errors, config.logging, r \notin lost
        PROVE  Told(r) = Story(r)
    <3>1. pc[r] = "done"
      BY <2>1, <2>2 DEF OutcomeOfStage, Errors
    <3>2. line[r] = None
      BY <2>1, <3>1 DEF LinesInOrder
    <3>3. {c \in Story(r) : Rank[c] <= Stage["done"]} = Story(r)
      BY Ranks DEF Story
    <3> QED  BY <2>1, <2>2, <3>1, <3>2, <3>3 DEF StorySoFar
  <2> QED  BY <2>1, <2>2 DEF LinesInOrder
<1> QED  BY <1>1, ServiceInvariant, PTL

\* No line is in the file of a day before its own, but for days whose file could not
\* be opened (ServiceLogger::log).
THEOREM LinesAreFiledRight == Spec => []FiledUnderItsDay
<1>1. ServiceInv => FiledUnderItsDay
  BY DEF ServiceInv, Logger!LoggerInv, FiledUnderItsDay
<1> QED  BY <1>1, ServiceInvariant, PTL

\* The handlers use the logger as module Logger says it is used: what holds of every
\* behaviour of the logger holds of the service's.
THEOREM ServiceUsesLogger == Spec => Logger!Spec
<1>1. Init => Logger!Init
  BY DEF Init
<1>2. [Next]_vars => [Logger!Next]_(Logger!vars)
  <2> SUFFICES ASSUME [Next]_vars PROVE [Logger!Next]_logVars
    BY DEF Logger!vars, logVars
  <2>1. ASSUME NEW r \in Requests, NEW c \in Categories, NEW enabled, NEW there,
               LogThenGoto(r, c, enabled, there)
        PROVE  [Logger!Next]_logVars
    BY <2>1 DEF LogThenGoto, Logger!Next
  <2>2. ASSUME NEW r \in Requests, Start(r) \/ LogOutcome(r) \/ LogSlow(r)
        PROVE  [Logger!Next]_logVars
    BY <2>1, <2>2 DEF Start, LogOutcome, LogSlow, Categories
  <2>3. CASE InLogger
    BY <2>3 DEF InLogger, Logger!Next
  <2>4. ASSUME NEW r \in Requests,
               \/ Receive(r) \/ CallEngine(r) \/ TimeOut(r) \/ Answer(r)
               \/ EngineReady(r) \/ Disconnect(r)
        PROVE  UNCHANGED logVars
    BY <2>4 DEF Receive, CallEngine, TimeOut, Answer, EngineReady, Disconnect
  <2>5. CASE Tick \/ UNCHANGED vars
    BY <2>5 DEF Tick, vars
  <2> QED  BY <2>2, <2>3, <2>4, <2>5 DEF Next, Handle
<1> QED  BY <1>1, <1>2, PTL DEF Spec, Logger!Spec

\* The file of a day is complete when the next one's has been opened: no line moves or
\* is inserted, and only the open file and later ones grow.
THEOREM DaysAreClosed == Spec => FinishedDaysAreClosed
<1>1. ServiceInv /\ [Logger!Next]_(Logger!vars) =>
        [/\ openDay <= openDay'
         /\ \A d \in Logger!Days : /\ SubSeq(files'[d], 1, Len(files[d])) = files[d]
                                  /\ d < openDay => files'[d] = files[d]]_(Logger!vars)
  BY LoggerCloses DEF ServiceInv, Logger!vars, logVars
<1> QED  BY <1>1, ServiceInvariant, ServiceUsesLogger, PTL
         DEF FinishedDaysAreClosed, Logger!FinishedDaysAreClosed, Logger!Spec

=============================================================================
