------------------------- MODULE TableLocks_proofs -------------------------
(***************************************************************************)
(* LockInv is an invariant of TableLocks, for any clients, names, lock     *)
(* objects and normalization, and it implies that writers have their table *)
(* to themselves.                                                          *)
(***************************************************************************)
EXTENDS TableLocks, SequenceTheorems, TLAPS

USE DEF Modes, Entries, Asks

(***************************************************************************)
(* The queue of a lock.                                                    *)
(***************************************************************************)

\* Removing position p of a queue closes the gap and keeps the order.
LEMMA RemovalShifts ==
  ASSUME NEW S, NEW q \in Seq(S), NEW p \in 1 .. Len(q)
  PROVE  /\ RemoveAt(q, p) \in Seq(S)
         /\ Len(RemoveAt(q, p)) = Len(q) - 1
         /\ \A i \in 1 .. Len(q) - 1 :
              RemoveAt(q, p)[i] = IF i < p THEN q[i] ELSE q[i + 1]
<1> DEFINE front == SubSeq(q, 1, p - 1)
           back  == SubSeq(q, p + 1, Len(q))
<1>1. /\ front \in Seq(S)
      /\ Len(front) = p - 1
      /\ \A i \in 1 .. p - 1 : front[i] = q[i]
  BY SubSeqProperties, ElementOfSeq
<1>2. /\ back \in Seq(S)
      /\ Len(back) = Len(q) - p
      /\ \A i \in 1 .. Len(q) - p : back[i] = q[p + i]
  BY SubSeqProperties, ElementOfSeq
<1>3. /\ front \o back \in Seq(S)
      /\ Len(front \o back) = Len(q) - 1
      /\ \A i \in 1 .. Len(q) - 1 :
           (front \o back)[i] = IF i <= p - 1 THEN front[i] ELSE back[i - (p - 1)]
  <2>1. /\ front \o back \in Seq(S)
        /\ Len(front \o back) = Len(front) + Len(back)
        /\ \A i \in 1 .. Len(front) + Len(back) :
             (front \o back)[i] = IF i <= Len(front) THEN front[i] ELSE back[i - Len(front)]
    <3> HIDE DEF front, back
    <3> QED  BY <1>1, <1>2, ConcatProperties
  <2>2. Len(front) + Len(back) = Len(q) - 1
    <3> HIDE DEF front, back
    <3> QED  BY <1>1, <1>2
  <2> HIDE DEF front, back
  <2> QED  BY <1>1, <2>1, <2>2
<1>4. ASSUME NEW i \in 1 .. Len(q) - 1
      PROVE  (front \o back)[i] = IF i < p THEN q[i] ELSE q[i + 1]
  <2> HIDE DEF front, back
  <2>1. CASE i < p
    BY <2>1, <1>1, <1>3
  <2>2. CASE ~ (i < p)
    <3>1. i - (p - 1) \in 1 .. Len(q) - p /\ p + (i - (p - 1)) = i + 1
      BY <2>2
    <3> QED  BY <2>2, <3>1, <1>2, <1>3
  <2> QED  BY <2>1, <2>2
<1> QED  BY <1>3, <1>4 DEF RemoveAt

\* Appending a request leaves the others where they are.
LEMMA AppendExtends ==
  ASSUME NEW S, NEW q \in Seq(S), NEW e \in S
  PROVE  /\ Append(q, e) \in Seq(S)
         /\ Len(Append(q, e)) = Len(q) + 1
         /\ \A i \in 1 .. Len(q) : Append(q, e)[i] = q[i]
         /\ Append(q, e)[Len(q) + 1] = e
OBVIOUS

\* The position of a queued client is its position.
LEMMA PositionIs ==
  ASSUME NEW q, NEW c, IsQueued(q, c)
  PROVE  Position(q, c) \in 1 .. Len(q) /\ q[Position(q, c)].who = c
BY DEF IsQueued, Position

Distinct(q) == \A i, j \in 1 .. Len(q) : q[i].who = q[j].who => i = j

\* When a client leaves, everyone else keeps place and admission.
LEMMA LeavingKeepsOthers ==
  ASSUME NEW q \in Seq(Entries), Distinct(q), NEW c, IsQueued(q, c)
  PROVE  /\ Without(q, c) \in Seq(Entries)
         /\ Distinct(Without(q, c))
         /\ ~ IsQueued(Without(q, c), c)
         /\ \A i \in 1 .. Len(Without(q, c)) :
              \E j \in 1 .. Len(q) : Without(q, c)[i] = q[j] /\ q[j].who # c
         /\ \A d : d # c /\ IsQueued(q, d) => IsQueued(Without(q, c), d)
         /\ \A d : d # c /\ IsAdmitted(q, d) => IsAdmitted(Without(q, c), d)
<1> DEFINE p == Position(q, c)
           r == Without(q, c)
<1>1. p \in 1 .. Len(q) /\ q[p].who = c
  BY PositionIs
<1>2. /\ r \in Seq(Entries)
      /\ Len(r) = Len(q) - 1
      /\ \A i \in 1 .. Len(q) - 1 : r[i] = IF i < p THEN q[i] ELSE q[i + 1]
  BY <1>1, RemovalShifts DEF Without
<1> HIDE DEF p, r
<1>3. Len(q) \in Nat
  OBVIOUS
<1>4. ASSUME NEW i \in 1 .. Len(r)
      PROVE  \E j \in 1 .. Len(q) : r[i] = q[j] /\ q[j].who # c /\ j \in {i, i + 1} /\ (j = i <=> i < p)
  <2>1. CASE i < p
    <3>1. i \in 1 .. Len(q) /\ i # p /\ r[i] = q[i]
      BY <2>1, <1>1, <1>2
    <3> QED  BY <2>1, <3>1, <1>1 DEF Distinct
  <2>2. CASE ~ (i < p)
    <3>1. i + 1 \in 1 .. Len(q) /\ i + 1 # p /\ r[i] = q[i + 1]
      BY <2>2, <1>1, <1>2
    <3> QED  BY <2>2, <3>1, <1>1 DEF Distinct
  <2> QED  BY <2>1, <2>2
<1>5. Distinct(r)
  <2> SUFFICES ASSUME NEW i \in 1 .. Len(r), NEW j \in 1 .. Len(r), r[i].who = r[j].who
               PROVE  i = j
    BY DEF Distinct
  <2>1. PICK k \in 1 .. Len(q) : r[i] = q[k] /\ k \in {i, i + 1} /\ (k = i <=> i < p)
    BY <1>4
  <2>2. PICK m \in 1 .. Len(q) : r[j] = q[m] /\ m \in {j, j + 1} /\ (m = j <=> j < p)
    BY <1>4
  <2>3. k = m
    BY <2>1, <2>2 DEF Distinct
  <2> QED  BY <2>1, <2>2, <2>3, <1>1, <1>2
<1>6. ~ IsQueued(r, c)
  BY <1>4 DEF IsQueued
<1>7. ASSUME NEW j \in 1 .. Len(q), q[j].who # c
      PROVE  \E i \in 1 .. Len(r) : r[i] = q[j] /\ i = (IF j < p THEN j ELSE j - 1)
  <2>1. j # p
    BY <1>1, <1>7
  <2>2. CASE j < p
    BY <2>2, <1>1, <1>2
  <2>3. CASE j > p
    <3>1. j - 1 \in 1 .. Len(r) /\ ~ (j - 1 < p) /\ (j - 1) + 1 = j
      BY <2>3, <1>1, <1>2
    <3>2. r[j - 1] = q[(j - 1) + 1]
      BY <3>1, <1>2
    <3>3. (IF j < p THEN j ELSE j - 1) = j - 1
      BY <2>3, <1>1
    <3> QED  BY <3>1, <3>2, <3>3
  <2>4. j < p \/ j > p
    BY <2>1, <1>1, <1>3
  <2> QED  BY <2>2, <2>3, <2>4
<1>8. ASSUME NEW d, d # c, IsQueued(q, d)
      PROVE  IsQueued(r, d)
  BY <1>7, <1>8 DEF IsQueued
<1>9. ASSUME NEW d, d # c, IsAdmitted(q, d)
      PROVE  IsAdmitted(r, d)
  <2>1. PICK j \in 1 .. Len(q) : q[j].who = d /\ Admitted(q, j)
    BY <1>9 DEF IsAdmitted
  <2>2. PICK i \in 1 .. Len(r) : r[i] = q[j] /\ i = (IF j < p THEN j ELSE j - 1)
    BY <2>1, <1>7, <1>9
  <2>3. CASE q[j].mode = "write"
    <3>1. j = 1 /\ p # 1
      BY <2>1, <2>3, <1>1, <1>9 DEF Admitted
    <3>2. i = 1
      BY <2>2, <3>1, <1>1
    <3> QED  BY <2>1, <2>2, <2>3, <3>2 DEF IsAdmitted, Admitted
  <2>4. CASE q[j].mode # "write"
    <3>1. ASSUME NEW k \in 1 .. i - 1
          PROVE  r[k].mode = "read"
      <4>1. k \in 1 .. Len(r) /\ k < i /\ i <= j
        BY <2>2
      <4>2. PICK m \in 1 .. Len(q) : r[k] = q[m] /\ m \in {k, k + 1} /\ (m = k <=> k < p)
        BY <4>1, <1>4
      <4>3. m \in 1 .. j - 1
        BY <4>1, <4>2, <2>2, <1>1
      <4> QED  BY <4>2, <4>3, <2>1, <2>4 DEF Admitted
    <3> QED  BY <2>1, <2>2, <2>4, <3>1 DEF IsAdmitted, Admitted
  <2> QED  BY <2>3, <2>4
<1> QED  BY <1>2, <1>4, <1>5, <1>6, <1>8, <1>9 DEF r

\* When a client arrives, everyone else keeps place and admission.
LEMMA ArrivalKeepsOthers ==
  ASSUME NEW q \in Seq(Entries), Distinct(q), NEW e \in Entries, ~ IsQueued(q, e.who)
  PROVE  /\ Append(q, e) \in Seq(Entries)
         /\ Distinct(Append(q, e))
         /\ IsQueued(Append(q, e), e.who)
         /\ \A i \in 1 .. Len(Append(q, e)) :
              Append(q, e)[i] = e \/ \E j \in 1 .. Len(q) : Append(q, e)[i] = q[j]
         /\ \A d : IsQueued(q, d) => IsQueued(Append(q, e), d)
         /\ \A d : IsAdmitted(q, d) => IsAdmitted(Append(q, e), d)
<1> DEFINE r == Append(q, e)
<1>1. /\ r \in Seq(Entries)
      /\ Len(r) = Len(q) + 1
      /\ \A i \in 1 .. Len(q) : r[i] = q[i]
      /\ r[Len(q) + 1] = e
  BY AppendExtends
<1>2. Len(q) \in Nat
  OBVIOUS
<1> HIDE DEF r
<1>3. \A i \in 1 .. Len(r) : i \in 1 .. Len(q) \/ i = Len(q) + 1
  BY <1>1, <1>2
<1>4. Distinct(r)
  BY <1>1, <1>2, <1>3 DEF Distinct, IsQueued
<1>5. \A d : IsQueued(q, d) => IsQueued(r, d)
  BY <1>1, <1>2 DEF IsQueued
<1>6. IsQueued(r, e.who)
  BY <1>1, <1>2 DEF IsQueued
<1>7. ASSUME NEW d, IsAdmitted(q, d)
      PROVE  IsAdmitted(r, d)
  <2>1. PICK j \in 1 .. Len(q) : q[j].who = d /\ Admitted(q, j)
    BY <1>7 DEF IsAdmitted
  <2>2. j \in 1 .. Len(r) /\ r[j] = q[j] /\ \A k \in 1 .. j - 1 : r[k] = q[k]
    BY <1>1, <1>2
  <2> QED  BY <2>1, <2>2 DEF IsAdmitted, Admitted
<1> QED  BY <1>1, <1>3, <1>4, <1>5, <1>6, <1>7 DEF r

\* Two admitted requests of a queue are two reads.
LEMMA AdmittedTogether ==
  ASSUME NEW q \in Seq(Entries),
         NEW i \in 1 .. Len(q), NEW j \in 1 .. Len(q), i # j,
         Admitted(q, i), Admitted(q, j)
  PROVE  q[i].mode = "read" /\ q[j].mode = "read"
<1>1. q[i] \in Entries /\ q[j] \in Entries
  BY ElementOfSeq
<1>2. CASE i < j
  <2>1. q[j].mode # "write"
    BY <1>2 DEF Admitted
  <2>2. i \in 1 .. j - 1
    BY <1>2
  <2> QED  BY <2>1, <2>2, <1>1 DEF Admitted
<1>3. CASE j < i
  <2>1. q[i].mode # "write"
    BY <1>3 DEF Admitted
  <2>2. j \in 1 .. i - 1
    BY <1>3
  <2> QED  BY <2>1, <2>2, <1>1 DEF Admitted
<1> QED  BY <1>2, <1>3

(***************************************************************************)
(* The invariant.                                                          *)
(***************************************************************************)

\* A new coordinator satisfies the invariant.
LEMMA InitLockInv == Init => LockInv
<1> SUFFICES ASSUME Init PROVE LockInv
  OBVIOUS
<1>1. TypeOK
  BY NoneAssumption DEF Init, TypeOK
<1>2. \A l \in LockIds : Len(queue[l]) = 0
  BY DEF Init
<1> QED  BY <1>1, <1>2, NoneAssumption
  DEF Init, LockInv, EntriesDistinct, ArcIsEntry, EntryOfClient, OneEntryEach,
      ClientHasEntry, HolderAdmitted, Queued

\* Who looks a name up gets the entry of its table, old or new, and nothing
\* else changes in the map.
LEMMA LockForFindsEntry ==
  ASSUME TypeOK, EntriesDistinct, NEW n \in Names, NEW l \in LockIds, LockFor(n, l)
  PROVE  /\ locks' \in [Names -> LockIds \cup {None}]
         /\ allocated' \subseteq LockIds
         /\ EntriesDistinct'
         /\ locks'[Trim[n]] = l
         /\ \A m \in Names : locks[m] # None => locks'[m] = locks[m]
<1>1. Trim[n] \in Names
  BY TrimAssumption
<1>2. CASE locks[Trim[n]] # None
  <2>1. l = locks[Trim[n]] /\ locks' = locks /\ allocated' = allocated
    BY <1>2 DEF LockFor, NormalizeTableName
  <2> QED  BY <2>1 DEF TypeOK, EntriesDistinct
<1>3. CASE locks[Trim[n]] = None
  <2>1. /\ allocated # LockIds
        /\ l = NewLock
        /\ locks' = [locks EXCEPT ![Trim[n]] = l]
        /\ allocated' = allocated \cup {l}
    BY <1>3 DEF LockFor, NormalizeTableName
  <2>2. NewLock \notin allocated
    BY <2>1 DEF NewLock, TypeOK
  <2> QED  BY <1>1, <1>3, <2>1, <2>2, NoneAssumption DEF TypeOK, EntriesDistinct
<1> QED  BY <1>2, <1>3

\* The queues the invariant speaks of.
LEMMA QueueFacts ==
  ASSUME LockInv, NEW l \in LockIds
  PROVE  queue[l] \in Seq(Entries) /\ Distinct(queue[l])
BY DEF LockInv, TypeOK, OneEntryEach, Distinct

\* A client that called has its request and its Arc.
LEMMA ActiveClient ==
  ASSUME TypeOK, NEW c \in Clients, status[c] # "idle"
  PROVE  /\ arc[c] \in LockIds
         /\ ask[c] \in Asks
         /\ ask[c].mode \in Modes
         /\ Table(c) \in Names
<1>1. arc[c] \in LockIds \cup {None} /\ arc[c] # None
  BY DEF TypeOK
<1>2. ask[c] \in Asks \cup {None} /\ ask[c] # None
  BY DEF TypeOK
<1>3. ask[c].name \in Names /\ ask[c].mode \in Modes
  BY <1>2
<1> QED  BY <1>1, <1>2, <1>3, TrimAssumption DEF Table

\* A request in a queue is that of a client.
LEMMA QueueEntry ==
  ASSUME LockInv, NEW l \in LockIds, NEW i \in 1 .. Len(queue[l])
  PROVE  /\ queue[l][i].who \in Clients
         /\ Queued(queue[l][i].who)
         /\ arc[queue[l][i].who] = l
         /\ ask[queue[l][i].who].mode = queue[l][i].mode
<1>1. queue[l] \in Seq(Entries)
  BY QueueFacts
<1>2. queue[l][i] \in Entries
  BY <1>1, ElementOfSeq
<1> QED  BY <1>2 DEF LockInv, EntryOfClient

\* Looking a lock up disturbs nobody: an old entry is that of the table, a new one
\* is nobody else's.
LEMMA ResolveKeepsLockInv ==
  ASSUME LockInv, NEW c \in Clients, NEW n \in Names, NEW m \in Modes, Resolve(c, n, m)
  PROVE  LockInv'
<1>1. PICK l \in LockIds : LockFor(n, l) /\ arc' = [arc EXCEPT ![c] = l]
  BY DEF Resolve
<1>2. /\ status[c] = "idle"
      /\ ask' = [ask EXCEPT ![c] = [name |-> n, mode |-> m]]
      /\ status' = [status EXCEPT ![c] = "resolved"]
      /\ queue' = queue
  BY DEF Resolve
<1>3. TypeOK /\ EntriesDistinct
  BY DEF LockInv
<1>4. /\ locks' \in [Names -> LockIds \cup {None}]
      /\ allocated' \subseteq LockIds
      /\ EntriesDistinct'
      /\ locks'[Trim[n]] = l
      /\ \A k \in Names : locks[k] # None => locks'[k] = locks[k]
  BY <1>1, <1>3, LockForFindsEntry
<1>5. [name |-> n, mode |-> m] \in Asks /\ [name |-> n, mode |-> m] # None
  BY NoneAssumption
<1>6. TypeOK'
  BY <1>1, <1>2, <1>3, <1>4, <1>5, NoneAssumption DEF TypeOK
<1>7. ArcIsEntry'
  <2> SUFFICES ASSUME NEW d \in Clients, status'[d] # "idle"
               PROVE  arc'[d] = locks'[Trim[ask'[d].name]]
    BY DEF ArcIsEntry, Table
  <2>1. CASE d = c
    BY <2>1, <1>1, <1>2, <1>3, <1>4 DEF TypeOK
  <2>2. CASE d # c
    <3>1. status[d] # "idle" /\ arc'[d] = arc[d] /\ ask'[d] = ask[d]
      BY <2>2, <1>1, <1>2, <1>3 DEF TypeOK
    <3>2. arc[d] = locks[Trim[ask[d].name]]
      BY <3>1 DEF LockInv, ArcIsEntry, Table
    <3>3. arc[d] # None /\ Trim[ask[d].name] \in Names
      BY <3>1, <1>3, ActiveClient, NoneAssumption DEF Table
    <3> QED  BY <3>1, <3>2, <3>3, <1>4
  <2> QED  BY <2>1, <2>2
<1>8. \A d \in Clients : Queued(d)' <=> Queued(d)
  BY <1>2, <1>3 DEF Queued, TypeOK
<1>9. \A d \in Clients : Queued(d) => d # c /\ arc'[d] = arc[d] /\ ask'[d] = ask[d]
                                      /\ status'[d] = status[d]
  BY <1>1, <1>2, <1>3 DEF Queued, TypeOK
<1>10. EntryOfClient' /\ OneEntryEach'
  <2>1. \A k \in LockIds : \A i \in 1 .. Len(queue[k]) : queue[k][i] \in Entries
    BY <1>3, ElementOfSeq DEF TypeOK
  <2> QED  BY <2>1, <1>2, <1>8, <1>9 DEF LockInv, EntryOfClient, OneEntryEach
<1>11. ClientHasEntry'
  BY <1>2, <1>8, <1>9 DEF LockInv, ClientHasEntry
<1>12. HolderAdmitted'
  <2> SUFFICES ASSUME NEW d \in Clients, status'[d] = "holding"
               PROVE  IsAdmitted(queue'[arc'[d]], d)
    BY DEF HolderAdmitted
  <2>1. Queued(d) /\ status[d] = "holding"
    BY <1>8, <1>9 DEF Queued
  <2> QED  BY <2>1, <1>2, <1>9 DEF LockInv, HolderAdmitted
<1> QED  BY <1>4, <1>6, <1>7, <1>10, <1>11, <1>12 DEF LockInv

\* An arrival takes the last place of the queue of its own table.
LEMMA EnqueueKeepsLockInv ==
  ASSUME LockInv, NEW c \in Clients, Enqueue(c)
  PROVE  LockInv'
<1> DEFINE l == arc[c]
           e == [who |-> c, mode |-> ask[c].mode]
<1>1. /\ status[c] = "resolved"
      /\ queue' = [queue EXCEPT ![l] = Append(queue[l], e)]
      /\ status' = [status EXCEPT ![c] = "waiting"]
      /\ locks' = locks /\ allocated' = allocated /\ arc' = arc /\ ask' = ask
  BY DEF Enqueue
<1>2. TypeOK
  BY DEF LockInv
<1>3. l \in LockIds /\ e \in Entries /\ e.who = c /\ e.mode = ask[c].mode
  BY <1>1, <1>2, ActiveClient
<1>4. ~ IsQueued(queue[l], c)
  BY <1>1, <1>3 DEF LockInv, EntryOfClient, IsQueued, Queued
<1> HIDE DEF l, e
<1>5. /\ Append(queue[l], e) \in Seq(Entries)
      /\ Distinct(Append(queue[l], e))
      /\ IsQueued(Append(queue[l], e), c)
      /\ \A i \in 1 .. Len(Append(queue[l], e)) :
           \/ Append(queue[l], e)[i] = e
           \/ \E j \in 1 .. Len(queue[l]) : Append(queue[l], e)[i] = queue[l][j]
      /\ \A d : IsQueued(queue[l], d) => IsQueued(Append(queue[l], e), d)
      /\ \A d : IsAdmitted(queue[l], d) => IsAdmitted(Append(queue[l], e), d)
  BY <1>3, <1>4, QueueFacts, ArrivalKeepsOthers
<1>6. /\ queue'[l] = Append(queue[l], e)
      /\ \A k \in LockIds : k # l => queue'[k] = queue[k]
  BY <1>1, <1>2, <1>3 DEF TypeOK
<1>7. TypeOK'
  BY <1>1, <1>2, <1>3, <1>5 DEF TypeOK
<1>8. ArcIsEntry' /\ EntriesDistinct'
  BY <1>1, <1>2 DEF LockInv, ArcIsEntry, EntriesDistinct, Table, TypeOK
<1>9. \A d \in Clients : (status'[d] \in {"waiting", "holding"}) <=> Queued(d) \/ d = c
  BY <1>1, <1>2 DEF Queued, TypeOK
<1>10. EntryOfClient'
  <2> SUFFICES ASSUME NEW k \in LockIds, NEW i \in 1 .. Len(queue'[k])
               PROVE  /\ status'[queue'[k][i].who] \in {"waiting", "holding"}
                      /\ arc'[queue'[k][i].who] = k
                      /\ ask'[queue'[k][i].who].mode = queue'[k][i].mode
    BY DEF EntryOfClient, Queued
  <2>1. \A j \in 1 .. Len(queue[k]) :
          /\ queue[k][j].who \in Clients
          /\ Queued(queue[k][j].who)
          /\ arc[queue[k][j].who] = k
          /\ ask[queue[k][j].who].mode = queue[k][j].mode
    BY QueueEntry
  <2>2. CASE k # l
    BY <2>1, <2>2, <1>1, <1>6, <1>9
  <2>3. CASE k = l
    <3>1. CASE queue'[l][i] = e
      BY <2>3, <3>1, <1>1, <1>3, <1>9 DEF l
    <3>2. CASE \E j \in 1 .. Len(queue[l]) : queue'[l][i] = queue[l][j]
      BY <2>1, <2>3, <3>2, <1>1, <1>9
    <3> QED  BY <2>3, <3>1, <3>2, <1>5, <1>6
  <2> QED  BY <2>2, <2>3
<1>11. OneEntryEach'
  BY <1>5, <1>6 DEF LockInv, OneEntryEach, Distinct
<1>12. ClientHasEntry'
  <2> SUFFICES ASSUME NEW d \in Clients, status'[d] \in {"waiting", "holding"}
               PROVE  IsQueued(queue'[arc[d]], d)
    BY <1>1 DEF ClientHasEntry, Queued
  <2>1. CASE d = c
    BY <2>1, <1>5, <1>6 DEF l
  <2>2. CASE d # c
    <3>1. arc[d] \in LockIds /\ IsQueued(queue[arc[d]], d)
      BY <2>2, <1>2, <1>9, ActiveClient DEF LockInv, ClientHasEntry, Queued
    <3> QED  BY <3>1, <1>5, <1>6
  <2> QED  BY <2>1, <2>2
<1>13. HolderAdmitted'
  <2> SUFFICES ASSUME NEW d \in Clients, status'[d] = "holding"
               PROVE  IsAdmitted(queue'[arc[d]], d)
    BY <1>1 DEF HolderAdmitted
  <2>1. status[d] = "holding"
    BY <1>1, <1>2 DEF TypeOK
  <2>2. arc[d] \in LockIds /\ IsAdmitted(queue[arc[d]], d)
    BY <2>1, <1>2, ActiveClient DEF LockInv, HolderAdmitted
  <2> QED  BY <2>2, <1>5, <1>6
<1> QED  BY <1>7, <1>8, <1>10, <1>11, <1>12, <1>13 DEF LockInv

\* Only an admitted client gets its guard.
LEMMA EnterKeepsLockInv ==
  ASSUME LockInv, NEW c \in Clients, Enter(c)
  PROVE  LockInv'
<1>1. /\ status[c] = "waiting" /\ IsAdmitted(queue[arc[c]], c)
      /\ status' = [status EXCEPT ![c] = "holding"]
      /\ locks' = locks /\ allocated' = allocated /\ queue' = queue
      /\ arc' = arc /\ ask' = ask
  BY DEF Enter
<1>2. TypeOK
  BY DEF LockInv
<1>3. TypeOK' /\ EntriesDistinct' /\ ArcIsEntry'
  BY <1>1, <1>2 DEF LockInv, TypeOK, EntriesDistinct, ArcIsEntry, Table
<1>4. \A d \in Clients : Queued(d)' <=> Queued(d)
  BY <1>1, <1>2 DEF Queued, TypeOK
<1>5. EntryOfClient' /\ OneEntryEach' /\ ClientHasEntry'
  <2>1. \A k \in LockIds : \A i \in 1 .. Len(queue[k]) : queue[k][i].who \in Clients
    BY QueueEntry
  <2> QED  BY <2>1, <1>1, <1>4
    DEF LockInv, EntryOfClient, OneEntryEach, ClientHasEntry
<1>6. HolderAdmitted'
  BY <1>1, <1>2 DEF LockInv, HolderAdmitted, TypeOK
<1> QED  BY <1>3, <1>5, <1>6 DEF LockInv

\* A guard or a waiting future that is dropped takes its one request along, from
\* wherever it stands in the queue.
LEMMA LeaveKeepsLockInv ==
  ASSUME LockInv, NEW c \in Clients, Queued(c), Leave(c)
  PROVE  LockInv'
<1> DEFINE l == arc[c]
           r == Without(queue[l], c)
<1>1. /\ queue' = [queue EXCEPT ![l] = r]
      /\ status' = [status EXCEPT ![c] = "idle"]
      /\ arc' = [arc EXCEPT ![c] = None]
      /\ ask' = [ask EXCEPT ![c] = None]
      /\ locks' = locks /\ allocated' = allocated
  BY DEF Leave
<1>2. TypeOK
  BY DEF LockInv
<1>3. l \in LockIds /\ IsQueued(queue[l], c)
  BY <1>2, ActiveClient DEF LockInv, ClientHasEntry, Queued
<1>4. /\ r \in Seq(Entries)
      /\ Distinct(r)
      /\ ~ IsQueued(r, c)
      /\ \A i \in 1 .. Len(r) : \E j \in 1 .. Len(queue[l]) : r[i] = queue[l][j] /\ queue[l][j].who # c
      /\ \A d : d # c /\ IsQueued(queue[l], d) => IsQueued(r, d)
      /\ \A d : d # c /\ IsAdmitted(queue[l], d) => IsAdmitted(r, d)
  <2> HIDE DEF l
  <2> QED  BY <1>3, QueueFacts, LeavingKeepsOthers
<1> HIDE DEF l, r
<1>5. queue'[l] = r /\ \A k \in LockIds : k # l => queue'[k] = queue[k]
  BY <1>1, <1>2, <1>3 DEF TypeOK
<1>6. TypeOK'
  BY <1>1, <1>2, <1>3, <1>4 DEF TypeOK
<1>7. \A d \in Clients : d # c => /\ status'[d] = status[d]
                                  /\ arc'[d] = arc[d]
                                  /\ ask'[d] = ask[d]
  BY <1>1, <1>2 DEF TypeOK
<1>8. status'[c] = "idle"
  BY <1>1, <1>2 DEF TypeOK
<1>9. ArcIsEntry' /\ EntriesDistinct'
  BY <1>1, <1>7, <1>8 DEF LockInv, ArcIsEntry, EntriesDistinct, Table
<1>10. \A d \in Clients : (status'[d] \in {"waiting", "holding"}) <=> Queued(d) /\ d # c
  BY <1>7, <1>8 DEF Queued
<1>11. EntryOfClient'
  <2> SUFFICES ASSUME NEW k \in LockIds, NEW i \in 1 .. Len(queue'[k])
               PROVE  /\ status'[queue'[k][i].who] \in {"waiting", "holding"}
                      /\ arc'[queue'[k][i].who] = k
                      /\ ask'[queue'[k][i].who].mode = queue'[k][i].mode
    BY DEF EntryOfClient, Queued
  <2>1. \A j \in 1 .. Len(queue[k]) :
          /\ queue[k][j].who \in Clients
          /\ Queued(queue[k][j].who)
          /\ arc[queue[k][j].who] = k
          /\ ask[queue[k][j].who].mode = queue[k][j].mode
    BY QueueEntry
  <2>2. PICK j \in 1 .. Len(queue[k]) : queue'[k][i] = queue[k][j] /\ queue[k][j].who # c
    <3>1. CASE k = l
      BY <3>1, <1>4, <1>5
    <3>2. CASE k # l
      <4>1. queue'[k] = queue[k]
        BY <3>2, <1>5
      <4>2. queue[k][i].who # c
        BY <4>1, <2>1, <3>2 DEF l
      <4> QED  BY <4>1, <4>2
    <3> QED  BY <3>1, <3>2
  <2> QED  BY <2>1, <2>2, <1>7, <1>10
<1>12. OneEntryEach'
  BY <1>4, <1>5 DEF LockInv, OneEntryEach, Distinct
<1>13. ClientHasEntry'
  <2> SUFFICES ASSUME NEW d \in Clients, status'[d] \in {"waiting", "holding"}
               PROVE  IsQueued(queue'[arc'[d]], d)
    BY DEF ClientHasEntry, Queued
  <2>1. d # c /\ Queued(d) /\ arc'[d] = arc[d]
    BY <1>7, <1>10
  <2>2. arc[d] \in LockIds /\ IsQueued(queue[arc[d]], d)
    BY <2>1, <1>2, ActiveClient DEF LockInv, ClientHasEntry, Queued
  <2> QED  BY <2>1, <2>2, <1>4, <1>5
<1>14. HolderAdmitted'
  <2> SUFFICES ASSUME NEW d \in Clients, status'[d] = "holding"
               PROVE  IsAdmitted(queue'[arc'[d]], d)
    BY DEF HolderAdmitted
  <2>1. d # c /\ status[d] = "holding" /\ arc'[d] = arc[d]
    BY <1>7, <1>8
  <2>2. arc[d] \in LockIds /\ IsAdmitted(queue[arc[d]], d)
    BY <2>1, <1>2, ActiveClient DEF LockInv, HolderAdmitted
  <2> QED  BY <2>1, <2>2, <1>4, <1>5
<1> QED  BY <1>6, <1>9, <1>11, <1>12, <1>13, <1>14 DEF LockInv

\* One step per action of the coordinator.
LEMMA NextKeepsLockInv == LockInv /\ [Next]_vars => LockInv'
<1> SUFFICES ASSUME LockInv, [Next]_vars PROVE LockInv'
  OBVIOUS
<1>1. ASSUME NEW c \in Clients, NEW n \in Names, NEW m \in Modes, Resolve(c, n, m)
      PROVE  LockInv'
  BY <1>1, ResolveKeepsLockInv
<1>2. ASSUME NEW c \in Clients, Enqueue(c)
      PROVE  LockInv'
  BY <1>2, EnqueueKeepsLockInv
<1>3. ASSUME NEW c \in Clients, Enter(c)
      PROVE  LockInv'
  BY <1>3, EnterKeepsLockInv
<1>4. ASSUME NEW c \in Clients, Release(c) \/ Abandon(c)
      PROVE  LockInv'
  BY <1>4, LeaveKeepsLockInv DEF Release, Abandon, Queued
<1>5. CASE UNCHANGED vars
  <2>1. /\ locks' = locks /\ allocated' = allocated /\ queue' = queue
        /\ status' = status /\ arc' = arc /\ ask' = ask
    BY <1>5 DEF vars
  <2>2. TypeOK' /\ EntriesDistinct' /\ ArcIsEntry'
    BY <2>1 DEF LockInv, TypeOK, EntriesDistinct, ArcIsEntry, Table
  <2>3. EntryOfClient' /\ OneEntryEach'
    BY <2>1 DEF LockInv, EntryOfClient, OneEntryEach, Queued
  <2>4. ClientHasEntry' /\ HolderAdmitted'
    BY <2>1 DEF LockInv, ClientHasEntry, HolderAdmitted, Queued
  <2> QED  BY <2>2, <2>3, <2>4 DEF LockInv
<1> QED  BY <1>1, <1>2, <1>3, <1>4, <1>5 DEF Next

\* The inductive invariant of the coordinator.
THEOREM LockInvariant == Spec => []LockInv
<1>1. Init => LockInv
  BY InitLockInv
<1>2. LockInv /\ [Next]_vars => LockInv'
  BY NextKeepsLockInv
<1> QED  BY <1>1, <1>2, PTL DEF Spec

\* The coordinator keeps its types: an idle client holds no Arc of a lock.
THEOREM TypeCorrect == Spec => []TypeOK
<1>1. LockInv => TypeOK
  BY DEF LockInv
<1> QED  BY <1>1, LockInvariant, PTL

\* Two holders of one table are admitted in one queue, so both read.
LEMMA LockInvExcludes == LockInv => TableExclusion
<1> SUFFICES ASSUME LockInv,
                    NEW c \in Clients, NEW d \in Clients, c # d,
                    status[c] = "holding", status[d] = "holding", SameTable(c, d)
             PROVE  ask[c].mode = "read" /\ ask[d].mode = "read"
  BY DEF TableExclusion
<1> DEFINE l == arc[c]
<1>1. l \in LockIds /\ arc[d] = l
  <2>1. TypeOK /\ status[c] # "idle" /\ status[d] # "idle"
    BY DEF LockInv
  <2> QED  BY <2>1, ActiveClient DEF LockInv, ArcIsEntry, SameTable
<1>2. IsAdmitted(queue[l], c) /\ IsAdmitted(queue[l], d)
  BY <1>1 DEF LockInv, HolderAdmitted
<1> HIDE DEF l
<1>3. PICK i \in 1 .. Len(queue[l]) : queue[l][i].who = c /\ Admitted(queue[l], i)
  BY <1>2 DEF IsAdmitted
<1>4. PICK j \in 1 .. Len(queue[l]) : queue[l][j].who = d /\ Admitted(queue[l], j)
  BY <1>2 DEF IsAdmitted
<1>5. queue[l][i].mode = "read" /\ queue[l][j].mode = "read"
  <2>1. i # j
    BY <1>3, <1>4
  <2> QED  BY <2>1, <1>1, <1>3, <1>4, QueueFacts, AdmittedTogether
<1>6. ask[c].mode = queue[l][i].mode /\ ask[d].mode = queue[l][j].mode
  BY <1>1, <1>3, <1>4 DEF LockInv, EntryOfClient
<1> QED  BY <1>5, <1>6

\* A write has its table to itself, for any number of tasks, tables and
\* spellings, with tasks dropped at any await.
THEOREM TablesAreExclusive == Spec => []TableExclusion
BY LockInvariant, LockInvExcludes, PTL

\* A lock holds exactly the requests of the clients that are at it.
LEMMA LockInvNoLeak == LockInv => NoLeakedRequest
<1> SUFFICES ASSUME LockInv, NEW l \in LockIds, NEW c \in Clients
             PROVE  IsQueued(queue[l], c) <=> Queued(c) /\ arc[c] = l
  BY DEF NoLeakedRequest
<1>1. IsQueued(queue[l], c) => Queued(c) /\ arc[c] = l
  BY DEF LockInv, EntryOfClient, IsQueued
<1>2. Queued(c) /\ arc[c] = l => IsQueued(queue[l], c)
  BY DEF LockInv, ClientHasEntry
<1> QED  BY <1>1, <1>2

\* No task that was dropped leaves a request in a lock, whatever it was doing.
THEOREM NothingLeaks == Spec => []NoLeakedRequest
BY LockInvariant, LockInvNoLeak, PTL

\* The lock of a table never changes once it exists.
THEOREM EntriesArePermanent == Spec => EntryIsPermanent
<1>1. LockInv /\ [Next]_vars => [\A n \in Names : locks[n] # None => locks'[n] = locks[n]]_vars
  <2> SUFFICES ASSUME LockInv, Next
               PROVE  \A n \in Names : locks[n] # None => locks'[n] = locks[n]
    OBVIOUS
  <2>1. ASSUME NEW c \in Clients, NEW k \in Names, NEW m \in Modes, Resolve(c, k, m)
        PROVE  \A n \in Names : locks[n] # None => locks'[n] = locks[n]
    <3>1. PICK l \in LockIds : LockFor(k, l)
      BY <2>1 DEF Resolve
    <3> QED  BY <3>1, LockForFindsEntry DEF LockInv
  <2> QED  BY <2>1 DEF Next, Enqueue, Enter, Release, Abandon, Leave
<1> QED  BY <1>1, LockInvariant, PTL DEF Spec, EntryIsPermanent

\* A request that is not admitted has another before it, and one of the two writes.
LEMMA SomebodyIsBefore ==
  ASSUME NEW q \in Seq(Entries), NEW i \in 1 .. Len(q), ~ Admitted(q, i)
  PROVE  \E j \in 1 .. Len(q) : j # i /\ (q[i].mode = "write" \/ q[j].mode = "write")
<1>1. CASE q[i].mode = "write"
  <2>1. i # 1 /\ 1 \in 1 .. Len(q)
    BY <1>1 DEF Admitted
  <2> QED  BY <1>1, <2>1
<1>2. CASE q[i].mode # "write"
  <2>1. PICK j \in 1 .. i - 1 : q[j].mode # "read"
    BY <1>2 DEF Admitted
  <2>2. j \in 1 .. Len(q) /\ j # i
    BY <2>1
  <2>3. q[j] \in Entries
    BY <2>2, ElementOfSeq
  <2> QED  BY <2>1, <2>2, <2>3
<1> QED  BY <1>1, <1>2

\* Who stands in one queue wants one table.
LEMMA OneQueueOneTable ==
  ASSUME LockInv, NEW c \in Clients, NEW d \in Clients,
         status[c] # "idle", status[d] # "idle", arc[c] = arc[d]
  PROVE  SameTable(c, d)
<1>1. /\ arc[c] \in LockIds /\ Table(c) \in Names /\ Table(d) \in Names
      /\ arc[c] = locks[Table(c)] /\ arc[d] = locks[Table(d)]
  BY ActiveClient DEF LockInv, ArcIsEntry
<1>2. locks[Table(c)] # None
  BY <1>1, NoneAssumption
<1> QED  BY <1>1, <1>2 DEF LockInv, EntriesDistinct, SameTable

\* A client waits for its own table's operations only, and not for a read if it reads:
\* whoever is before it in its queue came with the same entry.
LEMMA LockInvBlocks == LockInv => BlockedOnlyByOwnTable
<1> SUFFICES ASSUME LockInv, NEW c \in Clients, status[c] = "waiting",
                    ~ IsAdmitted(queue[arc[c]], c)
             PROVE  LET peers == {d \in Clients : Queued(d) /\ SameTable(c, d)}
                    IN peers # {c} /\ \E d \in peers : ask[d].mode = "write"
  BY DEF BlockedOnlyByOwnTable
<1> DEFINE l == arc[c]
<1>1. l \in LockIds /\ Queued(c)
  BY ActiveClient DEF LockInv, Queued
<1>2. PICK i \in 1 .. Len(queue[l]) : queue[l][i].who = c
  BY <1>1 DEF LockInv, ClientHasEntry, IsQueued
<1> HIDE DEF l
<1>3. ~ Admitted(queue[l], i)
  BY <1>2 DEF IsAdmitted, l
<1>4. PICK j \in 1 .. Len(queue[l]) :
        j # i /\ (queue[l][i].mode = "write" \/ queue[l][j].mode = "write")
  BY <1>1, <1>3, QueueFacts, SomebodyIsBefore
<1> DEFINE d == queue[l][j].who
<1>5. d \in Clients /\ Queued(d) /\ arc[d] = l /\ ask[d].mode = queue[l][j].mode
  BY <1>1, QueueEntry
<1>6. d # c
  BY <1>1, <1>2, <1>4 DEF LockInv, OneEntryEach
<1>7. ask[c].mode = queue[l][i].mode
  BY <1>1, <1>2, QueueEntry
<1> HIDE DEF d
<1>8. SameTable(c, d)
  BY <1>1, <1>5, OneQueueOneTable DEF Queued, l
<1>9. SameTable(c, c)
  BY DEF SameTable
<1> QED  BY <1>1, <1>4, <1>5, <1>6, <1>7, <1>8, <1>9

\* Tables do not wait for each other, and reads do not for reads.
THEOREM OnlyOwnTableBlocks == Spec => []BlockedOnlyByOwnTable
BY LockInvariant, LockInvBlocks, PTL

=============================================================================
