----------------------- MODULE DatabaseManager_proofs -----------------------
(***************************************************************************)
(* What DatabaseManager.tla says of the connection cache, for any number   *)
(* of opens, any names and any way of trimming them.                       *)
(***************************************************************************)
EXTENDS DatabaseManager, TLAPS

-----------------------------------------------------------------------------
(* Names, keys and paths.                                                  *)

\* A name, or no name, has a key of the cache.
LEMMA KeyOfName ==
  ASSUME NEW n \in Names \cup {None}
  PROVE KeyOf(n) \in Keys
BY DEF KeyOf, Keys, IsBlank

\* Names with one path have one key.
LEMMA PathDeterminesKey ==
  ASSUME NEW m \in Names, NEW n \in Names, HasPath(m), HasPath(n), PathFor(m) = PathFor(n)
  PROVE KeyOf(m) = KeyOf(n)
BY JoinAssumption DEF HasPath, PathFor, KeyOf

\* Names with one key have one path, unless one of them is the key of the
\* default database spelled out.
LEMMA KeyDeterminesPath ==
  ASSUME \A n \in Names : ~ IsBlank(n) => Trim[n] # DefaultKey,
         NEW m \in Names \cup {None}, NEW n \in Names \cup {None}, KeyOf(m) = KeyOf(n)
  PROVE PathFor(m) = PathFor(n)
<1>1. IsBlank(None)
  BY DEF IsBlank
<1>2. \A x \in Names \cup {None} : KeyOf(x) = DefaultKey <=> IsBlank(x)
  BY <1>1 DEF KeyOf
<1>3. IsBlank(m) <=> IsBlank(n)
  BY <1>2
<1>4. CASE IsBlank(m)
  BY <1>3, <1>4 DEF PathFor
<1>5. CASE ~ IsBlank(m)
  BY <1>3, <1>5 DEF PathFor, KeyOf
<1> QED BY <1>4, <1>5

-----------------------------------------------------------------------------
(* The invariant.                                                          *)

LEMMA InitInv == Init => ManagerInv
<1> SUFFICES ASSUME Init PROVE ManagerInv
  OBVIOUS
<1> USE DEF Init
<1>1. TypeOK
  BY DEF TypeOK
<1>2. OnItsWay /\ ConnectedToPath /\ EntryOfItsKey /\ ReturnedIsCached
  BY DEF OnItsWay, ConnectedToPath, EntryOfItsKey, ReturnedIsCached, Opened
<1> QED BY <1>1, <1>2 DEF ManagerInv

\* What a step of open o leaves to show, when it enters nothing in the cache and
\* returns only what is there: the other opens are as they were.
LEMMA OpenStep ==
  ASSUME ManagerInv, TypeOK', NEW o \in Opens, pc[o] # "done",
         cache' = cache,
         \A p \in Opens \ {o} : /\ pc'[p] = pc[p] /\ name'[p] = name[p]
                                /\ pathOf'[p] = pathOf[p] /\ result'[p] = result[p],
         pc'[o] \notin {"new", "done"} \/ result'[o] # None =>
           name'[o] \in Names /\ HasPath(name'[o]),
         pc'[o] = "mkdir" => PathFor(name'[o]) \in LocalPaths,
         pc'[o] = "insert" => pathOf'[o] = PathFor(name'[o]),
         result'[o] # None => pc'[o] = "done" /\ result'[o] = cache[KeyOf(name'[o])]
  PROVE ManagerInv'
<1>1. OnItsWay'
  BY DEF ManagerInv, OnItsWay, Opened
<1>2. ConnectedToPath'
  BY DEF ManagerInv, ConnectedToPath
<1>3. EntryOfItsKey'
  <2> SUFFICES ASSUME NEW k \in Keys, cache[k] # None
               PROVE /\ pc'[cache[k]] = "done"
                     /\ KeyOf(name'[cache[k]]) = k
                     /\ pathOf'[cache[k]] = PathFor(name'[cache[k]])
    BY DEF EntryOfItsKey
  <2>1. cache[k] \in Opens \ {o}
    BY DEF ManagerInv, TypeOK, EntryOfItsKey
  <2> QED BY <2>1 DEF ManagerInv, EntryOfItsKey
<1>4. ReturnedIsCached'
  BY DEF ManagerInv, ReturnedIsCached, Opened
<1> QED BY <1>1, <1>2, <1>3, <1>4 DEF ManagerInv

\* Each step of an open keeps the invariant; only Insert touches the cache.
LEMMA StepInv == ManagerInv /\ [Next]_vars => ManagerInv'
<1> SUFFICES ASSUME ManagerInv, [Next]_vars PROVE ManagerInv'
  OBVIOUS
<1>0. TypeOK
  BY DEF ManagerInv
<1>1. ASSUME NEW o \in Opens, NEW n \in Names, Open(o, n) PROVE ManagerInv'
  <2>1. TypeOK'
    BY <1>0, <1>1 DEF TypeOK, Open, Goto
  <2>2. result[o] = None
    BY <1>1 DEF ManagerInv, ReturnedIsCached, Opened, Open
  <2> QED BY <1>0, <1>1, <2>1, <2>2, OpenStep DEF TypeOK, Open, Goto
<1>2. ASSUME NEW o \in Opens, LookUp(o) PROVE ManagerInv'
  <2>1. KeyOf(name[o]) \in Keys
    BY <1>0, KeyOfName DEF TypeOK
  <2>2. name[o] \in Names /\ HasPath(name[o])
    BY <1>2 DEF ManagerInv, OnItsWay, LookUp
  <2>3. TypeOK'
    BY <1>0, <1>2, <2>1 DEF TypeOK, LookUp, Goto
  <2> DEFINE cached == cache[KeyOf(name[o])]
  <2>4. pc[o] = "lookup" /\ UNCHANGED <<cache, dirs, name, pathOf>>
    BY <1>2 DEF LookUp
  <2>5. result'[o] = cached
    BY <1>0, <1>2 DEF TypeOK, LookUp
  <2>6. \A p \in Opens \ {o} : pc'[p] = pc[p] /\ result'[p] = result[p]
    BY <1>0, <1>2 DEF TypeOK, LookUp, Goto
  <2>7. /\ pc'[o] \in {"done", "mkdir", "connect"}
        /\ pc'[o] = "mkdir" => PathFor(name[o]) \in LocalPaths
        /\ cached # None => pc'[o] = "done"
    BY <1>0, <1>2 DEF TypeOK, LookUp, Goto
  <2> QED BY <1>0, <2>2, <2>3, <2>4, <2>5, <2>6, <2>7, OpenStep
<1>3. ASSUME NEW o \in Opens, MakeDirectory(o) PROVE ManagerInv'
  <2>1. /\ name[o] \in Names /\ HasPath(name[o])
        /\ PathFor(name[o]) \in LocalPaths
        /\ result[o] = None
    BY <1>3 DEF ManagerInv, OnItsWay, ReturnedIsCached, Opened, MakeDirectory
  <2>2. PathFor(name[o]) \in Paths
    BY <2>1 DEF Paths
  <2>3. TypeOK'
    BY <1>0, <1>3, <2>1, <2>2 DEF TypeOK, MakeDirectory, Goto
  <2> QED BY <1>0, <1>3, <2>1, <2>3, OpenStep DEF TypeOK, MakeDirectory, Goto
<1>4. ASSUME NEW o \in Opens, Connect(o) PROVE ManagerInv'
  <2>1. name[o] \in Names /\ HasPath(name[o]) /\ result[o] = None
    BY <1>4 DEF ManagerInv, OnItsWay, ReturnedIsCached, Opened, Connect
  <2>2. PathFor(name[o]) \in Paths
    BY <2>1 DEF Paths
  <2>3. TypeOK'
    BY <1>0, <1>4, <2>2 DEF TypeOK, Connect, Goto
  <2> QED BY <1>0, <1>4, <2>1, <2>3, OpenStep DEF TypeOK, Connect, Goto
<1>5. ASSUME NEW o \in Opens, Insert(o) PROVE ManagerInv'
  <2> DEFINE key == KeyOf(name[o])
  <2>1. key \in Keys
    BY <1>0, KeyOfName DEF TypeOK
  <2>2. name[o] \in Names /\ HasPath(name[o]) /\ pathOf[o] = PathFor(name[o])
    BY <1>5 DEF ManagerInv, OnItsWay, ConnectedToPath, Insert
  <2>3. CASE cache[key] # None
    <3>1. cache' = cache /\ result' = [result EXCEPT ![o] = cache[key]]
      BY <1>0, <1>5, <2>1, <2>3 DEF TypeOK, Insert
    <3>2. TypeOK'
      BY <1>0, <1>5, <2>1, <3>1 DEF TypeOK, Insert, Goto
    <3> QED BY <1>0, <1>5, <2>2, <3>1, <3>2, OpenStep DEF TypeOK, Insert, Goto
  <2>4. CASE cache[key] = None
    <3>1. cache' = [cache EXCEPT ![key] = o] /\ result' = [result EXCEPT ![o] = o]
      BY <1>0, <1>5, <2>1, <2>4 DEF TypeOK, Insert
    <3>2. pc' = [pc EXCEPT ![o] = "done"] /\ UNCHANGED <<dirs, name, pathOf>>
      BY <1>5 DEF Insert, Goto
    <3>3. TypeOK'
      BY <1>0, <2>1, <3>1, <3>2 DEF TypeOK
    <3>4. OnItsWay'
      BY <1>0, <2>2, <3>1, <3>2 DEF TypeOK, ManagerInv, OnItsWay, Opened
    <3>5. ConnectedToPath'
      BY <1>0, <3>2 DEF TypeOK, ManagerInv, ConnectedToPath
    <3>6. EntryOfItsKey'
      <4> SUFFICES ASSUME NEW k \in Keys, cache'[k] # None
                   PROVE /\ pc'[cache'[k]] = "done"
                         /\ KeyOf(name'[cache'[k]]) = k
                         /\ pathOf'[cache'[k]] = PathFor(name'[cache'[k]])
        BY DEF EntryOfItsKey
      <4>1. CASE k = key
        BY <1>0, <2>1, <2>2, <3>1, <3>2, <4>1 DEF TypeOK
      <4>2. CASE k # key
        <5>1. cache'[k] = cache[k] /\ cache[k] \in Opens
          BY <1>0, <2>1, <3>1, <4>2 DEF TypeOK
        <5>2. pc'[cache[k]] = "done"
          BY <1>0, <3>2, <5>1 DEF TypeOK, ManagerInv, EntryOfItsKey
        <5> QED BY <3>2, <5>1, <5>2 DEF ManagerInv, EntryOfItsKey
      <4> QED BY <4>1, <4>2
    <3>7. ReturnedIsCached'
      <4> SUFFICES ASSUME NEW p \in Opens, result'[p] # None
                   PROVE pc'[p] = "done" /\ result'[p] = cache'[KeyOf(name'[p])]
        BY DEF ReturnedIsCached, Opened
      <4>1. CASE p = o
        BY <1>0, <2>1, <3>1, <3>2, <4>1 DEF TypeOK
      <4>2. CASE p # o
        <5>1. pc[p] = "done" /\ result[p] = cache[KeyOf(name[p])] /\ result[p] # None
          BY <1>0, <3>1, <4>2 DEF TypeOK, ManagerInv, ReturnedIsCached, Opened
        <5>2. KeyOf(name[p]) # key
          BY <2>4, <5>1
        <5>3. cache'[KeyOf(name[p])] = cache[KeyOf(name[p])]
          BY <1>0, <3>1, <5>2, KeyOfName DEF TypeOK
        <5> QED BY <1>0, <3>1, <3>2, <4>2, <5>1, <5>3 DEF TypeOK
      <4> QED BY <4>1, <4>2
    <3> QED BY <3>3, <3>4, <3>5, <3>6, <3>7 DEF ManagerInv
  <2> QED BY <2>3, <2>4
<1>6. ASSUME NEW o \in Opens, Abort(o) PROVE ManagerInv'
  <2>1. result[o] = None
    BY <1>6 DEF ManagerInv, ReturnedIsCached, Opened, Abort
  <2>2. TypeOK'
    BY <1>0, <1>6 DEF TypeOK, Abort, Goto
  <2> QED BY <1>0, <1>6, <2>1, <2>2, OpenStep DEF TypeOK, Abort, Goto
<1>7. CASE UNCHANGED vars
  BY <1>7 DEF vars, ManagerInv, TypeOK, OnItsWay, ConnectedToPath, EntryOfItsKey,
              ReturnedIsCached, Opened
<1> QED BY <1>1, <1>2, <1>3, <1>4, <1>5, <1>6, <1>7 DEF Next

\* The manager's state is what its opens made it, at all times.
THEOREM ManagerInvariant == Spec => []ManagerInv
BY InitInv, StepInv, PTL DEF Spec

-----------------------------------------------------------------------------
(* What follows from it.                                                   *)

\* The type invariant of the connection cache and of the opens in flight.
THEOREM TypeCorrect == Spec => []TypeOK
<1>1. ManagerInv => TypeOK
  BY DEF ManagerInv
<1> QED BY <1>1, ManagerInvariant, PTL

\* However many first opens of a database race outside the mutex, all that return
\* return one connection.
THEOREM ConnectionsAreShared == Spec => []OneConnectionPerDatabase
<1>1. ManagerInv => OneConnectionPerDatabase
  <2> SUFFICES ASSUME ManagerInv, NEW o \in Opens, NEW p \in Opens,
                      Opened(o), Opened(p), PathFor(name[o]) = PathFor(name[p])
               PROVE result[o] = result[p]
    BY DEF OneConnectionPerDatabase
  <2>1. KeyOf(name[o]) = KeyOf(name[p])
    BY PathDeterminesKey DEF ManagerInv, OnItsWay
  <2> QED BY <2>1 DEF ManagerInv, ReturnedIsCached
<1> QED BY <1>1, ManagerInvariant, PTL

\* Unless a database is named like the key of the default one, an open returns a
\* connection to the path of its name; the manager_default run shows the exception.
THEOREM NamedPathIsOpened ==
  ASSUME \A n \in Names : ~ IsBlank(n) => Trim[n] # DefaultKey
  PROVE Spec => []OpensNamedPath
<1>1. ManagerInv => OpensNamedPath
  <2> SUFFICES ASSUME ManagerInv, NEW o \in Opens, Opened(o)
               PROVE pathOf[result[o]] = PathFor(name[o])
    BY DEF OpensNamedPath
  <2> DEFINE c == result[o]
  <2>1. KeyOf(name[o]) \in Keys /\ name[o] \in Names \cup {None} /\ c \in Opens
    BY KeyOfName DEF ManagerInv, TypeOK, Opened
  <2>2. cache[KeyOf(name[o])] = c /\ c # None
    BY DEF ManagerInv, ReturnedIsCached, Opened
  <2>3. KeyOf(name[c]) = KeyOf(name[o]) /\ pathOf[c] = PathFor(name[c])
    BY <2>1, <2>2 DEF ManagerInv, EntryOfItsKey
  <2>4. name[c] \in Names \cup {None}
    BY <2>1 DEF ManagerInv, TypeOK
  <2> QED BY <2>1, <2>3, <2>4, KeyDeterminesPath
<1> QED BY <1>1, ManagerInvariant, PTL

\* No step of any open replaces a connection that is cached.
THEOREM CacheNeverReplaced == Spec => CacheIsStable
<1>1. ManagerInv /\ [Next]_vars =>
        [\A k \in Keys : cache[k] # None => cache'[k] = cache[k]]_vars
  <2> SUFFICES ASSUME ManagerInv, Next, NEW k \in Keys, cache[k] # None
               PROVE cache'[k] = cache[k]
    OBVIOUS
  <2>1. PICK o \in Opens : \/ cache' = cache
                           \/ Insert(o)
    BY DEF Next, Open, LookUp, MakeDirectory, Connect, Abort
  <2>2. CASE Insert(o)
    BY <2>2 DEF Insert, ManagerInv, TypeOK
  <2> QED BY <2>1, <2>2
<1> QED BY <1>1, ManagerInvariant, PTL DEF Spec, CacheIsStable
=============================================================================
