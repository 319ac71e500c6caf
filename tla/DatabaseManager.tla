-------------------------- MODULE DatabaseManager --------------------------
(***************************************************************************)
(* DatabaseManager (manager.rs): databases are opened lazily, by name, and *)
(* their connections cached.  open_named looks the cache up, opens the     *)
(* database outside the mutex and then enters its connection; concurrent   *)
(* first opens race, and each of them is a task that may fail or be        *)
(* dropped at its awaits.  LanceDbRuntime (runtime.rs) makes an engine on  *)
(* the connection it is given.                                             *)
(*                                                                         *)
(* A connection, and the engine made on it, carry the name of the open     *)
(* that made them.                                                         *)
(***************************************************************************)
EXTENDS FiniteSets

CONSTANTS
  Opens,       \* calls of open_named; each is made once
  Names,       \* database names as given, None for Option::None
  Trim,        \* the name without surrounding white space
  Blank,       \* the trimmed name that is empty
  ValidNames,  \* trimmed names that are one path segment
  DefaultKey,  \* the string "default"
  DefaultPath, \* config.default_db_path
  HasRoot,     \* config.db_root is set
  Join,        \* Join[n]: database n under the root
  LocalPaths,  \* paths without "://"
  None

ASSUME TrimAssumption ==
  /\ Trim \in [Names \ {None} -> ValidNames \cup {Blank} \cup Names]
  /\ None \notin ValidNames \cup {Blank} \cup Opens
  /\ Blank \notin ValidNames
ASSUME RootAssumption == HasRoot \in BOOLEAN

\* No named database lies where another one does, or the default one: a matter of
\* the configuration, nothing in the code looks.
ASSUME JoinAssumption ==
  \A m \in ValidNames : /\ Join[m] # DefaultPath
                        /\ \A n \in ValidNames : Join[m] = Join[n] => m = n

VARIABLES
  cache,    \* connections: the map from keys to connections
  dirs,     \* directories created
  pc,       \* the await an open is at
  name,     \* the name it was given
  pathOf,   \* the path its connection was made to, None before
  result    \* the connection it returned, None before or if it failed

vars == <<cache, dirs, pc, name, pathOf, result>>

-----------------------------------------------------------------------------
(* Names, keys and paths.                                                  *)

IsBlank(n) == n = None \/ Trim[n] = Blank

Keys == {DefaultKey} \cup {Trim[n] : n \in {n \in Names : ~ IsBlank(n)}}

\* Faulty: one entry for all.
SingleKey(n) == DefaultKey

\* normalize_database_key
KeyOf(n) == IF IsBlank(n) THEN DefaultKey ELSE Trim[n]

\* database_path_for_name answers; otherwise it is an error.
HasPath(n) == IsBlank(n) \/ (Trim[n] \in ValidNames /\ HasRoot)

PathFor(n) == IF IsBlank(n) THEN DefaultPath ELSE Join[Trim[n]]

Paths == {PathFor(n) : n \in {n \in Names : HasPath(n)}}

TypeOK ==
  /\ cache \in [Keys -> Opens \cup {None}]
  /\ dirs \subseteq Paths \cap LocalPaths
  /\ pc \in [Opens -> {"new", "lookup", "mkdir", "connect", "insert", "done"}]
  /\ name \in [Opens -> Names \cup {None}]
  /\ pathOf \in [Opens -> Paths \cup {None}]
  /\ result \in [Opens -> Opens \cup {None}]

Goto(o, there) == pc' = [pc EXCEPT ![o] = there]

-----------------------------------------------------------------------------
(* open_named                                                              *)

Open(o, n) ==
  /\ pc[o] = "new"
  /\ name' = [name EXCEPT ![o] = n]
  /\ Goto(o, IF HasPath(n) THEN "lookup" ELSE "done")
  /\ UNCHANGED <<cache, dirs, pathOf, result>>

\* Faulty: a directory is made for a URI.
LookUpAnyPath(o) ==
  LET cached == cache[KeyOf(name[o])] IN
  /\ pc[o] = "lookup"
  /\ result' = [result EXCEPT ![o] = cached]
  /\ Goto(o, IF cached # None THEN "done" ELSE "mkdir")
  /\ UNCHANGED <<cache, dirs, name, pathOf>>

\* Under the mutex: a cached connection is returned.
LookUp(o) ==
  LET cached == cache[KeyOf(name[o])] IN
  /\ pc[o] = "lookup"
  /\ result' = [result EXCEPT ![o] = cached]
  /\ \/ cached # None /\ Goto(o, "done")
     \/ cached = None /\ PathFor(name[o]) \in LocalPaths /\ Goto(o, "mkdir")
     \/ cached = None /\ PathFor(name[o]) \notin LocalPaths /\ Goto(o, "connect")
  /\ UNCHANGED <<cache, dirs, name, pathOf>>

MakeDirectory(o) ==
  /\ pc[o] = "mkdir"
  /\ dirs' = dirs \cup {PathFor(name[o])}
  /\ Goto(o, "connect")
  /\ UNCHANGED <<cache, name, pathOf, result>>

Connect(o) ==
  /\ pc[o] = "connect"
  /\ pathOf' = [pathOf EXCEPT ![o] = PathFor(name[o])]
  /\ Goto(o, "insert")
  /\ UNCHANGED <<cache, dirs, name, result>>

\* Faulty: the cache is not asked again before the connection goes in.
Overwrite(o) ==
  /\ pc[o] = "insert"
  /\ cache' = [cache EXCEPT ![KeyOf(name[o])] = o]
  /\ result' = [result EXCEPT ![o] = o]
  /\ Goto(o, "done")
  /\ UNCHANGED <<dirs, name, pathOf>>

\* Under the mutex again: the first connection entered is everybody's.
Insert(o) ==
  LET key == KeyOf(name[o]) IN
  /\ pc[o] = "insert"
  /\ cache' = [cache EXCEPT ![key] = IF @ = None THEN o ELSE @]
  /\ result' = [result EXCEPT ![o] = cache'[key]]
  /\ Goto(o, "done")
  /\ UNCHANGED <<dirs, name, pathOf>>

\* create_dir_all or connect fails, or the task is dropped at an await; a
\* directory stays.
Abort(o) ==
  /\ pc[o] \in {"lookup", "mkdir", "connect", "insert"}
  /\ Goto(o, "done")
  /\ UNCHANGED <<cache, dirs, name, pathOf, result>>

-----------------------------------------------------------------------------

Init ==
  /\ cache = [k \in Keys |-> None]
  /\ dirs = {}
  /\ pc = [o \in Opens |-> "new"]
  /\ name = [o \in Opens |-> None]
  /\ pathOf = [o \in Opens |-> None]
  /\ result = [o \in Opens |-> None]

Next ==
  \E o \in Opens :
    \/ \E n \in Names : Open(o, n)
    \/ LookUp(o) \/ MakeDirectory(o) \/ Connect(o) \/ Insert(o)
    \/ Abort(o)

Spec == Init /\ [][Next]_vars

-----------------------------------------------------------------------------

Opened(o) == result[o] # None

\* Opens of one database share one connection, however they raced and however
\* the name was spelled; a connection that lost the race is in nobody's hands.
OneConnectionPerDatabase ==
  \A o, p \in Opens :
    Opened(o) /\ Opened(p) /\ PathFor(name[o]) = PathFor(name[p]) => result[o] = result[p]

\* "命名库：使用 `db_root/<database_name>`" (LIBRARY_USAGE.zh-CN.md:341), and the
\* default path for a blank name: the connection returned is one to the path that
\* database_path_for_name gives for the name.
OpensNamedPath ==
  \A o \in Opens : Opened(o) => pathOf[result[o]] = PathFor(name[o])

\* A cached connection is never replaced: an engine made on it is on the one that
\* every later open of the database gets.
CacheIsStable ==
  [][\A k \in Keys : cache[k] # None => cache'[k] = cache[k]]_vars

-----------------------------------------------------------------------------
(* Why they hold: the conjuncts of ManagerInv are inductive together.      *)

\* An open past its checks has a name with a path, a local one if a directory
\* is about to be made.
OnItsWay ==
  \A o \in Opens :
    /\ pc[o] \notin {"new", "done"} \/ Opened(o) => name[o] \in Names /\ HasPath(name[o])
    /\ pc[o] = "mkdir" => PathFor(name[o]) \in LocalPaths

\* What is about to be entered is a connection to the path of its name.
ConnectedToPath == \A o \in Opens : pc[o] = "insert" => pathOf[o] = PathFor(name[o])

\* An entry was made under its key by an open that is over.
EntryOfItsKey ==
  \A k \in Keys : cache[k] # None =>
    /\ pc[cache[k]] = "done"
    /\ KeyOf(name[cache[k]]) = k
    /\ pathOf[cache[k]] = PathFor(name[cache[k]])

\* What an open returned is what the cache has, since then.
ReturnedIsCached ==
  \A o \in Opens : Opened(o) => pc[o] = "done" /\ result[o] = cache[KeyOf(name[o])]

ManagerInv == TypeOK /\ OnItsWay /\ ConnectedToPath /\ EntryOfItsKey /\ ReturnedIsCached
=============================================================================
