----------------------------- MODULE TableLocks -----------------------------
(***************************************************************************)
(* TableAccessCoordinator (engine.rs): the map from table names to         *)
(* reader/writer locks through which an engine admits the operations on a  *)
(* table.                                                                  *)
(*                                                                         *)
(* `locks` is the Mutex<HashMap<String, Arc<RwLock<()>>>>: a lock object   *)
(* or None under every name.  `queue[l]` is the tokio RwLock object l, an  *)
(* external component: tokio's lock is a fair semaphore, so the lock is    *)
(* its queue of requests in arrival order, the admitted ones at the front. *)
(* Clients are the asynchronous tasks that call acquire_read or            *)
(* acquire_write; the guard they await is dropped when they leave, and a   *)
(* task dropped at its await (a timeout, a closed connection) leaves the   *)
(* queue, admitted or not.                                                 *)
(***************************************************************************)
EXTENDS Naturals, Sequences, SequencesExt

CONSTANTS
  Clients,   \* tasks
  Names,     \* table names as the callers spell them
  Trim,      \* Trim[n]: the name n without its surrounding white space
  LockIds,   \* addresses of RwLock objects
  None       \* no lock object, no request

Modes == {"read", "write"}
Entries == [who : Clients, mode : Modes]
Asks == [name : Names, mode : Modes]

ASSUME TrimAssumption == /\ Trim \in [Names -> Names]
                         /\ \A n \in Names : Trim[Trim[n]] = Trim[n]

ASSUME NoneAssumption == None \notin LockIds /\ None \notin Asks

VARIABLES
  locks,     \* HashMap entry of every name: a lock object, or None
  allocated, \* lock objects created so far
  queue,     \* requests at each lock object, in arrival order
  status,    \* where each client is between its call and the end of its guard
  arc,       \* the Arc<RwLock> a client got from lock_for
  ask        \* what the client asked for: a name as spelled, and a mode

vars == <<locks, allocated, queue, status, arc, ask>>

TypeOK ==
  /\ locks \in [Names -> LockIds \cup {None}]
  /\ allocated \subseteq LockIds
  /\ queue \in [LockIds -> Seq(Entries)]
  /\ status \in [Clients -> {"idle", "resolved", "waiting", "holding"}]
  /\ arc \in [Clients -> LockIds \cup {None}]
  /\ ask \in [Clients -> Asks \cup {None}]
  /\ \A c \in Clients : arc[c] = None <=> status[c] = "idle"
  /\ \A c \in Clients : ask[c] = None <=> status[c] = "idle"

-----------------------------------------------------------------------------
(* The tokio RwLock.                                                       *)

\* Faulty: a plain mutex.
FrontOnly(q, i) == i = 1

\* The request at position i of q has its guard: a writer only from the front,
\* a reader when no writer was queued before it.
Admitted(q, i) ==
  IF q[i].mode = "write" THEN i = 1
  ELSE \A j \in 1 .. i - 1 : q[j].mode = "read"

IsQueued(q, c) == \E i \in 1 .. Len(q) : q[i].who = c

IsAdmitted(q, c) == \E i \in 1 .. Len(q) : q[i].who = c /\ Admitted(q, i)

\* Where client c stands in q.
Position(q, c) == CHOOSE i \in 1 .. Len(q) : q[i].who = c

\* The queue once c has given up its guard, or its place.
Without(q, c) == RemoveAt(q, Position(q, c))

-----------------------------------------------------------------------------
(* lock_for: under the Mutex, the entry of the normalized name, created    *)
(* when it is vacant.  Entries are never removed.  LockIds bounds the heap *)
(* the locks are created in.                                               *)

\* Faulty: the name is used as the caller spelled it.
Untrimmed(n) == n

NormalizeTableName(n) == Trim[n]

NewLock == CHOOSE l \in LockIds : l \notin allocated

\* Faulty: insert in place of or_insert_with.
InsertLock(n, l) ==
  /\ allocated # LockIds
  /\ l = NewLock
  /\ locks' = [locks EXCEPT ![NormalizeTableName(n)] = l]
  /\ allocated' = allocated \cup {l}

LockFor(n, l) ==
  LET key == NormalizeTableName(n) IN
  \/ /\ locks[key] # None
     /\ l = locks[key]
     /\ UNCHANGED <<locks, allocated>>
  \/ /\ locks[key] = None
     /\ allocated # LockIds
     /\ l = NewLock
     /\ locks' = [locks EXCEPT ![key] = l]
     /\ allocated' = allocated \cup {l}

\* acquire_read and acquire_write, up to the clone of the Arc.
Resolve(c, n, m) ==
  /\ status[c] = "idle"
  /\ \E l \in LockIds : LockFor(n, l) /\ arc' = [arc EXCEPT ![c] = l]
  /\ ask' = [ask EXCEPT ![c] = [name |-> n, mode |-> m]]
  /\ status' = [status EXCEPT ![c] = "resolved"]
  /\ UNCHANGED queue

\* The first poll of read_owned or write_owned.
Enqueue(c) ==
  /\ status[c] = "resolved"
  /\ queue' = [queue EXCEPT ![arc[c]] =
                 Append(@, [who |-> c, mode |-> ask[c].mode])]
  /\ status' = [status EXCEPT ![c] = "waiting"]
  /\ UNCHANGED <<locks, allocated, arc, ask>>

\* The await returns the guard.
Enter(c) ==
  /\ status[c] = "waiting"
  /\ IsAdmitted(queue[arc[c]], c)
  /\ status' = [status EXCEPT ![c] = "holding"]
  /\ UNCHANGED <<locks, allocated, queue, arc, ask>>

\* Faulty: the client keeps its clone of the Arc.
LeaveWithArc(c) ==
  /\ queue' = [queue EXCEPT ![arc[c]] = Without(@, c)]
  /\ status' = [status EXCEPT ![c] = "idle"]
  /\ ask' = [ask EXCEPT ![c] = None]
  /\ UNCHANGED <<locks, allocated, arc>>

\* Dropping a guard, or the future that awaits one.
Leave(c) ==
  /\ queue' = [queue EXCEPT ![arc[c]] = Without(@, c)]
  /\ status' = [status EXCEPT ![c] = "idle"]
  /\ arc' = [arc EXCEPT ![c] = None]
  /\ ask' = [ask EXCEPT ![c] = None]
  /\ UNCHANGED <<locks, allocated>>

\* The guard goes out of scope, at the end of the operation or because the
\* operation was dropped.
Release(c) == status[c] = "holding" /\ Leave(c)

\* Faulty: the request of a dropped task stays in the queue.
AbandonInQueue(c) ==
  /\ status[c] = "waiting"
  /\ status' = [status EXCEPT ![c] = "idle"]
  /\ arc' = [arc EXCEPT ![c] = None]
  /\ ask' = [ask EXCEPT ![c] = None]
  /\ UNCHANGED <<locks, allocated, queue>>

\* The task is dropped while it waits for its guard.
Abandon(c) == status[c] = "waiting" /\ Leave(c)

-----------------------------------------------------------------------------

Init ==
  /\ locks = [n \in Names |-> None]
  /\ allocated = {}
  /\ queue = [l \in LockIds |-> <<>>]
  /\ status = [c \in Clients |-> "idle"]
  /\ arc = [c \in Clients |-> None]
  /\ ask = [c \in Clients |-> None]

Next ==
  \E c \in Clients :
    \/ \E n \in Names, m \in Modes : Resolve(c, n, m)
    \/ Enqueue(c)
    \/ Enter(c)
    \/ Release(c)
    \/ Abandon(c)

Spec == Init /\ [][Next]_vars

\* A task that is runnable is polled, and no operation keeps its guard for ever.
\* Nothing makes a client call, or be dropped.
Fairness ==
  \A c \in Clients : WF_vars(Enqueue(c)) /\ WF_vars(Enter(c)) /\ WF_vars(Release(c))

FairSpec == Spec /\ Fairness

-----------------------------------------------------------------------------

Table(c) == Trim[ask[c].name]
SameTable(c, d) == Table(c) = Table(d)
Queued(c) == status[c] \in {"waiting", "holding"}

\* Exclusion is per table and not per spelling: while an operation writes a
\* table, no other operation is inside it, whatever name each passed and
\* whichever of them came first and created the lock.
TableExclusion ==
  \A c, d \in Clients :
    /\ c # d
    /\ status[c] = "holding" /\ status[d] = "holding"
    /\ SameTable(c, d)
    => ask[c].mode = "read" /\ ask[d].mode = "read"

\* A lock object is occupied by the clients that wait at it or hold its guard
\* and by nobody else: no request survives a client that was dropped, and no
\* client lost its place.
NoLeakedRequest ==
  \A l \in LockIds, c \in Clients :
    IsQueued(queue[l], c) <=> Queued(c) /\ arc[c] = l

\* A client is only ever kept waiting by operations on its own table, one of
\* the two being a write: tables do not share locks, readers do not exclude
\* readers.
BlockedOnlyByOwnTable ==
  \A c \in Clients :
    LET peers == {d \in Clients : Queued(d) /\ SameTable(c, d)} IN
    status[c] = "waiting" /\ ~ IsAdmitted(queue[arc[c]], c) =>
      peers # {c} /\ \E d \in peers : ask[d].mode = "write"

\* The entry of a table, once made, is the lock of the table for ever: a client
\* that cloned the Arc and has not polled it yet cannot miss a replacement.
EntryIsPermanent ==
  [][\A n \in Names : locks[n] # None => locks'[n] = locks[n]]_vars

\* A client that waits is admitted or dropped in the end, however many readers
\* keep coming: a writer is not starved, and a dropped waiter blocks nobody.
WaiterAdmitted ==
  \A c \in Clients : status[c] = "waiting" ~> status[c] # "waiting"

-----------------------------------------------------------------------------
(* Why TableExclusion holds: the conjuncts below are inductive together.   *)

\* Distinct names never share a lock object, and every entry is a lock object
\* that was created, so a new lock is nobody's.
EntriesDistinct ==
  /\ \A n \in Names : locks[n] # None => locks[n] \in allocated
  /\ \A m, n \in Names : locks[m] # None /\ locks[m] = locks[n] => m = n

\* A client works with the lock that is the entry of its table.
ArcIsEntry ==
  \A c \in Clients : status[c] # "idle" => arc[c] = locks[Table(c)]

\* What stands in a queue was asked for there by a client that is still there.
EntryOfClient ==
  \A l \in LockIds : \A i \in 1 .. Len(queue[l]) :
    LET e == queue[l][i] IN
    Queued(e.who) /\ arc[e.who] = l /\ ask[e.who].mode = e.mode

OneEntryEach ==
  \A l \in LockIds : \A i, j \in 1 .. Len(queue[l]) :
    queue[l][i].who = queue[l][j].who => i = j

ClientHasEntry ==
  \A c \in Clients : Queued(c) => IsQueued(queue[arc[c]], c)

\* A guard, once given, is not overtaken by what happens behind it.
HolderAdmitted ==
  \A c \in Clients : status[c] = "holding" => IsAdmitted(queue[arc[c]], c)

LockInv ==
  /\ TypeOK
  /\ EntriesDistinct
  /\ ArcIsEntry
  /\ EntryOfClient
  /\ OneEntryEach
  /\ ClientHasEntry
  /\ HolderAdmitted
=============================================================================
