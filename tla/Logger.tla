------------------------------- MODULE Logger -------------------------------
(***************************************************************************)
(* ServiceLogger (logging.rs): lines go to stderr and to a file per day.   *)
(*                                                                         *)
(* A line is stamped before the mutex is taken, the day of the file is     *)
(* looked up under it: midnight may pass between the two, and between      *)
(* either of them and the write.  The clock is taken to go forward.  A     *)
(* disabled logger does nothing; the caller sees to that, as it sees to    *)
(* the panic of eprintln! when stderr is gone.  Lines that are not to go   *)
(* to stderr are the behaviours that do not lose it, lines that are not to *)
(* go to a file those whose writes all fail.                               *)
(***************************************************************************)
EXTENDS Naturals, Sequences, FiniteSets

CONSTANTS
  Writers,   \* tasks that log
  Categories,\* what lines are about
  LastDay,   \* bound on the days
  MaxFaults, \* bound on the failures of files and of stderr
  None

Days == 1 .. LastDay

VARIABLES
  today,    \* current_log_date
  stderr,   \* whether somebody still reads it
  line,     \* the line each writer is in log() with
  holder,   \* the writer with the mutex
  openDay,  \* date_key of the open file
  files,    \* the lines in the file of each day
  denied,   \* days on which a file could not be opened
  lost      \* writers of which a write failed

vars == <<today, stderr, line, holder, openDay, files, denied, lost>>

Lines == [by : Writers, category : Categories, stamped : Days]

TypeOK ==
  /\ today \in Days
  /\ stderr \in {"open", "gone"}
  /\ line \in [Writers -> Lines \cup {None}]
  /\ holder \in Writers \cup {None}
  /\ openDay \in 1 .. today
  /\ files \in [Days -> Seq(Lines)]
  /\ denied \subseteq Days
  /\ lost \subseteq Writers

Idle(w) == line[w] = None

MayFail ==
  Cardinality(denied) + Cardinality(lost) + (IF stderr = "gone" THEN 1 ELSE 0) < MaxFaults

-----------------------------------------------------------------------------

\* The line is formatted, with its time; eprintln! comes next.
Begin(w, category) ==
  /\ Idle(w)
  /\ stderr = "open"
  /\ line' = [line EXCEPT ![w] = [by |-> w, category |-> category, stamped |-> today]]
  /\ UNCHANGED <<today, stderr, holder, openDay, files, denied, lost>>

\* eprintln! panics: the line is lost before the mutex is taken.
Panics(w) ==
  /\ Idle(w)
  /\ stderr = "gone"
  /\ UNCHANGED vars

Takes(w) == line[w] # None /\ holder = None /\ holder' = w

\* Faulty: the day of the stamp is the day of the file.
LockForStamp(w) ==
  /\ Takes(w)
  /\ openDay' = line[w].stamped
  /\ UNCHANGED <<today, stderr, line, files, denied, lost>>

\* Faulty: the file is chosen once.
LockUnrotated(w) ==
  /\ Takes(w)
  /\ UNCHANGED <<today, stderr, line, openDay, files, denied, lost>>

\* The mutex is taken and the date read; another date than the file's opens its
\* file, and if that fails the old one is kept until the next line.
Lock(w) ==
  /\ Takes(w)
  /\ \/ openDay' = today /\ UNCHANGED denied
     \/ openDay # today /\ MayFail /\ denied' = denied \cup {today} /\ UNCHANGED openDay
  /\ UNCHANGED <<today, stderr, line, files, lost>>

\* writeln!, whose failure is ignored, and the end of the guard.
Write(w) ==
  /\ holder = w
  /\ \/ files' = [files EXCEPT ![openDay] = Append(@, line[w])] /\ UNCHANGED lost
     \/ MayFail /\ lost' = lost \cup {w} /\ UNCHANGED files
  /\ line' = [line EXCEPT ![w] = None]
  /\ holder' = None
  /\ UNCHANGED <<today, stderr, openDay, denied>>

NextDay ==
  /\ today < LastDay
  /\ today' = today + 1
  /\ UNCHANGED <<stderr, line, holder, openDay, files, denied, lost>>

\* The reader of stderr goes away.
LoseStderr ==
  /\ stderr = "open" /\ MayFail
  /\ stderr' = "gone"
  /\ UNCHANGED <<today, line, holder, openDay, files, denied, lost>>

-----------------------------------------------------------------------------

\* ServiceLogger::new opens the file of the day.
Init ==
  /\ today = 1
  /\ stderr = "open"
  /\ line = [w \in Writers |-> None]
  /\ holder = None
  /\ openDay = today
  /\ files = [d \in Days |-> <<>>]
  /\ denied = {}
  /\ lost = {}

\* What log() does by itself once it has its line.
Proceed(w) == Lock(w) \/ Write(w)

Environment == NextDay \/ LoseStderr

Next ==
  \/ \E w \in Writers : \/ \E category \in Categories : Begin(w, category)
                        \/ Panics(w)
                        \/ Proceed(w)
  \/ Environment

Spec == Init /\ [][Next]_vars

\* The places of lines, a day and a number each, in the order in which the files of
\* the days are read.
Places == UNION {{<<d, i>> : i \in DOMAIN files[d]} : d \in Days}
EntryAt(p) == files[p[1]][p[2]]
PlacesOf(w) == {p \in Places : EntryAt(p).by = w}
IsBefore(p, q) == p[1] < q[1] \/ (p[1] = q[1] /\ p[2] < q[2])

-----------------------------------------------------------------------------

\* A line is never in the file of a day before its stamp, unless the file of a
\* day since the stamp could not be opened: midnight may pass between log()'s
\* stamp and its look at the date, but the date is not read early.
FiledUnderItsDay ==
  \A d \in Days : \A i \in 1 .. Len(files[d]) :
    LET entry == files[d][i]
    IN entry.stamped <= d \/ \E day \in entry.stamped .. today : day \in denied

\* Logged lines stay, and once log() has gone on to the file of another day those
\* of earlier days are complete: no line that waited for the mutex over midnight
\* makes it go back.
FinishedDaysAreClosed ==
  [][/\ openDay <= openDay'
     /\ \A d \in Days : /\ SubSeq(files'[d], 1, Len(files[d])) = files[d]
                       /\ d < openDay => files'[d] = files[d]]_vars

-----------------------------------------------------------------------------
(* Why these hold: the conjuncts below are inductive together.             *)

\* A line knows its writer and was stamped today or before.
LinesAreStamped ==
  \A w \in Writers : line[w] # None => line[w].by = w /\ line[w].stamped <= today

\* The writer with the mutex has a line, which fits the open file.
HolderMayWrite ==
  holder # None =>
    /\ line[holder] # None
    /\ \/ line[holder].stamped <= openDay
       \/ \E day \in line[holder].stamped .. today : day \in denied

\* Nobody has written ahead of the open file.
LaterFilesEmpty == \A d \in Days : d > openDay => files[d] = <<>>

LoggerInv ==
  /\ TypeOK
  /\ LinesAreStamped
  /\ HolderMayWrite
  /\ LaterFilesEmpty
  /\ FiledUnderItsDay
=============================================================================
