------------------------------ MODULE Startup ------------------------------
(***************************************************************************)
(* The service program from its command line to serve() (config.rs,        *)
(* main.rs), for processes that are started side by side on one machine,   *)
(* while files are edited and processes are killed.  A process looks for   *)
(* its configuration, reads it, resolves the paths in it and checks it,    *)
(* opens its log, warns of plain S3, opens the database and binds its      *)
(* address.  Every failure ends it.                                        *)
(*                                                                         *)
(* A path is a sequence of segments.  The directory of the program and the *)
(* working directory are taken to exist.                                   *)
(***************************************************************************)
EXTENDS Naturals, Sequences, SequencesExt

CONSTANTS
  Processes,
  ExeDir,      \* where the program is
  Starts,      \* ways to start it: working directory, argument, home directory
  Disks,       \* what the files may hold at first
  Edits,       \* contents a file may get
  MaxEdits,    \* bound on the edits of files
  DefaultText, \* Config::default
  Malformed,   \* the content of a file that is no configuration
  NoValue,     \* --config at the end of the command line
  None

ASSUME BoundAssumption == MaxEdits \in Nat

ASSUME FilesAssumption == \A d \in Disks : None \notin DOMAIN d

VARIABLES
  disk,     \* the content of every file there is: Malformed or a configuration
  was,      \* (history) the contents every file has had, None if it was missing
  edits,    \* how often a file was edited
  dirs,     \* directories made
  pc,
  start,    \* how each process was started
  looking,  \* the candidate find_default_config_file is at
  found,    \* the first candidate that was a file
  settings, \* ResolvedConfig of each process that has one
  warned    \* processes that have warned on stderr

vars == <<disk, was, edits, dirs, pc, start, looking, found, settings, warned>>

Files == DOMAIN was
Content(file) == IF file \in DOMAIN disk THEN disk[file] ELSE None

TypeOK ==
  /\ Files \in {DOMAIN d : d \in Disks}
  /\ was = [file \in Files |-> was[file]] /\ disk = [file \in DOMAIN disk |-> disk[file]]
  /\ edits \in 0 .. MaxEdits
  /\ pc \in [Processes ->
       {"new", "look", "load", "log", "warn", "open", "bind", "serving", "exited"}]
  /\ start \in [Processes -> Starts \cup {None}]
  /\ looking \in [Processes -> 1 .. 5]
  /\ found \in [Processes -> Files \cup {None}]
  /\ DOMAIN settings \subseteq Processes
  /\ warned \subseteq Processes

Goto(p, there) == pc' = [pc EXCEPT ![p] = there]
Exit(p) == Goto(p, "exited")

-----------------------------------------------------------------------------
(* Paths.  A raw path is relative, absolute, below the home directory, a   *)
(* URI, or blank: relative with no segments.                               *)

IsBlank(raw) == raw.kind = "relative" /\ raw.tail = <<>>

\* Faulty: relative to where the process was started.
ResolveFromWorkDir(raw, base, st) ==
  IF raw.kind = "absolute" THEN raw.tail
  ELSE IF raw.kind = "home" THEN (IF st.home # None THEN st.home ELSE st.cwd \o <<"~">>) \o raw.tail
  ELSE st.cwd \o raw.tail

\* resolve_path_like_shell; without a home directory "~" is a name like any other.
Resolve(raw, base, st) ==
  IF raw.kind = "absolute" THEN raw.tail
  ELSE IF raw.kind = "home" THEN (IF st.home # None THEN st.home ELSE base \o <<"~">>) \o raw.tail
  ELSE base \o raw.tail

\* resolve_data_path
DataPath(raw, base, st) ==
  IF raw.kind = "uri" THEN raw ELSE [kind |-> "absolute", tail |-> Resolve(raw, base, st)]

IsUri(db) == db.kind = "uri"

\* resolve_log_dir
LogDir(raw, db, base, st) ==
  IF ~ IsBlank(raw) THEN Resolve(raw, base, st)
  ELSE IF IsUri(db) THEN base \o <<"vldb-lancedb-logs">>
  ELSE db.tail \o <<"logs">>

\* parse_config_arg: the argument, if there is one, is resolved like a shell does.
ConfigArg(p) == Resolve(start[p].arg, start[p].cwd, start[p])

Candidates(p) == <<ExeDir \o <<"vldb-lancedb.json">>, ExeDir \o <<"lancedb.json">>,
                   start[p].cwd \o <<"vldb-lancedb.json">>, start[p].cwd \o <<"lancedb.json">>>>

-----------------------------------------------------------------------------

Launch(p, st) ==
  /\ pc[p] = "new"
  /\ start' = [start EXCEPT ![p] = st]
  /\ IF st.arg = NoValue THEN Exit(p) ELSE Goto(p, "look")
  /\ UNCHANGED <<disk, was, edits, dirs, looking, found, settings, warned>>

\* find_default_config_file looks at one candidate after another, whether or not
\* there was an argument.
Look(p) ==
  /\ pc[p] = "look"
  /\ LET candidate == Candidates(p)[looking[p]]
         isFile == candidate \in DOMAIN disk
     IN /\ found' = IF isFile THEN [found EXCEPT ![p] = candidate] ELSE found
        /\ looking' = IF isFile THEN looking ELSE [looking EXCEPT ![p] = @ + 1]
        /\ Goto(p, IF isFile \/ looking[p] = 4 THEN "load" ELSE "look")
  /\ UNCHANGED <<disk, was, edits, dirs, start, settings, warned>>

Source(p) == IF start[p].arg # None THEN ConfigArg(p) ELSE found[p]

Settings(text, source, st) ==
  LET base == IF source = None THEN st.cwd ELSE Front(source)
      db == DataPath(text.db, base, st)
  IN [source |-> source, text |-> text, db |-> db, logDir |-> LogDir(text.log, db, base, st)]

\* validate_config: db_path and the rest, `sound` when host, port, thresholds and file
\* name are as they must be.
IsValid(text) == text.sound /\ ~ IsBlank(text.db)

\* The end of load() for a configuration.
Take(p, text) ==
  IF IsValid(text)
  THEN /\ settings' = [q \in DOMAIN settings \cup {p} |->
              IF q = p THEN Settings(text, Source(p), start[p]) ELSE settings[q]]
       /\ Goto(p, "log")
  ELSE Exit(p) /\ UNCHANGED settings

\* Faulty: what cannot be read is the default.
LoadOrDefault(p) ==
  /\ pc[p] = "load"
  /\ LET source == Source(p)
     IN Take(p, IF source = None \/ Content(source) \in {None, Malformed}
                THEN DefaultText ELSE Content(source))
  /\ UNCHANGED <<disk, was, edits, dirs, start, looking, found, warned>>

\* The rest of load(): a file that is gone or malformed by now is an error.
Load(p) ==
  /\ pc[p] = "load"
  /\ LET source == Source(p)
     IN IF source = None THEN Take(p, DefaultText)
        ELSE IF Content(source) \in {None, Malformed} THEN Exit(p) /\ UNCHANGED settings
        ELSE Take(p, Content(source))
  /\ UNCHANGED <<disk, was, edits, dirs, start, looking, found, warned>>

\* ServiceLogger::new
OpenLog(p) ==
  /\ pc[p] = "log"
  /\ \/ settings[p].text.logs # "file" /\ UNCHANGED dirs /\ Goto(p, "warn")
     \/ settings[p].text.logs = "file" /\ dirs' = dirs \cup {settings[p].logDir} /\ Goto(p, "warn")
     \/ settings[p].text.logs = "file" /\ UNCHANGED dirs /\ Exit(p)
  /\ UNCHANGED <<disk, was, edits, start, looking, found, settings, warned>>

\* is_plain_s3_uri
IsPlainS3(db) == IsUri(db) /\ db.scheme = "s3"

\* Faulty: the warning is left to the logger.
WarnInLog(p) ==
  /\ pc[p] = "warn"
  /\ warned' = IF IsPlainS3(settings[p].db) /\ settings[p].text.logs # "off"
               THEN warned \cup {p} ELSE warned
  /\ Goto(p, "open")
  /\ UNCHANGED <<disk, was, edits, dirs, start, looking, found, settings>>

\* concurrent_write_warning; eprintln! panics when nobody reads stderr.
Warn(p) ==
  /\ pc[p] = "warn"
  /\ \/ ~ IsPlainS3(settings[p].db) /\ UNCHANGED warned /\ Goto(p, "open")
     \/ IsPlainS3(settings[p].db) /\ warned' = warned \cup {p} /\ Goto(p, "open")
     \/ IsPlainS3(settings[p].db) /\ UNCHANGED warned /\ Exit(p)
  /\ UNCHANGED <<disk, was, edits, dirs, start, looking, found, settings>>

\* open_default_engine: a local directory is made, then LanceDB connects.
OpenEngine(p) ==
  /\ pc[p] = "open"
  /\ dirs' = IF IsUri(settings[p].db) THEN dirs ELSE dirs \cup {settings[p].db.tail}
  /\ Goto(p, "bind") \/ Exit(p)
  /\ UNCHANGED <<disk, was, edits, start, looking, found, settings, warned>>

\* lookup_host and serve(): the address may not resolve, or be in use.
Serve(p) ==
  /\ pc[p] = "bind"
  /\ \/ /\ \A q \in Processes : pc[q] = "serving" => settings[q].text.port # settings[p].text.port
        /\ Goto(p, "serving")
     \/ Exit(p)
  /\ UNCHANGED <<disk, was, edits, dirs, start, looking, found, settings, warned>>

\* A signal; nothing is shut down in order.
Kill(p) ==
  /\ pc[p] \notin {"new", "exited"}
  /\ Exit(p)
  /\ UNCHANGED <<disk, was, edits, dirs, start, looking, found, settings, warned>>

\* Somebody writes or removes a file.
Edit(file, content) ==
  /\ content # Content(file)
  /\ edits < MaxEdits /\ edits' = edits + 1
  /\ disk' = IF content = None THEN [f \in DOMAIN disk \ {file} |-> disk[f]]
             ELSE [f \in DOMAIN disk \cup {file} |-> IF f = file THEN content ELSE disk[f]]
  /\ was' = [was EXCEPT ![file] = @ \cup {content}]
  /\ UNCHANGED <<dirs, pc, start, looking, found, settings, warned>>

-----------------------------------------------------------------------------

Init ==
  /\ \E d \in Disks :
       /\ was = [file \in DOMAIN d |-> {d[file]}]
       /\ disk = [file \in {f \in DOMAIN d : d[f] # None} |-> d[file]]
  /\ edits = 0
  /\ dirs = {}
  /\ pc = [p \in Processes |-> "new"]
  /\ start = [p \in Processes |-> None]
  /\ looking = [p \in Processes |-> 1]
  /\ found = [p \in Processes |-> None]
  /\ settings = [p \in {} |-> None]
  /\ warned = {}

Next ==
  \/ \E p \in Processes :
       \/ \E st \in Starts : Launch(p, st)
       \/ Look(p) \/ Load(p) \/ OpenLog(p) \/ Warn(p) \/ OpenEngine(p) \/ Serve(p) \/ Kill(p)
  \/ \E file \in Files, content \in Edits : Edit(file, content)

Spec == Init /\ [][Next]_vars

-----------------------------------------------------------------------------

IsLoaded(p) == p \in DOMAIN settings

WasMissing(file) == file \notin Files \/ None \in was[file]

\* The first n candidates were missing when they were looked for.
WereMissing(p, n) == \A i \in 1 .. n : WasMissing(Candidates(p)[i])

\* What find_default_config_file may return.
IsFirst(p, source) ==
  IF source = None THEN WereMissing(p, 4)
  ELSE \E n \in 1 .. 4 : source = Candidates(p)[n] /\ WereMissing(p, n - 1)

\* A process runs on what it was told to run on, whatever happens to the files
\* meanwhile: on the file of its argument and never on another or on the default, else
\* on a candidate of which all earlier ones were missing when they were looked for, or
\* on the default when all were; on a valid text that the file did hold.  Directories are
\* made for such processes only, so a bad configuration leaves none behind.
FollowsItsConfig ==
  /\ \A p \in Processes : IsLoaded(p) =>
       LET source == settings[p].source
           text == settings[p].text
       IN /\ IsValid(text)
          /\ IF source = None THEN text = DefaultText ELSE text \in was[source]
          /\ IF start[p].arg # None THEN source = ConfigArg(p) ELSE IsFirst(p, source)
  /\ \A dir \in dirs : \E p \in Processes :
       IsLoaded(p) /\ \/ dir = settings[p].logDir
                      \/ ~ IsUri(settings[p].db) /\ dir = settings[p].db.tail

\* Processes of one user that read the same text in the same file use the same database
\* and log directory, wherever they were started from; if they share a database
\* directory, what they log to by default is shared too.
SameConfigSameDatabase ==
  \A p, q \in Processes :
    IsLoaded(p) /\ IsLoaded(q) /\ start[p].home = start[q].home =>
      LET a == settings[p]
          b == settings[q]
      IN /\ a.source = b.source /\ a.source # None /\ a.text = b.text =>
              a.db = b.db /\ a.logDir = b.logDir
         /\ a.db = b.db /\ ~ IsUri(a.db) /\ IsBlank(a.text.log) /\ IsBlank(b.text.log) =>
              a.logDir = b.logDir

\* Of the processes with an open database on plain S3, where two writers may spoil each
\* other's tables, every one has warned of it on stderr, even if it logs nothing.
WarnedOfPlainS3 ==
  \A p \in Processes :
    pc[p] \in {"open", "bind", "serving"} /\ IsPlainS3(settings[p].db) => p \in warned
-----------------------------------------------------------------------------
(* Why these hold: the conjuncts below are inductive together.             *)

\* What is in a file is among what was in it.
ContentsAreRemembered == DOMAIN disk \subseteq Files /\ \A file \in Files : Content(file) \in was[file]

\* How far a process has looked, and what it knows by then.
SearchIsInOrder(p) ==
  /\ pc[p] = "new" => found[p] = None /\ looking[p] = 1
  /\ pc[p] = "look" => found[p] = None /\ looking[p] \in 1 .. 4 /\ WereMissing(p, looking[p] - 1)
  /\ pc[p] = "load" => IsFirst(p, found[p])

\* What a process runs on was made by load() of the text it remembers.
LoadedOnce(p) ==
  /\ pc[p] \in {"new", "look", "load"} => ~ IsLoaded(p)
  /\ pc[p] \in {"log", "warn", "open", "bind", "serving"} => IsLoaded(p)
  /\ IsLoaded(p) => /\ settings[p].source \in Files \cup {None}
                    /\ settings[p] = Settings(settings[p].text, settings[p].source, start[p])

StartupInv ==
  /\ TypeOK
  /\ ContentsAreRemembered
  /\ \A p \in Processes : SearchIsInOrder(p) /\ LoadedOnce(p)
  /\ FollowsItsConfig
  /\ WarnedOfPlainS3
=============================================================================
