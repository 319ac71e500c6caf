---------------------------- MODULE Startup_proofs ----------------------------
(***************************************************************************)
(* StartupInv is an invariant of Startup, for any processes, files, texts  *)
(* and edits; its safety properties follow.                                *)
(***************************************************************************)
EXTENDS Startup, TLAPS

\* While contents are only added to what files have had, what was missing was missing.
LEMMA MissingStays ==
  ASSUME NEW p, Files' = Files, \A file \in Files : was[file] \subseteq was'[file],
         start'[p] = start[p]
  PROVE  /\ \A n : WereMissing(p, n) => WereMissing(p, n)'
         /\ \A source : IsFirst(p, source) => IsFirst(p, source)'
         /\ ConfigArg(p)' = ConfigArg(p)
<1>1. \A file : WasMissing(file) => WasMissing(file)'
  BY DEF WasMissing
<1>2. Candidates(p)' = Candidates(p)
  BY DEF Candidates
<1>3. \A n : WereMissing(p, n) => WereMissing(p, n)'
  BY <1>1, <1>2 DEF WereMissing
<1>4. \A source : IsFirst(p, source) => IsFirst(p, source)'
  BY <1>2, <1>3 DEF IsFirst
<1>5. ConfigArg(p)' = ConfigArg(p)
  BY DEF ConfigArg
<1> QED  BY <1>3, <1>4, <1>5

\* Nothing that the invariant says of process p changes.
Untouched(p) ==
  /\ pc'[p] = pc[p] /\ start'[p] = start[p] /\ looking'[p] = looking[p] /\ found'[p] = found[p]
  /\ (p \in DOMAIN settings' <=> p \in DOMAIN settings)
  /\ (p \in DOMAIN settings => settings'[p] = settings[p])
  /\ (p \in warned => p \in warned')

\* What FollowsItsConfig says of a process.
FollowsItsOwn(p) ==
  IsLoaded(p) =>
    /\ IsValid(settings[p].text)
    /\ IF settings[p].source = None THEN settings[p].text = DefaultText
       ELSE settings[p].text \in was[settings[p].source]
    /\ IF start[p].arg # None THEN settings[p].source = ConfigArg(p)
       ELSE IsFirst(p, settings[p].source)

\* What FollowsItsConfig says of the directories.
DirsAreOfLoaded ==
  \A dir \in dirs : \E p \in Processes :
    IsLoaded(p) /\ \/ dir = settings[p].logDir
                   \/ ~ IsUri(settings[p].db) /\ dir = settings[p].db.tail

\* What WarnedOfPlainS3 says of a process.
WarnedItself(p) ==
  pc[p] \in {"open", "bind", "serving"} /\ IsPlainS3(settings[p].db) => p \in warned

\* The invariant, process by process.
ProcessOK(p) == SearchIsInOrder(p) /\ LoadedOnce(p) /\ FollowsItsOwn(p) /\ WarnedItself(p)

LEMMA InvByProcess ==
  StartupInv <=> /\ TypeOK /\ ContentsAreRemembered /\ DirsAreOfLoaded
                 /\ \A p \in Processes : ProcessOK(p)
BY DEF StartupInv, ProcessOK, FollowsItsOwn, DirsAreOfLoaded, WarnedItself, FollowsItsConfig,
       WarnedOfPlainS3

\* An untouched process keeps its part of the invariant, whatever is written to files.
LEMMA UntouchedStays ==
  ASSUME NEW p, ProcessOK(p), Untouched(p), Files' = Files,
         \A file \in Files : was[file] \subseteq was'[file]
  PROVE  ProcessOK(p)'
<1>1. /\ \A n : WereMissing(p, n) => WereMissing(p, n)'
      /\ \A source : IsFirst(p, source) => IsFirst(p, source)'
      /\ ConfigArg(p)' = ConfigArg(p)
  BY MissingStays DEF Untouched
<1>2. SearchIsInOrder(p)'
  BY <1>1 DEF ProcessOK, SearchIsInOrder, Untouched
<1>3. LoadedOnce(p)'
  BY DEF ProcessOK, LoadedOnce, IsLoaded, Untouched
<1>4. FollowsItsOwn(p)'
  BY <1>1 DEF ProcessOK, FollowsItsOwn, LoadedOnce, IsLoaded, Untouched
<1>5. WarnedItself(p)'
  BY DEF ProcessOK, LoadedOnce, WarnedItself, IsLoaded, Untouched
<1> QED  BY <1>2, <1>3, <1>4, <1>5 DEF ProcessOK

\* A step of one process keeps the invariant if it keeps what is said of the whole, and
\* of that process.
LEMMA OneMoves ==
  ASSUME StartupInv, NEW p \in Processes, UNCHANGED <<disk, was, edits>>,
         TypeOK', DirsAreOfLoaded', ProcessOK(p)',
         \A q \in Processes : q # p => Untouched(q)
  PROVE  StartupInv'
<1>1. ContentsAreRemembered'
  BY DEF StartupInv, ContentsAreRemembered, Content, Files
<1>2. Files' = Files /\ \A file \in Files : was[file] \subseteq was'[file]
  BY DEF Files
<1>3. ASSUME NEW q \in Processes
      PROVE  ProcessOK(q)'
  BY <1>2, InvByProcess, UntouchedStays
<1> QED  BY <1>1, <1>3 DEF StartupInv, ProcessOK, FollowsItsOwn, DirsAreOfLoaded, WarnedItself,
         FollowsItsConfig, WarnedOfPlainS3

\* A step that loads and makes nothing keeps what is said of the directories.
LEMMA DirsStay ==
  ASSUME DirsAreOfLoaded, UNCHANGED settings, dirs' \subseteq dirs
  PROVE  DirsAreOfLoaded'
BY DEF DirsAreOfLoaded, IsLoaded

\* A step of process p that only moves it on, from one stage after the loading to
\* another or to its end, keeps the invariant.
LEMMA OnlyMoves ==
  ASSUME StartupInv, NEW p \in Processes, NEW there, Goto(p, there),
         UNCHANGED <<disk, was, edits, start, looking, found, settings>>,
         warned \subseteq warned', warned' \subseteq Processes, DirsAreOfLoaded',
         \/ there = "exited"
         \/ there \in {"warn", "open", "bind", "serving"} /\ IsLoaded(p),
         there \in {"open", "bind", "serving"} /\ IsPlainS3(settings[p].db) => p \in warned'
  PROVE  StartupInv'
<1>1. TypeOK /\ ProcessOK(p)
  BY InvByProcess
<1>2. /\ pc' = [pc EXCEPT ![p] = there] /\ pc'[p] = there
      /\ \A q \in Processes : q # p => pc'[q] = pc[q]
  BY <1>1 DEF Goto, TypeOK
<1>3. there \in {"warn", "open", "bind", "serving", "exited"}
  OBVIOUS
<1>4. TypeOK'
  BY <1>1, <1>2, <1>3 DEF TypeOK, Files
<1>5. SearchIsInOrder(p)'
  BY <1>2, <1>3 DEF SearchIsInOrder
<1>6. LoadedOnce(p)'
  BY <1>1, <1>2, <1>3 DEF ProcessOK, LoadedOnce, IsLoaded, Files
<1>7. FollowsItsOwn(p)'
  <2>1. /\ \A source : IsFirst(p, source) => IsFirst(p, source)'
        /\ ConfigArg(p)' = ConfigArg(p)
    BY MissingStays DEF Files
  <2> QED  BY <1>1, <2>1 DEF ProcessOK, FollowsItsOwn, IsLoaded
<1>8. WarnedItself(p)'
  BY <1>2 DEF WarnedItself
<1>9. \A q \in Processes : q # p => Untouched(q)
  BY <1>2 DEF Untouched
<1> QED  BY <1>4, <1>5, <1>6, <1>7, <1>8, <1>9, OneMoves DEF ProcessOK

\* The command line.
LEMMA LaunchKeepsInv ==
  ASSUME StartupInv, NEW p \in Processes, NEW st \in Starts, Launch(p, st)
  PROVE  StartupInv'
<1>1. /\ pc[p] = "new" /\ start' = [start EXCEPT ![p] = st]
      /\ \E to \in {"look", "exited"} : pc' = [pc EXCEPT ![p] = to]
      /\ UNCHANGED <<disk, was, edits, dirs, looking, found, settings, warned>>
  BY DEF Launch, Exit, Goto
<1>2. TypeOK /\ ProcessOK(p) /\ DirsAreOfLoaded
  BY InvByProcess
<1>3. PICK to \in {"look", "exited"} : pc' = [pc EXCEPT ![p] = to]
  BY <1>1
<1>4. /\ pc'[p] = to /\ start'[p] = st
      /\ \A q \in Processes : q # p => pc'[q] = pc[q] /\ start'[q] = start[q]
  BY <1>1, <1>2, <1>3 DEF TypeOK
<1>5. TypeOK'
  BY <1>1, <1>2, <1>3 DEF TypeOK, Files
<1>6. SearchIsInOrder(p)'
  <2>1. found[p] = None /\ looking[p] = 1
    BY <1>1, <1>2 DEF ProcessOK, SearchIsInOrder
  <2> QED  BY <1>1, <1>4, <2>1 DEF SearchIsInOrder, WereMissing
<1>7. LoadedOnce(p)' /\ FollowsItsOwn(p)' /\ WarnedItself(p)'
  BY <1>1, <1>2, <1>4 DEF ProcessOK, LoadedOnce, FollowsItsOwn, WarnedItself, IsLoaded
<1>8. DirsAreOfLoaded'
  BY <1>1, <1>2, DirsStay
<1>9. \A q \in Processes : q # p => Untouched(q)
  BY <1>1, <1>4 DEF Untouched
<1> QED  BY <1>1, <1>5, <1>6, <1>7, <1>8, <1>9, OneMoves DEF ProcessOK

\* A look at one candidate: the first that is a file ends the search.
LEMMA LookKeepsInv == ASSUME StartupInv, NEW p \in Processes, Look(p) PROVE StartupInv'
<1> DEFINE candidate == Candidates(p)[looking[p]]
           isFile == candidate \in DOMAIN disk
<1>1. /\ pc[p] = "look"
      /\ found' = IF isFile THEN [found EXCEPT ![p] = candidate] ELSE found
      /\ looking' = IF isFile THEN looking ELSE [looking EXCEPT ![p] = @ + 1]
      /\ pc' = [pc EXCEPT ![p] = IF isFile \/ looking[p] = 4 THEN "load" ELSE "look"]
      /\ UNCHANGED <<disk, was, edits, dirs, start, settings, warned>>
  BY DEF Look, Goto
<1>2. TypeOK /\ ProcessOK(p) /\ DirsAreOfLoaded /\ ContentsAreRemembered
  BY InvByProcess
<1>3. found[p] = None /\ looking[p] \in 1 .. 4 /\ WereMissing(p, looking[p] - 1)
  BY <1>1, <1>2 DEF ProcessOK, SearchIsInOrder
<1>4. \A q \in Processes : q # p => pc'[q] = pc[q] /\ found'[q] = found[q] /\ looking'[q] = looking[q]
  BY <1>1, <1>2 DEF TypeOK
<1>5. /\ Files' = Files /\ Candidates(p)' = Candidates(p)
      /\ \A n : WereMissing(p, n)' <=> WereMissing(p, n)
      /\ \A source : IsFirst(p, source)' <=> IsFirst(p, source)
  BY <1>1 DEF Files, Candidates, WereMissing, WasMissing, IsFirst
<1>6. CASE isFile
  <2>1. candidate \in Files /\ candidate # None
    BY <1>2, <1>6, FilesAssumption DEF ContentsAreRemembered, TypeOK
  <2>2. IsFirst(p, candidate)
    BY <1>3, <2>1 DEF IsFirst
  <2> HIDE DEF candidate, isFile
  <2>3. pc'[p] = "load" /\ found'[p] = candidate /\ looking' = looking
    BY <1>1, <1>2, <1>6 DEF TypeOK
  <2>4. found' \in [Processes -> Files \cup {None}]
    BY <1>1, <1>2, <1>6, <2>1 DEF TypeOK
  <2>5. TypeOK'
    BY <1>1, <1>2, <1>5, <1>6, <2>4 DEF TypeOK
  <2>6. SearchIsInOrder(p)'
    BY <1>5, <2>2, <2>3 DEF SearchIsInOrder
  <2>7. LoadedOnce(p)' /\ FollowsItsOwn(p)' /\ WarnedItself(p)'
    BY <1>1, <1>2, <2>3 DEF ProcessOK, LoadedOnce, FollowsItsOwn, WarnedItself, IsLoaded
  <2> QED  BY <1>1, <1>2, <1>4, <2>3, <2>5, <2>6, <2>7, OneMoves, DirsStay DEF ProcessOK, Untouched
<1>7. CASE ~ isFile
  <2>1. WasMissing(candidate)
    BY <1>2, <1>7 DEF ContentsAreRemembered, Content, WasMissing
  <2>2. WereMissing(p, looking[p])
    BY <1>3, <2>1 DEF WereMissing
  <2> HIDE DEF candidate, isFile
  <2>3. /\ pc'[p] = IF looking[p] = 4 THEN "load" ELSE "look"
        /\ found' = found /\ looking'[p] = looking[p] + 1
    BY <1>1, <1>2, <1>7 DEF TypeOK
  <2>4. looking' \in [Processes -> 1 .. 5]
    BY <1>1, <1>2, <1>3, <1>7 DEF TypeOK
  <2>5. TypeOK'
    BY <1>1, <1>2, <1>5, <1>7, <2>4 DEF TypeOK
  <2>6. SearchIsInOrder(p)'
    BY <1>3, <1>5, <2>2, <2>3 DEF SearchIsInOrder, IsFirst
  <2>7. LoadedOnce(p)' /\ FollowsItsOwn(p)' /\ WarnedItself(p)'
    BY <1>1, <1>2, <2>3 DEF ProcessOK, LoadedOnce, FollowsItsOwn, WarnedItself, IsLoaded
  <2> QED  BY <1>1, <1>2, <1>4, <2>3, <2>5, <2>6, <2>7, OneMoves, DirsStay DEF ProcessOK, Untouched
<1> QED  BY <1>6, <1>7

\* The end of load() for a text from the right place.
LEMMA TakeKeepsInv ==
  ASSUME StartupInv, NEW p \in Processes, pc[p] = "load", NEW text, Take(p, text),
         UNCHANGED <<disk, was, edits, dirs, start, looking, found, warned>>,
         Source(p) \in Files \cup {None},
         IF Source(p) = None THEN text = DefaultText ELSE text \in was[Source(p)]
  PROVE  StartupInv'
<1>1. TypeOK /\ ProcessOK(p) /\ DirsAreOfLoaded
  BY InvByProcess
<1>2. CASE ~ IsValid(text)
  <2>1. Goto(p, "exited") /\ UNCHANGED settings
    BY <1>2 DEF Take, Exit
  <2> QED  BY <1>1, <2>1, OnlyMoves, DirsStay DEF TypeOK
<1>3. CASE IsValid(text)
  <2> DEFINE new == Settings(text, Source(p), start[p])
  <2>1. new.text = text /\ new.source = Source(p)
    BY DEF Settings
  <2> HIDE DEF new
  <2>2. /\ settings' = [q \in DOMAIN settings \cup {p} |-> IF q = p THEN new ELSE settings[q]]
        /\ pc' = [pc EXCEPT ![p] = "log"]
    BY <1>3 DEF Take, Goto, new
  <2>3. /\ DOMAIN settings' = DOMAIN settings \cup {p} /\ settings'[p] = new
        /\ pc'[p] = "log" /\ p \notin DOMAIN settings
    BY <1>1, <2>2 DEF TypeOK, ProcessOK, LoadedOnce, IsLoaded
  <2>4. \A q \in Processes : q # p => /\ pc'[q] = pc[q]
                                      /\ (q \in DOMAIN settings' <=> q \in DOMAIN settings)
                                      /\ (q \in DOMAIN settings => settings'[q] = settings[q])
    BY <1>1, <2>2 DEF TypeOK
  <2>5. TypeOK'
    BY <1>1, <2>2, <2>3 DEF TypeOK, Files
  <2>6. SearchIsInOrder(p)' /\ WarnedItself(p)'
    BY <2>3 DEF SearchIsInOrder, WarnedItself
  <2>7. LoadedOnce(p)'
    BY <2>1, <2>3 DEF LoadedOnce, IsLoaded, new, Files
  <2>8. FollowsItsOwn(p)'
    <3>1. IF start[p].arg # None THEN Source(p) = ConfigArg(p) ELSE IsFirst(p, Source(p))
      BY <1>1 DEF ProcessOK, SearchIsInOrder, Source
    <3>2. /\ \A source : IsFirst(p, source) => IsFirst(p, source)'
          /\ ConfigArg(p)' = ConfigArg(p)
      BY MissingStays DEF Files
    <3> QED  BY <1>3, <2>1, <2>3, <3>1, <3>2 DEF FollowsItsOwn, IsValid
  <2>9. DirsAreOfLoaded'
    BY <1>1, <2>2, <2>3 DEF DirsAreOfLoaded, IsLoaded
  <2>10. \A q \in Processes : q # p => Untouched(q)
    BY <2>4 DEF Untouched
  <2> QED  BY <2>5, <2>6, <2>7, <2>8, <2>9, <2>10, OneMoves DEF ProcessOK
<1> QED  BY <1>2, <1>3

\* load() reads the file of the argument, or the one it found, or takes the default.
LEMMA LoadKeepsInv == ASSUME StartupInv, NEW p \in Processes, Load(p) PROVE StartupInv'
<1>1. /\ pc[p] = "load"
      /\ UNCHANGED <<disk, was, edits, dirs, start, looking, found, warned>>
      /\ \/ Source(p) = None /\ Take(p, DefaultText)
         \/ Content(Source(p)) \in {None, Malformed} /\ Goto(p, "exited") /\ UNCHANGED settings
         \/ Content(Source(p)) # None /\ Take(p, Content(Source(p))) /\ Source(p) # None
  BY DEF Load, Exit
<1>2. TypeOK /\ DirsAreOfLoaded /\ ContentsAreRemembered
  BY InvByProcess
<1>3. CASE Source(p) = None /\ Take(p, DefaultText)
  BY <1>1, <1>3, TakeKeepsInv
<1>4. CASE Goto(p, "exited") /\ UNCHANGED settings
  BY <1>1, <1>2, <1>4, OnlyMoves, DirsStay DEF TypeOK
<1>5. CASE Content(Source(p)) # None /\ Take(p, Content(Source(p))) /\ Source(p) # None
  <2>1. Source(p) \in Files /\ Content(Source(p)) \in was[Source(p)]
    BY <1>2, <1>5 DEF ContentsAreRemembered, Content
  <2> QED  BY <1>1, <1>5, <2>1, TakeKeepsInv
<1> QED  BY <1>1, <1>3, <1>4, <1>5

\* The directories of a process that is loaded may be made.
LEMMA DirsGrow ==
  ASSUME DirsAreOfLoaded, UNCHANGED settings, NEW p \in Processes, IsLoaded(p), NEW dir,
         \/ dir = settings[p].logDir
         \/ ~ IsUri(settings[p].db) /\ dir = settings[p].db.tail,
         dirs' = dirs \cup {dir}
  PROVE  DirsAreOfLoaded'
BY DEF DirsAreOfLoaded, IsLoaded

\* The log, the warning, the database, the address: each follows the settings and may
\* end the process.
LEMMA LaterStepsKeepInv ==
  ASSUME StartupInv, NEW p \in Processes,
         OpenLog(p) \/ Warn(p) \/ OpenEngine(p) \/ Serve(p) \/ Kill(p)
  PROVE  StartupInv'
<1>1. TypeOK /\ ProcessOK(p) /\ DirsAreOfLoaded /\ warned \subseteq Processes
  BY InvByProcess DEF TypeOK
<1>2. CASE OpenLog(p)
  <2>1. /\ pc[p] = "log" /\ UNCHANGED <<disk, was, edits, start, looking, found, settings, warned>>
        /\ \/ Goto(p, "warn") /\ dirs' \in {dirs, dirs \cup {settings[p].logDir}}
           \/ Goto(p, "exited") /\ dirs' = dirs
    BY <1>2 DEF OpenLog, Exit
  <2>2. IsLoaded(p)
    BY <1>1, <2>1 DEF ProcessOK, LoadedOnce
  <2>3. DirsAreOfLoaded'
    BY <1>1, <2>1, <2>2, DirsStay, DirsGrow
  <2> QED  BY <1>1, <2>1, <2>2, <2>3, OnlyMoves
<1>3. CASE Warn(p)
  <2>1. /\ pc[p] = "warn" /\ UNCHANGED <<disk, was, edits, dirs, start, looking, found, settings>>
        /\ \/ ~ IsPlainS3(settings[p].db) /\ warned' = warned /\ Goto(p, "open")
           \/ warned' = warned \cup {p} /\ Goto(p, "open")
           \/ warned' = warned /\ Goto(p, "exited")
    BY <1>3 DEF Warn, Exit
  <2>2. IsLoaded(p) /\ DirsAreOfLoaded'
    BY <1>1, <2>1, DirsStay DEF ProcessOK, LoadedOnce
  <2> QED  BY <1>1, <2>1, <2>2, OnlyMoves
<1>4. CASE OpenEngine(p)
  <2>1. /\ pc[p] = "open" /\ UNCHANGED <<disk, was, edits, start, looking, found, settings, warned>>
        /\ dirs' = IF IsUri(settings[p].db) THEN dirs ELSE dirs \cup {settings[p].db.tail}
        /\ Goto(p, "bind") \/ Goto(p, "exited")
    BY <1>4 DEF OpenEngine, Exit
  <2>2. IsLoaded(p) /\ (IsPlainS3(settings[p].db) => p \in warned)
    BY <1>1, <2>1 DEF ProcessOK, LoadedOnce, WarnedItself
  <2>3. DirsAreOfLoaded'
    BY <1>1, <2>1, <2>2, DirsStay, DirsGrow
  <2> QED  BY <1>1, <2>1, <2>2, <2>3, OnlyMoves
<1>5. CASE Serve(p)
  <2>1. /\ pc[p] = "bind"
        /\ UNCHANGED <<disk, was, edits, dirs, start, looking, found, settings, warned>>
        /\ Goto(p, "serving") \/ Goto(p, "exited")
    BY <1>5 DEF Serve, Exit
  <2>2. IsLoaded(p) /\ (IsPlainS3(settings[p].db) => p \in warned) /\ DirsAreOfLoaded'
    BY <1>1, <2>1, DirsStay DEF ProcessOK, LoadedOnce, WarnedItself
  <2> QED  BY <1>1, <2>1, <2>2, OnlyMoves
<1>6. CASE Kill(p)
  <2>1. /\ Goto(p, "exited")
        /\ UNCHANGED <<disk, was, edits, dirs, start, looking, found, settings, warned>>
    BY <1>6 DEF Kill, Exit
  <2>2. DirsAreOfLoaded'
    BY <1>1, <2>1, DirsStay
  <2> QED  BY <1>1, <2>1, <2>2, OnlyMoves
<1> QED  BY <1>2, <1>3, <1>4, <1>5, <1>6

\* An edit adds to what a file has had, and changes nothing a process knows.
LEMMA EditKeepsInv ==
  ASSUME StartupInv, NEW file \in Files, NEW content, Edit(file, content)
  PROVE  StartupInv'
<1>1. /\ edits < MaxEdits /\ edits' = edits + 1
      /\ disk' = IF content = None THEN [f \in DOMAIN disk \ {file} |-> disk[f]]
                 ELSE [f \in DOMAIN disk \cup {file} |-> IF f = file THEN content ELSE disk[f]]
      /\ was' = [was EXCEPT ![file] = @ \cup {content}]
      /\ UNCHANGED <<dirs, pc, start, looking, found, settings, warned>>
  BY DEF Edit
<1>2. TypeOK /\ DirsAreOfLoaded /\ ContentsAreRemembered /\ \A p \in Processes : ProcessOK(p)
  BY InvByProcess
<1>3. /\ Files' = Files /\ was'[file] = was[file] \cup {content}
      /\ \A f \in Files : f # file => was'[f] = was[f]
  BY <1>1, <1>2 DEF TypeOK, Files
<1>4. TypeOK'
  <2>1. edits' \in 0 .. MaxEdits
    BY <1>1, <1>2, BoundAssumption DEF TypeOK
  <2>2. disk' = [f \in DOMAIN disk' |-> disk'[f]] /\ was' = [f \in Files' |-> was'[f]]
    BY <1>1, <1>2 DEF TypeOK, Files
  <2> QED  BY <1>1, <1>2, <1>3, <2>1, <2>2 DEF TypeOK
<1>5. ContentsAreRemembered'
  <2>1. DOMAIN disk' \subseteq Files'
    BY <1>1, <1>2, <1>3 DEF ContentsAreRemembered
  <2>2. Content(file)' = content
    BY <1>1 DEF Content
  <2>3. \A f \in Files : f # file => Content(f)' = Content(f)
    BY <1>1 DEF Content
  <2> QED  BY <1>2, <1>3, <2>1, <2>2, <2>3 DEF ContentsAreRemembered
<1>6. DirsAreOfLoaded'
  BY <1>1, <1>2, DirsStay
<1>7. \A p \in Processes : ProcessOK(p)'
  BY <1>1, <1>2, <1>3, UntouchedStays DEF Untouched
<1> QED  BY <1>4, <1>5, <1>6, <1>7 DEF StartupInv, ProcessOK, FollowsItsOwn, DirsAreOfLoaded,
         WarnedItself, FollowsItsConfig, WarnedOfPlainS3

\* Every file has had what it holds, and no process has begun.
LEMMA InitStartupInv == Init => StartupInv
<1> SUFFICES ASSUME Init PROVE StartupInv
  OBVIOUS
<1>1. PICK d \in Disks : /\ was = [file \in DOMAIN d |-> {d[file]}]
                         /\ disk = [file \in {f \in DOMAIN d : d[f] # None} |-> d[file]]
  BY DEF Init
<1>2. Files = DOMAIN d
  BY <1>1 DEF Files
<1>3. TypeOK
  BY <1>1, <1>2, BoundAssumption DEF Init, TypeOK
<1>4. ContentsAreRemembered
  BY <1>1, <1>2 DEF ContentsAreRemembered, Content
<1>5. ASSUME NEW p \in Processes
      PROVE  ProcessOK(p)
  BY DEF Init, ProcessOK, SearchIsInOrder, LoadedOnce, FollowsItsOwn, WarnedItself, IsLoaded
<1> QED  BY <1>3, <1>4, <1>5, InvByProcess DEF DirsAreOfLoaded, Init

\* Every step keeps the invariant.
LEMMA NextKeepsStartupInv == StartupInv /\ [Next]_vars => StartupInv'
<1> SUFFICES ASSUME StartupInv, [Next]_vars PROVE StartupInv'
  OBVIOUS
<1>1. CASE UNCHANGED vars
  <2>1. /\ UNCHANGED <<disk, was, edits, dirs, pc, start, looking, found, settings, warned>>
        /\ Files' = Files
    BY <1>1 DEF vars, Files
  <2>2. TypeOK /\ DirsAreOfLoaded /\ ContentsAreRemembered /\ \A p \in Processes : ProcessOK(p)
    BY InvByProcess
  <2>3. TypeOK' /\ ContentsAreRemembered' /\ DirsAreOfLoaded'
    BY <2>1, <2>2, DirsStay DEF TypeOK, ContentsAreRemembered, Content
  <2>4. \A p \in Processes : ProcessOK(p)'
    BY <2>1, <2>2, UntouchedStays DEF Untouched
  <2> QED  BY <2>3, <2>4 DEF StartupInv, ProcessOK, FollowsItsOwn, DirsAreOfLoaded,
           WarnedItself, FollowsItsConfig, WarnedOfPlainS3
<1> QED  BY <1>1, LaunchKeepsInv, LookKeepsInv, LoadKeepsInv, LaterStepsKeepInv, EditKeepsInv
         DEF Next

\* With any number of processes, and whatever is edited meanwhile.
THEOREM StartupInvariant == Spec => []StartupInv
BY InitStartupInv, NextKeepsStartupInv, PTL DEF Spec

\* What load() gives main is what the command line asked for, on a text that was there
\* (config.rs's load, find_default_config_file).
THEOREM ConfigsAreFollowed == Spec => []FollowsItsConfig
<1>1. StartupInv => FollowsItsConfig
  BY DEF StartupInv
<1> QED  BY <1>1, StartupInvariant, PTL

\* One text in one file names one database and one log directory, from wherever it is
\* started (resolve_data_path, resolve_log_dir).
THEOREM ConfigNamesOneDatabase == Spec => []SameConfigSameDatabase
<1>1. StartupInv => SameConfigSameDatabase
  <2> SUFFICES ASSUME StartupInv, NEW p \in Processes, NEW q \in Processes,
                      IsLoaded(p), IsLoaded(q), start[p].home = start[q].home
               PROVE  LET a == settings[p]
                          b == settings[q]
                      IN /\ a.source = b.source /\ a.source # None /\ a.text = b.text =>
                              a.db = b.db /\ a.logDir = b.logDir
                         /\ a.db = b.db /\ ~ IsUri(a.db) /\ IsBlank(a.text.log) /\ IsBlank(b.text.log) =>
                              a.logDir = b.logDir
    BY DEF SameConfigSameDatabase
  <2> DEFINE Base(r) == IF settings[r].source = None THEN start[r].cwd ELSE Front(settings[r].source)
  <2>1. \A r \in {p, q} :
          /\ settings[r].db = DataPath(settings[r].text.db, Base(r), start[r])
          /\ settings[r].logDir = LogDir(settings[r].text.log, settings[r].db, Base(r), start[r])
    <3>1. ASSUME NEW text, NEW source, NEW st, NEW base,
                 base = IF source = None THEN st.cwd ELSE Front(source)
          PROVE  /\ Settings(text, source, st).db = DataPath(text.db, base, st)
                 /\ Settings(text, source, st).logDir
                      = LogDir(text.log, Settings(text, source, st).db, base, st)
      BY <3>1 DEF Settings
    <3>2. \A r \in {p, q} :
            settings[r] = Settings(settings[r].text, settings[r].source, start[r])
      BY DEF StartupInv, LoadedOnce
    <3> QED  BY <3>1, <3>2
  <2>2. ASSUME settings[p].source = settings[q].source, settings[p].source # None,
               settings[p].text = settings[q].text
        PROVE  settings[p].db = settings[q].db /\ settings[p].logDir = settings[q].logDir
    <3>1. Base(p) = Base(q)
      BY <2>2
    <3> HIDE DEF Base
    <3>2. \A raw, base : /\ base = Base(p)
            => Resolve(raw, base, start[p]) = Resolve(raw, base, start[q])
      BY DEF Resolve
    <3>3. settings[p].db = settings[q].db
      BY <2>1, <2>2, <3>1, <3>2 DEF DataPath
    <3> QED  BY <2>1, <2>2, <3>1, <3>2, <3>3 DEF LogDir
  <2>3. ASSUME settings[p].db = settings[q].db, ~ IsUri(settings[p].db),
               IsBlank(settings[p].text.log), IsBlank(settings[q].text.log)
        PROVE  settings[p].logDir = settings[q].logDir
    BY <2>1, <2>3 DEF LogDir
  <2> QED  BY <2>2, <2>3
<1> QED  BY <1>1, StartupInvariant, PTL

\* No process works on plain S3 without having said so on stderr (main.rs's warning
\* before open_default_engine).
THEOREM PlainS3IsWarnedOf == Spec => []WarnedOfPlainS3
<1>1. StartupInv => WarnedOfPlainS3
  BY DEF StartupInv
<1> QED  BY <1>1, StartupInvariant, PTL

=============================================================================
