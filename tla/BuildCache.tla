----------------------------- MODULE BuildCache -----------------------------
(***************************************************************************)
(* generateOneConfig (src/optimizer.ts): the optimized copy of a project   *)
(* that one build configuration keeps on disk, and the decision whether to *)
(* use it again.  The decision compares names, options and modification    *)
(* times; what it has to be right about is contents.                       *)
(*                                                                         *)
(* Builds of one configuration run one after the other.  The user edits    *)
(* sources at any time, and the process may die between any two steps.     *)
(***************************************************************************)
EXTENDS Naturals

CONSTANTS
    McFiles,      \* .mc sources, each of which has an output
    Personality,  \* .mss sources: in fnMap too, with the name of an output
    Deps,         \* dependencyFiles, and the optimizer (lastModifiedSource)
    Compared,     \* values of configOptionsToCheck and of the SDK version
    MaxTime,      \* bound on the clock
    MaxEdits,     \* bound on the number of edits
    MaxCrashes,   \* bound on the number of crashes
    CrashesIn     \* the steps (values of pc) in which the process may die

Files == McFiles \cup Personality \cup Deps
Options == [compared : Compared, pragmas : BOOLEAN]

ASSUME CacheAssumption ==
    /\ McFiles # {} /\ Deps # {}
    /\ McFiles \cap Personality = {} /\ (McFiles \cup Personality) \cap Deps = {}
    /\ MaxTime \in Nat \ {0} /\ MaxEdits \in Nat /\ MaxCrashes \in Nat

VARIABLES
    clock,    \* the time files are stamped with
    source,   \* each source file: its content, and when it was last modified
    disk,     \* each file of the output directory but build-info.json
    info,     \* build-info.json
    pc,       \* where the build is
    options,  \* the options of the build
    mcFiles,  \* the .mc files of fnMap: those the build found
    input,    \* the contents the build has read
    newest,   \* source_time
    edits,    \* the edits so far
    crashes   \* the crashes so far

vars == <<clock, source, disk, info, pc, options, mcFiles, input, newest, edits, crashes>>

\* Contents are numbered; None is that of a file that is missing or not read.
None == 0
Content == None .. (MaxEdits + 1)

\* A source file; `racy` tells that a build was running when it was last
\* edited (the properties use it, the program does not).
Source == [content : Content, mtime : 0 .. MaxTime, racy : BOOLEAN]

\* An output: what it was made of, when and with which options it was written.
Output == [mtime : 0 .. MaxTime, of : [Files -> Content], options : Options]
Absent == [mtime |-> 0]

TypeOK ==
    /\ clock \in 1 .. MaxTime
    /\ source \in [Files -> Source]
    /\ disk \in [Files -> {Absent} \cup Output]
    /\ \A f \in Files \ McFiles : disk[f] = Absent
    /\ info \in {[state |-> "absent"], [state |-> "torn"]}
            \cup [state : {"complete"}, options : Options]
    /\ pc \in {"idle", "compare", "stat", "decide", "clear", "read", "write", "seal", "done"}
    /\ options \in Options
    /\ mcFiles \subseteq McFiles
    /\ input \in [Files -> Content]
    /\ newest \in 0 .. MaxTime + 1
    /\ edits \in 0 .. MaxEdits
    /\ crashes \in 0 .. MaxCrashes

Present == {f \in Files : source[f].content # None}
Written == {f \in Files : disk[f] # Absent}
fnMap == mcFiles \cup Personality

Init ==
    /\ clock = 1
    /\ source = [f \in Files |-> [content |-> 1, mtime |-> 1, racy |-> FALSE]]
    /\ disk = [f \in Files |-> Absent]
    /\ info = [state |-> "absent"]
    /\ pc = "idle"
    /\ options \in Options
    /\ mcFiles = {}
    /\ input = [f \in Files |-> None]
    /\ newest = 0
    /\ edits = 0
    /\ crashes = 0

-----------------------------------------------------------------------------
(* The user.                                                               *)

Tick ==
    /\ clock < MaxTime
    /\ clock' = clock + 1
    /\ UNCHANGED <<source, disk, info, pc, options, mcFiles, input, newest, edits, crashes>>

Building == pc \notin {"idle", "done"}

\* A file is created or changed: its content is one it never had.
Edit(f) ==
    /\ edits < MaxEdits
    /\ edits' = edits + 1
    /\ source' = [source EXCEPT
            ![f] = [content |-> edits + 2, mtime |-> clock, racy |-> Building]]
    /\ UNCHANGED <<clock, disk, info, pc, options, mcFiles, input, newest, crashes>>

\* A source file is removed from the project.
Delete(f) ==
    /\ edits < MaxEdits
    /\ f \in McFiles /\ f \in Present
    /\ edits' = edits + 1
    /\ source' = [source EXCEPT ![f] = [content |-> None, mtime |-> 0, racy |-> Building]]
    /\ UNCHANGED <<clock, disk, info, pc, options, mcFiles, input, newest, crashes>>

Crash ==
    /\ crashes < MaxCrashes
    /\ Building /\ pc \in CrashesIn
    /\ crashes' = crashes + 1
    /\ pc' = "idle"
    /\ UNCHANGED <<clock, source, disk, info, options, mcFiles, input, newest, edits>>

-----------------------------------------------------------------------------
(* The build.                                                              *)

\* The manifest, the jungles and the resources have been read (get_jungle),
\* and the globs of the jungle give fnMap.
Start(o) ==
    /\ pc \in {"idle", "done"}
    /\ pc' = "compare"
    /\ options' = o
    /\ mcFiles' = McFiles \cap Present
    /\ input' = [f \in Files |-> IF f \in Deps THEN source[f].content ELSE None]
    /\ UNCHANGED <<clock, source, disk, info, newest, edits, crashes>>

\* The comparisons that need no modification time: build-info.json is there,
\* was written for the same options, and the .mc files in the output
\* directory are those the build would write.  A mutant without the last.
SameOptions ==
    /\ info.state = "complete"
    /\ ~options.pragmas
    /\ info.options.compared = options.compared
SameBuild == SameOptions /\ Written = mcFiles

Compare ==
    /\ pc = "compare"
    /\ info.state # "torn"
    /\ pc' = IF SameBuild THEN "stat" ELSE "clear"
    /\ UNCHANGED <<clock, source, disk, info, options, mcFiles, input, newest, edits, crashes>>

\* JSON.parse throws on a file that was cut short.
CompareFails ==
    /\ pc = "compare"
    /\ info.state = "torn"
    /\ pc' = "idle"
    /\ UNCHANGED <<clock, source, disk, info, options, mcFiles, input, newest, edits, crashes>>

\* last_modified, the greatest of these: a file that is missing counts as
\* infinitely new.
Infinity == MaxTime + 1
ModifiedAt(f) == IF f \in Present THEN source[f].mtime ELSE Infinity
LastModified(S) == {t \in {ModifiedAt(f) : f \in S} : \A f \in S : ModifiedAt(f) <= t}

\* first_modified is the least of these: a file that is missing counts as
\* infinitely old, and Math.min() is Infinity.
FirstModified(S) == {Infinity} \cup {disk[f].mtime : f \in S}

StatSources ==
    /\ pc = "stat"
    /\ newest' \in LastModified(fnMap \cup Deps)
    /\ pc' = "decide"
    /\ UNCHANGED <<clock, source, disk, info, options, mcFiles, input, edits, crashes>>

\* "if the newest source file is older than the oldest optimized file", and
\* mutants that take equally old for older, and that keep a safe distance.
NotNewer == \A time \in FirstModified(fnMap) : newest <= time
MuchOlder == \A time \in FirstModified(fnMap) : newest + 1 < time
Older == \A time \in FirstModified(fnMap) : newest < time

Decide ==
    /\ pc = "decide"
    /\ pc' = IF Older THEN "done" ELSE "clear"
    /\ UNCHANGED <<clock, source, disk, info, options, mcFiles, input, newest, edits, crashes>>

\* fs.rm(output, { recursive: true, force: true }) removes one file at a time.
Remove ==
    /\ pc = "clear"
    /\ \/ /\ info.state # "absent"
          /\ info' = [state |-> "absent"]
          /\ UNCHANGED disk
       \/ \E f \in Written :
            /\ disk' = [disk EXCEPT ![f] = Absent]
            /\ UNCHANGED info
    /\ UNCHANGED <<clock, source, pc, options, mcFiles, input, newest, edits, crashes>>

Removed ==
    /\ pc = "clear"
    /\ info.state = "absent" /\ Written = {}
    /\ pc' = "read"
    /\ UNCHANGED <<clock, source, disk, info, options, mcFiles, input, newest, edits, crashes>>

\* getFileSources reads the files of fnMap, each on its own.
Read(f) ==
    /\ pc = "read"
    /\ f \in fnMap /\ input[f] = None
    /\ f \in Present
    /\ input' = [input EXCEPT ![f] = source[f].content]
    /\ UNCHANGED <<clock, source, disk, info, pc, options, mcFiles, newest, edits, crashes>>

\* A file of fnMap is gone, does not parse or does not compile.
BuildFails ==
    /\ pc = "read"
    /\ pc' = "idle"
    /\ UNCHANGED <<clock, source, disk, info, options, mcFiles, input, newest, edits, crashes>>

Optimize ==
    /\ pc = "read"
    /\ \A f \in fnMap : input[f] # None
    /\ pc' = "write"
    /\ UNCHANGED <<clock, source, disk, info, options, mcFiles, input, newest, edits, crashes>>

\* The whole program goes into each of its outputs.
Write(f) ==
    /\ pc = "write"
    /\ f \in mcFiles \ Written
    /\ disk' = [disk EXCEPT ![f] = [mtime |-> clock, of |-> input, options |-> options]]
    /\ UNCHANGED <<clock, source, info, pc, options, mcFiles, input, newest, edits, crashes>>

\* fs.writeFile of build-info.json, once every output is written, opens and
\* truncates it, then writes it.
OpenInfo ==
    /\ pc = "write"
    /\ mcFiles \subseteq Written
    /\ pc' = "seal"
    /\ info' = [state |-> "torn"]
    /\ UNCHANGED <<clock, source, disk, options, mcFiles, input, newest, edits, crashes>>

WriteInfo ==
    /\ pc = "seal"
    /\ pc' = "done"
    /\ info' = [state |-> "complete", options |-> options]
    /\ UNCHANGED <<clock, source, disk, options, mcFiles, input, newest, edits, crashes>>

-----------------------------------------------------------------------------
Build ==
    \/ Compare \/ CompareFails \/ StatSources \/ Decide
    \/ Remove \/ Removed \/ BuildFails \/ Optimize
    \/ \E f \in Files : Read(f) \/ Write(f)
    \/ OpenInfo \/ WriteInfo

User ==
    \/ Tick \/ Crash
    \/ \E f \in Files : Edit(f) \/ Delete(f)
    \/ \E o \in Options : Start(o)

Next == Build \/ User

Spec == Init /\ [][Next]_vars

-----------------------------------------------------------------------------
(* Properties.                                                             *)

Returns == pc # "done" /\ pc' = "done"

\* What the outputs were made of is what the sources are, none for those that
\* were removed, apart from the `excused`.
MadeOf(excused) ==
    \A f \in mcFiles, g \in Files \ excused : disk[f].of[g] = source[g].content

Racy == {f \in Files : source[f].racy}

\* However the build came to return, by reading, optimizing and writing
\* everything or by taking what is there, and whatever was edited, removed or
\* interrupted before: the outputs are the files of the project and were made
\* of their contents, unless a file was edited while a build was running.
\* (The decision of lines 839-871 sees times and names, not contents.)
ReturnsCurrent ==
    [][Returns => (/\ Written = mcFiles
                   /\ \A f \in McFiles \ Racy : f \in mcFiles <=> f \in Present
                   /\ \A f \in mcFiles : disk[f].options.compared = options.compared
                   /\ MadeOf(Racy))']_vars

\* Outputs that are there, are those of the sources as they are, and are
\* younger than all of them, are taken ("if the newest source file is older
\* than the oldest optimized file, we don't need to regenerate", lines
\* 855-856).
UpToDate ==
    /\ SameOptions
    /\ Written = mcFiles
    /\ MadeOf({})
    /\ \A f \in mcFiles, g \in fnMap \cup Deps : source[g].mtime < disk[f].mtime

NoNeedlessWork == [][pc # "clear" /\ pc' = "clear" => ~UpToDate]_vars

-----------------------------------------------------------------------------
(* The inductive invariant behind ReturnsCurrent.                          *)

\* No file is from the future.
Stamped ==
    /\ \A f \in Files : source[f].mtime <= clock
    /\ \A f \in Written : disk[f].mtime <= clock

\* Only .mc files are removed.
OthersStay == \A f \in Files \ McFiles : f \in Present

\* What a build has found and read is still so, but for racy edits.
FoundIsCurrent ==
    Building =>
        /\ \A g \in Files : input[g] # None => g \in fnMap \cup Deps
        /\ \A g \in Files \ Racy :
            /\ g \in McFiles => (g \in mcFiles <=> g \in Present)
            /\ input[g] # None => input[g] = source[g].content
            /\ g \in Deps => input[g] = source[g].content
        /\ pc \in {"write", "seal"} => \A g \in fnMap : input[g] # None

\* Where an output differs from the sources, its time tells.
TimeTells ==
    \A f \in Written, g \in Files \ Racy :
        \/ disk[f].of[g] = source[g].content
        \/ source[g].content = None
        \/ disk[f].mtime <= source[g].mtime

\* source_time, for the files that were not edited since.
NewestIsNewest ==
    pc = "decide" => \A g \in (fnMap \cup Deps) \ Racy : source[g].mtime <= newest

\* Outputs come into being together, and build-info.json after all of them.
OfOneBuild(in, o) ==
    \A f \in Written :
        /\ disk[f].of = in
        /\ disk[f].options.compared = o.compared

Sealed ==
    /\ pc = "read" => Written = {} /\ info.state = "absent"
    /\ pc \in {"write", "seal"} => OfOneBuild(input, options) /\ Written \subseteq mcFiles
    /\ pc = "write" => info.state = "absent"
    /\ pc = "seal" => info.state = "torn" /\ Written = mcFiles
    /\ info.state = "complete" /\ pc # "clear" =>
        \A f \in Written :
            /\ disk[f].options.compared = info.options.compared
            /\ \A g \in McFiles : disk[f].of[g] # None => g \in Written
    /\ pc \in {"stat", "decide"} => SameBuild

IInv ==
    /\ TypeOK /\ Stamped /\ OthersStay /\ FoundIsCurrent /\ TimeTells
    /\ NewestIsNewest /\ Sealed
=============================================================================
