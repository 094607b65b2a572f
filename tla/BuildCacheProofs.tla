--------------------------- MODULE BuildCacheProofs ---------------------------
(***************************************************************************)
(* Proofs about BuildCache: for any project, any options, any number of    *)
(* edits and of crashes, unless the process dies while it removes the      *)
(* outputs of the build before.                                            *)
(***************************************************************************)
EXTENDS BuildCache, TLAPS

-----------------------------------------------------------------------------
(* Types.                                                                  *)

LEMMA InitTyped == Init => TypeOK
<1> SUFFICES ASSUME Init PROVE TypeOK
    OBVIOUS
<1>1. \A n \in {1} : n \in Content /\ n \in 0 .. MaxTime /\ n \in 1 .. MaxTime
    BY CacheAssumption DEF Content, None
<1>2. source \in [Files -> Source]
    BY <1>1 DEF Init, Source
<1>3. disk \in [Files -> {Absent} \cup Output] /\ \A f \in Files : disk[f] = Absent
    BY DEF Init
<1>4. input \in [Files -> Content]
    BY CacheAssumption DEF Init, Content, None
<1> QED
    BY <1>1, <1>2, <1>3, <1>4, CacheAssumption DEF Init, TypeOK

\* What the user does keeps the types.
LEMMA UserTyped ==
    ASSUME TypeOK, User
    PROVE  TypeOK'
<1>1. CASE Tick
    BY <1>1, CacheAssumption DEF TypeOK, Tick
<1>2. CASE Crash
    BY <1>2, CacheAssumption DEF TypeOK, Crash
<1>3. ASSUME NEW f \in Files, Edit(f) PROVE TypeOK'
  <2>1. [content |-> edits + 2, mtime |-> clock, racy |-> Building] \in Source
      BY <1>3, CacheAssumption DEF TypeOK, Edit, Source, Content, None, Building
  <2>2. source' \in [Files -> Source]
      BY <1>3, <2>1 DEF TypeOK, Edit
  <2>3. edits' \in 0 .. MaxEdits
      BY <1>3, CacheAssumption DEF TypeOK, Edit
  <2> QED
      BY <1>3, <2>2, <2>3 DEF TypeOK, Edit
<1>4. ASSUME NEW f \in Files, Delete(f) PROVE TypeOK'
  <2>1. [content |-> None, mtime |-> 0, racy |-> Building] \in Source
      BY CacheAssumption DEF Source, Content, None, Building
  <2>2. source' \in [Files -> Source]
      BY <1>4, <2>1 DEF TypeOK, Delete
  <2>3. edits' \in 0 .. MaxEdits
      BY <1>4, CacheAssumption DEF TypeOK, Delete
  <2> QED
      BY <1>4, <2>2, <2>3 DEF TypeOK, Delete
<1>5. ASSUME NEW o \in Options, Start(o) PROVE TypeOK'
  <2>1. input' \in [Files -> Content]
      BY <1>5, CacheAssumption DEF TypeOK, Start, Source, Content, None
  <2>2. mcFiles' \subseteq McFiles
      BY <1>5 DEF Start
  <2> QED
      BY <1>5, <2>1, <2>2 DEF TypeOK, Start
<1> QED
    BY <1>1, <1>2, <1>3, <1>4, <1>5 DEF User

\* last_modified gives a time, or Infinity, that no file of the project is
\* younger than.
LEMMA LastModifiedFacts ==
    ASSUME TypeOK, NEW S \in SUBSET Files, NEW t \in LastModified(S)
    PROVE  /\ t \in 0 .. MaxTime + 1
           /\ \A f \in S : f \in Present => source[f].mtime <= t
<1>1. PICK f \in S : t = ModifiedAt(f)
    BY DEF LastModified
<1>2. source[f].mtime \in 0 .. MaxTime
    BY DEF TypeOK, Source
<1>3. t \in 0 .. MaxTime + 1
    BY <1>1, <1>2, CacheAssumption DEF ModifiedAt, Infinity
<1>4. \A g \in S : g \in Present => source[g].mtime <= t
    BY DEF LastModified, ModifiedAt
<1> QED
    BY <1>3, <1>4

\* So does the build.
LEMMA BuildTyped ==
    ASSUME TypeOK, Build
    PROVE  TypeOK'
<1>1. CASE Compare \/ CompareFails \/ Decide \/ Removed \/ BuildFails \/ Optimize
    BY <1>1 DEF TypeOK, Compare, CompareFails, Decide, Removed, BuildFails, Optimize
<1>2. CASE StatSources
  <2>1. fnMap \cup Deps \in SUBSET Files
      BY DEF TypeOK, fnMap, Files
  <2>2. newest' \in 0 .. MaxTime + 1
      BY <1>2, <2>1, LastModifiedFacts DEF StatSources
  <2> QED
      BY <1>2, <2>2 DEF TypeOK, StatSources
<1>3. CASE Remove
  <2>1. disk' \in [Files -> {Absent} \cup Output] /\ \A f \in Files \ McFiles : disk'[f] = Absent
      BY <1>3 DEF TypeOK, Remove, Written
  <2>2. info' \in {[state |-> "absent"], info}
      BY <1>3 DEF Remove
  <2> QED
      BY <1>3, <2>1, <2>2 DEF TypeOK, Remove
<1>4. ASSUME NEW f \in Files, Read(f) PROVE TypeOK'
  <2>1. input' \in [Files -> Content]
      BY <1>4 DEF TypeOK, Read, Source
  <2> QED
      BY <1>4, <2>1 DEF TypeOK, Read
<1>5. ASSUME NEW f \in Files, Write(f) PROVE TypeOK'
  <2>1. [mtime |-> clock, of |-> input, options |-> options] \in Output
      BY CacheAssumption DEF TypeOK, Output
  <2>2. f \in McFiles
      BY <1>5 DEF TypeOK, Write
  <2>3. disk' \in [Files -> {Absent} \cup Output] /\ \A g \in Files \ McFiles : disk'[g] = Absent
      BY <1>5, <2>1, <2>2 DEF TypeOK, Write
  <2> QED
      BY <1>5, <2>3 DEF TypeOK, Write
<1>6. CASE OpenInfo
    BY <1>6 DEF TypeOK, OpenInfo
<1>7. CASE WriteInfo
    BY <1>7 DEF TypeOK, WriteInfo
<1> QED
    BY <1>1, <1>2, <1>3, <1>4, <1>5, <1>6, <1>7 DEF Build

LEMMA NextTyped == TypeOK /\ [Next]_vars => TypeOK'
<1> SUFFICES ASSUME TypeOK, [Next]_vars PROVE TypeOK'
    OBVIOUS
<1>1. CASE UNCHANGED vars
    BY <1>1 DEF vars, TypeOK
<1> QED
    BY <1>1, UserTyped, BuildTyped DEF Next

-----------------------------------------------------------------------------
(* What the steps do, in the terms of the invariant.                       *)

\* A file the user touches is racy exactly if a build is running.
LEMMA TouchFacts ==
    ASSUME TypeOK, NEW f \in Files, Edit(f) \/ Delete(f)
    PROVE  /\ \A g \in Files : g # f => source'[g] = source[g]
           /\ source'[f].racy = Building
           /\ \/ source'[f].mtime = clock /\ f \in Present'
              \/ source'[f].mtime = 0 /\ source'[f].content = None /\ f \in McFiles
           /\ UNCHANGED <<clock, disk, info, pc, options, mcFiles, input, newest>>
<1>1. CASE Edit(f)
  <2>1. edits + 2 # None
      BY CacheAssumption DEF TypeOK, None
  <2> QED
      BY <1>1, <2>1 DEF TypeOK, Edit, Present
<1>2. CASE Delete(f)
    BY <1>2 DEF TypeOK, Delete
<1> QED
    BY <1>1, <1>2

\* An output that is written is one more, of now, and made of what was read.
LEMMA WriteFacts ==
    ASSUME TypeOK, NEW f \in Files, Write(f)
    PROVE  /\ Written' = Written \cup {f}
           /\ f \in mcFiles \ Written
           /\ disk'[f].mtime = clock /\ disk'[f].of = input /\ disk'[f].options = options
           /\ \A g \in Files : g # f => disk'[g] = disk[g]
<1>1. /\ disk'[f] = [mtime |-> clock, of |-> input, options |-> options]
      /\ \A g \in Files : g # f => disk'[g] = disk[g]
      /\ f \in mcFiles \ Written
    BY DEF TypeOK, Write
<1>2. disk'[f].mtime = clock /\ clock # 0
    BY <1>1, CacheAssumption DEF TypeOK
<1>3. disk'[f] # Absent
    BY <1>2 DEF Absent
<1> QED
    BY <1>1, <1>2, <1>3 DEF Written

\* Outputs that are removed leave the others as they are.
LEMMA RemoveFacts ==
    ASSUME TypeOK, Remove
    PROVE  Written' \subseteq Written /\ \A f \in Written' : disk'[f] = disk[f]
    BY DEF TypeOK, Remove, Written

\* Nothing but an edit changes the sources, nothing but a build the outputs.
LEMMA KeptSource ==
    ASSUME [Next]_vars, \A f \in Files : ~Edit(f) /\ ~Delete(f)
    PROVE  source' = source
    BY DEF Next, Build, User, vars, Tick, Crash, Start, Compare, CompareFails, StatSources, Decide,
           Remove, Removed, BuildFails, Optimize, Read, Write, OpenInfo, WriteInfo

LEMMA KeptDisk ==
    ASSUME [Next]_vars, ~Remove, \A f \in Files : ~Write(f)
    PROVE  disk' = disk
    BY DEF Next, Build, User, vars, Tick, Crash, Edit, Delete, Start, Compare, CompareFails, StatSources, Decide,
           Removed, BuildFails, Optimize, Read, OpenInfo, WriteInfo

\* Time does not run backwards.
LEMMA ClockFacts ==
    ASSUME TypeOK, [Next]_vars
    PROVE  clock' >= clock
    BY CacheAssumption
       DEF TypeOK, Next, Build, User, vars, Tick, Crash, Edit, Delete, Start, Compare, CompareFails, StatSources,
           Decide, Remove, Removed, BuildFails, Optimize, Read, Write, OpenInfo, WriteInfo

-----------------------------------------------------------------------------
(* The invariant.                                                          *)

LEMMA InitInv == Init => IInv
<1> SUFFICES ASSUME Init PROVE IInv
    OBVIOUS
<1>1. TypeOK
    BY InitTyped
<1>2. Written = {} /\ Racy = {}
    BY DEF Init, Written, Racy
<1>3. Stamped
    BY <1>2 DEF Init, Stamped
<1>4. OthersStay
    BY DEF Init, OthersStay, Present, None
<1> QED
    BY <1>1, <1>2, <1>3, <1>4
    DEF Init, IInv, FoundIsCurrent, Building, TimeTells, NewestIsNewest, Sealed, OfOneBuild

LEMMA NextStamped ==
    ASSUME TypeOK, Stamped, [Next]_vars
    PROVE  Stamped'
<1>1. TypeOK /\ TypeOK' /\ Stamped /\ clock' >= clock /\ clock \in Nat /\ clock' \in Nat
    BY NextTyped, ClockFacts, CacheAssumption DEF TypeOK
<1>2. \A f \in Files : source[f].mtime \in Nat /\ source[f].mtime <= clock
    BY <1>1, CacheAssumption DEF TypeOK, Source, Stamped
<1>3. \A f \in Files : source'[f].mtime <= clock'
  <2>1. CASE \E f \in Files : Edit(f) \/ Delete(f)
      BY <1>1, <1>2, <2>1, TouchFacts
  <2>2. CASE \A f \in Files : ~Edit(f) /\ ~Delete(f)
      BY <1>1, <1>2, <2>2, KeptSource
  <2> QED
      BY <2>1, <2>2
<1>4. \A f \in Written : disk[f].mtime \in Nat /\ disk[f].mtime <= clock
    BY <1>1, CacheAssumption DEF TypeOK, Written, Output, Stamped
<1>5. \A f \in Written' : disk'[f].mtime <= clock'
  <2>1. CASE Remove
      BY <1>1, <1>4, <2>1, RemoveFacts
  <2>2. CASE \E f \in Files : Write(f)
      BY <1>1, <1>4, <2>2, WriteFacts DEF Written
  <2>3. CASE ~Remove /\ \A f \in Files : ~Write(f)
    <3>1. disk' = disk
        BY <2>3, KeptDisk
    <3> QED
        BY <1>1, <1>4, <3>1 DEF Written
  <2> QED
      BY <2>1, <2>2, <2>3
<1> QED
    BY <1>3, <1>5 DEF Stamped

LEMMA NextOthersStay ==
    ASSUME TypeOK, OthersStay, [Next]_vars
    PROVE  OthersStay'
<1>1. TypeOK /\ OthersStay
    OBVIOUS
<1>2. CASE \E f \in Files : Edit(f) \/ Delete(f)
    BY <1>1, <1>2, TouchFacts DEF OthersStay, Present
<1>3. CASE \A f \in Files : ~Edit(f) /\ ~Delete(f)
    BY <1>1, <1>3, KeptSource DEF OthersStay, Present
<1> QED
    BY <1>2, <1>3

LEMMA NextFoundIsCurrent ==
    ASSUME IInv, [Next]_vars
    PROVE  FoundIsCurrent'
<1> SUFFICES ASSUME Building' PROVE FoundIsCurrent'
    BY DEF FoundIsCurrent
<1>1. TypeOK /\ FoundIsCurrent /\ OthersStay
    BY DEF IInv
<1>2. ASSUME NEW f \in Files, Edit(f) \/ Delete(f) PROVE FoundIsCurrent'
  <2>1. /\ Building /\ UNCHANGED <<pc, mcFiles, input>> /\ f \in Racy'
        /\ \A g \in Files : g # f => source'[g] = source[g]
      BY <1>1, <1>2, TouchFacts DEF Building, Racy
  <2> QED
      BY <1>1, <2>1 DEF FoundIsCurrent, Present, Racy, fnMap
<1>3. ASSUME NEW o \in Options, Start(o) PROVE FoundIsCurrent'
  <2>1. /\ mcFiles' = McFiles \cap Present /\ UNCHANGED source /\ pc' = "compare"
        /\ \A f \in Files : input'[f] = IF f \in Deps THEN source[f].content ELSE None
      BY <1>3 DEF Start
  <2> QED
      BY <2>1 DEF FoundIsCurrent, Present, Racy, fnMap
<1>4. ASSUME NEW f \in Files, Read(f) PROVE FoundIsCurrent'
  <2>1. /\ f \in fnMap /\ pc' = "read" /\ pc = "read" /\ UNCHANGED <<source, mcFiles>>
        /\ \A g \in Files : input'[g] = IF g = f THEN source[f].content ELSE input[g]
        /\ f \notin Deps
      BY <1>1, <1>4, CacheAssumption DEF Read, TypeOK, fnMap
  <2> QED
      BY <1>1, <2>1 DEF FoundIsCurrent, Building, Present, Racy, fnMap
<1>5. CASE Optimize
    BY <1>1, <1>5 DEF Optimize, FoundIsCurrent, Building, Present, Racy, fnMap
<1>6. CASE OpenInfo \/ \E f \in Files : Write(f)
    BY <1>1, <1>6 DEF OpenInfo, Write, FoundIsCurrent, Building, Present, Racy, fnMap
<1>7. CASE Compare \/ StatSources \/ Decide \/ Remove \/ Removed
    BY <1>1, <1>7
    DEF Compare, StatSources, Decide, Remove, Removed, FoundIsCurrent, Building, Present, Racy, fnMap
<1>8. CASE Crash \/ CompareFails \/ BuildFails \/ WriteInfo
    BY <1>8 DEF Crash, CompareFails, BuildFails, WriteInfo, Building
<1>9. CASE UNCHANGED vars \/ Tick
    BY <1>1, <1>9 DEF vars, Tick, FoundIsCurrent, Building, Present, Racy, fnMap
<1> QED
    BY <1>2, <1>3, <1>4, <1>5, <1>6, <1>7, <1>8, <1>9 DEF Next, Build, User

LEMMA NextTimeTells ==
    ASSUME IInv, [Next]_vars
    PROVE  TimeTells'
<1>1. TypeOK /\ Stamped /\ OthersStay /\ FoundIsCurrent /\ TimeTells /\ Sealed
    BY DEF IInv
<1>2. ASSUME NEW f \in Files, Edit(f) \/ Delete(f) PROVE TimeTells'
  <2>1. /\ \A g \in Files : g # f => source'[g] = source[g]
        /\ Written' = Written /\ disk' = disk
        /\ \/ source'[f].mtime = clock
           \/ source'[f].content = None
      BY <1>1, <1>2, TouchFacts DEF Written
  <2>2. \A g \in Written : disk[g].mtime <= clock
      BY <1>1 DEF Stamped
  <2> QED
      BY <1>1, <2>1, <2>2 DEF TimeTells, Racy
<1>3. ASSUME NEW f \in Files, Write(f) PROVE TimeTells'
  <2>1. /\ Written' = Written \cup {f} /\ disk'[f].of = input
        /\ \A g \in Files : g # f => disk'[g] = disk[g]
        /\ f \notin Written /\ source' = source /\ pc = "write"
      BY <1>1, <1>3, WriteFacts DEF Write
  <2>2. ASSUME NEW g \in Files \ Racy PROVE input[g] = source[g].content \/ source[g].content = None
    <3>1. CASE g \in fnMap \cup Deps
        BY <1>1, <2>1, <2>2, <3>1 DEF FoundIsCurrent, Building
    <3>2. CASE g \notin fnMap \cup Deps
        BY <1>1, <2>1, <2>2, <3>2 DEF FoundIsCurrent, Building, fnMap, Files, Present
    <3> QED
        BY <3>1, <3>2
  <2>3. ASSUME NEW g \in Written', NEW h \in (Files \ Racy)'
        PROVE  \/ disk'[g].of[h] = source'[h].content
               \/ source'[h].content = None
               \/ disk'[g].mtime <= source'[h].mtime
    <3>1. h \in Files \ Racy
        BY <2>1 DEF Racy
    <3>2. CASE g = f
        BY <2>1, <2>2, <3>1, <3>2
    <3>3. CASE g # f
        BY <1>1, <2>1, <3>1, <3>3 DEF TimeTells, Written
    <3> QED
        BY <3>2, <3>3
  <2> QED
      BY <2>3 DEF TimeTells
<1>4. CASE Remove
  <2>1. source' = source
      BY <1>4 DEF Remove
  <2> QED
      BY <1>1, <1>4, <2>1, RemoveFacts DEF TimeTells, Racy
<1>5. CASE ~Remove /\ \A f \in Files : ~Write(f) /\ ~Edit(f) /\ ~Delete(f)
  <2>1. disk' = disk /\ source' = source
      BY <1>5, KeptSource, KeptDisk
  <2> QED
      BY <1>1, <2>1 DEF TimeTells, Written, Racy
<1> QED
    BY <1>2, <1>3, <1>4, <1>5

LEMMA NextNewestIsNewest ==
    ASSUME IInv, [Next]_vars
    PROVE  NewestIsNewest'
<1> SUFFICES ASSUME pc' = "decide" PROVE NewestIsNewest'
    BY DEF NewestIsNewest
<1>1. TypeOK /\ OthersStay /\ FoundIsCurrent /\ NewestIsNewest
    BY DEF IInv
<1>2. ASSUME NEW f \in Files, Edit(f) \/ Delete(f) PROVE NewestIsNewest'
  <2>1. /\ f \in Racy' /\ UNCHANGED <<pc, mcFiles, newest>>
        /\ \A g \in Files : g # f => source'[g] = source[g]
      BY <1>1, <1>2, TouchFacts DEF Building, Racy
  <2>2. fnMap \cup Deps \subseteq Files
      BY <1>1 DEF TypeOK, fnMap, Files
  <2> QED
      BY <1>1, <2>1, <2>2 DEF NewestIsNewest, fnMap, Racy
<1>3. CASE StatSources
  <2>1. fnMap \cup Deps \in SUBSET Files
      BY <1>1 DEF TypeOK, fnMap, Files
  <2>2. \A f \in fnMap \cup Deps : f \in Present => source[f].mtime <= newest'
      BY <1>1, <1>3, <2>1, LastModifiedFacts DEF StatSources
  <2>3. \A f \in (fnMap \cup Deps) \ Racy : f \in Present
      BY <1>1, <1>3, <2>1, CacheAssumption
      DEF StatSources, FoundIsCurrent, Building, OthersStay, fnMap, TypeOK, Files
  <2>4. UNCHANGED <<source, mcFiles>>
      BY <1>3 DEF StatSources
  <2> QED
      BY <2>2, <2>3, <2>4 DEF NewestIsNewest, fnMap, Racy
<1>4. CASE Tick \/ UNCHANGED vars
    BY <1>1, <1>4 DEF Tick, vars, NewestIsNewest, fnMap, Racy
<1>5. CASE Compare \/ CompareFails \/ Decide \/ Remove \/ Removed \/ BuildFails \/ Optimize \/ OpenInfo \/ WriteInfo \/ Crash
    BY <1>5 DEF Compare, CompareFails, Decide, Remove, Removed, BuildFails, Optimize, OpenInfo, WriteInfo, Crash
<1>6. CASE (\E f \in Files : Read(f) \/ Write(f)) \/ \E o \in Options : Start(o)
    BY <1>6 DEF Read, Write, Start
<1> QED
    BY <1>2, <1>3, <1>4, <1>5, <1>6 DEF Next, Build, User

\* Here it matters that the process does not die while it removes outputs.
LEMMA NextSealed ==
    ASSUME IInv, [Next]_vars, "clear" \notin CrashesIn
    PROVE  Sealed'
<1>1. TypeOK /\ FoundIsCurrent /\ Sealed
    BY DEF IInv
<1>2. CASE UNCHANGED vars \/ Tick \/ \E f \in Files : Edit(f) \/ Delete(f)
  <2>1. UNCHANGED <<disk, info, pc, options, mcFiles, input>>
      BY <1>2 DEF vars, Tick, Edit, Delete
  <2> QED
      BY <1>1, <2>1 DEF Sealed, Written, OfOneBuild, SameBuild, SameOptions
<1>3. CASE Crash \/ CompareFails \/ BuildFails \/ \E o \in Options : Start(o)
  <2>1. /\ UNCHANGED <<disk, info>> /\ pc # "clear" /\ pc' \in {"idle", "compare"}
      BY <1>1, <1>3 DEF Crash, CompareFails, BuildFails, Start
  <2> QED
      BY <1>1, <2>1 DEF Sealed, Written
<1>4. CASE Compare \/ StatSources \/ Decide
  <2>1. /\ UNCHANGED <<disk, info, options, mcFiles, input>> /\ pc # "clear"
        /\ pc' \in {"stat", "decide", "done", "clear"}
        /\ pc' \in {"stat", "decide"} => SameBuild
      BY <1>1, <1>4 DEF Compare, StatSources, Decide, Sealed
  <2> QED
      BY <1>1, <2>1 DEF Sealed, Written, SameBuild, SameOptions
<1>5. CASE Remove
  <2>1. pc' = "clear"
      BY <1>5 DEF Remove
  <2> QED
      BY <2>1 DEF Sealed
<1>6. CASE Removed
  <2>1. /\ UNCHANGED <<disk, info>> /\ pc' = "read" /\ info.state = "absent" /\ Written = {}
      BY <1>6 DEF Removed
  <2> QED
      BY <2>1 DEF Sealed, Written
<1>7. CASE Optimize \/ \E f \in Files : Read(f)
  <2>1. /\ UNCHANGED <<disk, info, mcFiles, options>> /\ pc = "read" /\ pc' \in {"read", "write"}
      BY <1>7 DEF Optimize, Read
  <2> QED
      BY <1>1, <2>1 DEF Sealed, Written, OfOneBuild
<1>8. ASSUME NEW f \in Files, Write(f) PROVE Sealed'
  <2>1. /\ Written' = Written \cup {f} /\ f \in mcFiles \ Written
        /\ disk'[f].of = input /\ disk'[f].options = options
        /\ \A g \in Files : g # f => disk'[g] = disk[g]
        /\ UNCHANGED <<info, pc, options, mcFiles, input>> /\ pc = "write"
      BY <1>1, <1>8, WriteFacts DEF Write
  <2>2. \A g \in Written : g \in Files
      BY DEF Written
  <2> QED
      BY <1>1, <2>1, <2>2 DEF Sealed, OfOneBuild
<1>9. CASE OpenInfo
  <2>1. /\ UNCHANGED <<disk, options, mcFiles, input>> /\ pc = "write" /\ pc' = "seal"
        /\ info'.state = "torn" /\ mcFiles \subseteq Written
      BY <1>9 DEF OpenInfo
  <2> QED
      BY <1>1, <2>1 DEF Sealed, Written, OfOneBuild
<1>10. CASE WriteInfo
  <2>1. /\ UNCHANGED <<disk, options, mcFiles, input>> /\ pc = "seal" /\ pc' = "done"
        /\ info'.state = "complete" /\ info'.options = options
      BY <1>10 DEF WriteInfo
  <2>2. \A g \in McFiles : input[g] # None => g \in mcFiles
      BY <1>1, <2>1, CacheAssumption DEF FoundIsCurrent, Building, fnMap, Files
  <2> QED
      BY <1>1, <2>1, <2>2 DEF Sealed, Written, OfOneBuild
<1> QED
    BY <1>2, <1>3, <1>4, <1>5, <1>6, <1>7, <1>8, <1>9, <1>10 DEF Next, Build, User

-----------------------------------------------------------------------------
(* Theorems.                                                               *)

\* The variables keep their types, whatever happens when.
THEOREM TypeCorrect == Spec => []TypeOK
<1> QED
    BY InitTyped, NextTyped, PTL DEF Spec

\* What is known of files, times and outputs at each step of a build, when
\* the process does not die while it removes outputs (lines 873-881).
THEOREM Invariance ==
    ASSUME "clear" \notin CrashesIn PROVE Spec => []IInv
<1>1. IInv /\ [Next]_vars => IInv'
  <2> SUFFICES ASSUME IInv, [Next]_vars PROVE IInv'
      OBVIOUS
  <2>1. TypeOK'
      BY NextTyped DEF IInv
  <2> QED
      BY <2>1, NextStamped, NextOthersStay, NextFoundIsCurrent, NextTimeTells, NextNewestIsNewest, NextSealed
      DEF IInv
<1> QED
    BY <1>1, InitInv, PTL DEF Spec

\* What a build returns (generateOneConfig) was made of the sources as they
\* are, with the options it was called with, whether it wrote it or took what
\* an earlier build had left there.
THEOREM CurrentIsReturned ==
    ASSUME "clear" \notin CrashesIn PROVE Spec => ReturnsCurrent
<1> DEFINE Right ==
        /\ Written = mcFiles
        /\ \A f \in McFiles \ Racy : f \in mcFiles <=> f \in Present
        /\ \A f \in mcFiles : disk[f].options.compared = options.compared
        /\ MadeOf(Racy)
<1>1. ASSUME IInv, [Next]_vars, Returns PROVE Right'
  <2>1. /\ TypeOK /\ Stamped /\ OthersStay /\ FoundIsCurrent /\ TimeTells /\ NewestIsNewest /\ Sealed
        /\ pc # "done" /\ pc' = "done"
      BY <1>1 DEF IInv, Returns
  <2>2. (Decide /\ Older) \/ WriteInfo
      BY <1>1, <2>1
      DEF Next, Build, User, vars, Tick, Crash, Edit, Delete, Start, Compare, CompareFails, StatSources, Decide,
          Remove, Removed, BuildFails, Optimize, Read, Write, OpenInfo
  <2>3. UNCHANGED <<source, disk, options, mcFiles, input>> /\ Building
      BY <2>2 DEF Decide, WriteInfo, Building
  <2>4. \A f \in McFiles \ Racy : f \in mcFiles <=> f \in Present
      BY <2>1, <2>3 DEF FoundIsCurrent, Files
  <2>5. /\ Written = mcFiles
        /\ \A f \in mcFiles : disk[f].options.compared = options.compared
    <3>1. CASE Decide /\ Older
        BY <2>1, <3>1 DEF Decide, Sealed, SameBuild, SameOptions
    <3>2. CASE WriteInfo
        BY <2>1, <3>2 DEF WriteInfo, Sealed, OfOneBuild
    <3> QED
        BY <2>2, <3>1, <3>2
  <2>6. ASSUME NEW f \in mcFiles, NEW g \in Files \ Racy
        PROVE  disk[f].of[g] = source[g].content
    <3>1. f \in Written
        BY <2>5
    <3>2. g \notin fnMap \cup Deps => g \in McFiles \ mcFiles /\ source[g].content = None
        BY <2>4, <2>6 DEF fnMap, Files, Present
    <3>3. CASE WriteInfo
      <4>1. disk[f].of = input
          BY <2>1, <3>1, <3>3 DEF WriteInfo, Sealed, OfOneBuild
      <4>2. CASE g \in fnMap \cup Deps
          BY <2>1, <2>6, <3>3, <4>1, <4>2 DEF WriteInfo, FoundIsCurrent, Building
      <4>3. CASE g \notin fnMap \cup Deps
          BY <2>1, <2>3, <2>6, <3>2, <4>1, <4>3 DEF FoundIsCurrent
      <4> QED
          BY <4>2, <4>3
    <3>4. CASE Decide /\ Older
      <4>1. \/ disk[f].of[g] = source[g].content
            \/ source[g].content = None
            \/ disk[f].mtime <= source[g].mtime
          BY <2>1, <2>6, <3>1 DEF TimeTells
      <4>2. CASE g \notin Present
        <5>1. g \in McFiles \ Written /\ source[g].content = None
            BY <2>1, <2>4, <2>5, <2>6, <4>2 DEF OthersStay, Present
        <5>2. info.state = "complete" /\ pc = "decide"
            BY <2>1, <3>4 DEF Decide, Sealed, SameBuild, SameOptions
        <5> QED
            BY <2>1, <3>1, <5>1, <5>2 DEF Sealed
      <4>3. CASE g \in Present
        <5>1. g \in fnMap \cup Deps /\ source[g].content # None
            BY <3>2, <4>3 DEF Present
        <5>2. source[g].mtime <= newest
            BY <2>1, <2>6, <3>4, <5>1 DEF Decide, NewestIsNewest
        <5>3. newest < disk[f].mtime
            BY <3>4 DEF Older, FirstModified, fnMap
        <5>4. source[g].mtime \in Nat /\ newest \in Nat /\ disk[f].mtime \in Nat
            BY <2>1, <2>6, <3>1, CacheAssumption DEF TypeOK, Source, Output, Written
        <5> QED
            BY <4>1, <5>1, <5>2, <5>3, <5>4
      <4> QED
          BY <4>2, <4>3
    <3> QED
        BY <2>2, <3>3, <3>4
  <2>7. Right
      BY <2>4, <2>5, <2>6 DEF MadeOf
  <2> QED
      BY <2>3, <2>7 DEF MadeOf, Written, Present, Racy
<1>2. IInv /\ [Next]_vars => [Returns => Right']_vars
    BY <1>1
<1> QED
    BY <1>2, Invariance, PTL DEF Spec, ReturnsCurrent
-----------------------------------------------------------------------------
(* No needless work.                                                       *)

\* An edit makes a content that was not there before.
Fresh ==
    \A g \in Files : /\ source[g].content < edits + 2
                     /\ input[g] < edits + 2
                     /\ \A f \in Written : disk[f].of[g] < edits + 2

\* The outputs that are there are of one build, even where it died: each was
\* made of all of their sources.
OneBuild ==
    /\ Building => \A g \in Deps : input[g] # None
    /\ pc = "read" => Written = {}
    /\ pc \in {"write", "seal"} =>
          /\ Written \subseteq mcFiles
          /\ \A g \in fnMap : input[g] # None
          /\ \A f \in Written : disk[f].of = input
    /\ \A f \in Written : \A g \in Written \cup Deps : disk[f].of[g] # None

\* source_time is that of some source, unless it was edited since; a source
\* that was missing is not one of the outputs.
NewestIsSome ==
    pc = "decide" =>
        /\ newest = Infinity => mcFiles # {}
        /\ \E g \in fnMap \cup Deps :
              \/ newest <= source[g].mtime
              \/ source[g].content = None
              \/ \A f \in Written : disk[f].of[g] # source[g].content

NInv == TypeOK /\ OthersStay /\ Fresh /\ OneBuild /\ NewestIsSome

LEMMA NextFresh ==
    ASSUME NInv, [Next]_vars
    PROVE  Fresh'
<1>1. /\ TypeOK /\ Fresh
      /\ edits \in Nat /\ edits' \in Nat /\ edits <= edits'
      /\ \A g \in Files : source[g].content \in Nat /\ input[g] \in Nat
      /\ \A f \in Written, g \in Files : disk[f].of[g] \in Nat
  <2>1. TypeOK /\ TypeOK'
      BY NextTyped DEF NInv
  <2>2. edits \in Nat /\ edits' \in Nat
      BY <2>1, CacheAssumption DEF TypeOK
  <2>3. edits <= edits'
      BY <2>2
      DEF Next, Build, User, vars, Tick, Crash, Edit, Delete, Start, Compare, CompareFails, StatSources, Decide,
          Remove, Removed, BuildFails, Optimize, Read, Write, OpenInfo, WriteInfo
  <2>4. \A g \in Files : source[g].content \in Content /\ input[g] \in Content
      BY <2>1 DEF TypeOK, Source
  <2>5. \A f \in Written, g \in Files : disk[f].of[g] \in Content
      BY <2>1 DEF TypeOK, Written, Output
  <2>6. Content \subseteq Nat
      BY CacheAssumption DEF Content, None
  <2> QED
      BY <2>1, <2>2, <2>3, <2>4, <2>5, <2>6 DEF NInv
<1>2. ASSUME NEW f \in Files, Edit(f) \/ Delete(f) PROVE Fresh'
  <2>1. /\ \A g \in Files : g # f => source'[g] = source[g]
        /\ edits' = edits + 1 /\ source'[f].content \in {edits + 2, 0}
        /\ UNCHANGED <<disk, input>>
      BY <1>1, <1>2 DEF Edit, Delete, TypeOK, None
  <2> QED
      BY <1>1, <2>1 DEF Fresh, Written
<1>3. ASSUME source' = source, disk' = disk, \A g \in Files : input'[g] < edits' + 2
      PROVE  Fresh'
    BY <1>1, <1>3 DEF Fresh, Written
<1>4. ASSUME UNCHANGED <<source, input, edits>>, Written' \subseteq Written,
             \A f \in Written' : disk'[f] = disk[f]
      PROVE  Fresh'
    BY <1>1, <1>4 DEF Fresh
<1>5. ASSUME NEW f \in Files, Write(f) PROVE Fresh'
  <2>1. /\ Written' = Written \cup {f} /\ disk'[f].of = input
        /\ \A g \in Files : g # f => disk'[g] = disk[g]
        /\ UNCHANGED <<source, input, edits>>
      BY <1>1, <1>5, WriteFacts DEF Write
  <2>2. \A g \in Written : g \in Files
      BY DEF Written
  <2> QED
      BY <1>1, <2>1, <2>2 DEF Fresh
<1>6. CASE Remove
    BY <1>1, <1>4, <1>6, RemoveFacts DEF Remove
<1>7. ASSUME NEW f \in Files, Read(f) PROVE Fresh'
    BY <1>1, <1>3, <1>7 DEF Read, Fresh, TypeOK
<1>8. ASSUME NEW o \in Options, Start(o) PROVE Fresh'
    BY <1>1, <1>3, <1>8 DEF Start, Fresh, TypeOK, None
<1>9. ASSUME UNCHANGED <<source, disk, input>> PROVE Fresh'
    BY <1>1, <1>3, <1>9 DEF Fresh
<1>10. CASE \/ Tick \/ Crash \/ Compare \/ CompareFails \/ StatSources \/ Decide \/ Removed \/ BuildFails
            \/ Optimize \/ OpenInfo \/ WriteInfo \/ UNCHANGED vars
    BY <1>9, <1>10
    DEF Tick, Crash, Compare, CompareFails, StatSources, Decide, Removed, BuildFails, Optimize, OpenInfo,
        WriteInfo, vars
<1> QED
    BY <1>2, <1>5, <1>6, <1>7, <1>8, <1>10 DEF Next, Build, User

LEMMA NextOneBuild ==
    ASSUME NInv, [Next]_vars
    PROVE  OneBuild'
<1>1. TypeOK /\ OthersStay /\ OneBuild
    BY DEF NInv
<1>2. CASE Tick \/ UNCHANGED vars \/ \E f \in Files : Edit(f) \/ Delete(f)
  <2>1. UNCHANGED <<disk, pc, mcFiles, input>>
      BY <1>2 DEF vars, Tick, Edit, Delete
  <2> QED
      BY <1>1, <2>1 DEF OneBuild, Written, Building, fnMap
<1>3. CASE Crash \/ CompareFails \/ BuildFails \/ Compare \/ StatSources \/ Decide
  <2>1. /\ UNCHANGED <<disk, mcFiles, input>>
        /\ pc' \in {"idle", "clear", "stat", "decide", "done"}
        /\ pc' \in {"clear", "stat", "decide"} => Building
      BY <1>3 DEF Crash, CompareFails, BuildFails, Compare, StatSources, Decide, Building
  <2> QED
      BY <1>1, <2>1 DEF OneBuild, Written, Building
<1>4. ASSUME NEW o \in Options, Start(o) PROVE OneBuild'
  <2>1. UNCHANGED disk /\ pc' = "compare" /\ \A g \in Deps : input'[g] = source[g].content
      BY <1>4 DEF Start, Files
  <2>2. \A g \in Deps : input'[g] # None
      BY <1>1, <2>1, CacheAssumption DEF OthersStay, Present, Files
  <2> QED
      BY <1>1, <2>1, <2>2 DEF OneBuild, Written
<1>5. CASE Remove
  <2>1. UNCHANGED <<pc, mcFiles, input>> /\ pc = "clear"
      BY <1>5 DEF Remove
  <2> QED
      BY <1>1, <1>5, <2>1, RemoveFacts DEF OneBuild, Building
<1>6. CASE Removed
  <2>1. UNCHANGED <<disk, mcFiles, input>> /\ pc = "clear" /\ pc' = "read" /\ Written = {}
      BY <1>6 DEF Removed
  <2> QED
      BY <1>1, <2>1 DEF OneBuild, Building, Written
<1>7. ASSUME NEW f \in Files, Read(f) PROVE OneBuild'
  <2>1. /\ UNCHANGED <<disk, pc, mcFiles>> /\ pc = "read"
        /\ \A g \in Files : g # f => input'[g] = input[g]
        /\ f \notin Deps
      BY <1>1, <1>7, CacheAssumption DEF Read, TypeOK, fnMap
  <2> QED
      BY <1>1, <2>1 DEF OneBuild, Building, Written, Files
<1>8. CASE Optimize
  <2>1. UNCHANGED <<disk, mcFiles, input>> /\ pc = "read" /\ pc' = "write" /\ \A f \in fnMap : input[f] # None
      BY <1>8 DEF Optimize
  <2> QED
      BY <1>1, <2>1 DEF OneBuild, Building, Written, fnMap
<1>9. ASSUME NEW f \in Files, Write(f) PROVE OneBuild'
  <2>1. /\ Written' = Written \cup {f} /\ f \in mcFiles \ Written /\ disk'[f].of = input
        /\ \A g \in Files : g # f => disk'[g] = disk[g]
        /\ UNCHANGED <<pc, mcFiles, input>> /\ pc = "write"
      BY <1>1, <1>9, WriteFacts DEF Write
  <2>2. /\ \A g \in Written : g \in Files
        /\ \A g \in Deps \cup mcFiles : input[g] # None
        /\ Written \subseteq mcFiles
        /\ \A g \in Written : disk[g].of = input
      BY <1>1, <2>1 DEF Written, OneBuild, Building, fnMap
  <2>3. \A g \in Written' : disk'[g].of = input
      BY <2>1, <2>2
  <2> QED
      BY <1>1, <2>1, <2>2, <2>3 DEF OneBuild, Building, fnMap
<1>10. CASE OpenInfo \/ WriteInfo
  <2>1. UNCHANGED <<disk, mcFiles, input>> /\ pc \in {"write", "seal"} /\ pc' \in {"seal", "done"}
      BY <1>10 DEF OpenInfo, WriteInfo
  <2> QED
      BY <1>1, <2>1 DEF OneBuild, Building, Written, fnMap
<1> QED
    BY <1>2, <1>3, <1>4, <1>5, <1>6, <1>7, <1>8, <1>9, <1>10 DEF Next, Build, User

LEMMA NextNewestIsSome ==
    ASSUME NInv, [Next]_vars
    PROVE  NewestIsSome'
<1> SUFFICES ASSUME pc' = "decide" PROVE NewestIsSome'
    BY DEF NewestIsSome
<1>1. TypeOK /\ OthersStay /\ Fresh /\ NewestIsSome /\ fnMap \cup Deps \in SUBSET Files
    BY DEF NInv, TypeOK, fnMap, Files
<1>2. ASSUME NEW f \in Files, Edit(f) \/ Delete(f) PROVE NewestIsSome'
  <2>1. /\ UNCHANGED <<pc, mcFiles, newest, disk>>
        /\ \A g \in Files : g # f => source'[g] = source[g]
        /\ source'[f].content \in {edits + 2, None}
      BY <1>1, <1>2 DEF Edit, Delete, TypeOK
  <2>2. \A h \in Written : disk[h].of[f] # edits + 2
    <3> SUFFICES ASSUME NEW h \in Written PROVE disk[h].of[f] # edits + 2
        OBVIOUS
    <3>1. disk[h].of[f] < edits + 2 /\ disk[h].of[f] \in Content
        BY <1>1 DEF Fresh, TypeOK, Written, Output
    <3>2. disk[h].of[f] \in Nat /\ edits \in Nat
        BY <1>1, <3>1, CacheAssumption DEF Content, None, TypeOK
    <3> QED
        BY <3>1, <3>2
  <2>3. PICK g \in fnMap \cup Deps :
            \/ newest <= source[g].mtime
            \/ source[g].content = None
            \/ \A h \in Written : disk[h].of[g] # source[g].content
      BY <1>1, <2>1 DEF NewestIsSome
  <2>4. \/ newest <= source'[g].mtime
        \/ source'[g].content = None
        \/ \A h \in Written : disk[h].of[g] # source'[g].content
      BY <1>1, <2>1, <2>2, <2>3
  <2> QED
      BY <1>1, <2>1, <2>3, <2>4 DEF NewestIsSome, Written, fnMap
<1>3. CASE StatSources
  <2>1. PICK g \in fnMap \cup Deps : newest' = ModifiedAt(g)
      BY <1>3 DEF StatSources, LastModified
  <2>2. UNCHANGED <<source, disk, mcFiles>>
      BY <1>3 DEF StatSources
  <2>3. source[g].mtime \in Nat /\ source[g].mtime # Infinity
      BY <1>1, CacheAssumption DEF TypeOK, Source, Infinity
  <2>4. CASE g \in Present
    <3>1. newest' = source[g].mtime
        BY <2>1, <2>4 DEF ModifiedAt
    <3>2. newest' <= source[g].mtime
        BY <2>3, <3>1
    <3> QED
        BY <2>2, <2>3, <3>1, <3>2 DEF NewestIsSome, fnMap
  <2>5. CASE g \notin Present
    <3>1. g \in McFiles /\ source[g].content = None
        BY <1>1, <2>5 DEF OthersStay, Present
    <3>2. g \in mcFiles
        BY <3>1, CacheAssumption DEF fnMap
    <3> QED
        BY <2>2, <3>1, <3>2 DEF NewestIsSome, fnMap
  <2> QED
      BY <2>4, <2>5
<1>4. CASE Tick \/ UNCHANGED vars
    BY <1>1, <1>4 DEF Tick, vars, NewestIsSome, fnMap, Written
<1>5. CASE Compare \/ CompareFails \/ Decide \/ Remove \/ Removed \/ BuildFails \/ Optimize \/ OpenInfo \/ WriteInfo \/ Crash
    BY <1>5 DEF Compare, CompareFails, Decide, Remove, Removed, BuildFails, Optimize, OpenInfo, WriteInfo, Crash
<1>6. CASE (\E f \in Files : Read(f) \/ Write(f)) \/ \E o \in Options : Start(o)
    BY <1>6 DEF Read, Write, Start
<1> QED
    BY <1>2, <1>3, <1>4, <1>5, <1>6 DEF Next, Build, User

\* A project that is up to date is not optimized anew (generateOneConfig,
\* src/optimizer.ts:839-871), whatever was edited, removed or interrupted
\* before.  With a personality file it would be: fnMap names an output of it
\* that nobody writes.
THEOREM UpToDateIsTaken ==
    ASSUME Personality = {} PROVE Spec => NoNeedlessWork
<1>1. Init => NInv
  <2> SUFFICES ASSUME Init PROVE NInv
      OBVIOUS
  <2>1. TypeOK /\ OthersStay /\ Written = {}
      BY InitInv DEF IInv, Init, Written
  <2> QED
      BY <2>1 DEF Init, NInv, Fresh, OneBuild, NewestIsSome, Building, None
<1>2. NInv /\ [Next]_vars => NInv'
  <2> SUFFICES ASSUME NInv, [Next]_vars PROVE NInv'
      OBVIOUS
  <2> QED
      BY NextTyped, NextOthersStay, NextFresh, NextOneBuild, NextNewestIsSome DEF NInv
<1>3. ASSUME NInv, [Next]_vars, pc # "clear", pc' = "clear", UpToDate PROVE FALSE
  <2>1. TypeOK /\ OthersStay /\ OneBuild /\ NewestIsSome
      BY <1>3 DEF NInv
  <2>2. (Compare /\ ~SameBuild) \/ (Decide /\ ~Older)
      BY <1>3
      DEF Next, Build, User, vars, Tick, Crash, Edit, Delete, Start, Compare, CompareFails, StatSources, Decide,
          Remove, Removed, BuildFails, Optimize, Read, Write, OpenInfo, WriteInfo
  <2>3. pc = "decide" /\ ~Older
      BY <1>3, <2>2 DEF UpToDate, SameBuild, Decide
  <2>4. fnMap = mcFiles /\ mcFiles \subseteq McFiles /\ Written = mcFiles
      BY <1>3, <2>1 DEF fnMap, TypeOK, UpToDate
  <2>5. \A g \in Files : source[g].mtime \in Nat /\ source[g].mtime < Infinity
      BY <2>1, CacheAssumption DEF TypeOK, Source, Infinity
  <2>6. newest \in Nat /\ newest <= Infinity /\ Infinity \in Nat
      BY <2>1, CacheAssumption DEF TypeOK, Infinity
  <2>7. PICK g \in fnMap \cup Deps :
            \/ newest <= source[g].mtime
            \/ source[g].content = None
            \/ \A f \in Written : disk[f].of[g] # source[g].content
      BY <2>1, <2>3 DEF NewestIsSome
  <2>8. \A f \in mcFiles : /\ disk[f].of[g] = source[g].content /\ disk[f].of[g] # None
                           /\ source[g].mtime < disk[f].mtime /\ disk[f].mtime \in Nat
                           /\ disk[f].mtime < Infinity
    <3> SUFFICES ASSUME NEW f \in mcFiles
                 PROVE  /\ disk[f].of[g] = source[g].content /\ disk[f].of[g] # None
                        /\ source[g].mtime < disk[f].mtime /\ disk[f].mtime \in Nat
                        /\ disk[f].mtime < Infinity
        OBVIOUS
    <3>1. g \in Files /\ f \in Files /\ f \in Written
        BY <2>4 DEF Files
    <3>2. disk[f].mtime \in Nat /\ disk[f].mtime < Infinity
        BY <2>1, <3>1, CacheAssumption DEF TypeOK, Written, Output, Infinity
    <3> QED
        BY <1>3, <2>1, <2>4, <3>1, <3>2 DEF UpToDate, MadeOf, OneBuild
  <2>9. CASE mcFiles = {}
    <3>1. newest # Infinity
        BY <2>1, <2>3, <2>9 DEF NewestIsSome
    <3> QED
        BY <2>3, <2>4, <2>6, <2>9, <3>1 DEF Older, FirstModified
  <2>10. CASE mcFiles # {}
    <3>1. newest <= source[g].mtime
        BY <2>4, <2>7, <2>8, <2>10
    <3>2. g \in Files
        BY <2>4 DEF Files
    <3> QED
        BY <2>3, <2>4, <2>5, <2>6, <2>8, <3>1, <3>2 DEF Older, FirstModified
  <2> QED
      BY <2>9, <2>10
<1>4. NInv /\ [Next]_vars => [pc # "clear" /\ pc' = "clear" => ~UpToDate]_vars
    BY <1>3
<1> QED
    BY <1>1, <1>2, <1>4, PTL DEF Spec, NoNeedlessWork
=============================================================================
