---------------------------- MODULE TestRunProofs ----------------------------
(***************************************************************************)
(* Proofs about TestRun, for any programs, in a simulator that fails at    *)
(* any moment: the verdict counts right, and each step comes closer to it. *)
(***************************************************************************)
EXTENDS TestRun, SequenceTheorems, FiniteSetTheorems, TLAPS

TypeOK ==
    /\ tests \in Seq(Test)
    /\ outcomes \in [DOMAIN tests -> Status]
    /\ printed \in 0 .. Len(tests) + 2
    /\ attempt \in Nat \ {0}
    /\ withTests \in BOOLEAN
    /\ pass \in {"undefined", "true", "false"}
    /\ resultsSeen \in BOOLEAN
    /\ expected \in [errors : Nat, failures : Nat]
    /\ sim \in {"running", "failed", "exited", "over"}

\* The tests whose lines were read, and what the handler looks for in them.
Read == {k \in DOMAIN tests : k < printed}
Errors == {k \in Read : outcomes[k] = "ERROR" /\ ExpectedError(tests[k])}
Failures == {k \in Read : outcomes[k] = "FAIL" /\ ExpectedFailure(tests[k])}
SomePassed == \E k \in Read : outcomes[k] = "PASS" /\ UnexpectedPass(tests[k])

\* The counters count, pass is only settled by a test that should not have
\* passed, and by the summary in the end: while the tests run for the first time,
\* or if none of them is counted.
Reckoned ==
    /\ printed > 0 => resultsSeen
    /\ expected.errors = Cardinality(Errors)
    /\ expected.failures = Cardinality(Failures)
    /\ printed <= Len(tests) + 1 => pass = IF SomePassed THEN "false" ELSE "undefined"
    /\ printed = Len(tests) + 2 => ((pass = "true") <=> AsExpected)

Reckonable == withTests /\ (attempt = 1 \/ NothingToCount)

\* Only an attempt that runs the tests leaves their result open.
IInv == /\ TypeOK
        /\ Reckonable => Reckoned
        /\ withTests \/ pass # "undefined"

-----------------------------------------------------------------------------
LEMMA TestFacts ==
    ASSUME TypeOK
    PROVE  /\ Len(tests) \in Nat /\ DOMAIN tests = 1 .. Len(tests)
           /\ \A k \in DOMAIN tests : tests[k] \in Test /\ outcomes[k] \in Status
           /\ IsFiniteSet(DOMAIN tests) /\ Cardinality(DOMAIN tests) = Len(tests)
<1>1. Len(tests) \in Nat /\ DOMAIN tests = 1 .. Len(tests)
    BY LenProperties DEF TypeOK
<1>2. \A k \in DOMAIN tests : tests[k] \in Test
    BY <1>1, ElementOfSeq DEF TypeOK
<1>3. IsFiniteSet(1 .. Len(tests)) /\ Cardinality(1 .. Len(tests)) = Len(tests)
  <2>1. /\ IsFiniteSet(1 .. Len(tests))
        /\ Cardinality(1 .. Len(tests)) = IF 1 > Len(tests) THEN 0 ELSE Len(tests) - 1 + 1
      BY <1>1, FS_Interval, SMTT(30)
  <2> QED
      BY <1>1, <2>1
<1> QED
    BY <1>1, <1>2, <1>3 DEF TypeOK

LEMMA CountedAreFinite ==
    ASSUME TypeOK
    PROVE  /\ IsFiniteSet(Errors) /\ Cardinality(Errors) \in Nat
           /\ IsFiniteSet(Failures) /\ Cardinality(Failures) \in Nat
<1>1. Errors \in SUBSET (DOMAIN tests) /\ Failures \in SUBSET (DOMAIN tests)
    BY DEF Errors, Failures, Read
<1>2. IsFiniteSet(Errors) /\ IsFiniteSet(Failures)
    BY <1>1, TestFacts, FS_Subset
<1> QED
    BY <1>2, FS_CardinalityType

\* As many of a status as were expected of it are those.
LEMMA SameCount ==
    ASSUME TypeOK, NEW T, NEW status,
           T \subseteq {k \in DOMAIN outcomes : outcomes[k] = status}
    PROVE  Count(status) = Cardinality(T) <=> \A k \in DOMAIN tests : outcomes[k] = status => k \in T
<1> DEFINE S == {k \in DOMAIN outcomes : outcomes[k] = status}
<1>1. DOMAIN outcomes = DOMAIN tests
    BY DEF TypeOK
<1>2. S \in SUBSET (DOMAIN tests) /\ T \in SUBSET S
    BY <1>1
<1>3. IsFiniteSet(S)
    BY <1>2, TestFacts, FS_Subset
<1>4. Cardinality(S) = Cardinality(T) => S = T
    BY <1>2, <1>3, FS_Subset
<1>5. (\A k \in DOMAIN tests : outcomes[k] = status => k \in T) => S = T
    BY <1>1, <1>2
<1>6. S = T => \A k \in DOMAIN tests : outcomes[k] = status => k \in T
    BY <1>1
<1>7. Count(status) = Cardinality(S)
    BY DEF Count
<1> HIDE DEF S
<1> QED
    BY <1>4, <1>5, <1>6, <1>7

-----------------------------------------------------------------------------
LEMMA InitInv == Init => IInv
<1> SUFFICES ASSUME Init PROVE IInv
    OBVIOUS
<1>1. tests \in Seq(Test)
    BY TestRunAssumption DEF Init
<1>2. Len(tests) \in Nat /\ DOMAIN tests = 1 .. Len(tests)
    BY <1>1, LenProperties
<1>3. TypeOK
  <2>1. outcomes \in [DOMAIN tests -> Status] /\ printed \in 0 .. Len(tests) + 2
      BY <1>2 DEF Init
  <2>2. expected \in [errors : Nat, failures : Nat] /\ attempt \in Nat \ {0}
      BY DEF Init
  <2>3. /\ withTests \in BOOLEAN /\ resultsSeen \in BOOLEAN
        /\ pass \in {"undefined", "true", "false"}
      BY DEF Init
  <2> QED
      BY <1>1, <2>1, <2>2, <2>3 DEF Init, TypeOK
<1>4. Read = {} /\ Errors = {} /\ Failures = {} /\ ~SomePassed
    BY <1>2 DEF Init, Read, Errors, Failures, SomePassed
<1>5. ASSUME withTests PROVE Reckoned
  <2>1. Cardinality(Errors) = 0 /\ Cardinality(Failures) = 0
      BY <1>4, FS_EmptySet
  <2> QED
      BY <1>2, <1>4, <1>5, <2>1 DEF Init, Reckoned
<1>6. withTests \/ pass # "undefined"
    BY DEF Init
<1> QED
    BY <1>3, <1>5, <1>6 DEF IInv, Reckonable

\* The line of a test (the handler of driver.ts).
LEMMA TestLineCounts ==
    ASSUME TypeOK, Reckoned, NEW n, n = printed, n \in DOMAIN tests,
           printed' = n + 1, TestLine(tests[n], outcomes[n]),
           UNCHANGED <<tests, outcomes, resultsSeen>>
    PROVE  Reckoned' /\ pass' \in {"undefined", "true", "false"}
           /\ expected' \in [errors : Nat, failures : Nat]
<1>1. /\ Len(tests) \in Nat /\ n \in 1 .. Len(tests) /\ DOMAIN tests = 1 .. Len(tests)
      /\ outcomes[n] \in Status /\ tests[n] \in Test
      /\ expected \in [errors : Nat, failures : Nat]
    BY TestFacts DEF TypeOK
<1>2. Read' = Read \cup {n} /\ n \notin Read
    BY <1>1 DEF Read
<1>3. /\ Errors' = IF outcomes[n] = "ERROR" /\ ExpectedError(tests[n]) THEN Errors \cup {n} ELSE Errors
      /\ Failures' = IF outcomes[n] = "FAIL" /\ ExpectedFailure(tests[n]) THEN Failures \cup {n} ELSE Failures
      /\ SomePassed' <=> SomePassed \/ (outcomes[n] = "PASS" /\ UnexpectedPass(tests[n]))
      /\ n \notin Errors /\ n \notin Failures
    BY <1>2 DEF Errors, Failures, SomePassed, ExpectedError, ExpectedFailure, UnexpectedPass, MayNotPass
<1>4. /\ Cardinality(Errors \cup {n}) = Cardinality(Errors) + 1
      /\ Cardinality(Failures \cup {n}) = Cardinality(Failures) + 1
    BY <1>3, CountedAreFinite, FS_AddElement
<1>5. /\ expected'.errors = IF outcomes[n] = "ERROR" /\ ExpectedError(tests[n])
                            THEN expected.errors + 1 ELSE expected.errors
      /\ expected'.failures = IF outcomes[n] = "FAIL" /\ ExpectedFailure(tests[n])
                              THEN expected.failures + 1 ELSE expected.failures
      /\ expected' \in [errors : Nat, failures : Nat]
    BY <1>1 DEF TestLine
<1>6. expected'.errors = Cardinality(Errors') /\ expected'.failures = Cardinality(Failures')
    BY <1>3, <1>4, <1>5 DEF Reckoned
<1>7. pass' = IF SomePassed' THEN "false" ELSE "undefined"
  <2>1. pass = IF SomePassed THEN "false" ELSE "undefined"
      BY <1>1 DEF Reckoned
  <2>2. pass' = IF outcomes[n] = "PASS" /\ UnexpectedPass(tests[n]) THEN "false" ELSE pass
      BY DEF TestLine
  <2> QED
      BY <1>3, <2>1, <2>2
<1>8. n + 1 # Len(tests) + 2 /\ n > 0 /\ n + 1 > 0
    BY <1>1
<1> QED
    BY <1>5, <1>6, <1>7, <1>8 DEF Reckoned

\* The line of the summary settles what the tests left open, rightly.
LEMMA SummaryIsRight ==
    ASSUME TypeOK, Reckoned, printed = Len(tests) + 1, Summary
    PROVE  pass' \in {"true", "false"} /\ ((pass' = "true") <=> AsExpected)
<1>1. Len(tests) \in Nat /\ \A k \in DOMAIN tests : outcomes[k] \in Status
    BY TestFacts
<1>2. Read = DOMAIN tests
    BY <1>1, TestFacts DEF Read
<1>3. pass = IF SomePassed THEN "false" ELSE "undefined"
    BY DEF Reckoned
<1>4. AsExpected <=>
          /\ ~SomePassed
          /\ \A k \in DOMAIN tests : outcomes[k] = "FAIL" => k \in Failures
          /\ \A k \in DOMAIN tests : outcomes[k] = "ERROR" => k \in Errors
    BY <1>1, <1>2 DEF AsExpected, SomePassed, Failures, Errors, Status
<1>5. /\ Errors \subseteq {k \in DOMAIN outcomes : outcomes[k] = "ERROR"}
      /\ Failures \subseteq {k \in DOMAIN outcomes : outcomes[k] = "FAIL"}
    BY <1>2 DEF Errors, Failures, TypeOK
<1>6. /\ Count("FAIL") = expected.failures <=> \A k \in DOMAIN tests : outcomes[k] = "FAIL" => k \in Failures
      /\ Count("ERROR") = expected.errors <=> \A k \in DOMAIN tests : outcomes[k] = "ERROR" => k \in Errors
    BY <1>5, SameCount DEF Reckoned
<1>7. Count("PASS") = Len(tests) => \A k \in DOMAIN tests : outcomes[k] = "PASS"
  <2> DEFINE S == {k \in DOMAIN outcomes : outcomes[k] = "PASS"}
  <2>1. S \in SUBSET (DOMAIN tests)
      BY DEF TypeOK
  <2>2. Count("PASS") = Cardinality(S)
      BY DEF Count
  <2>3. Cardinality(DOMAIN tests) = Cardinality(S) => DOMAIN tests = S
      BY <2>1, TestFacts, FS_Subset
  <2> QED
      BY <2>2, <2>3, TestFacts
<1>8. pass' = IF pass = "false" THEN "false"
              ELSE IF Count("PASS") = Len(tests) THEN "true"
              ELSE IF Count("FAIL") = expected.failures /\ Count("ERROR") = expected.errors
              THEN "true" ELSE "false"
    BY DEF Summary
<1>9. CASE SomePassed
    BY <1>3, <1>4, <1>8, <1>9
<1>10. CASE ~SomePassed /\ Count("PASS") = Len(tests)
  <2>1. AsExpected
      BY <1>4, <1>7, <1>10
  <2> QED
      BY <1>3, <1>8, <1>10, <2>1
<1>11. CASE ~SomePassed /\ Count("PASS") # Len(tests)
    BY <1>3, <1>4, <1>6, <1>8, <1>11
<1> QED
    BY <1>9, <1>10, <1>11

LEMMA PrintLineKeeps ==
    ASSUME IInv, PrintLine
    PROVE  IInv'
<1>1. TypeOK /\ Len(tests) \in Nat /\ DOMAIN tests = 1 .. Len(tests)
    BY TestFacts DEF IInv
<1>2. /\ printed' = printed + 1 /\ printed' \in 0 .. Len(tests) + 2 /\ printed \in Nat /\ withTests
      /\ UNCHANGED <<tests, outcomes, attempt, withTests, sim>>
    BY <1>1 DEF PrintLine, TypeOK
<1>a. Reckonable' <=> Reckonable
    BY <1>2 DEF Reckonable, NothingToCount, ExpectedError, ExpectedFailure
<1>3. CASE printed = 0 /\ resultsSeen' = TRUE /\ UNCHANGED <<pass, expected>>
  <2>1. Read' = {} /\ Read = {}
      BY <1>1, <1>2, <1>3 DEF Read
  <2>2. Errors' = Errors /\ Failures' = Failures /\ (SomePassed' <=> SomePassed)
      BY <2>1 DEF Errors, Failures, SomePassed
  <2>3. TypeOK'
      BY <1>1, <1>2, <1>3 DEF TypeOK
  <2>4. Reckoned => Reckoned'
      BY <1>1, <1>2, <1>3, <2>2 DEF Reckoned
  <2> QED
      BY <1>2, <1>a, <2>3, <2>4 DEF IInv
<1>4. CASE /\ printed \in DOMAIN tests
           /\ IF resultsSeen THEN TestLine(tests[printed], outcomes[printed])
                             ELSE UNCHANGED <<pass, expected>>
           /\ UNCHANGED resultsSeen
  <2>1. CASE resultsSeen
    <3>1. pass' \in {"undefined", "true", "false"} /\ expected' \in [errors : Nat, failures : Nat]
        BY <1>1, <1>4, <2>1 DEF TestLine, TypeOK
    <3>2. TypeOK'
        BY <1>1, <1>2, <1>4, <3>1 DEF TypeOK
    <3>3. ASSUME Reckoned PROVE Reckoned'
        BY <1>1, <1>2, <1>4, <2>1, <3>3, TestLineCounts
    <3> QED
        BY <1>2, <1>a, <3>2, <3>3 DEF IInv
  <2>2. CASE ~resultsSeen
    <3>1. TypeOK'
        BY <1>1, <1>2, <1>4, <2>2 DEF TypeOK
    <3>2. ~Reckonable
        BY <1>1, <1>2, <1>4, <2>2 DEF IInv, Reckoned
    <3> QED
        BY <1>2, <1>a, <3>1, <3>2 DEF IInv
  <2> QED
      BY <2>1, <2>2
<1>5. CASE printed = Len(tests) + 1 /\ Summary /\ UNCHANGED <<resultsSeen, expected>>
  <2>1. pass' \in {"undefined", "true", "false"}
      BY <1>1, <1>5 DEF Summary, TypeOK
  <2>2. TypeOK'
      BY <1>1, <1>2, <1>5, <2>1 DEF TypeOK
  <2>3. ASSUME Reckoned PROVE Reckoned'
    <3>1. (pass' = "true") <=> AsExpected
        BY <1>1, <1>5, <2>3, SummaryIsRight
    <3>2. Read' = Read
        BY <1>1, <1>2, <1>5 DEF Read
    <3>3. Errors' = Errors /\ Failures' = Failures
        BY <1>2, <3>2 DEF Errors, Failures
    <3>4. AsExpected' <=> AsExpected
        BY <1>2 DEF AsExpected
    <3> QED
        BY <1>1, <1>2, <1>5, <2>3, <3>1, <3>3, <3>4 DEF Reckoned
  <2> QED
      BY <1>2, <1>a, <2>2, <2>3 DEF IInv
<1> QED
    BY <1>3, <1>4, <1>5 DEF PrintLine

\* The tests run again only if their result is open, and where none is counted
\* nothing was yet.
LEMMA RetryReckons ==
    ASSUME IInv, Retry, Reckonable'
    PROVE  Reckoned'
<1>1. /\ TypeOK /\ Len(tests) \in Nat /\ DOMAIN tests = 1 .. Len(tests)
      /\ UNCHANGED <<tests, outcomes, pass, expected>>
      /\ printed' = 0 /\ attempt' # 1 /\ pass = "undefined"
  <2>1. TypeOK /\ Len(tests) \in Nat /\ DOMAIN tests = 1 .. Len(tests)
      BY TestFacts DEF IInv
  <2>2. attempt \in Nat \ {0} /\ attempt' = attempt + 1
      BY <2>1 DEF TypeOK, Retry
  <2>3. pass = "undefined"
      BY DEF Retry, Reckonable
  <2> QED
      BY <2>1, <2>2, <2>3 DEF Retry
<1>2. NothingToCount'
    BY <1>1 DEF Reckonable
<1>3. NothingToCount
    BY <1>1, <1>2 DEF NothingToCount, ExpectedError, ExpectedFailure
<1>4. Reckoned
    BY <1>1, <1>3 DEF IInv, Reckonable
<1>5. Errors = {} /\ Failures = {}
    BY <1>3 DEF NothingToCount, Errors, Failures, Read
<1>6. expected.errors = 0 /\ expected.failures = 0
    BY <1>4, <1>5, FS_EmptySet DEF Reckoned
<1>7. Read' = {}
    BY <1>1 DEF Read
<1>8. Errors' = {} /\ Failures' = {} /\ ~SomePassed'
    BY <1>7 DEF Errors, Failures, SomePassed
<1>9. Cardinality(Errors') = 0 /\ Cardinality(Failures') = 0
    BY <1>8, FS_EmptySet
<1> QED
    BY <1>1, <1>6, <1>8, <1>9 DEF Reckoned

LEMMA NextInv == IInv /\ [Next]_vars => IInv'
<1> SUFFICES ASSUME IInv, [Next]_vars PROVE IInv'
    OBVIOUS
<1>1. CASE PrintLine
    BY <1>1, PrintLineKeeps
<1>2. CASE /\ UNCHANGED <<tests, outcomes, printed, attempt, withTests, pass, resultsSeen, expected>>
           /\ sim' \in {"running", "failed", "exited", "over"}
  <2>1. TypeOK'
      BY <1>2 DEF IInv, TypeOK
  <2>2. Reckoned => Reckoned'
      BY <1>2 DEF Reckoned, Errors, Failures, SomePassed, Read, AsExpected
  <2>3. Reckonable' <=> Reckonable
      BY <1>2 DEF Reckonable, NothingToCount, ExpectedError, ExpectedFailure
  <2> QED
      BY <1>2, <2>1, <2>2, <2>3 DEF IInv
<1>3. CASE Retry
  <2>1. TypeOK'
    <3>1. TypeOK /\ Len(tests) \in Nat /\ attempt + 1 \in Nat \ {0}
        BY TestFacts DEF IInv, TypeOK
    <3> QED
        BY <1>3, <3>1 DEF Retry, TypeOK
  <2>2. withTests' \/ pass' # "undefined"
      BY <1>3 DEF Retry
  <2>3. ASSUME Reckonable' PROVE Reckoned'
      BY <1>3, <2>3, RetryReckons
  <2> QED
      BY <2>1, <2>2, <2>3 DEF IInv
<1>4. CASE Exit \/ SimFails \/ Verdict
    BY <1>2, <1>4 DEF Exit, SimFails, Verdict
<1>5. CASE UNCHANGED vars
  <2>1. sim \in {"running", "failed", "exited", "over"}
      BY DEF IInv, TypeOK
  <2> QED
      BY <1>2, <1>5, <2>1 DEF vars
<1> QED
    BY <1>1, <1>3, <1>4, <1>5 DEF Next

\* What the handler of the simulator's lines (runOne of driver.ts) has counted
\* while the tests run for the first time, or if none of them is counted.
THEOREM Invariance == Spec => []IInv
<1>1. Init => IInv
    BY InitInv
<1>2. IInv /\ [Next]_vars => IInv'
    BY NextInv
<1> QED
    BY <1>1, <1>2, PTL DEF Spec

\* Whatever tests a program has, the verdict on a first attempt whose tests ran
\* to the end is "passed" when each test did what its name promises, and only
\* then: counting the failures and the errors is enough.  So is the verdict of
\* any attempt if no test failed, or crashed, as its name promises.
THEOREM CountsAreEnough == Spec => []VerdictIsRight
<1>1. IInv => VerdictIsRight
  <2> SUFFICES ASSUME IInv, Complete, attempt = 1 \/ NothingToCount PROVE (pass = "true") <=> AsExpected
      BY DEF VerdictIsRight
  <2> QED
      BY DEF IInv, Complete, Reckonable, Reckoned
<1> QED
    BY <1>1, Invariance, PTL

-----------------------------------------------------------------------------
(* A verdict comes near.                                                   *)

\* What the simulator has to go through in an attempt.
StagesLeft == [s \in {"running", "failed", "exited", "over"} |->
                  CASE s = "running" -> 2 [] s = "over" -> 0 [] OTHER -> 1]
LinesLeft == Len(tests) + 2 - printed
GetsOn ==
    \/ attempt < attempt' /\ attempt' <= Attempts
    \/ attempt' = attempt /\ StagesLeft[sim'] < StagesLeft[sim] /\ StagesLeft[sim'] \in Nat
    \/ attempt' = attempt /\ sim' = sim /\ LinesLeft' < LinesLeft /\ LinesLeft' \in Nat

\* Every step of a run comes closer to its verdict: a new attempt, of three; or,
\* in the same one, the simulator comes to its end; or one line less is to be
\* printed.  The simulator may fail whenever it likes (runOne, src/driver.ts).
THEOREM AttemptsRunOut == Spec => [][GetsOn]_vars
<1>1. ASSUME TypeOK, TypeOK', Next PROVE GetsOn
  <2> USE <1>1
  <2>1. Len(tests) \in Nat /\ printed \in 0 .. Len(tests) + 2 /\ attempt \in Nat
      BY LenProperties DEF TypeOK
  <2>2. StagesLeft["running"] = 2 /\ StagesLeft["failed"] = 1
        /\ StagesLeft["exited"] = 1 /\ StagesLeft["over"] = 0
      BY DEF StagesLeft
  <2>3. CASE PrintLine
    <3>1. attempt' = attempt /\ sim' = sim /\ tests' = tests /\ printed' = printed + 1
          /\ printed < Len(tests) + 2
        BY <2>3 DEF PrintLine
    <3>2. LinesLeft' = Len(tests) + 2 - (printed + 1)
        BY <3>1 DEF LinesLeft
    <3>3. LinesLeft' \in Nat /\ LinesLeft' < LinesLeft
        BY <2>1, <3>1, <3>2 DEF LinesLeft
    <3> QED
        BY <3>1, <3>3 DEF GetsOn
  <2>4. CASE Exit \/ SimFails
    <3>1. attempt' = attempt /\ sim = "running" /\ sim' \in {"failed", "exited"}
        BY <2>4 DEF Exit, SimFails
    <3> QED
        BY <2>2, <3>1 DEF GetsOn
  <2>5. CASE Retry
    <3>1. attempt < Attempts /\ attempt' = attempt + 1
        BY <2>5 DEF Retry
    <3> QED
        BY <2>1, <3>1 DEF GetsOn, Attempts
  <2>6. CASE Verdict
    <3>1. attempt' = attempt /\ sim \in {"failed", "exited"} /\ sim' = "over"
        BY <2>6 DEF Verdict
    <3> QED
        BY <2>2, <3>1 DEF GetsOn
  <2> QED
      BY <2>3, <2>4, <2>5, <2>6 DEF Next
<1>2. IInv /\ IInv' /\ [Next]_vars => [GetsOn]_vars
    BY <1>1 DEF IInv
<1> QED
    BY <1>2, Invariance, PTL DEF Spec
=============================================================================
