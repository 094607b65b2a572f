------------------------------ MODULE TestRun -------------------------------
(***************************************************************************)
(* The driver (src/driver.ts, runOne) runs the tests of a program in the   *)
(* simulator, reads what it prints line by line, and tries again when the  *)
(* simulator itself fails.  A test may be expected to fail or to crash, by *)
(* its name; the run passes when everything else does.                     *)
(*                                                                         *)
(* A Test has a kind, whether the versions in its name include this        *)
(* compiler (applies), whether there are such versions (versioned), and a  *)
(* mark (the end of its name).                                             *)
(***************************************************************************)
EXTENDS Naturals, Sequences, FiniteSets

CONSTANTS
    Programs,          \* the sequences of tests a program may have
    UsesCompiler2,     \* usesCompiler2
    SkipOptimization,  \* options.skipOptimization
    SimFailures        \* bound: how often the simulator may fail

Attempts == 3

Test == [kind : {"plain", "fail", "crash", "compiler2"}, applies : BOOLEAN,
         versioned : BOOLEAN, mark : {"", "U", "X"}]

ASSUME TestRunAssumption ==
    /\ Programs \subseteq Seq(Test)
    /\ {UsesCompiler2, SkipOptimization} \subseteq BOOLEAN
    /\ SimFailures \in 0 .. Attempts

VARIABLES
    tests,       \* the tests of the program
    outcomes,    \* how each of them ends
    printed,     \* how many lines of results were printed in this attempt
    attempt,     \* the number of this attempt, from 1
    withTests,   \* this attempt was told to run the tests
    pass,        \* pass: "undefined", "true" or "false"
    resultsSeen, \* resultsSeen
    expected,    \* expectedErrors and expectedFailures
    sim          \* "running", "failed", "exited" or "over"

vars == <<tests, outcomes, printed, attempt, withTests, pass, resultsSeen, expected, sim>>

Status == {"PASS", "FAIL", "ERROR"}

Init ==
    /\ tests \in Programs
    /\ outcomes \in [DOMAIN tests -> Status]
    /\ printed = 0
    /\ attempt = 1
    /\ withTests \in BOOLEAN  \* or a program is only executed
    /\ pass = IF withTests THEN "undefined" ELSE "true"
    /\ resultsSeen = FALSE
    /\ expected = [errors |-> 0, failures |-> 0]
    /\ sim = "running"

-----------------------------------------------------------------------------
(* The lines of the simulator.                                             *)

\* A test that should not have passed; not for the marks that allow it.
MayNotPass(t) == t.mark # "X" /\ (t.mark = "" \/ SkipOptimization)
UnexpectedPass(t) ==
    /\ t.applies /\ MayNotPass(t)
    /\ t.kind = "fail" \/ (t.kind = "crash" /\ t.versioned)

ExpectedError(t) ==
    \/ t.kind = "compiler2" /\ UsesCompiler2
    \/ t.kind = "crash" /\ t.applies
ExpectedFailure(t) == t.kind = "fail" /\ t.applies

\* Mutant: an expected error is one, whatever the test did.
TestLineAnyhow(t, status) ==
    /\ expected' = IF ExpectedError(t) THEN [expected EXCEPT !.errors = @ + 1]
                   ELSE IF ExpectedFailure(t) THEN [expected EXCEPT !.failures = @ + 1]
                   ELSE expected
    /\ UNCHANGED pass
TestLine(t, status) ==
    /\ expected' = IF status = "ERROR" /\ ExpectedError(t)
                   THEN [expected EXCEPT !.errors = @ + 1]
                   ELSE IF status = "FAIL" /\ ExpectedFailure(t)
                   THEN [expected EXCEPT !.failures = @ + 1]
                   ELSE expected
    /\ pass' = IF status = "PASS" /\ UnexpectedPass(t) THEN "false" ELSE pass

Count(status) == Cardinality({i \in DOMAIN outcomes : outcomes[i] = status})

\* The summary: PASSED, or FAILED with the counts of failures and errors.
\* Mutant: a summary replaces whatever was found before it.
SummaryAnew ==
    pass' = IF Count("PASS") = Len(tests) THEN "true"
            ELSE IF Count("FAIL") = expected.failures /\ Count("ERROR") = expected.errors
            THEN "true" ELSE "false"
Summary ==
    pass' = IF pass = "false" THEN "false"
            ELSE IF Count("PASS") = Len(tests) THEN "true"
            ELSE IF Count("FAIL") = expected.failures /\ Count("ERROR") = expected.errors
            THEN "true" ELSE "false"

\* RESULTS, a line for each test, the summary.
PrintLine ==
    /\ sim = "running" /\ withTests /\ printed < Len(tests) + 2
    /\ \/ /\ printed = 0
          /\ resultsSeen' = TRUE
          /\ UNCHANGED <<pass, expected>>
       \/ /\ printed \in DOMAIN tests
          /\ IF resultsSeen THEN TestLine(tests[printed], outcomes[printed])
                            ELSE UNCHANGED <<pass, expected>>
          /\ UNCHANGED resultsSeen
       \/ /\ printed = Len(tests) + 1
          /\ Summary
          /\ UNCHANGED <<resultsSeen, expected>>
    /\ printed' = printed + 1
    /\ UNCHANGED <<tests, outcomes, attempt, withTests, sim>>

\* monkeydo exits, with 0 or (for trySim the same) with 1.
Exit ==
    /\ sim = "running"
    /\ withTests => printed = Len(tests) + 2
    /\ sim' = "exited"
    /\ UNCHANGED <<tests, outcomes, printed, attempt, withTests, pass, resultsSeen, expected>>

\* It fails otherwise, or cannot be started, at any moment.
SimFails ==
    /\ sim = "running"
    /\ attempt <= SimFailures
    /\ sim' = "failed"
    /\ UNCHANGED <<tests, outcomes, printed, attempt, withTests, pass, resultsSeen, expected>>

\* The next attempt runs the tests only if nothing is known of their result.
\* (They end as they did before.)
Retry ==
    /\ sim = "failed" /\ attempt < Attempts
    /\ attempt' = attempt + 1
    /\ withTests' = (pass = "undefined")
    /\ printed' = 0
    /\ sim' = "running"
    /\ UNCHANGED <<tests, outcomes, pass, resultsSeen, expected>>

\* Mutant: a third failure is not caught.
VerdictIfExited ==
    /\ sim = "exited"
    /\ sim' = "over"
    /\ UNCHANGED <<tests, outcomes, printed, attempt, withTests, pass, resultsSeen, expected>>
\* "Tests failed!", "Tests didn't report their status!", or nothing.
Verdict ==
    /\ sim = "exited" \/ (sim = "failed" /\ attempt = Attempts)
    /\ sim' = "over"
    /\ UNCHANGED <<tests, outcomes, printed, attempt, withTests, pass, resultsSeen, expected>>

Next == PrintLine \/ Exit \/ SimFails \/ Retry \/ Verdict
Spec == Init /\ [][Next]_vars /\ WF_vars(Next)

-----------------------------------------------------------------------------
(* Properties.                                                             *)

\* Every test did what its name promises.
AsExpected ==
    \A i \in DOMAIN tests :
        CASE outcomes[i] = "PASS" -> ~UnexpectedPass(tests[i])
          [] outcomes[i] = "FAIL" -> ExpectedFailure(tests[i])
          [] outcomes[i] = "ERROR" -> ExpectedError(tests[i])

\* The tests ran to the end.
Complete == sim = "over" /\ withTests /\ printed = Len(tests) + 2

\* No test failed, or crashed, as its name promises.
NothingToCount ==
    \A i \in DOMAIN tests : /\ outcomes[i] = "ERROR" => ~ExpectedError(tests[i])
                            /\ outcomes[i] = "FAIL" => ~ExpectedFailure(tests[i])

\* The verdict on a program whose tests ran to the end is the one they deserve:
\* neither can a test that passed against its name be outweighed by the counts
\* of the summary (lines 797-801), nor can failures nobody expected cancel out
\* against expected ones that did not happen, nor does it matter that an earlier
\* attempt was cut off at any of its lines.  But what was counted then is counted
\* again, so this is of a first attempt, or of tests of which none is counted.
VerdictIsRight ==
    Complete /\ (attempt = 1 \/ NothingToCount) => ((pass = "true") <=> AsExpected)

\* Whatever the simulator does, a verdict is reached, so that the next program
\* gets the simulator.
IsJudged == <>(sim = "over")
=============================================================================
