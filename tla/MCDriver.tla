------------------------------ MODULE MCDriver ------------------------------
EXTENDS Driver

Project(products, configs, simulates, mayFail) ==
    [products |-> products, configs |-> configs, simulates |-> simulates,
     exports |-> FALSE, mayFail |-> mayFail]
Export(configs, mayFail) ==
    [products |-> 1, configs |-> configs, simulates |-> FALSE,
     exports |-> TRUE, mayFail |-> mayFail]

Job(parallelism, jungles) ==
    [jungles |-> jungles, parallelism |-> parallelism, profile |-> FALSE]

MCJobs == {
    \* Tests of two jungles for two products each, and of a third, two at a time;
    Job(2, <<Project(2, 1, TRUE, TRUE), Project(2, 2, TRUE, TRUE), Project(1, 1, TRUE, TRUE)>>),
    \* exports and tests, one at a time, where every step starts the pool it needs.
    Job(1, <<Export(2, TRUE), Project(2, 2, TRUE, TRUE), Export(2, TRUE), Export(1, TRUE)>>)}

\* Two exports at a time.
MCExports == {Job(2, <<Export(1, FALSE), Export(1, FALSE)>>)}
=============================================================================
