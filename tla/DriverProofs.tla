----------------------------- MODULE DriverProofs -----------------------------
(***************************************************************************)
(* Proofs about Driver, for any jobs: what is built, that one program at a *)
(* time runs in the simulator, and, where jobs do not stop each other's    *)
(* pool, that nobody waits for one that was stopped, nobody is stuck, and  *)
(* what is left to do becomes less with every step.                        *)
(***************************************************************************)
EXTENDS Driver, SequenceFacts, FiniteSetTheorems, TLAPS

Stage == {"none", "generate", "generating", "configure", "compile", "optimize", "unpack",
          "optimizing", "ask", "waiting", "simulating", "done"}

TypeOK ==
    /\ call \in Jobs
    /\ i \in Nat
    /\ slots \in [1 .. call.parallelism -> Units \cup {Idle, Ended}]
    /\ stage \in [Units -> Stage]
    /\ after \in [Units -> Units \cup {NoUnit}]
    /\ lastSim \in Units \cup {NoUnit}
    /\ over \in BOOLEAN

\* A chain of promiseAll has a jungle of its own; of that jungle, the products
\* before the one it works on are done and those behind it untouched.
OwnJungle ==
    /\ \A s, t \in DOMAIN slots :
          slots[s] \in Units /\ slots[t] \in Units /\ slots[s][1] = slots[t][1] => s = t
    /\ \A s \in DOMAIN slots :
          slots[s] \in Units =>
              /\ slots[s][1] <= i
              /\ stage[slots[s]] # "none"
              /\ \A u \in Units : u[1] = slots[s][1] =>
                    /\ u[2] < slots[s][2] => stage[u] = "done"
                    /\ u[2] > slots[s][2] => stage[u] = "none"

\* Jungles up to i are done or being built, the others untouched, and a chain
\* ends when there are no others.
TakenInOrder ==
    /\ \A u \in Units : u[1] > i => stage[u] = "none"
    /\ \A u \in Units :
          u[1] <= i => \/ stage[u] = "done"
                       \/ \E s \in DOMAIN slots : slots[s] \in Units /\ slots[s][1] = u[1]
    /\ \A s \in DOMAIN slots : slots[s] = Ended => i >= Len(Jungles)
    /\ over => \A s \in DOMAIN slots : slots[s] = Ended

\* Who is first of the runs waits for none that is not over.
FirstMayRun(q) == q # <<>> /\ stage[q[1]] = "waiting" => AfterAnyRun(q[1])

\* The runs that are not over form a queue, in the order they asked: each waits
\* for the one before it, and the next will wait for the last.
Queue(q) ==
    /\ \A m, n \in 1 .. Len(q) : q[m] = q[n] => m = n
    /\ \A u \in Units :
          stage[u] \in {"waiting", "simulating"} <=> \E n \in 1 .. Len(q) : q[n] = u
    /\ \A n \in 1 .. Len(q) : n > 1 => after[q[n]] = q[n - 1] /\ stage[q[n]] = "waiting"
    /\ IF q = <<>> THEN lastSim # NoUnit => stage[lastSim] = "done"
                   ELSE lastSim = q[Len(q)]
    /\ FirstMayRun(q)
RunsQueue == \E q \in Seq(Units) : Queue(q)

IInv == TypeOK /\ OwnJungle /\ TakenInOrder /\ RunsQueue

-----------------------------------------------------------------------------
(* Units.                                                                  *)

LEMMA JobFacts ==
    ASSUME call \in Jobs
    PROVE  /\ Len(Jungles) \in Nat
           /\ DOMAIN Jungles = 1 .. Len(Jungles)
           /\ \A j \in 1 .. Len(Jungles) : Jungles[j].products \in Nat \ {0}
           /\ call.parallelism \in Nat \ {0}
<1>1. Jungles \in Seq(Jungle) /\ call.parallelism \in Nat \ {0}
    BY DriverAssumption DEF Jungles
<1>2. \A j \in 1 .. Len(Jungles) : Jungles[j] \in Jungle
    BY <1>1, ElementOfSeq
<1>3. Len(Jungles) \in Nat /\ DOMAIN Jungles = 1 .. Len(Jungles)
    BY <1>1, LenProperties
<1> QED
    BY <1>1, <1>2, <1>3 DEF Jungle

\* A unit is a jungle and one of its products.
LEMMA UnitFacts ==
    ASSUME call \in Jobs
    PROVE  /\ \A u \in Units : /\ u = <<u[1], u[2]>>
                               /\ u[1] \in 1 .. Len(Jungles)
                               /\ u[2] \in 1 .. J(u).products
           /\ \A j \in 1 .. Len(Jungles) : \A k \in 1 .. Jungles[j].products : <<j, k>> \in Units
           /\ \A u, v \in Units : u[1] = v[1] /\ u[2] = v[2] => u = v
<1>1. \A u \in Units : \E j \in 1 .. Len(Jungles) : \E k \in 1 .. Jungles[j].products : u = <<j, k>>
    BY JobFacts DEF Units, UnitsOf, Jungles
<1>2. ASSUME NEW j \in 1 .. Len(Jungles), NEW k \in 1 .. Jungles[j].products
      PROVE  <<j, k>> \in Units
  <2>1. j \in DOMAIN call.jungles /\ k \in 1 .. call.jungles[j].products
      BY <1>2, JobFacts DEF Jungles
  <2> QED
      BY <2>1 DEF Units, UnitsOf
<1>3. ASSUME NEW u \in Units
      PROVE  u = <<u[1], u[2]>> /\ u[1] \in 1 .. Len(Jungles) /\ u[2] \in 1 .. J(u).products
  <2>1. PICK j \in 1 .. Len(Jungles) : \E k \in 1 .. Jungles[j].products : u = <<j, k>>
      BY <1>1
  <2>2. PICK k \in 1 .. Jungles[j].products : u = <<j, k>>
      BY <2>1
  <2>3. u[1] = j /\ u[2] = k
      BY <2>2
  <2> QED
      BY <2>2, <2>3 DEF J
<1>4. ASSUME NEW u \in Units, NEW v \in Units, u[1] = v[1], u[2] = v[2] PROVE u = v
    BY <1>3, <1>4
<1> QED
    BY <1>2, <1>3, <1>4

LEMMA NoUnits ==
    ASSUME call \in Jobs
    PROVE  Idle \notin Units /\ Ended \notin Units /\ NoUnit \notin Units /\ Idle # Ended
<1>1. Idle # Ended
    BY DEF Idle, Ended
<1>2. \A u \in Units : u = <<u[1], u[2]>>
    BY UnitFacts
<1>3. \A a, b, c : <<a, b>> # <<c>> /\ <<a, b>> # <<>>
    OBVIOUS
<1> QED
    BY <1>1, <1>2, <1>3 DEF Idle, Ended, NoUnit

\* Which names what a step of a build leaves alone, and what it does.
BuildStep(u) ==
    /\ call' = call /\ i' = i /\ slots' = slots /\ over' = over
    /\ stage[u] \notin {"none", "done"}
    /\ \E x \in Stage : x # "none" /\ stage' = [stage EXCEPT ![u] = x]

-----------------------------------------------------------------------------
(* Types.                                                                  *)

LEMMA InitTyped == Init => TypeOK
<1> SUFFICES ASSUME Init PROVE TypeOK
    OBVIOUS
<1>1. 0 \in Nat /\ "none" \in Stage
    BY DEF Stage
<1> QED
    BY <1>1 DEF Init, TypeOK

\* What the other actions leave alone.
LEMMA StepKinds ==
    ASSUME TypeOK, NEW u \in Units, Step(u)
    PROVE  /\ BuildStep(u)
           /\ \/ /\ after' = after /\ lastSim' = lastSim
                 /\ \/ stage[u] \notin {"waiting", "simulating"}
                       /\ stage' = [stage EXCEPT ![u] = stage'[u]]
                       /\ stage'[u] \notin {"waiting", "simulating"}
                    \/ Simulate(u)
                    \/ stage[u] = "simulating" /\ stage' = [stage EXCEPT ![u] = "done"]
              \/ AskSimulator(u)
<1> USE DEF buildVars, taskVars, poolVars, simVars, Goto, Fail, Stage, BuildStep, TypeOK
<1>1. CASE Generate(u)
    BY <1>1 DEF Generate
<1>2. CASE Configure(u)
    BY <1>2 DEF Configure
<1>3. CASE Generated(u)
    BY <1>3 DEF Generated
<1>4. CASE Compile(u)
    BY <1>4 DEF Compile
<1>5. CASE OptimizePackage(u)
    BY <1>5 DEF OptimizePackage
<1>6. CASE Unpack(u)
    BY <1>6 DEF Unpack
<1>7. CASE Optimized(u)
    BY <1>7 DEF Optimized
<1>8. CASE AskSimulator(u)
    BY <1>8 DEF AskSimulator, Ask
<1>9. CASE Simulate(u)
    BY <1>9 DEF Simulate
<1>10. CASE Simulated(u)
    BY <1>10 DEF Simulated
<1> QED
    BY <1>1, <1>2, <1>3, <1>4, <1>5, <1>6, <1>7, <1>8, <1>9, <1>10 DEF Step

\* The products are taken in turn: the next one of a jungle is one of its units.
LEMMA NextUnit ==
    ASSUME TypeOK
    PROVE  /\ i < Len(Jungles) => <<i + 1, 1>> \in Units
           /\ \A u \in Units : u[2] < J(u).products => <<u[1], u[2] + 1>> \in Units
<1>1. /\ Len(Jungles) \in Nat /\ i \in Nat
      /\ \A j \in 1 .. Len(Jungles) : Jungles[j].products \in Nat \ {0}
      /\ \A j \in 1 .. Len(Jungles) : \A k \in 1 .. Jungles[j].products : <<j, k>> \in Units
      /\ \A u \in Units : u[1] \in 1 .. Len(Jungles) /\ u[2] \in 1 .. J(u).products
    BY JobFacts, UnitFacts DEF TypeOK
<1>2. i < Len(Jungles) => i + 1 \in 1 .. Len(Jungles) /\ 1 \in 1 .. Jungles[i + 1].products
  <2> SUFFICES ASSUME i < Len(Jungles)
               PROVE  i + 1 \in 1 .. Len(Jungles) /\ 1 \in 1 .. Jungles[i + 1].products
      OBVIOUS
  <2>1. i + 1 \in 1 .. Len(Jungles)
      BY <1>1
  <2>2. Jungles[i + 1].products \in Nat \ {0}
      BY <1>1, <2>1
  <2> QED
      BY <2>1, <2>2
<1>3. \A u \in Units : u[2] < J(u).products => u[2] + 1 \in 1 .. Jungles[u[1]].products
    BY <1>1 DEF J
<1> QED
    BY <1>1, <1>2, <1>3

LEMMA NextTyped == TypeOK /\ [Next]_vars => TypeOK'
<1> SUFFICES ASSUME TypeOK, [Next]_vars PROVE TypeOK'
    OBVIOUS
<1>1. ASSUME call' = call PROVE Units' = Units /\ Jungles' = Jungles
    BY <1>1 DEF Units, UnitsOf, Jungles
<1>2. ASSUME NEW s \in DOMAIN slots, TakeJungle(s) PROVE TypeOK'
  <2>1. call' = call /\ Units' = Units
      BY <1>1, <1>2 DEF TakeJungle
  <2>2. i' \in Nat
      BY <1>2 DEF TakeJungle, Advance, TypeOK
  <2>3. slots' \in [1 .. call.parallelism -> Units \cup {Idle, Ended}] /\ stage' \in [Units -> Stage]
    <3>1. CASE i < Len(Jungles)
        BY <1>2, <3>1, NextUnit DEF TakeJungle, Goto, TypeOK, Stage
    <3>2. CASE ~(i < Len(Jungles))
        BY <1>2, <3>2 DEF TakeJungle, TypeOK
    <3> QED
        BY <3>1, <3>2
  <2> QED
      BY <1>2, <2>1, <2>2, <2>3 DEF TakeJungle, TypeOK, simVars
<1>3. ASSUME NEW s \in DOMAIN slots, GoOn(s) PROVE TypeOK'
  <2>1. call' = call /\ Units' = Units
      BY <1>1, <1>3 DEF GoOn
  <2>2. slots' \in [1 .. call.parallelism -> Units \cup {Idle, Ended}] /\ stage' \in [Units -> Stage]
    <3>1. CASE NextProduct(s)
        BY <1>3, <3>1, NextUnit DEF GoOn, NextProduct, Goto, TypeOK, Stage
    <3>2. CASE ~NextProduct(s)
        BY <1>3, <3>2 DEF GoOn, TypeOK
    <3> QED
        BY <3>1, <3>2
  <2> QED
      BY <1>3, <2>1, <2>2 DEF GoOn, TypeOK, simVars
<1>4. ASSUME NEW u \in Units, Step(u) PROVE TypeOK'
  <2>1. BuildStep(u)
      BY <1>4, StepKinds
  <2>2. call' = call /\ Units' = Units
      BY <1>1, <2>1 DEF BuildStep
  <2>3. after' \in [Units -> Units \cup {NoUnit}] /\ lastSim' \in Units \cup {NoUnit}
      BY <1>4, StepKinds DEF AskSimulator, Ask, Simulate, simVars, TypeOK
  <2> QED
      BY <2>1, <2>2, <2>3 DEF BuildStep, TypeOK
<1>5. ASSUME NEW t \in tasks, Settle(t) PROVE TypeOK'
    BY <1>1, <1>5 DEF Settle, buildVars, simVars, TypeOK
<1>6. CASE Finish
    BY <1>1, <1>6 DEF Finish, simVars, TypeOK
<1>7. CASE UNCHANGED vars
    BY <1>1, <1>7 DEF vars, TypeOK
<1> QED
    BY <1>2, <1>3, <1>4, <1>5, <1>6, <1>7 DEF Next

-----------------------------------------------------------------------------
(* Jungles and products in turn.                                           *)

Progress == OwnJungle /\ TakenInOrder

\* A step of a build is one of the unit some chain works on.
LEMMA BuildStepProgresses ==
    ASSUME TypeOK, Progress, NEW u \in Units, BuildStep(u)
    PROVE  Progress'
<1>1. Units' = Units /\ Jungles' = Jungles
    BY DEF BuildStep, Units, UnitsOf, Jungles
<1>3. \A v \in Units : v[1] \in Int /\ v[2] \in Int
    BY UnitFacts DEF TypeOK
<1>2. PICK s \in DOMAIN slots : slots[s] \in Units /\ slots[s][1] = u[1]
  <2>1. stage[u] \notin {"none", "done"} /\ i \in Int /\ u[1] \in Int
      BY <1>3 DEF BuildStep, TypeOK
  <2> QED
      BY <2>1 DEF Progress, TakenInOrder
<1>4. slots[s] = u
    BY <1>2, <1>3, UnitFacts DEF BuildStep, Progress, OwnJungle, TypeOK
<1>5. PICK x \in Stage : x # "none" /\ stage' = [stage EXCEPT ![u] = x]
    BY DEF BuildStep
<1>6. \A v \in Units : stage'[v] = IF v = u THEN x ELSE stage[v]
    BY <1>5 DEF TypeOK
<1>7. stage[u] # "none" /\ stage[u] # "done" /\ slots' = slots /\ i' = i /\ over' = over
    BY DEF BuildStep
<1>8. OwnJungle'
  <2>1. ASSUME NEW t \in DOMAIN slots, slots[t] \in Units
        PROVE  /\ slots[t][1] <= i
               /\ stage'[slots[t]] # "none"
               /\ \A v \in Units : v[1] = slots[t][1] =>
                     /\ v[2] < slots[t][2] => stage'[v] = "done"
                     /\ v[2] > slots[t][2] => stage'[v] = "none"
    <3>1. slots[t][1] <= i /\ stage'[slots[t]] # "none"
        BY <1>5, <1>6, <2>1 DEF Progress, OwnJungle
    <3>2. ASSUME NEW v \in Units, v[1] = slots[t][1]
          PROVE  /\ v[2] < slots[t][2] => stage'[v] = "done"
                 /\ v[2] > slots[t][2] => stage'[v] = "none"
      <4>1. CASE v = u
        <5>1. s = t
            BY <1>2, <2>1, <3>2, <4>1 DEF Progress, OwnJungle
        <5> QED
            BY <1>3, <1>4, <4>1, <5>1
      <4>2. CASE v # u
          BY <1>6, <2>1, <3>2, <4>2 DEF Progress, OwnJungle
      <4> QED
          BY <4>1, <4>2
    <3> QED
        BY <3>1, <3>2
  <2> QED
      BY <1>1, <1>7, <2>1 DEF Progress, OwnJungle
<1>9. TakenInOrder'
  <2>1. u[1] <= i
      BY <1>4, <1>2 DEF Progress, OwnJungle
  <2>2. \A v \in Units : v[1] > i => stage'[v] = "none"
      BY <1>3, <1>6, <2>1 DEF Progress, TakenInOrder, TypeOK
  <2>3. \A v \in Units :
          v[1] <= i => \/ stage'[v] = "done"
                       \/ \E t \in DOMAIN slots : slots[t] \in Units /\ slots[t][1] = v[1]
      BY <1>2, <1>6 DEF Progress, TakenInOrder
  <2> QED
      BY <1>1, <1>7, <2>2, <2>3 DEF Progress, TakenInOrder
<1> QED
    BY <1>8, <1>9 DEF Progress

\* A chain takes the next jungle, or ends.
LEMMA TakeProgresses ==
    ASSUME TypeOK, Progress, NEW s \in DOMAIN slots, TakeJungle(s)
    PROVE  Progress'
<1>1. Units' = Units /\ Jungles' = Jungles /\ over' = over
    BY DEF TakeJungle, Units, UnitsOf, Jungles
<1>2. /\ \A v \in Units : v[1] \in 1 .. Len(Jungles) /\ v[2] \in 1 .. J(v).products
      /\ Len(Jungles) \in Nat /\ i \in Nat
      /\ Idle \notin Units /\ Ended \notin Units /\ Idle # Ended
      /\ DOMAIN slots' = DOMAIN slots
    BY UnitFacts, JobFacts, NoUnits DEF TypeOK, TakeJungle
<1>3. slots[s] = Idle /\ i' = i + 1
    BY DEF TakeJungle, Advance
<1>4. ~over
    BY <1>2, <1>3 DEF Progress, TakenInOrder
<1>5. \A v \in Units : J(v).products \in Nat
    BY <1>2, JobFacts DEF J, TypeOK
<1>6. CASE i < Len(Jungles)
  <2> DEFINE w == <<i + 1, 1>>
  <2>1. w \in Units /\ w[1] = i + 1 /\ w[2] = 1
      BY <1>6, NextUnit
  <2> HIDE DEF w
  <2>2. slots' = [slots EXCEPT ![s] = w] /\ stage' = [stage EXCEPT ![w] = "generate"]
      BY <1>6 DEF TakeJungle, Goto, w
  <2>3. /\ \A t \in DOMAIN slots : slots'[t] = IF t = s THEN w ELSE slots[t]
        /\ \A v \in Units : stage'[v] = IF v = w THEN "generate" ELSE stage[v]
      BY <2>2 DEF TypeOK
  <2>4. ASSUME NEW t \in DOMAIN slots, slots[t] \in Units
        PROVE  t # s /\ slots'[t] = slots[t] /\ slots[t][1] <= i
      BY <1>2, <1>3, <2>3, <2>4 DEF Progress, OwnJungle
  <2>5. \A v \in Units : v[1] > i => stage[v] = "none"
      BY DEF Progress, TakenInOrder
  <2>6. OwnJungle'
    <3>1. \A t, r \in DOMAIN slots :
            slots'[t] \in Units /\ slots'[r] \in Units /\ slots'[t][1] = slots'[r][1] => t = r
        BY <1>2, <2>1, <2>3, <2>4 DEF Progress, OwnJungle
    <3>2. ASSUME NEW t \in DOMAIN slots, slots'[t] \in Units
          PROVE  /\ slots'[t][1] <= i'
                 /\ stage'[slots'[t]] # "none"
                 /\ \A v \in Units : v[1] = slots'[t][1] =>
                       /\ v[2] < slots'[t][2] => stage'[v] = "done"
                       /\ v[2] > slots'[t][2] => stage'[v] = "none"
      <4>1. CASE t = s
        <5>1. slots'[t] = w /\ stage'[w] = "generate"
            BY <2>1, <2>3, <4>1
        <5>2. ASSUME NEW v \in Units, v[1] = i + 1
              PROVE  ~(v[2] < 1) /\ (v[2] > 1 => stage'[v] = "none")
          <6>1. v[2] \in Nat \ {0} /\ stage[v] = "none"
              BY <1>2, <1>5, <2>5, <5>2
          <6> QED
              BY <2>1, <2>3, <6>1
        <5> QED
            BY <1>2, <1>3, <2>1, <5>1, <5>2
      <4>2. CASE t # s
        <5>1. slots'[t] = slots[t] /\ slots[t] \in Units /\ slots[t][1] <= i
            BY <2>3, <2>4, <3>2, <4>2
        <5>2. \A v \in Units : v[1] = slots[t][1] => stage'[v] = stage[v]
            BY <1>2, <2>1, <2>3, <5>1
        <5>3. slots[t][1] <= i'
            BY <1>2, <1>3, <5>1
        <5> QED
            BY <5>1, <5>2, <5>3 DEF Progress, OwnJungle
      <4> QED
          BY <4>1, <4>2
    <3> QED
        BY <1>1, <1>2, <3>1, <3>2 DEF OwnJungle
  <2>7. TakenInOrder'
    <3>1. \A v \in Units : v[1] > i + 1 => stage'[v] = "none"
        BY <1>2, <2>1, <2>3, <2>5
    <3>2. ASSUME NEW v \in Units, v[1] <= i + 1
          PROVE  \/ stage'[v] = "done"
                 \/ \E t \in DOMAIN slots : slots'[t] \in Units /\ slots'[t][1] = v[1]
      <4>1. CASE v[1] = i + 1
          BY <2>1, <2>3, <4>1
      <4>2. CASE v[1] # i + 1
        <5>1. v[1] <= i /\ v # w
            BY <1>2, <2>1, <3>2, <4>2
        <5> QED
            BY <2>3, <2>4, <5>1 DEF Progress, TakenInOrder
      <4> QED
          BY <4>1, <4>2
    <3>3. ASSUME NEW t \in DOMAIN slots, slots'[t] = Ended PROVE i + 1 >= Len(Jungles)
        BY <1>2, <2>1, <2>3, <3>3 DEF Progress, TakenInOrder
    <3> QED
        BY <1>1, <1>2, <1>3, <1>4, <3>1, <3>2, <3>3 DEF TakenInOrder
  <2> QED
      BY <2>6, <2>7 DEF Progress
<1>7. CASE ~(i < Len(Jungles))
  <2>1. slots' = [slots EXCEPT ![s] = Ended] /\ stage' = stage
      BY <1>7 DEF TakeJungle
  <2>2. \A t \in DOMAIN slots : slots'[t] = IF t = s THEN Ended ELSE slots[t]
      BY <2>1
  <2>3. \A t \in DOMAIN slots : slots[t] \in Units => t # s
      BY <1>2, <1>3
  <2>4. \A v \in Units : v[1] <= i
      BY <1>2, <1>7
  <2>5. OwnJungle'
    <3>1. \A t \in DOMAIN slots : slots'[t] \in Units => slots'[t] = slots[t]
        BY <1>2, <2>2
    <3>2. \A t \in DOMAIN slots : slots'[t] \in Units => slots[t][1] <= i'
        BY <1>2, <1>3, <2>4, <3>1
    <3> QED
        BY <1>1, <1>2, <2>1, <3>1, <3>2 DEF Progress, OwnJungle
  <2>6. TakenInOrder'
    <3>1. \A v \in Units : v[1] > i + 1 => stage'[v] = "none"
        BY <1>2, <2>4
    <3>2. \A v \in Units :
            \/ stage'[v] = "done"
            \/ \E t \in DOMAIN slots : slots'[t] \in Units /\ slots'[t][1] = v[1]
        BY <2>1, <2>2, <2>3, <2>4 DEF Progress, TakenInOrder
    <3>3. i + 1 >= Len(Jungles)
        BY <1>2, <1>7
    <3> QED
        BY <1>1, <1>2, <1>3, <1>4, <3>1, <3>2, <3>3 DEF TakenInOrder
  <2> QED
      BY <2>5, <2>6 DEF Progress
<1> QED
    BY <1>6, <1>7

\* A chain goes on with the next product, or is done with its jungle.
LEMMA GoOnProgresses ==
    ASSUME TypeOK, Progress, NEW s \in DOMAIN slots, GoOn(s)
    PROVE  Progress'
<1> DEFINE u == slots[s]
           w == <<u[1], u[2] + 1>>
<1>1. Units' = Units /\ Jungles' = Jungles /\ over' = over /\ i' = i
    BY DEF GoOn, Units, UnitsOf, Jungles
<1>2. u \in Units /\ stage[u] = "done"
    BY DEF GoOn
<1>3. /\ \A v \in Units : v[1] \in Int /\ v[2] \in Int
      /\ Idle \notin Units /\ Ended \notin Units /\ Idle # Ended
      /\ DOMAIN slots' = DOMAIN slots
      /\ i \in Int
    BY UnitFacts, NoUnits DEF TypeOK, GoOn
<1>4. ~over
    BY <1>2, <1>3 DEF Progress, TakenInOrder
<1>5. /\ u[1] <= i
      /\ \A v \in Units : v[1] = u[1] =>
            /\ v[2] < u[2] => stage[v] = "done"
            /\ v[2] > u[2] => stage[v] = "none"
      /\ \A t \in DOMAIN slots : slots[t] \in Units /\ slots[t][1] = u[1] => t = s
    BY <1>2 DEF Progress, OwnJungle
<1>6. \A v \in Units : v[1] = u[1] /\ v[2] = u[2] => v = u
    BY <1>2, UnitFacts DEF TypeOK
<1>7. CASE NextProduct(s)
  <2>1. w \in Units /\ w[1] = u[1] /\ w[2] = u[2] + 1
      BY <1>2, <1>7, NextUnit DEF NextProduct
  <2>2. slots' = [slots EXCEPT ![s] = w] /\ stage' = [stage EXCEPT ![w] = "generate"]
      BY <1>7 DEF GoOn, Goto
  <2> HIDE DEF w, u
  <2>3. /\ \A t \in DOMAIN slots : slots'[t] = IF t = s THEN w ELSE slots[t]
        /\ \A v \in Units : stage'[v] = IF v = w THEN "generate" ELSE stage[v]
      BY <2>2 DEF TypeOK
  <2>4. OwnJungle'
    <3>1. \A t, r \in DOMAIN slots :
            slots'[t] \in Units /\ slots'[r] \in Units /\ slots'[t][1] = slots'[r][1] => t = r
        BY <1>5, <2>1, <2>3 DEF Progress, OwnJungle
    <3>2. ASSUME NEW t \in DOMAIN slots, slots'[t] \in Units
          PROVE  /\ slots'[t][1] <= i
                 /\ stage'[slots'[t]] # "none"
                 /\ \A v \in Units : v[1] = slots'[t][1] =>
                       /\ v[2] < slots'[t][2] => stage'[v] = "done"
                       /\ v[2] > slots'[t][2] => stage'[v] = "none"
      <4>1. CASE t = s
        <5>1. slots'[t] = w /\ stage'[w] = "generate"
            BY <2>1, <2>3, <4>1
        <5>2. ASSUME NEW v \in Units, v[1] = u[1]
              PROVE  /\ v[2] < u[2] + 1 => stage'[v] = "done"
                     /\ v[2] > u[2] + 1 => stage'[v] = "none"
          <6>1. v[2] \in Int /\ u[2] \in Int
              BY <1>2, <1>3
          <6>2. v # w => stage'[v] = stage[v]
              BY <2>3
          <6>3. v[2] < u[2] + 1 => v[2] < u[2] \/ v = u
              BY <1>6, <5>2, <6>1
          <6>4. v[2] # u[2] + 1 => v # w
              BY <2>1
          <6> QED
              BY <1>2, <1>5, <5>2, <6>1, <6>2, <6>3, <6>4
        <5> QED
            BY <1>5, <2>1, <5>1, <5>2
      <4>2. CASE t # s
        <5>1. slots'[t] = slots[t] /\ slots[t] \in Units
            BY <2>3, <3>2, <4>2
        <5>2. slots[t][1] # u[1]
            BY <1>5, <4>2, <5>1
        <5>3. \A v \in Units : v[1] = slots[t][1] => stage'[v] = stage[v]
            BY <2>1, <2>3, <5>2
        <5> QED
            BY <5>1, <5>3 DEF Progress, OwnJungle
      <4> QED
          BY <4>1, <4>2
    <3> QED
        BY <1>1, <1>3, <3>1, <3>2 DEF OwnJungle
  <2>5. TakenInOrder'
    <3>1. \A v \in Units : v[1] > i => stage'[v] = "none"
        BY <1>3, <1>5, <2>1, <2>3 DEF Progress, TakenInOrder
    <3>2. ASSUME NEW v \in Units, v[1] <= i
          PROVE  \/ stage'[v] = "done"
                 \/ \E t \in DOMAIN slots : slots'[t] \in Units /\ slots'[t][1] = v[1]
      <4>1. CASE v[1] = u[1]
          BY <2>1, <2>3, <4>1
      <4>2. CASE v[1] # u[1]
        <5>1. v # w
            BY <2>1, <4>2
        <5>2. \A t \in DOMAIN slots : slots[t] \in Units /\ slots[t][1] = v[1] => slots'[t] = slots[t]
            BY <2>3, <4>2 DEF u
        <5> QED
            BY <2>3, <3>2, <5>1, <5>2 DEF Progress, TakenInOrder
      <4> QED
          BY <4>1, <4>2
    <3>3. \A t \in DOMAIN slots : slots'[t] = Ended => i >= Len(Jungles)
        BY <1>3, <2>1, <2>3 DEF Progress, TakenInOrder
    <3> QED
        BY <1>1, <1>3, <1>4, <3>1, <3>2, <3>3 DEF TakenInOrder
  <2> QED
      BY <2>4, <2>5 DEF Progress
<1>8. CASE ~NextProduct(s)
  <2>1. slots' = [slots EXCEPT ![s] = Idle] /\ stage' = stage
      BY <1>8 DEF GoOn
  <2>2. \A t \in DOMAIN slots : slots'[t] = IF t = s THEN Idle ELSE slots[t]
      BY <2>1
  <2>3. ASSUME NEW v \in Units, v[1] = u[1] PROVE stage[v] = "done"
    <3>1. v[2] \in 1 .. J(v).products /\ J(v) = J(u) /\ v[2] \in Int /\ u[2] \in 1 .. J(u).products
        BY <1>2, <2>3, UnitFacts DEF TypeOK, J
    <3>2. ~(u[2] < J(u).products)
        BY <1>8 DEF NextProduct
    <3>3. J(u).products \in Nat
        BY <1>2, UnitFacts, JobFacts DEF TypeOK, J
    <3> HIDE DEF u
    <3>4. v[2] <= u[2] /\ u[2] \in Int
        BY <3>1, <3>2, <3>3
    <3>5. v[2] < u[2] \/ v = u
        BY <1>6, <2>3, <3>1, <3>4
    <3> QED
        BY <1>2, <1>5, <2>3, <3>5
  <2>4. OwnJungle'
    <3>1. \A t \in DOMAIN slots : slots'[t] \in Units => slots'[t] = slots[t]
        BY <1>3, <2>2
    <3> QED
        BY <1>1, <1>3, <2>1, <3>1 DEF Progress, OwnJungle
  <2>5. TakenInOrder'
    <3>1. ASSUME NEW v \in Units, v[1] <= i
          PROVE  \/ stage'[v] = "done"
                 \/ \E t \in DOMAIN slots : slots'[t] \in Units /\ slots'[t][1] = v[1]
      <4>1. CASE v[1] = u[1]
          BY <2>1, <2>3, <4>1
      <4>2. CASE v[1] # u[1]
        <5>2. \A t \in DOMAIN slots : slots[t] \in Units /\ slots[t][1] = v[1] => slots'[t] = slots[t]
            BY <2>2, <4>2
        <5> QED
            BY <2>1, <3>1, <5>2 DEF Progress, TakenInOrder
      <4> QED
          BY <4>1, <4>2
    <3>2. \A t \in DOMAIN slots : slots'[t] = Ended => i >= Len(Jungles)
        BY <1>3, <2>2 DEF Progress, TakenInOrder
    <3> QED
        BY <1>1, <1>3, <1>4, <2>1, <3>1, <3>2 DEF Progress, TakenInOrder
  <2> QED
      BY <2>4, <2>5 DEF Progress
<1> QED
    BY <1>7, <1>8

-----------------------------------------------------------------------------
(* The runs in the simulator.                                              *)

LEMMA QueueElements ==
    ASSUME NEW q \in Seq(Units)
    PROVE  Len(q) \in Nat /\ (q # <<>> => Len(q) > 0) /\ \A n \in 1 .. Len(q) : q[n] \in Units
    BY LenProperties, ElementOfSeq, EmptySeq

\* A stage that is none of the queue's becomes another one that is not.
LEMMA OthersKeepQueue ==
    ASSUME TypeOK, RunsQueue, Units' = Units, after' = after, lastSim' = lastSim,
           NEW u \in Units, NEW x, stage' = [stage EXCEPT ![u] = x],
           stage[u] \notin {"waiting", "simulating", "done"}, x \notin {"waiting", "simulating"}
    PROVE  RunsQueue'
<1>1. PICK q \in Seq(Units) : Queue(q)
    BY DEF RunsQueue
<1>2. \A n \in 1 .. Len(q) : q[n] \in Units
    BY QueueElements
<1>3. \A v \in Units : stage'[v] = IF v = u THEN x ELSE stage[v]
    BY DEF TypeOK
<1>4. \A v \in Units : stage'[v] \in {"waiting", "simulating"} <=> stage[v] \in {"waiting", "simulating"}
    BY <1>3
<1>5. \A n \in 1 .. Len(q) : n > 1 => stage'[q[n]] = "waiting"
    BY <1>1, <1>2, <1>3 DEF Queue
<1>6. q = <<>> => (lastSim # NoUnit => stage'[lastSim] = "done")
    BY <1>1, <1>3 DEF Queue, TypeOK
<1>7. FirstMayRun(q)'
  <2> SUFFICES ASSUME q # <<>>, stage'[q[1]] = "waiting", after[q[1]] # NoUnit
               PROVE  stage'[after[q[1]]] = "done"
      BY DEF FirstMayRun, AfterAnyRun
  <2>1. 1 \in 1 .. Len(q)
      BY QueueElements
  <2>2. q[1] \in Units /\ stage[q[1]] = "waiting"
      BY <1>2, <1>3, <2>1
  <2>3. after[q[1]] \in Units /\ stage[after[q[1]]] = "done"
      BY <1>1, <2>2 DEF Queue, FirstMayRun, AfterAnyRun, TypeOK
  <2> QED
      BY <1>3, <2>3
<1>8. Queue(q)'
    BY <1>1, <1>4, <1>5, <1>6, <1>7 DEF Queue
<1> QED
    BY <1>8 DEF RunsQueue

\* The stages of the queue are kept.
LEMMA SameQueue ==
    ASSUME RunsQueue, Units' = Units, UNCHANGED <<stage, after, lastSim>>
    PROVE  RunsQueue'
    BY DEF RunsQueue, Queue, FirstMayRun, AfterAnyRun

\* A run that asks is behind the others (serializeSim.promise).
LEMMA AskKeepsQueue ==
    ASSUME TypeOK, RunsQueue, Units' = Units, NEW u \in Units, AskSimulator(u)
    PROVE  RunsQueue'
<1>1. PICK q \in Seq(Units) : Queue(q)
    BY DEF RunsQueue
<1> DEFINE r == Append(q, u)
<1>2. /\ Len(q) \in Nat /\ (q # <<>> => Len(q) > 0)
      /\ \A n \in 1 .. Len(q) : q[n] \in Units
    BY QueueElements
<1>3. /\ r \in Seq(Units) /\ Len(r) = Len(q) + 1 /\ r[Len(q) + 1] = u
      /\ \A n \in 1 .. Len(q) : r[n] = q[n]
    BY PushFacts
<1> HIDE DEF r
<1>4. /\ stage[u] = "ask" /\ stage' = [stage EXCEPT ![u] = "waiting"]
      /\ after' = [after EXCEPT ![u] = lastSim] /\ lastSim' = u
    BY DEF AskSimulator, Ask, Goto
<1>5. /\ \A v \in Units : stage'[v] = IF v = u THEN "waiting" ELSE stage[v]
      /\ \A v \in Units : after'[v] = IF v = u THEN lastSim ELSE after[v]
    BY <1>4 DEF TypeOK
<1>6. \A n \in 1 .. Len(q) : q[n] # u
    BY <1>1, <1>2, <1>4 DEF Queue
<1>7. \A n \in 1 .. Len(r) : n \in 1 .. Len(q) \/ n = Len(q) + 1
    BY <1>2, <1>3
<1>8. \A m, n \in 1 .. Len(r) : r[m] = r[n] => m = n
    BY <1>1, <1>3, <1>6, <1>7 DEF Queue
<1>9. \A v \in Units : stage'[v] \in {"waiting", "simulating"} <=> \E n \in 1 .. Len(r) : r[n] = v
  <2>1. 1 .. Len(q) \subseteq 1 .. Len(r) /\ Len(q) + 1 \in 1 .. Len(r)
      BY <1>2, <1>3
  <2>2. ASSUME NEW v \in Units
        PROVE  (\E n \in 1 .. Len(r) : r[n] = v) <=> v = u \/ \E n \in 1 .. Len(q) : q[n] = v
      BY <1>3, <1>7, <2>1
  <2>3. ASSUME NEW v \in Units
        PROVE  stage'[v] \in {"waiting", "simulating"}
                   <=> v = u \/ stage[v] \in {"waiting", "simulating"}
      BY <1>5
  <2> QED
      BY <1>1, <2>2, <2>3 DEF Queue
<1>10. ASSUME NEW n \in 1 .. Len(r), n > 1
       PROVE  after'[r[n]] = r[n - 1] /\ stage'[r[n]] = "waiting"
  <2>1. CASE n \in 1 .. Len(q)
    <3>1. n - 1 \in 1 .. Len(q)
        BY <1>2, <1>10, <2>1
    <3>2. r[n] = q[n] /\ r[n - 1] = q[n - 1] /\ q[n] \in Units /\ q[n] # u
        BY <1>2, <1>3, <1>6, <2>1, <3>1
    <3> QED
        BY <1>1, <1>5, <1>10, <2>1, <3>2 DEF Queue
  <2>2. CASE n = Len(q) + 1
    <3>1. n - 1 = Len(q) /\ Len(q) \in 1 .. Len(q)
        BY <1>2, <1>10, <2>2
    <3>2. q # <<>>
        BY <1>2, <3>1, EmptySeq
    <3>3. lastSim = q[Len(q)]
        BY <1>1, <3>2 DEF Queue
    <3> QED
        BY <1>3, <1>5, <2>2, <3>1, <3>3
  <2> QED
      BY <1>7, <2>1, <2>2
<1>11. r # <<>> /\ lastSim' = r[Len(r)]
  <2>1. Len(r) # 0
      BY <1>2, <1>3
  <2> QED
      BY <1>3, <1>4, <2>1, EmptySeq
<1>12. FirstMayRun(r)'
  <2> SUFFICES ASSUME stage'[r[1]] = "waiting", after'[r[1]] # NoUnit
               PROVE  stage'[after'[r[1]]] = "done"
      BY DEF FirstMayRun, AfterAnyRun
  <2>1. CASE q = <<>>
    <3>1. r[1] = u /\ after'[u] = lastSim
        BY <1>3, <1>5, <2>1, EmptySeq
    <3>2. lastSim \in Units /\ stage[lastSim] = "done"
        BY <1>1, <2>1, <3>1 DEF Queue, TypeOK
    <3> QED
        BY <1>4, <1>5, <3>1, <3>2
  <2>2. CASE q # <<>>
    <3>1. 1 \in 1 .. Len(q)
        BY <1>2, <2>2
    <3>2. r[1] = q[1] /\ q[1] \in Units /\ q[1] # u
        BY <1>2, <1>3, <1>6, <3>1
    <3>3. stage[q[1]] = "waiting" /\ after'[q[1]] = after[q[1]] /\ after[q[1]] # NoUnit
        BY <1>5, <3>2
    <3>4. after[q[1]] \in Units /\ stage[after[q[1]]] = "done"
        BY <1>1, <2>2, <3>2, <3>3 DEF Queue, FirstMayRun, AfterAnyRun, TypeOK
    <3> QED
        BY <1>4, <1>5, <3>2, <3>3, <3>4
  <2> QED
      BY <2>1, <2>2
<1>13. Queue(r)'
    BY <1>8, <1>9, <1>10, <1>11, <1>12 DEF Queue
<1> QED
    BY <1>3, <1>13 DEF RunsQueue

\* Only the first of the queue starts: the others wait for one that is not over.
LEMMA SimulateKeepsQueue ==
    ASSUME TypeOK, RunsQueue, Units' = Units, NoUnit \notin Units, NEW u \in Units, Simulate(u)
    PROVE  RunsQueue'
<1>1. PICK q \in Seq(Units) : Queue(q)
    BY DEF RunsQueue
<1>2. Len(q) \in Nat /\ \A n \in 1 .. Len(q) : q[n] \in Units
    BY QueueElements
<1>3. /\ stage[u] = "waiting" /\ stage' = [stage EXCEPT ![u] = "simulating"]
      /\ after[u] # NoUnit => stage[after[u]] = "done"
      /\ after' = after /\ lastSim' = lastSim
    BY DEF Simulate, AfterAnyRun, Goto, simVars
<1>4. \A v \in Units : stage'[v] = IF v = u THEN "simulating" ELSE stage[v]
    BY <1>3 DEF TypeOK
<1>5. ASSUME NEW n \in 1 .. Len(q), n > 1 PROVE q[n] # u
  <2>1. n - 1 \in 1 .. Len(q)
      BY <1>2, <1>5
  <2>2. q[n - 1] \in Units /\ stage[q[n - 1]] \in {"waiting", "simulating"}
      BY <1>1, <1>2, <2>1 DEF Queue
  <2>3. after[q[n]] = q[n - 1]
      BY <1>1, <1>5 DEF Queue
  <2> QED
      BY <1>3, <2>2, <2>3
<1>6. \A v \in Units : stage'[v] \in {"waiting", "simulating"} <=> stage[v] \in {"waiting", "simulating"}
    BY <1>3, <1>4
<1>7. \A n \in 1 .. Len(q) : n > 1 => stage'[q[n]] = "waiting"
    BY <1>1, <1>2, <1>4, <1>5 DEF Queue
<1>8. q # <<>>
  <2>1. \E n \in 1 .. Len(q) : q[n] = u
      BY <1>1, <1>3 DEF Queue
  <2> QED
      BY <1>2, <2>1, EmptySeq
<1>9. FirstMayRun(q)'
  <2>1. 1 \in 1 .. Len(q) /\ q[1] \in Units
      BY <1>2, <1>8, QueueElements
  <2>2. q[1] = u
    <3> PICK n \in 1 .. Len(q) : q[n] = u
        BY <1>1, <1>3 DEF Queue
    <3> QED
        BY <1>2, <1>5
  <2> QED
      BY <1>4, <2>1, <2>2 DEF FirstMayRun
<1>10. Queue(q)'
    BY <1>1, <1>3, <1>6, <1>7, <1>8, <1>9 DEF Queue
<1> QED
    BY <1>10 DEF RunsQueue

\* A run that is over was the first, and the second is the first then.
LEMMA EndKeepsQueue ==
    ASSUME TypeOK, RunsQueue, Units' = Units, NEW u \in Units, stage[u] = "simulating",
           stage' = [stage EXCEPT ![u] = "done"], after' = after, lastSim' = lastSim
    PROVE  RunsQueue'
<1>1. PICK q \in Seq(Units) : Queue(q)
    BY DEF RunsQueue
<1> DEFINE r == Tail(q)
<1>2. Len(q) \in Nat /\ \A n \in 1 .. Len(q) : q[n] \in Units
    BY QueueElements
<1>3. PICK k \in 1 .. Len(q) : q[k] = u
    BY <1>1 DEF Queue
<1>4. k = 1 /\ q[1] = u
    BY <1>1, <1>2, <1>3 DEF Queue
<1>5. q # <<>>
    BY <1>2, <1>3, EmptySeq
<1>6. /\ r \in Seq(Units) /\ Len(r) = Len(q) - 1 /\ Len(q) \in Nat \ {0}
      /\ \A n \in 1 .. Len(q) - 1 : r[n] = q[n + 1]
    BY <1>5, ShiftFacts
<1> HIDE DEF r
<1>7. \A v \in Units : stage'[v] = IF v = u THEN "done" ELSE stage[v]
    BY DEF TypeOK
<1>8. \A n \in 1 .. Len(q) : q[n] = u => n = 1
    BY <1>1, <1>3, <1>4 DEF Queue
<1>9. \A n \in 1 .. Len(r) : /\ r[n] = q[n + 1] /\ n + 1 \in 1 .. Len(q) /\ n + 1 > 1
                             /\ r[n] \in Units /\ r[n] # u
    BY <1>2, <1>6, <1>8
<1>10. \A m, n \in 1 .. Len(r) : r[m] = r[n] => m = n
  <2> SUFFICES ASSUME NEW m \in 1 .. Len(r), NEW n \in 1 .. Len(r), r[m] = r[n] PROVE m = n
      OBVIOUS
  <2>1. m + 1 = n + 1
      BY <1>1, <1>9 DEF Queue
  <2> QED
      BY <1>6, <2>1
<1>11. ASSUME NEW v \in Units
       PROVE  stage'[v] \in {"waiting", "simulating"} <=> \E n \in 1 .. Len(r) : r[n] = v
  <2>1. CASE v = u
      BY <1>7, <1>9, <2>1
  <2>2. CASE v # u
    <3>1. (\E n \in 1 .. Len(q) : q[n] = v) <=> (\E n \in 1 .. Len(r) : r[n] = v)
      <4>1. ASSUME NEW n \in 1 .. Len(q), q[n] = v PROVE \E m \in 1 .. Len(r) : r[m] = v
        <5>1. n # 1
            BY <1>4, <2>2, <4>1
        <5>2. n - 1 \in 1 .. Len(r) /\ n - 1 + 1 = n
            BY <1>6, <5>1
        <5> QED
            BY <1>9, <4>1, <5>2
      <4> QED
          BY <1>9, <4>1
    <3> QED
        BY <1>1, <1>7, <2>2, <3>1 DEF Queue
  <2> QED
      BY <2>1, <2>2
<1>12. ASSUME NEW n \in 1 .. Len(r), n > 1
       PROVE  after'[r[n]] = r[n - 1] /\ stage'[r[n]] = "waiting"
  <2>1. n - 1 \in 1 .. Len(r) /\ n - 1 + 1 = n /\ n + 1 - 1 = n
      BY <1>6, <1>12
  <2>2. r[n - 1] = q[n]
      BY <1>9, <2>1
  <2>3. after[q[n + 1]] = q[n] /\ stage[q[n + 1]] = "waiting"
      BY <1>1, <1>9, <2>1 DEF Queue
  <2> QED
      BY <1>7, <1>9, <2>2, <2>3
<1>13. IF r = <<>> THEN lastSim # NoUnit => stage'[lastSim] = "done"
                   ELSE lastSim = r[Len(r)]
  <2>1. lastSim = q[Len(q)]
      BY <1>1, <1>5 DEF Queue
  <2>2. CASE r = <<>>
    <3>1. Len(q) = 1
        BY <1>6, <2>2, EmptySeq
    <3> QED
        BY <1>4, <1>7, <2>1, <2>2, <3>1
  <2>3. CASE r # <<>>
    <3>1. Len(r) \in 1 .. Len(r) /\ Len(r) + 1 = Len(q)
        BY <1>6, <2>3, EmptySeq
    <3> QED
        BY <1>9, <2>1, <2>3, <3>1
  <2> QED
      BY <2>2, <2>3
<1>14. FirstMayRun(r)'
  <2> SUFFICES ASSUME r # <<>> PROVE stage'[after'[r[1]]] = "done"
      BY DEF FirstMayRun, AfterAnyRun
  <2>1. 1 \in 1 .. Len(r)
      BY <1>6, EmptySeq
  <2>2. r[1] = q[2] /\ 2 \in 1 .. Len(q)
      BY <1>9, <2>1
  <2>3. after[q[2]] = q[1]
      BY <1>1, <2>2 DEF Queue
  <2> QED
      BY <1>4, <1>7, <2>2, <2>3
<1>15. Queue(r)'
    BY <1>10, <1>11, <1>12, <1>13, <1>14 DEF Queue
<1> QED
    BY <1>6, <1>15 DEF RunsQueue

-----------------------------------------------------------------------------
(* The invariant, and what it is for.                                      *)

LEMMA InitInv == Init => IInv
<1> SUFFICES ASSUME Init PROVE IInv
    OBVIOUS
<1>1. TypeOK
    BY InitTyped
<1>2. /\ \A u \in Units : stage[u] = "none" /\ u[1] \in 1 .. Len(Jungles)
      /\ \A s \in DOMAIN slots : slots[s] \notin Units /\ slots[s] # Ended
      /\ i = 0 /\ ~over /\ lastSim = NoUnit
    BY <1>1, UnitFacts, NoUnits DEF Init, TypeOK
<1>3. OwnJungle /\ TakenInOrder
    BY <1>2, JobFacts DEF OwnJungle, TakenInOrder, Init
<1>4. <<>> \in Seq(Units) /\ Len(<<>>) = 0
    BY EmptySeq
<1>5. Queue(<<>>)
    BY <1>2, <1>4 DEF Queue, FirstMayRun
<1> QED
    BY <1>1, <1>3, <1>4, <1>5 DEF IInv, RunsQueue

LEMMA NextInv == IInv /\ [Next]_vars => IInv'
<1> SUFFICES ASSUME IInv, [Next]_vars PROVE IInv'
    OBVIOUS
<1>1. TypeOK'
    BY NextTyped DEF IInv
<1>2. TypeOK /\ Progress /\ RunsQueue /\ NoUnit \notin Units
    BY NoUnits DEF IInv, Progress, TypeOK
<1>3. ASSUME call' = call PROVE Units' = Units /\ Jungles' = Jungles
    BY <1>3 DEF Units, UnitsOf, Jungles
<1>4. ASSUME NEW s \in DOMAIN slots, TakeJungle(s) PROVE Progress' /\ RunsQueue'
  <2>1. Progress'
      BY <1>2, <1>4, TakeProgresses
  <2>2. Units' = Units /\ after' = after /\ lastSim' = lastSim
      BY <1>3, <1>4 DEF TakeJungle, simVars
  <2>3. CASE i < Len(Jungles)
    <3> DEFINE w == <<i + 1, 1>>
    <3>1. w \in Units /\ w[1] > i
        BY <1>2, <2>3, NextUnit DEF TypeOK
    <3>2. stage[w] = "none"
        BY <1>2, <3>1 DEF Progress, TakenInOrder
    <3>3. stage' = [stage EXCEPT ![w] = "generate"]
        BY <1>4, <2>3 DEF TakeJungle, Goto
    <3> HIDE DEF w
    <3>4. RunsQueue'
        BY <1>2, <2>2, <3>1, <3>2, <3>3, OthersKeepQueue
    <3> QED
        BY <2>1, <3>4
  <2>4. CASE ~(i < Len(Jungles))
      BY <1>2, <1>4, <2>1, <2>2, <2>4, SameQueue DEF TakeJungle
  <2> QED
      BY <2>3, <2>4
<1>5. ASSUME NEW s \in DOMAIN slots, GoOn(s) PROVE Progress' /\ RunsQueue'
  <2>1. Progress'
      BY <1>2, <1>5, GoOnProgresses
  <2>2. Units' = Units /\ after' = after /\ lastSim' = lastSim
      BY <1>3, <1>5 DEF GoOn, simVars
  <2> DEFINE u == slots[s]
             w == <<u[1], u[2] + 1>>
  <2>3. u \in Units /\ u[1] \in Int /\ u[2] \in Int
      BY <1>2, <1>5, UnitFacts DEF GoOn, TypeOK
  <2>4. CASE NextProduct(s)
    <3>1. w \in Units /\ w[1] = u[1] /\ w[2] > u[2]
        BY <1>2, <2>3, <2>4, NextUnit DEF NextProduct
    <3>2. stage[w] = "none"
        BY <1>2, <2>3, <3>1 DEF Progress, OwnJungle
    <3>3. stage' = [stage EXCEPT ![w] = "generate"]
        BY <1>5, <2>4 DEF GoOn, Goto
    <3> HIDE DEF w
    <3>4. RunsQueue'
        BY <1>2, <2>2, <3>1, <3>2, <3>3, OthersKeepQueue
    <3> QED
        BY <2>1, <3>4
  <2>5. CASE ~NextProduct(s)
      BY <1>2, <1>5, <2>1, <2>2, <2>5, SameQueue DEF GoOn
  <2> QED
      BY <2>4, <2>5
<1>6. ASSUME NEW u \in Units, Step(u) PROVE Progress' /\ RunsQueue'
  <2>1. BuildStep(u)
      BY <1>2, <1>6, StepKinds
  <2>2. Progress' /\ Units' = Units
      BY <1>2, <1>3, <2>1, BuildStepProgresses DEF BuildStep
  <2>3. CASE AskSimulator(u)
      BY <1>2, <2>2, <2>3, AskKeepsQueue
  <2>4. CASE Simulate(u)
      BY <1>2, <2>2, <2>4, SimulateKeepsQueue
  <2>5. CASE /\ after' = after /\ lastSim' = lastSim
             /\ stage[u] = "simulating" /\ stage' = [stage EXCEPT ![u] = "done"]
      BY <1>2, <2>2, <2>5, EndKeepsQueue
  <2>6. CASE /\ after' = after /\ lastSim' = lastSim
             /\ stage[u] \notin {"waiting", "simulating"}
             /\ stage' = [stage EXCEPT ![u] = stage'[u]]
             /\ stage'[u] \notin {"waiting", "simulating"}
    <3>1. stage[u] \notin {"waiting", "simulating", "done"}
        BY <2>1, <2>6 DEF BuildStep
    <3>2. RunsQueue'
        BY <1>2, <2>2, <2>6, <3>1, OthersKeepQueue
    <3> QED
        BY <2>2, <3>2
  <2> QED
      BY <1>2, <1>6, <2>3, <2>4, <2>5, <2>6, StepKinds
<1>7. ASSUME NEW t \in tasks, Settle(t) PROVE Progress' /\ RunsQueue'
  <2>1. /\ Units' = Units /\ Jungles' = Jungles
        /\ UNCHANGED <<i, slots, over, stage, after, lastSim>>
      BY <1>3, <1>7 DEF Settle, buildVars, simVars
  <2> QED
      BY <1>2, <2>1, SameQueue DEF Progress, OwnJungle, TakenInOrder
<1>8. ASSUME Finish PROVE Progress' /\ RunsQueue'
  <2>1. /\ Units' = Units /\ Jungles' = Jungles
        /\ UNCHANGED <<i, slots, stage, after, lastSim>>
        /\ \A s \in DOMAIN slots : slots[s] = Ended
      BY <1>3, <1>8 DEF Finish, simVars
  <2> QED
      BY <1>2, <2>1, SameQueue DEF Progress, OwnJungle, TakenInOrder
<1>9. ASSUME UNCHANGED vars PROVE Progress' /\ RunsQueue'
  <2>1. /\ Units' = Units /\ Jungles' = Jungles
        /\ UNCHANGED <<i, slots, over, stage, after, lastSim>>
      BY <1>3, <1>9 DEF vars
  <2> QED
      BY <1>2, <2>1, SameQueue DEF Progress, OwnJungle, TakenInOrder
<1> QED
    BY <1>1, <1>4, <1>5, <1>6, <1>7, <1>8, <1>9 DEF Next, IInv, Progress

\* What the chains of promiseAll (src/util.ts) and the runs that serializeSim
\* (src/driver.ts) puts in line rely on, for any jobs.
THEOREM Invariance == Spec => []IInv
<1>1. Init => IInv
    BY InitInv
<1>2. IInv /\ [Next]_vars => IInv'
    BY NextInv
<1> QED
    BY <1>1, <1>2, PTL DEF Spec

\* One program at a time runs in the simulator, whichever jungles are built at
\* a time and whatever fails (serializeSim of src/driver.ts).
THEOREM SimulatorIsAlone == Spec => []OneSimulator
<1>1. ASSUME IInv PROVE OneSimulator
  <2>1. PICK q \in Seq(Units) : Queue(q)
      BY <1>1 DEF IInv, RunsQueue
  <2> DEFINE R == {u \in Units : stage[u] = "simulating"}
  <2>2. \A u \in R : u = q[1]
    <3> SUFFICES ASSUME NEW u \in R PROVE u = q[1]
        OBVIOUS
    <3>1. u \in Units /\ stage[u] = "simulating"
        OBVIOUS
    <3>2. PICK n \in 1 .. Len(q) : q[n] = u
        BY <2>1, <3>1 DEF Queue
    <3>3. ~(n > 1)
        BY <2>1, <3>1, <3>2 DEF Queue
    <3>4. n = 1
        BY <3>3, QueueElements
    <3> QED
        BY <3>2, <3>4
  <2> HIDE DEF R
  <2>3. CASE R = {}
    <3>1. Cardinality(R) = 0
        BY <2>3, FS_EmptySet
    <3> QED
        BY <3>1 DEF OneSimulator, R
  <2>4. CASE R # {}
    <3>1. R = {q[1]}
        BY <2>2, <2>4
    <3>2. Cardinality(R) = 1
        BY <3>1, FS_Singleton
    <3> QED
        BY <3>2 DEF OneSimulator, R
  <2> QED
      BY <2>3, <2>4
<1> QED
    BY <1>1, Invariance, PTL

\* The products of a jungle are built one after the other, and when promiseAll
\* settles all jungles were built for all of their products, whatever failed.
THEOREM NothingIsLeftOut == Spec => []AllBuilt
<1>1. ASSUME IInv PROVE AllBuilt
  <2>1. TypeOK /\ OwnJungle /\ TakenInOrder
      BY <1>1 DEF IInv
  <2>2. /\ \A u \in Units : u[1] \in 1 .. Len(Jungles) /\ u[1] \in Int /\ u[2] \in Int
        /\ Len(Jungles) \in Nat /\ i \in Nat /\ Ended \notin Units
        /\ call.parallelism \in Nat \ {0}
      BY <2>1, UnitFacts, JobFacts, NoUnits DEF TypeOK
  <2>3. ASSUME NEW u \in Units, NEW v \in Units, u[1] = v[1], u[2] < v[2], stage[v] # "none"
        PROVE  stage[u] = "done"
    <3>1. u[1] <= i
        BY <2>1, <2>2, <2>3 DEF TakenInOrder
    <3>2. SUFFICES ASSUME NEW s \in DOMAIN slots, slots[s] \in Units, slots[s][1] = u[1]
                   PROVE  stage[u] = "done"
        BY <2>1, <3>1 DEF TakenInOrder
    <3>3. ~(v[2] > slots[s][2])
        BY <2>1, <2>3, <3>2 DEF OwnJungle
    <3>4. u[2] < slots[s][2]
        BY <2>2, <2>3, <3>2, <3>3
    <3> QED
        BY <2>1, <3>2, <3>4 DEF OwnJungle
  <2>4. ASSUME over, NEW u \in Units PROVE stage[u] = "done"
    <3>1. \A s \in DOMAIN slots : slots[s] = Ended
        BY <2>1, <2>4 DEF TakenInOrder
    <3>2. 1 \in DOMAIN slots
        BY <2>1, <2>2 DEF TypeOK
    <3>3. u[1] <= i
        BY <2>1, <2>2, <3>1, <3>2 DEF TakenInOrder
    <3> QED
        BY <2>1, <2>2, <3>1, <3>3 DEF TakenInOrder
  <2> QED
      BY <2>3, <2>4 DEF AllBuilt
<1> QED
    BY <1>1, Invariance, PTL
-----------------------------------------------------------------------------
(* The pool.                                                               *)

\* One build at a time runs to its end.
Alone == call.parallelism = 1 \/ Len(Jungles) = 1

\* The jobs whose builds do not stop each other's pool: those of one build at a
\* time; and those that only use the pool of the driver (optimizePackage would
\* stop it; generateOptimizedProject starts one where the driver did not).
PoolIsShared(job) ==
    \A j \in DOMAIN job.jungles :
        ~job.jungles[j].exports /\ (job.profile => job.jungles[j].configs <= 1)
Undisturbed == Alone \/ PoolIsShared(call)

\* Whose tasks there are, who is on the way to optimizePackage, and that the
\* pool of the driver, if it shares one, is there until the driver stops it.
PoolInv ==
    /\ \A t \in tasks : t.unit \in Units /\ stage[t.unit] \in {"generating", "optimizing", "done"}
    /\ \A u \in Units : stage[u] \in {"optimize", "unpack", "optimizing"} => J(u).exports
    /\ Undisturbed /\ ~Alone => started = {} /\ (over \/ pool = FirstPool)
    /\ Undisturbed => NobodyStranded

\* A build that began and did not end is the one some chain works on.
LEMMA ActiveHasChain ==
    ASSUME TypeOK, Progress, NEW u \in Units, stage[u] \notin {"none", "done"}
    PROVE  ~over /\ \E s \in DOMAIN slots : slots[s] = u
<1>1. \A v \in Units : v[1] \in Int /\ v[2] \in Int
    BY UnitFacts DEF TypeOK
<1>2. PICK s \in DOMAIN slots : slots[s] \in Units /\ slots[s][1] = u[1]
  <2>1. i \in Int /\ u[1] \in Int
      BY <1>1 DEF TypeOK
  <2> QED
      BY <2>1 DEF Progress, TakenInOrder
<1>3. slots[s] = u
    BY <1>1, <1>2, UnitFacts DEF Progress, OwnJungle, TypeOK
<1>4. ~over
    BY <1>3, NoUnits DEF Progress, TakenInOrder, TypeOK
<1> QED
    BY <1>3, <1>4

LEMMA OneActive ==
    ASSUME TypeOK, Progress, Alone,
           NEW u \in Units, stage[u] \notin {"none", "done"},
           NEW v \in Units, stage[v] \notin {"none", "done"}
    PROVE  u = v
<1>1. PICK s \in DOMAIN slots : slots[s] = u
    BY ActiveHasChain
<1>2. PICK t \in DOMAIN slots : slots[t] = v
    BY ActiveHasChain
<1>3. CASE call.parallelism = 1
    BY <1>1, <1>2, <1>3 DEF TypeOK
<1>4. CASE Len(Jungles) = 1
  <2>1. u[1] = 1 /\ v[1] = 1
      BY <1>4, UnitFacts DEF TypeOK
  <2> QED
      BY <1>1, <1>2, <2>1 DEF Progress, OwnJungle
<1> QED
    BY <1>3, <1>4 DEF Alone

\* What a step of a build does to the pool and to the tasks: those of the build
\* run where there is a thread, or it has none any more.
PoolStep(u) ==
    /\ \A t \in tasks' : t \in tasks \/ (t.unit = u /\ t.on \in {Main, pool'})
    /\ (\E t \in tasks' : t.unit = u) => stage'[u] \in {"generating", "optimizing", "done"}
    /\ stage'[u] \in {"optimize", "unpack", "optimizing"} => J(u).exports
    /\ rejected' = rejected
    /\ Undisturbed /\ ~Alone => started' = {} /\ pool' = pool
    /\ \/ pool' = pool
       \/ stage'[u] \notin {"generating", "optimizing"}
       \/ \A t \in tasks : t.unit # u

LEMMA StepIsPoolStep ==
    ASSUME TypeOK, Progress, PoolInv, NEW u \in Units, Step(u)
    PROVE  PoolStep(u)
<1>1. ~over /\ stage[u] \notin {"none", "done"}
    BY StepKinds, ActiveHasChain DEF BuildStep
<1>2. Undisturbed /\ ~Alone => started = {} /\ pool = FirstPool
    BY <1>1 DEF PoolInv
<1>3. J(u).exports => (Undisturbed => Alone)
  <2>1. u[1] \in DOMAIN call.jungles
      BY UnitFacts, JobFacts DEF TypeOK, Jungles
  <2> QED
      BY <2>1 DEF Undisturbed, PoolIsShared, J, Jungles
<1>4. J(u).configs > 1 /\ Undisturbed /\ ~Alone => FirstPool = 1
  <2>1. u[1] \in DOMAIN call.jungles /\ u[1] \in 1 .. Len(Jungles)
      BY UnitFacts, JobFacts DEF TypeOK, Jungles
  <2>2. Jungles \in Seq(Jungle) /\ call.parallelism \in Nat \ {0}
      BY DriverAssumption DEF TypeOK, Jungles
  <2>3. Jungles[u[1]] \in Jungle
      BY <2>1, <2>2, ElementOfSeq
  <2>4. J(u).configs \in Nat
      BY <2>3 DEF J, Jungle
  <2> QED
      BY <2>1, <2>2, <2>4 DEF Undisturbed, PoolIsShared, J, Jungles, FirstPool, Alone
<1>5. stage[u] \notin {"generating", "optimizing", "done"} => \A t \in tasks : t.unit # u
    BY DEF PoolInv
<1>6. stage[u] \in {"optimize", "unpack", "optimizing"} => J(u).exports
    BY DEF PoolInv
<1>7. ASSUME NEW x \in Stage, Goto(u, x) PROVE stage'[u] = x
    BY <1>7 DEF Goto, TypeOK
<1> USE DEF PoolStep, buildVars, taskVars, poolVars, simVars
<1>8. CASE Generate(u)
  <2>1. CASE pool # NoPool
    <3>1. Submit(u, 1) /\ stage'[u] = "generating"
        BY <1>7, <1>8, <2>1 DEF Generate, Stage
    <3> QED
        BY <1>2, <1>8, <2>1, <3>1 DEF Generate, Submit
  <2>2. CASE pool = NoPool
    <3>1. tasks' = tasks /\ stage'[u] = "configure"
        BY <1>7, <1>8, <2>2 DEF Generate, Stage
    <3> QED
        BY <1>2, <1>5, <1>8, <3>1 DEF Generate
  <2> QED
      BY <2>1, <2>2
<1>9. CASE Configure(u)
  <2>1. stage'[u] = "generating" /\ \A t \in tasks : t.unit # u
      BY <1>5, <1>7, <1>9 DEF Configure, Stage
  <2>2. Undisturbed /\ ~Alone => pool' = pool /\ started' = started
      BY <1>2, <1>4, <1>9 DEF Configure, StartPool, NoPool
  <2> QED
      BY <1>2, <1>9, <2>1, <2>2 DEF Configure
<1>10. CASE Generated(u)
  <2>1. Undisturbed /\ ~Alone => pool' = pool /\ started' = {}
      BY <1>2, <1>10 DEF Generated, StopOwn
  <2>2. u \in rejected => stage'[u] = "done"
      BY <1>7, <1>10 DEF Generated, Fail, Stage
  <2>3. u \notin rejected => stage'[u] = "compile" /\ \A t \in tasks : t.unit # u
      BY <1>7, <1>10 DEF Generated, Stage, Pending
  <2> QED
      BY <1>10, <2>1, <2>2, <2>3 DEF Generated
<1>11. CASE Compile(u)
  <2>1. \/ stage'[u] = (IF J(u).exports THEN "optimize" ELSE IF J(u).simulates THEN "ask" ELSE "done")
        \/ stage'[u] = "done"
      BY <1>7, <1>11 DEF Compile, Fail, Stage
  <2> QED
      BY <1>2, <1>5, <1>11, <2>1 DEF Compile
<1>12. CASE OptimizePackage(u)
    BY <1>3, <1>5, <1>6, <1>7, <1>12 DEF OptimizePackage, Stage
<1>13. CASE Unpack(u)
  <2>1. stage'[u] = "optimizing"
      BY <1>7, <1>13 DEF Unpack, Stage
  <2> QED
      BY <1>2, <1>6, <1>13, <2>1 DEF Unpack, Submit
<1>14. CASE Optimized(u)
  <2>1. u \in rejected => stage'[u] = "done"
      BY <1>7, <1>14 DEF Optimized, Fail, Stage
  <2>2. u \notin rejected => stage'[u] = "done" /\ \A t \in tasks : t.unit # u
      BY <1>7, <1>14 DEF Optimized, Stage, Pending
  <2> QED
      BY <1>3, <1>6, <1>14, <2>1, <2>2 DEF Optimized
<1>15. CASE AskSimulator(u)
    BY <1>2, <1>5, <1>7, <1>15 DEF AskSimulator, Stage
<1>16. CASE Simulate(u)
    BY <1>2, <1>5, <1>7, <1>16 DEF Simulate, Stage
<1>17. CASE Simulated(u)
  <2>1. stage'[u] = "done"
      BY <1>7, <1>17 DEF Simulated, Fail, Stage
  <2> QED
      BY <1>2, <1>17, <2>1 DEF Simulated
<1> QED
    BY <1>8, <1>9, <1>10, <1>11, <1>12, <1>13, <1>14, <1>15, <1>16, <1>17 DEF Step

LEMMA StepKeepsPool ==
    ASSUME TypeOK, Progress, PoolInv, NEW u \in Units, Step(u)
    PROVE  PoolInv'
<1>1. BuildStep(u) /\ PoolStep(u)
    BY StepKinds, StepIsPoolStep
<1>2. /\ call' = call /\ Units' = Units /\ Jungles' = Jungles /\ over' = over
      /\ Alone' = Alone /\ Undisturbed' = Undisturbed /\ FirstPool' = FirstPool
    BY <1>1 DEF BuildStep, Units, UnitsOf, Jungles, Alone, Undisturbed, FirstPool
<1>3. ~over /\ stage[u] \notin {"none", "done"}
    BY <1>1, ActiveHasChain DEF BuildStep
<1>4. \A t \in tasks : t.unit \in Units /\ stage[t.unit] \in {"generating", "optimizing", "done"}
    BY DEF PoolInv
<1>5. \A v \in Units : v # u => stage'[v] = stage[v]
    BY <1>1 DEF BuildStep, TypeOK
<1>6. \A v \in Units : J(v)' = J(v)
    BY <1>2 DEF J
<1>7. Undisturbed /\ Alone => \A t \in tasks : t.unit # u => stage[t.unit] = "done"
    BY <1>3, <1>4, OneActive
<1>8. \A t \in tasks' : t.unit \in Units /\ stage'[t.unit] \in {"generating", "optimizing", "done"}
    BY <1>1, <1>4, <1>5 DEF PoolStep
<1>9. \A v \in Units : stage'[v] \in {"optimize", "unpack", "optimizing"} => J(v).exports
    BY <1>1, <1>5 DEF PoolInv, PoolStep
<1>10. Undisturbed => NobodyStranded'
  <2> SUFFICES ASSUME Undisturbed, NEW t \in tasks',
                      stage'[t.unit] \in {"generating", "optimizing"}, t.unit \notin rejected'
               PROVE  t.on \in {Main, pool'}
      BY DEF NobodyStranded
  <2>1. CASE t \notin tasks
      BY <1>1, <2>1 DEF PoolStep
  <2>2. CASE t \in tasks /\ t.unit # u
    <3>1. stage[t.unit] = stage'[t.unit] /\ ~Alone /\ t.unit \notin rejected
        BY <1>1, <1>4, <1>5, <1>7, <2>2 DEF PoolStep
    <3> QED
        BY <1>1, <2>2, <3>1 DEF PoolInv, PoolStep, NobodyStranded
  <2>3. CASE t \in tasks /\ t.unit = u
    <3>1. stage[u] \in {"generating", "optimizing"} /\ pool' = pool /\ t.unit \notin rejected
        BY <1>1, <1>3, <1>4, <2>3 DEF PoolStep
    <3> QED
        BY <2>3, <3>1 DEF PoolInv, NobodyStranded
  <2> QED
      BY <2>1, <2>2, <2>3
<1>11. Undisturbed /\ ~Alone => started' = {} /\ pool' = FirstPool
    BY <1>1, <1>3 DEF PoolInv, PoolStep
<1> QED
    BY <1>2, <1>6, <1>8, <1>9, <1>10, <1>11 DEF PoolInv

LEMMA NextKeepsPool == IInv /\ PoolInv /\ [Next]_vars => PoolInv'
<1> SUFFICES ASSUME IInv, PoolInv, [Next]_vars PROVE PoolInv'
    OBVIOUS
<1>1. TypeOK /\ Progress
    BY DEF IInv, Progress
<1>2. ASSUME call' = call
      PROVE  /\ Units' = Units /\ Jungles' = Jungles
             /\ Alone' = Alone /\ Undisturbed' = Undisturbed /\ FirstPool' = FirstPool
             /\ \A v \in Units : J(v)' = J(v)
    BY <1>2 DEF Units, UnitsOf, Jungles, Alone, Undisturbed, FirstPool, J
\* A chain turns to a unit, or ends.
<1>3. ASSUME UNCHANGED <<call, over, tasks, rejected, pool, started>>,
             \/ stage' = stage
             \/ \E w \in Units : stage[w] = "none" /\ stage' = [stage EXCEPT ![w] = "generate"]
      PROVE  PoolInv'
  <2>1. \A v \in Units : \/ stage'[v] = stage[v]
                         \/ stage[v] = "none" /\ stage'[v] = "generate"
      BY <1>1, <1>3 DEF TypeOK
  <2>2. \A t \in tasks : t.unit \in Units /\ stage'[t.unit] = stage[t.unit]
      BY <2>1 DEF PoolInv
  <2> QED
      BY <1>2, <1>3, <2>1, <2>2 DEF PoolInv, NobodyStranded
<1>4. ASSUME NEW s \in DOMAIN slots, TakeJungle(s) PROVE PoolInv'
  <2>1. CASE i < Len(Jungles)
    <3> DEFINE w == <<i + 1, 1>>
    <3>1. w \in Units /\ w[1] > i
        BY <1>1, <2>1, NextUnit DEF TypeOK
    <3>2. stage' = [stage EXCEPT ![w] = "generate"]
        BY <1>4, <2>1 DEF TakeJungle, Goto
    <3> HIDE DEF w
    <3>3. stage[w] = "none"
        BY <1>1, <3>1 DEF Progress, TakenInOrder
    <3> QED
        BY <1>3, <1>4, <3>1, <3>2, <3>3 DEF TakeJungle, taskVars, poolVars
  <2>2. CASE ~(i < Len(Jungles))
      BY <1>3, <1>4, <2>2 DEF TakeJungle, taskVars, poolVars
  <2> QED
      BY <2>1, <2>2
<1>5. ASSUME NEW s \in DOMAIN slots, GoOn(s) PROVE PoolInv'
  <2> DEFINE u == slots[s]
             w == <<u[1], u[2] + 1>>
  <2>1. u \in Units /\ u[1] \in Int /\ u[2] \in Int
      BY <1>1, <1>5, UnitFacts DEF GoOn, TypeOK
  <2>2. CASE NextProduct(s)
    <3>1. w \in Units /\ w[1] = u[1] /\ w[2] > u[2]
        BY <1>1, <2>1, <2>2, NextUnit DEF NextProduct
    <3>2. stage[w] = "none"
        BY <1>1, <2>1, <3>1 DEF Progress, OwnJungle
    <3>3. stage' = [stage EXCEPT ![w] = "generate"]
        BY <1>5, <2>2 DEF GoOn, Goto
    <3> HIDE DEF w
    <3> QED
        BY <1>3, <1>5, <3>1, <3>2, <3>3 DEF GoOn, taskVars, poolVars
  <2>3. CASE ~NextProduct(s)
      BY <1>3, <1>5, <2>3 DEF GoOn, taskVars, poolVars
  <2> QED
      BY <2>2, <2>3
<1>6. ASSUME NEW u \in Units, Step(u) PROVE PoolInv'
    BY <1>1, <1>6, StepKeepsPool
<1>7. ASSUME NEW t \in tasks, Settle(t) PROVE PoolInv'
  <2>1. /\ UNCHANGED <<call, over, stage, pool, started>>
        /\ tasks' \subseteq tasks /\ rejected \subseteq rejected'
      BY <1>7 DEF Settle, buildVars, poolVars
  <2> QED
      BY <1>2, <2>1 DEF PoolInv, NobodyStranded
\* No build is on its way when the driver stops the pool.
<1>8. ASSUME Finish PROVE PoolInv'
  <2>1. UNCHANGED <<call, stage, tasks, rejected, started>> /\ over'
      BY <1>8 DEF Finish, taskVars
  <2>2. \A u \in Units : stage[u] \in {"none", "done"}
    <3> SUFFICES ASSUME NEW u \in Units, stage[u] \notin {"none", "done"} PROVE FALSE
        OBVIOUS
    <3>1. PICK s \in DOMAIN slots : slots[s] = u
        BY <1>1, ActiveHasChain
    <3> QED
        BY <1>1, <1>8, <3>1, NoUnits DEF Finish, TypeOK
  <2>3. \A t \in tasks : t.unit \in Units /\ stage[t.unit] \in {"generating", "optimizing", "done"}
      BY DEF PoolInv
  <2>4. NobodyStranded'
      BY <2>1, <2>2, <2>3 DEF NobodyStranded
  <2>5. Undisturbed /\ ~Alone => started' = {}
      BY <2>1 DEF PoolInv
  <2> QED
      BY <1>2, <2>1, <2>2, <2>3, <2>4, <2>5 DEF PoolInv
<1>9. ASSUME UNCHANGED vars PROVE PoolInv'
    BY <1>3, <1>9 DEF vars
<1> QED
    BY <1>4, <1>5, <1>6, <1>7, <1>8, <1>9 DEF Next

LEMMA PoolInvariance == Spec => []PoolInv
<1>1. Init => PoolInv
  <2> SUFFICES ASSUME Init PROVE PoolInv
      OBVIOUS
  <2>1. \A u \in Units : stage[u] = "none"
      BY DEF Init
  <2>2. tasks = {} /\ started = {} /\ pool = FirstPool
      BY DEF Init
  <2> QED
      BY <2>1, <2>2 DEF PoolInv, NobodyStranded
<1>2. IInv /\ PoolInv /\ [Next]_vars => PoolInv'
    BY NextKeepsPool
<1> QED
    BY <1>1, <1>2, Invariance, PTL DEF Spec

\* No build waits for a pool another one stopped (stopPool of
\* src/worker-pool.ts), where one build runs at a time, or all of them share the
\* pool of the driver; run driver_exports shows that two exports at a time do
\* not (optimizePackage, src/readprg.ts).
THEOREM SharedPoolStays == Spec => [](Undisturbed => NobodyStranded)
<1>1. PoolInv => (Undisturbed => NobodyStranded)
    BY DEF PoolInv
<1> QED
    BY <1>1, PoolInvariance, PTL

-----------------------------------------------------------------------------
(* Nobody is stuck: the safety half of Finishes.                           *)

\* The build of u can take a step, or a task it waits for is answered.
Moves(u) ==
    \/ stage[u] \in {"generate", "configure", "compile", "optimize", "unpack", "ask", "simulating"}
    \/ stage[u] \in {"generating", "optimizing"} /\ (u \in rejected \/ Pending(u) = {})
    \/ stage[u] = "waiting" /\ AfterAnyRun(u)
    \/ \E t \in Pending(u) : t.on \in {Main, pool}

\* A build that began and did not end moves, or waits for the simulator behind
\* one that does.
NobodyIsStuck ==
    \A u \in Units : stage[u] \notin {"none", "done"} =>
        \/ Moves(u)
        \/ /\ stage[u] = "waiting"
           /\ \E v \in Units : stage[v] \in {"waiting", "simulating"} /\ Moves(v)

LEMMA SomebodyMoves ==
    ASSUME IInv, NobodyStranded, NEW u \in Units, stage[u] \notin {"none", "done"}
    PROVE  \/ Moves(u)
           \/ /\ stage[u] = "waiting"
              /\ \E v \in Units : stage[v] \in {"waiting", "simulating"} /\ Moves(v)
<1>1. CASE stage[u] \in {"generate", "configure", "compile", "optimize", "unpack", "ask", "simulating"}
    BY <1>1 DEF Moves
<1>2. CASE stage[u] \in {"generating", "optimizing"}
  <2>1. CASE u \in rejected \/ Pending(u) = {}
      BY <1>2, <2>1 DEF Moves
  <2>2. CASE u \notin rejected /\ Pending(u) # {}
    <3> PICK t \in Pending(u) : t \in tasks /\ t.unit = u
        BY <2>2 DEF Pending
    <3>1. t.on \in {Main, pool}
        BY <1>2, <2>2 DEF NobodyStranded
    <3> QED
        BY <3>1 DEF Moves
  <2> QED
      BY <2>1, <2>2
<1>3. CASE stage[u] = "waiting"
  <2>1. PICK q \in Seq(Units) : Queue(q)
      BY DEF IInv, RunsQueue
  <2>2. PICK n \in 1 .. Len(q) : q[n] = u
      BY <1>3, <2>1 DEF Queue
  <2>3. q # <<>> /\ 1 \in 1 .. Len(q)
      BY QueueElements, EmptySeq
  <2>4. q[1] \in Units /\ stage[q[1]] \in {"waiting", "simulating"}
      BY <2>1, <2>3, QueueElements DEF Queue
  <2>5. Moves(q[1])
      BY <2>1, <2>3, <2>4 DEF Queue, FirstMayRun, Moves
  <2> QED
      BY <1>3, <2>4, <2>5
<1> QED
    BY <1>1, <1>2, <1>3 DEF IInv, TypeOK, Stage

\* The driver does not hang: where builds do not stop each other's pool, one
\* that was begun always has a step to take, or waits in serializeSim behind one
\* that has, whatever failed (src/driver.ts).
THEOREM BuildsGetOn == Spec => [](Undisturbed => NobodyIsStuck)
<1>1. IInv /\ PoolInv => (Undisturbed => NobodyIsStuck)
    BY SomebodyMoves DEF PoolInv, NobodyIsStuck
<1> QED
    BY <1>1, Invariance, PoolInvariance, PTL

-----------------------------------------------------------------------------
(* The driver comes to an end: the rest of Finishes, but for the fairness.  *)

\* How many steps the build of a unit has left at most.
ToGo == [none |-> 11, generate |-> 10, configure |-> 9, generating |-> 8, compile |-> 7,
         optimize |-> 6, unpack |-> 5, optimizing |-> 4, ask |-> 3, waiting |-> 2,
         simulating |-> 1, done |-> 0]

\* The steps that are left, with one for the chain that leaves the unit.
StepsLeft ==
    {x \in Units \X (0 .. 11) :
        \/ x[2] <= ToGo[stage[x[1]]] /\ stage[x[1]] # "done"
        \/ x[2] = 0 /\ \E s \in DOMAIN slots : slots[s] = x[1]}

ChainsLeft == {s \in DOMAIN slots : slots[s] # Ended}

\* A step leaves less to do, or a task less to wait for.
GetsOn ==
    /\ IsFiniteSet(StepsLeft) /\ IsFiniteSet(ChainsLeft) /\ IsFiniteSet(tasks)
    /\ StepsLeft' \subseteq StepsLeft /\ ChainsLeft' \subseteq ChainsLeft /\ (over => over')
    /\ \/ StepsLeft' # StepsLeft \/ ChainsLeft' # ChainsLeft \/ over' # over
       \/ tasks' \subseteq tasks /\ tasks' # tasks

LEMMA ToGoFacts ==
    /\ \A x \in Stage : ToGo[x] \in 0 .. 11
    /\ ToGo["none"] = 11 /\ ToGo["generate"] = 10 /\ ToGo["done"] = 0
<1>1. \A x \in Stage : ToGo[x] \in 0 .. 11
    BY DEF ToGo, Stage
<1>2. ToGo["none"] = 11 /\ ToGo["generate"] = 10 /\ ToGo["done"] = 0
    BY DEF ToGo
<1> QED
    BY <1>1, <1>2

LEMMA StepClimbs ==
    ASSUME TypeOK, NEW u \in Units, Step(u)
    PROVE  ToGo[stage'[u]] < ToGo[stage[u]]
<1> USE DEF Goto, Fail, Stage, TypeOK, ToGo
<1>1. CASE Generate(u)
    BY <1>1 DEF Generate
<1>2. CASE Configure(u)
    BY <1>2 DEF Configure
<1>3. CASE Generated(u)
    BY <1>3 DEF Generated
<1>4. CASE Compile(u)
    BY <1>4 DEF Compile
<1>5. CASE OptimizePackage(u)
    BY <1>5 DEF OptimizePackage
<1>6. CASE Unpack(u)
    BY <1>6 DEF Unpack
<1>7. CASE Optimized(u)
    BY <1>7 DEF Optimized
<1>8. CASE AskSimulator(u)
    BY <1>8 DEF AskSimulator
<1>9. CASE Simulate(u)
    BY <1>9 DEF Simulate
<1>10. CASE Simulated(u)
    BY <1>10 DEF Simulated
<1> QED
    BY <1>1, <1>2, <1>3, <1>4, <1>5, <1>6, <1>7, <1>8, <1>9, <1>10 DEF Step

\* Tasks a unit submits.
TasksOf(u, n, p) == {[unit |-> u, n |-> m, on |-> p] : m \in 1 .. n}

LEMMA FewTasks ==
    ASSUME NEW u, NEW n \in Nat, NEW p PROVE IsFiniteSet(TasksOf(u, n, p))
<1> DEFINE f == [m \in 1 .. n |-> [unit |-> u, n |-> m, on |-> p]]
<1>1. f \in Surjection(1 .. n, TasksOf(u, n, p))
    BY DEF Surjection, TasksOf
<1>2. IsFiniteSet(1 .. n)
    BY FS_Interval
<1> QED
    BY <1>1, <1>2, FS_Surjection

LEMMA StepTasks ==
    ASSUME TypeOK, IsFiniteSet(tasks), NEW u \in Units, Step(u)
    PROVE  IsFiniteSet(tasks')
<1>1. J(u).configs \in Nat
  <2>1. u[1] \in 1 .. Len(Jungles) /\ Jungles \in Seq(Jungle)
      BY UnitFacts, DriverAssumption DEF TypeOK, Jungles
  <2>2. J(u) \in Jungle
      BY <2>1, ElementOfSeq DEF J
  <2> QED
      BY <2>2 DEF Jungle
<1>2. tasks' = tasks \/ \E n \in Nat : \E p : tasks' = tasks \cup TasksOf(u, n, p)
  <2>1. CASE Generate(u)
      BY <2>1 DEF Generate, Submit, TasksOf
  <2>2. CASE Configure(u)
    <3>1. PICK p : p = IF pool' = NoPool THEN Main ELSE pool'
        OBVIOUS
    <3>2. tasks' = tasks \cup TasksOf(u, J(u).configs, p)
        BY <2>2, <3>1 DEF Configure, TasksOf
    <3> QED
        BY <1>1, <3>2
  <2>3. CASE Unpack(u)
      BY <2>3 DEF Unpack, Submit, TasksOf
  <2>4. CASE ~(Generate(u) \/ Configure(u) \/ Unpack(u))
      BY <2>4 DEF Step, Generated, Compile, OptimizePackage, Optimized, AskSimulator, Simulate,
                  Simulated, taskVars
  <2> QED
      BY <2>1, <2>2, <2>3, <2>4
<1>3. ASSUME NEW n \in Nat, NEW p PROVE IsFiniteSet(tasks \cup TasksOf(u, n, p))
    BY FewTasks, FS_Union
<1> QED
    BY <1>2, <1>3

LEMMA UnitsAreFinite ==
    ASSUME call \in Jobs
    PROVE  IsFiniteSet(Units)
<1> DEFINE n == Len(Jungles)
           P(j) == {<<j, k>> : k \in 1 .. Jungles[j].products}
           f == [j \in 1 .. n |-> P(j)]
           S == {P(j) : j \in 1 .. n}
<1>1. n \in Nat /\ \A j \in 1 .. n : Jungles[j].products \in Nat
    BY JobFacts
<1>2. ASSUME NEW j \in 1 .. n PROVE IsFiniteSet(P(j))
  <2>m. PICK m \in Nat : m = Jungles[j].products
      BY <1>1
  <2> DEFINE g == [k \in 1 .. m |-> <<j, k>>]
  <2>1. IsFiniteSet(1 .. m)
      BY FS_Interval
  <2>2. g \in Surjection(1 .. m, P(j))
      BY <2>m DEF Surjection
  <2> QED
      BY <2>1, <2>2, FS_Surjection
<1>3. f \in Surjection(1 .. n, S)
  <2> HIDE DEF P
  <2> QED
      BY DEF Surjection
<1>4. IsFiniteSet(1 .. n)
    BY <1>1, FS_Interval
<1>5. IsFiniteSet(S)
  <2> HIDE DEF P, n
  <2> QED
      BY <1>3, <1>4, FS_Surjection
<1>6. IsFiniteSet(UNION S)
  <2> HIDE DEF P
  <2> QED
      BY <1>2, <1>5, FS_UNION
<1>7. Units = UNION S
    BY JobFacts DEF Units, UnitsOf, Jungles
<1> QED
    BY <1>6, <1>7

LEMMA LeftIsFinite ==
    ASSUME TypeOK
    PROVE  IsFiniteSet(StepsLeft) /\ IsFiniteSet(ChainsLeft)
<1>1. IsFiniteSet(Units \X (0 .. 11))
  <2> PICK a \in Int, b \in Int : a = 0 /\ b = 11
      OBVIOUS
  <2>1. IsFiniteSet(a .. b)
      BY FS_Interval
  <2>2. IsFiniteSet(Units)
      BY UnitsAreFinite DEF TypeOK
  <2>3. IsFiniteSet(Units \X (a .. b))
      BY <2>1, <2>2, FS_Product
  <2> QED
      BY <2>3
<1>2. call.parallelism \in Nat
    BY JobFacts DEF TypeOK
<1>3. IsFiniteSet(1 .. call.parallelism)
    BY <1>2, FS_Interval
<1>4. StepsLeft \in SUBSET (Units \X (0 .. 11)) /\ ChainsLeft \in SUBSET (1 .. call.parallelism)
    BY DEF StepsLeft, ChainsLeft, TypeOK
<1> QED
    BY <1>1, <1>3, <1>4, FS_Subset

\* A unit that goes on leaves fewer steps, and one that is taken up, or left by
\* its chain, no more.
LEMMA FewerSteps ==
    ASSUME TypeOK, Units' = Units, NEW u \in Units, NEW x \in Stage,
           stage' = [stage EXCEPT ![u] = x], ToGo[x] < ToGo[stage[u]],
           \A s \in DOMAIN slots' : \/ slots'[s] \notin Units \ {u}
                                    \/ \E t \in DOMAIN slots : slots[t] = slots'[s]
    PROVE  StepsLeft' \subseteq StepsLeft /\ StepsLeft' # StepsLeft
<1>1. stage \in [Units -> Stage] /\ stage'[u] = x /\ \A v \in Units : v # u => stage'[v] = stage[v]
    BY DEF TypeOK
<1>2. ToGo[stage[u]] \in 1 .. 11 /\ ToGo[x] \in 0 .. 11 /\ stage[u] # "done"
    BY <1>1, ToGoFacts
<1> PICK top \in 1 .. 11 : top = ToGo[stage[u]]
    BY <1>2
<1> PICK y : y = <<u, top>>
    OBVIOUS
<1>3. y \in Units \X (0 .. 11) /\ y[1] = u /\ y[2] = top
    OBVIOUS
<1>4. y \in StepsLeft
    BY <1>2, <1>3 DEF StepsLeft
<1>5. y \notin StepsLeft'
  <2>1. ~(y[2] <= ToGo[stage'[y[1]]]) /\ y[2] # 0
      BY <1>1, <1>2, <1>3
  <2> QED
      BY <2>1 DEF StepsLeft
<1>6. ASSUME NEW z \in StepsLeft' PROVE z \in StepsLeft
  <2>1. /\ z \in Units \X (0 .. 11)
        /\ \/ z[2] <= ToGo[stage'[z[1]]] /\ stage'[z[1]] # "done"
           \/ z[2] = 0 /\ \E s \in DOMAIN slots' : slots'[s] = z[1]
      BY DEF StepsLeft
  <2>2. z[1] \in Units /\ z[2] \in 0 .. 11
      BY <2>1
  <2>3. CASE z[1] = u
    <3>1. z[2] <= ToGo[x] \/ z[2] = 0
        BY <1>1, <2>1, <2>3
    <3>2. z[2] <= ToGo[stage[z[1]]]
        BY <1>2, <2>2, <2>3, <3>1
    <3> QED
        BY <1>2, <2>1, <2>3, <3>2 DEF StepsLeft
  <2>4. CASE z[1] # u
    <3>1. stage'[z[1]] = stage[z[1]]
        BY <1>1, <2>2, <2>4
    <3>2. (\E s \in DOMAIN slots' : slots'[s] = z[1]) => \E s \in DOMAIN slots : slots[s] = z[1]
        BY <2>2, <2>4
    <3> QED
        BY <2>1, <3>1, <3>2 DEF StepsLeft
  <2> QED
      BY <2>3, <2>4
<1> QED
    BY <1>4, <1>5, <1>6

\* Nothing is left over of a unit that is done and that its chain leaves.
LEMMA ChainLeaves ==
    ASSUME TypeOK, OwnJungle, Units' = Units, NEW s \in DOMAIN slots, slots[s] \in Units,
           stage[slots[s]] = "done", stage' = stage, slots' = [slots EXCEPT ![s] = Idle]
    PROVE  StepsLeft' \subseteq StepsLeft /\ StepsLeft' # StepsLeft
<1> PICK u \in Units : u = slots[s]
    OBVIOUS
<1>1. Idle \notin Units
    BY NoUnits DEF TypeOK
<1>2. \A t \in DOMAIN slots' : slots'[t] \in Units => slots'[t] = slots[t] /\ slots[t] # u
    BY <1>1 DEF OwnJungle, TypeOK
<1>3. DOMAIN slots' = DOMAIN slots
    BY DEF TypeOK
<1> PICK y : y = <<u, 0>>
    OBVIOUS
<1>4. y \in Units \X (0 .. 11) /\ y[1] = u /\ y[2] = 0
    OBVIOUS
<1>5. y \in StepsLeft
    BY <1>4 DEF StepsLeft
<1>6. y \notin StepsLeft'
    BY <1>2, <1>4 DEF StepsLeft
<1>7. StepsLeft' \subseteq StepsLeft
  <2> SUFFICES ASSUME NEW z \in StepsLeft' PROVE z \in StepsLeft
      OBVIOUS
  <2>1. /\ z \in Units \X (0 .. 11)
        /\ \/ z[2] <= ToGo[stage[z[1]]] /\ stage[z[1]] # "done"
           \/ z[2] = 0 /\ \E t \in DOMAIN slots' : slots'[t] = z[1]
      BY DEF StepsLeft
  <2>2. (\E t \in DOMAIN slots' : slots'[t] = z[1]) => \E t \in DOMAIN slots : slots[t] = z[1]
      BY <1>2, <1>3, <2>1
  <2> QED
      BY <2>1, <2>2 DEF StepsLeft
<1> QED
    BY <1>5, <1>6, <1>7

LEMMA NextGetsOn ==
    ASSUME IInv, IsFiniteSet(tasks), Next
    PROVE  GetsOn /\ IsFiniteSet(tasks')
<1>1. TypeOK /\ OwnJungle /\ TakenInOrder /\ Idle \notin Units /\ Ended \notin Units /\ Idle # Ended
    BY NoUnits DEF IInv, TypeOK
<1>2. IsFiniteSet(StepsLeft) /\ IsFiniteSet(ChainsLeft)
    BY <1>1, LeftIsFinite
<1>3. ASSUME call' = call PROVE Units' = Units
    BY <1>3 DEF Units, UnitsOf
<1>4. slots \in [1 .. call.parallelism -> Units \cup {Idle, Ended}]
    BY <1>1 DEF TypeOK
<1>5. ASSUME NEW s \in DOMAIN slots, TakeJungle(s) PROVE GetsOn /\ tasks' = tasks
  <2>1. Units' = Units /\ tasks' = tasks /\ over' = over /\ slots[s] = Idle
      BY <1>3, <1>5 DEF TakeJungle, taskVars
  <2>2. CASE i < Len(Jungles)
    <3> PICK w : w = <<i + 1, 1>>
        OBVIOUS
    <3>1. w \in Units /\ stage[w] = "none"
      <4>1. w \in Units
          BY <1>1, <2>2, NextUnit
      <4>2. w[1] > i
          BY <1>1 DEF TypeOK
      <4> QED
          BY <1>1, <4>1, <4>2 DEF TakenInOrder
    <3>2. stage' = [stage EXCEPT ![w] = "generate"] /\ slots' = [slots EXCEPT ![s] = w]
        BY <1>5, <2>2 DEF TakeJungle, Goto
    <3>3. \A t \in DOMAIN slots' : \/ slots'[t] \notin Units \ {w}
                                    \/ \E r \in DOMAIN slots : slots[r] = slots'[t]
        BY <1>4, <3>2
    <3>4. "generate" \in Stage /\ ToGo["generate"] < ToGo[stage[w]]
        BY <3>1, ToGoFacts DEF Stage, ToGo
    <3>5. StepsLeft' \subseteq StepsLeft /\ StepsLeft' # StepsLeft
        BY <1>1, <2>1, <3>1, <3>2, <3>3, <3>4, FewerSteps
    <3>6. ChainsLeft' \subseteq ChainsLeft
        BY <1>1, <1>4, <2>1, <3>2 DEF ChainsLeft
    <3> QED
        BY <1>2, <2>1, <3>5, <3>6 DEF GetsOn
  <2>3. CASE ~(i < Len(Jungles))
    <3>1. stage' = stage /\ slots' = [slots EXCEPT ![s] = Ended]
        BY <1>5, <2>3 DEF TakeJungle
    <3>2. \A v \in Units : (\E t \in DOMAIN slots' : slots'[t] = v) => \E t \in DOMAIN slots : slots[t] = v
        BY <1>1, <1>4, <3>1
    <3>3. StepsLeft' \subseteq StepsLeft
        BY <2>1, <3>1, <3>2 DEF StepsLeft
    <3>4. ChainsLeft' \subseteq ChainsLeft /\ s \in ChainsLeft /\ s \notin ChainsLeft'
        BY <1>1, <1>4, <2>1, <3>1 DEF ChainsLeft
    <3> QED
        BY <1>2, <2>1, <3>3, <3>4 DEF GetsOn
  <2> QED
      BY <2>1, <2>2, <2>3
<1>6. ASSUME NEW s \in DOMAIN slots, GoOn(s) PROVE GetsOn /\ tasks' = tasks
  <2> PICK u : u = slots[s]
      OBVIOUS
  <2>1. Units' = Units /\ tasks' = tasks /\ over' = over /\ u \in Units /\ stage[u] = "done"
      BY <1>3, <1>6 DEF GoOn, taskVars
  <2>2. CASE NextProduct(s)
    <3> PICK w : w = <<u[1], u[2] + 1>>
        OBVIOUS
    <3>1. w \in Units /\ stage[w] = "none"
      <4>1. w \in Units
          BY <1>1, <2>1, <2>2, NextUnit DEF NextProduct
      <4>2. u[1] \in Int /\ u[2] \in Int
          BY <1>1, <2>1, UnitFacts DEF TypeOK
      <4>3. w[1] = u[1] /\ w[2] > u[2]
          BY <4>2
      <4> QED
          BY <1>1, <2>1, <4>1, <4>3 DEF OwnJungle
    <3>2. stage' = [stage EXCEPT ![w] = "generate"] /\ slots' = [slots EXCEPT ![s] = w]
        BY <1>6, <2>2 DEF GoOn, Goto
    <3>3. \A t \in DOMAIN slots' : \/ slots'[t] \notin Units \ {w}
                                    \/ \E r \in DOMAIN slots : slots[r] = slots'[t]
        BY <1>4, <3>2
    <3>4. "generate" \in Stage /\ ToGo["generate"] < ToGo[stage[w]]
        BY <3>1, ToGoFacts DEF Stage, ToGo
    <3>5. StepsLeft' \subseteq StepsLeft /\ StepsLeft' # StepsLeft
        BY <1>1, <2>1, <3>1, <3>2, <3>3, <3>4, FewerSteps
    <3>6. ChainsLeft' \subseteq ChainsLeft
        BY <1>1, <1>4, <2>1, <3>2 DEF ChainsLeft
    <3> QED
        BY <1>2, <2>1, <3>5, <3>6 DEF GetsOn
  <2>3. CASE ~NextProduct(s)
    <3>1. stage' = stage /\ slots' = [slots EXCEPT ![s] = Idle]
        BY <1>6, <2>3 DEF GoOn
    <3>2. StepsLeft' \subseteq StepsLeft /\ StepsLeft' # StepsLeft
        BY <1>1, <2>1, <3>1, ChainLeaves
    <3>3. ChainsLeft' \subseteq ChainsLeft
        BY <1>1, <1>4, <2>1, <3>1 DEF ChainsLeft
    <3> QED
        BY <1>2, <2>1, <3>2, <3>3 DEF GetsOn
  <2> QED
      BY <2>1, <2>2, <2>3
<1>7. ASSUME NEW u \in Units, Step(u) PROVE GetsOn /\ IsFiniteSet(tasks')
  <2>1. BuildStep(u)
      BY <1>1, <1>7, StepKinds
  <2>2. PICK x \in Stage : stage' = [stage EXCEPT ![u] = x]
      BY <2>1 DEF BuildStep
  <2>3. Units' = Units /\ slots' = slots /\ over' = over
      BY <1>3, <2>1 DEF BuildStep
  <2>4. stage'[u] = x
      BY <1>1, <2>2 DEF TypeOK
  <2>5. ToGo[x] < ToGo[stage[u]]
      BY <1>1, <1>7, <2>4, StepClimbs
  <2>6. StepsLeft' \subseteq StepsLeft /\ StepsLeft' # StepsLeft
      BY <1>1, <2>2, <2>3, <2>5, FewerSteps
  <2>7. ChainsLeft' = ChainsLeft
      BY <2>3 DEF ChainsLeft
  <2> QED
      BY <1>1, <1>2, <1>7, <2>3, <2>6, <2>7, StepTasks DEF GetsOn
<1>8. ASSUME NEW t \in tasks, Settle(t) PROVE GetsOn /\ IsFiniteSet(tasks')
  <2>1. Units' = Units /\ slots' = slots /\ stage' = stage /\ over' = over /\ tasks' = tasks \ {t}
      BY <1>3, <1>8 DEF Settle, buildVars
  <2>2. StepsLeft' = StepsLeft /\ ChainsLeft' = ChainsLeft
      BY <2>1 DEF StepsLeft, ChainsLeft
  <2> QED
      BY <1>2, <2>1, <2>2, FS_RemoveElement DEF GetsOn
<1>9. ASSUME Finish PROVE GetsOn /\ tasks' = tasks
  <2>1. Units' = Units /\ slots' = slots /\ stage' = stage /\ tasks' = tasks /\ ~over /\ over'
      BY <1>3, <1>9 DEF Finish, taskVars
  <2>2. StepsLeft' = StepsLeft /\ ChainsLeft' = ChainsLeft
      BY <2>1 DEF StepsLeft, ChainsLeft
  <2> QED
      BY <1>2, <2>1, <2>2 DEF GetsOn
<1> QED
    BY <1>5, <1>6, <1>7, <1>8, <1>9 DEF Next

\* Every step of the driver gets on, for any jobs: the steps its builds have
\* left, the chains that did not end and, from one such step to the next, the
\* tasks that did not settle become fewer (src/driver.ts, src/util.ts).  So it
\* takes finitely many steps, whatever fails and in whatever order.
THEOREM StepsRunOut == Spec => [][GetsOn]_vars
<1>1. Init => IInv /\ IsFiniteSet(tasks)
    BY InitInv, FS_EmptySet DEF Init
<1>2. IInv /\ IsFiniteSet(tasks) /\ [Next]_vars => (IInv /\ IsFiniteSet(tasks))'
  <2>1. UNCHANGED vars => tasks' = tasks
      BY DEF vars
  <2> QED
      BY <2>1, NextInv, NextGetsOn
<1>3. IInv /\ IsFiniteSet(tasks) /\ [Next]_vars => [GetsOn]_vars
    BY NextGetsOn
<1> QED
    BY <1>1, <1>2, <1>3, PTL DEF Spec

\* Until it is over somebody has a step to take.
SomethingIsLeft ==
    \/ \A s \in DOMAIN slots : slots[s] = Ended
    \/ \E s \in DOMAIN slots : \/ slots[s] = Idle
                               \/ slots[s] \in Units /\ stage[slots[s]] = "done"
    \/ \E u \in Units : stage[u] \notin {"none", "done"} /\ Moves(u)

\* The driver does not stop before it is over: where builds do not stop each
\* other's pool, a chain may take or leave a jungle, a build gets on, or it may
\* finish.  With StepsRunOut, it finishes under any fair scheduling.
THEOREM DriverGetsOn == Spec => [](Undisturbed /\ ~over => SomethingIsLeft)
<1>1. ASSUME IInv, PoolInv, Undisturbed, ~over PROVE SomethingIsLeft
  <2> SUFFICES ASSUME ~SomethingIsLeft PROVE FALSE
      OBVIOUS
  <2> PICK s \in DOMAIN slots : slots[s] # Ended
      BY DEF SomethingIsLeft
  <2>1. slots[s] # Idle /\ ~(slots[s] \in Units /\ stage[slots[s]] = "done")
      BY DEF SomethingIsLeft
  <2>2. slots[s] \in Units
      BY <1>1, <2>1 DEF IInv, TypeOK
  <2> PICK u \in Units : u = slots[s]
      BY <2>2
  <2>3. stage[u] \notin {"none", "done"}
      BY <1>1, <2>1 DEF IInv, OwnJungle
  <2>4. \/ Moves(u)
        \/ \E v \in Units : stage[v] \in {"waiting", "simulating"} /\ Moves(v)
      BY <1>1, <2>3, SomebodyMoves DEF PoolInv
  <2> QED
      BY <2>3, <2>4 DEF SomethingIsLeft
<1> QED
    BY <1>1, Invariance, PoolInvariance, PTL
=============================================================================
