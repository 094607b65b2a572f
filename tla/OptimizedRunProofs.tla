------------------------- MODULE OptimizedRunProofs -------------------------
(***************************************************************************)
(* Proofs about OptimizedRun, for any control flow graphs: what the        *)
(* optimizer does with the results of findDeadStores and minimizeLocals    *)
(* changes nothing the function reads, and the candidates of copy          *)
(* propagation are what they are said to be.                               *)
(*                                                                         *)
(* What is known where the run is goes along with it: it is known behind   *)
(* an event if it was known before, and at the start of a block if it was  *)
(* at the end of the one the run comes from.  So each invariant speaks of  *)
(* the state the analysis has at the next event (A[at[2] - 1]), for any    *)
(* walk A that is right for the block (Settled).  What is found is all     *)
(* there is to find (GreatestIsFound).                                     *)
(***************************************************************************)
EXTENDS OptimizedRun, DeadStoreProofs

-----------------------------------------------------------------------------
(* Coloring.                                                               *)

\* Among the numbers up to its size one is not in a set; Lowest is one of them.
LEMMA LowestFacts ==
    ASSUME NEW inUse, IsFiniteSet(inUse)
    PROVE  Lowest(inUse) \in Nat /\ Lowest(inUse) \notin inUse
<1> DEFINE n == Cardinality(inUse)
           T == {c \in 0 .. n : c \notin inUse}
<1>1. n \in Nat
    BY FS_CardinalityType
<1>2. T # {}
  <2> SUFFICES ASSUME T = {} PROVE FALSE
      OBVIOUS
  <2>1. 0 .. n \in SUBSET inUse
      OBVIOUS
  <2>2. Cardinality(0 .. n) = n + 1
      BY <1>1, FS_Interval
  <2>3. Cardinality(0 .. n) <= n
      BY <2>1, FS_Subset
  <2> QED
      BY <1>1, <2>2, <2>3
<1>3. T \in SUBSET Nat
    BY <1>1
<1>4. PICK m \in T : \A c \in T : m <= c
  <2> HIDE DEF T
  <2> QED
      BY <1>2, <1>3, LeastNumber
<1>5. \A d \in 0 .. m - 1 : d \in inUse
  <2> SUFFICES ASSUME NEW d \in 0 .. m - 1, d \notin inUse PROVE FALSE
      OBVIOUS
  <2>1. d \in 0 .. n /\ d < m
      BY <1>1, <1>4
  <2> QED
      BY <1>1, <1>4, <2>1
<1>6. \E c \in 0 .. n : c \notin inUse /\ \A d \in 0 .. c - 1 : d \in inUse
    BY <1>4, <1>5
<1>7. Lowest(inUse) \in 0 .. n /\ Lowest(inUse) \notin inUse
    BY <1>6 DEF Lowest
<1> QED
    BY <1>1, <1>7

\* The equation of Colored.
LEMMA ColoredIs ==
    ASSUME NEW order, Len(order) \in Nat
    PROVE  Colored(order) = [k \in 0 .. Len(order) |->
                IF k = 0 THEN <<>> ELSE Color(Colored(order)[k - 1], order[k])]
<1> DEFINE n == Len(order)
           Upto(m, w) == w = [k \in 0 .. m |-> IF k = 0 THEN <<>> ELSE Color(w[k - 1], order[k])]
           S == {m \in Nat : \E w : Upto(m, w)}
<1>1. 0 \in S
  <2> DEFINE w == [k \in 0 .. 0 |-> <<>>]
  <2>1. Upto(0, w)
      OBVIOUS
  <2> QED
      BY <2>1
<1>2. ASSUME NEW m \in Nat, m \in S PROVE m + 1 \in S
  <2>1. PICK w : Upto(m, w)
      BY <1>2
  <2>2. w[0] = <<>> /\ \A k \in 0 .. m : k # 0 => w[k] = Color(w[k - 1], order[k])
      BY <2>1
  <2> DEFINE v == [k \in 0 .. m + 1 |-> IF k = m + 1 THEN Color(w[m], order[m + 1]) ELSE w[k]]
  <2>a. ASSUME NEW k \in 0 .. m PROVE v[k] = w[k]
      OBVIOUS
  <2>b. m + 1 \in 0 .. m + 1
      OBVIOUS
  <2>c. v[m + 1] = Color(w[m], order[m + 1])
      BY <2>b
  <2>d. v = [k \in 0 .. m + 1 |-> v[k]]
      OBVIOUS
  <2> HIDE DEF v
  <2>3. ASSUME NEW k \in 0 .. m + 1
        PROVE  v[k] = IF k = 0 THEN <<>> ELSE Color(v[k - 1], order[k])
    <3>1. CASE k = m + 1
      <4>1. k # 0 /\ k - 1 = m /\ m \in 0 .. m
          BY <3>1
      <4> QED
          BY <2>a, <2>c, <3>1, <4>1
    <3>2. CASE k \in 0 .. m /\ k # 0
      <4>1. k - 1 \in 0 .. m
          BY <3>2
      <4> QED
          BY <2>2, <2>a, <3>2, <4>1
    <3>3. CASE k = 0
      <4>1. 0 \in 0 .. m
          OBVIOUS
      <4> QED
          BY <2>2, <2>a, <3>3, <4>1
    <3> QED
        BY <3>1, <3>2, <3>3
  <2>4. Upto(m + 1, v)
      BY <2>d, <2>3
  <2>5. \E u : Upto(m + 1, u)
      BY <2>4
  <2> QED
      BY <2>5
<1>3. n \in S
    BY <1>1, <1>2, SetInduction
<1>4. \E w : Upto(n, w)
    BY <1>3
<1>5. Colored(order) = CHOOSE w : Upto(n, w)
    BY DEF Colored
<1>6. Upto(n, Colored(order))
  <2> HIDE DEF Upto
  <2> QED
      BY <1>4, <1>5
<1> QED
    BY <1>6

\* Colors for some locals, different ones where they conflict.
Proper(given, S) ==
    /\ DOMAIN given = S
    /\ \A v \in S : given[v] \in Nat
    /\ \A u, v \in S : <<u, v>> \in localConflicts => given[u] # given[v]

LEMMA ColorFacts ==
    ASSUME NEW S \in SUBSET Locals, NEW given, Proper(given, S), NEW v \in Locals
    PROVE  Proper(Color(given, v), S \cup {v})
<1> DEFINE inUse == InUse(given, v)
           c == Lowest(inUse)
           next == Color(given, v)
<1>1. IsFiniteSet(inUse)
  <2>1. S \cap conflictsWith(v) \in SUBSET Locals
      OBVIOUS
  <2>2. IsFiniteSet(S \cap conflictsWith(v))
      BY <2>1, GraphAssumption, FS_Subset
  <2>3. inUse = {given[y] : y \in S \cap conflictsWith(v)}
      BY DEF InUse, Proper
  <2> DEFINE f == [y \in S \cap conflictsWith(v) |-> given[y]]
  <2>4. f \in Surjection(S \cap conflictsWith(v), inUse)
      BY <2>3 DEF Surjection
  <2> QED
      BY <2>2, <2>4, FS_Surjection
<1>2. c \in Nat /\ c \notin inUse
    BY <1>1, LowestFacts
<1>3. next = Put(given, v, c)
    BY DEF Color
<1> HIDE DEF c, next, inUse
<1>4. DOMAIN next = S \cup {v} /\ next[v] = c /\ \A u \in S : u # v => next[u] = given[u]
    BY <1>3 DEF Put, Proper
<1>5. ASSUME NEW u \in S, <<u, v>> \in localConflicts \/ <<v, u>> \in localConflicts
      PROVE  given[u] # c
  <2>1. <<v, u>> \in localConflicts
      BY <1>5 DEF localConflicts, Decls
  <2>2. u \in conflictsWith(v)
      BY <2>1 DEF conflictsWith, Decls
  <2>3. given[u] \in inUse
      BY <2>2 DEF inUse, InUse, Proper
  <2> QED
      BY <1>2, <2>3
<1>6. ASSUME NEW u \in S \cup {v}, NEW w \in S \cup {v}, <<u, w>> \in localConflicts
      PROVE  next[u] # next[w]
  <2>1. u # w
      BY <1>6 DEF localConflicts
  <2> QED
      BY <1>4, <1>5, <1>6, <2>1 DEF Proper
<1>7. \A u \in S \cup {v} : next[u] \in Nat
    BY <1>2, <1>4 DEF Proper
<1> QED
    BY <1>4, <1>6, <1>7 DEF Proper, next


\* An order goes through all locals.
LEMMA OrderFacts ==
    ASSUME NEW order \in Order
    PROVE  /\ Len(order) \in Nat
           /\ \A k \in 1 .. Len(order) : order[k] \in Locals
           /\ \A v \in Locals : \E k \in 1 .. Len(order) : order[k] = v
<1> DEFINE n == Cardinality(Locals)
<1>1. n \in Nat
    BY GraphAssumption, FS_CardinalityType
<1>2. order \in [1 .. n -> Locals] /\ \A i, j \in 1 .. n : i # j => order[i] # order[j]
    BY DEF Order, SetToSeqs
<1>3. order \in Seq(Locals)
    BY <1>1, <1>2, SeqDef
<1>4. Len(order) = n
    BY <1>1, <1>2, <1>3, LenProperties
<1>5. order \in Injection(1 .. n, Locals)
    BY <1>2 DEF Injection, IsInjective
<1>6. IsFiniteSet(1 .. n) /\ Cardinality(1 .. n) = n
    BY <1>1, FS_Interval
<1>7. order \in Surjection(1 .. n, Locals)
    BY <1>5, <1>6, GraphAssumption, FS_Injection
<1>8. \A v \in Locals : \E k \in 1 .. n : order[k] = v
    BY <1>7 DEF Surjection
<1> QED
    BY <1>1, <1>2, <1>4, <1>8

LEMMA ColoredFacts ==
    ASSUME NEW order \in Order
    PROVE  Proper(Colored(order)[Len(order)], Locals)
<1> DEFINE n == Len(order)
           given == Colored(order)
           Upto(k) == {order[i] : i \in 1 .. k}
           S == {k \in Nat : k <= n => Proper(given[k], Upto(k))}
<1>1. /\ n \in Nat
      /\ \A k \in 1 .. n : order[k] \in Locals
      /\ \A v \in Locals : \E k \in 1 .. n : order[k] = v
    BY OrderFacts
<1>2. given = [k \in 0 .. n |-> IF k = 0 THEN <<>> ELSE Color(given[k - 1], order[k])]
    BY <1>1, ColoredIs
<1> HIDE DEF given, n
<1>3. given[0] = <<>> /\ \A k \in 1 .. n : given[k] = Color(given[k - 1], order[k])
  <2>1. 0 \in 0 .. n /\ 1 .. n \subseteq 0 .. n /\ 0 \notin 1 .. n
      BY <1>1
  <2> QED
      BY <1>2, <2>1
<1>4. 0 \in S
  <2>1. Upto(0) = {}
      OBVIOUS
  <2>e. DOMAIN <<>> = {}
    <3>1. DOMAIN <<>> = 1 .. 0
        BY LenProperties, EmptySeq
    <3> QED
        BY <3>1
  <2>2. Proper(given[0], Upto(0))
      BY <1>3, <2>1, <2>e DEF Proper
  <2> QED
      BY <2>2
<1>5. ASSUME NEW k \in Nat, k \in S PROVE k + 1 \in S
  <2> SUFFICES ASSUME k + 1 <= n PROVE Proper(given[k + 1], Upto(k + 1))
      OBVIOUS
  <2>1. k <= n /\ k + 1 \in 1 .. n /\ (k + 1) - 1 = k /\ 1 .. k \subseteq 1 .. n
      BY <1>1
  <2>2. Proper(given[k], Upto(k))
      BY <1>5, <2>1
  <2>3. Upto(k) \in SUBSET Locals /\ order[k + 1] \in Locals
      BY <1>1, <2>1
  <2>4. Proper(Color(given[k], order[k + 1]), Upto(k) \cup {order[k + 1]})
      BY <2>2, <2>3, ColorFacts
  <2>5. given[k + 1] = Color(given[k], order[k + 1])
      BY <1>3, <2>1
  <2>6. Upto(k + 1) = Upto(k) \cup {order[k + 1]}
    <3>1. 1 .. k + 1 = (1 .. k) \cup {k + 1}
        OBVIOUS
    <3> QED
        BY <3>1
  <2> QED
      BY <2>4, <2>5, <2>6
<1>6. n \in S
  <2> HIDE DEF S
  <2> QED
      BY <1>1, <1>4, <1>5, SetInduction
<1>7. Proper(given[n], Upto(n))
    BY <1>1, <1>6
<1>8. Upto(n) = Locals
    BY <1>1
<1>9. Proper(given[n], Locals)
    BY <1>7, <1>8
<1> QED
    BY <1>9 DEF given, n

-----------------------------------------------------------------------------
(* What the variables are.                                                 *)

\* Before the variables are allocated.
AtStart ==
    /\ at = <<graph.entry, 1>>
    /\ lean = memory
    /\ writer = [v \in Locals |-> None]
    /\ unread = {}

Allocated ==
    /\ Analyzed
    /\ Proper(colors, Locals)
    /\ DOMAIN merged = {Slot(v) : v \in Decls}

RunTypeOK ==
    /\ at # Done =>
        /\ at \in Nat \X Nat
        /\ at[1] \in Blocks /\ at[2] \in 1 .. Len(graph.events[at[1]]) + 1
    /\ DOMAIN memory = Decls /\ DOMAIN lean = Decls
    /\ writer \in [Locals -> (Nat \X Nat) \cup {None}]
    /\ unread \subseteq Locals

RunInv ==
    /\ AInv
    /\ RunTypeOK
    /\ IF colors = <<>> THEN AtStart ELSE Allocated

\* If it gets everywhere, it knows of every block.
LEMMA AllAreSettled ==
    ASSUME AInv, Analyzed, EveryBlockEnds(graph)
    PROVE  \A b \in Blocks : states[b] # None /\ \E A : Settled(b, A)
<1> DEFINE S == {b \in Blocks : states[b] # None}
<1>1. \A b \in S : \E A : Settled(b, A)
    BY DEF AInv, DoneIsSettled, Analyzed
<1>2. \A b \in S : PredsIn(graph, b) \subseteq S
  <2> SUFFICES ASSUME NEW b \in S, NEW p \in Preds(b) PROVE p \in S
      BY DEF Preds
  <2>1. PICK A : Settled(b, A)
      BY <1>1
  <2>2. states[p] # None
      BY <2>1 DEF Settled
  <2>3. p \in Blocks
      BY GraphFacts DEF AInv, TypeOK
  <2> QED
      BY <2>2, <2>3
<1>3. S \in SUBSET DOMAIN graph.succs /\ {b \in DOMAIN graph.succs : graph.succs[b] = {}} \subseteq S
    BY DEF AInv, TypeOK, Blocks
<1>4. S = Blocks
  <2> HIDE DEF S
  <2> QED
      BY <1>2, <1>3 DEF EveryBlockEnds, Blocks
<1> QED
    BY <1>1, <1>4


\* The run leaves what was found alone.
LEMMA SameAnalysis ==
    ASSUME UNCHANGED avars
    PROVE  /\ \A b, A : Settled(b, A)' <=> Settled(b, A)
           /\ AInv => AInv'
           /\ Blocks' = Blocks
           /\ \A b, i : Event(b, i)' = Event(b, i)
           /\ localConflicts' = localConflicts
           /\ CandidatesLive => CandidatesLive'
<1>1. graph' = graph /\ queue' = queue /\ states' = states /\ found' = found
    BY DEF avars
<1>2. /\ Blocks' = Blocks
      /\ \A b : Preds(b)' = Preds(b)
      /\ \A s : StateOK(s)' <=> StateOK(s)
      /\ \A f : FoundOK(f)' <=> FoundOK(f)
      /\ \A b, i : Event(b, i)' = Event(b, i)
    BY <1>1, SameGraph
<1>3. \A s, e, n : Before(s, e, n)' = Before(s, e, n)
    BY <1>1, SameBefore
<1>4. \A s, b, e : AfterThrow(s, b, e)' = AfterThrow(s, b, e)
    BY <1>1 DEF AfterThrow
<1>5. \A b, i : \A s, e : Before(AfterThrow(s, b, e), e, <<b, i>>)' = Before(AfterThrow(s, b, e), e, <<b, i>>)
    BY <1>3, <1>4
<1>6. ASSUME NEW b, NEW A PROVE IsWalk(b, A)' <=> IsWalk(b, A)
  <2>1. \A i \in 1 .. Len(graph.events[b]) :
            Before(AfterThrow(A[i], b, Event(b, i)), Event(b, i), <<b, i>>)'
                = Before(AfterThrow(A[i], b, Event(b, i)), Event(b, i), <<b, i>>)
      BY <1>2, <1>3, <1>4
  <2> QED
      BY <1>1, <1>2, <2>1 DEF IsWalk
<1>7. ASSUME NEW b, NEW A PROVE AllJudged(found, b, A)' <=> AllJudged(found, b, A)
    BY <1>1 DEF AllJudged, AfterThrow, Judged, Event
<1>8. ASSUME NEW b, NEW A PROVE Settled(b, A)' <=> Settled(b, A)
  <2>1. \A p : Below(states[p], A[0])' <=> Below(states[p], A[0])
      BY <1>1 DEF Below
  <2> QED
      BY <1>1, <1>2, <1>6, <1>7, <2>1 DEF Settled
<1>9. ASSUME AInv PROVE AInv'
  <2>1. TypeOK'
      BY <1>1, <1>2, <1>9 DEF AInv, TypeOK, ExitOK
  <2>2. DoneIsSettled'
      BY <1>1, <1>2, <1>8, <1>9 DEF AInv, DoneIsSettled
  <2> QED
      BY <2>1, <2>2 DEF AInv
<1>10. localConflicts' = localConflicts
    BY <1>1 DEF localConflicts
<1>11. ASSUME NEW m, LiveStore(m) PROVE LiveStore(m)'
    BY <1>1, <1>2, <1>4, <1>6, <1>11 DEF LiveStore
<1>12. CandidatesLive => CandidatesLive'
    BY <1>1, <1>11 DEF CandidatesLive
<1> QED
    BY <1>2, <1>8, <1>9, <1>10, <1>12

LEMMA InitRun == RunInit => RunInv
<1> SUFFICES ASSUME RunInit PROVE RunInv
    OBVIOUS
<1>1. Init /\ colors = <<>>
    BY DEF RunInit, MinimizeInit
<1>2. AInv
    BY <1>1, InitAnalysis
<1>3. graph.entry \in Blocks /\ Blocks \subseteq Nat
    BY <1>2, GraphAssumption, GraphFacts DEF AInv, TypeOK, Blocks
<1>4. Len(graph.events[graph.entry]) \in Nat
    BY <1>2, <1>3, GraphFacts DEF AInv, TypeOK
<1>5. RunTypeOK
  <2>1. at = <<graph.entry, 1>>
      BY DEF RunInit
  <2>a. at[1] = graph.entry /\ at[2] = 1 /\ at \in Nat \X Nat
      BY <1>3, <2>1
  <2>b. 1 \in 1 .. Len(graph.events[graph.entry]) + 1
      BY <1>4
  <2>2. at \in Nat \X Nat /\ at[1] \in Blocks /\ at[2] \in 1 .. Len(graph.events[at[1]]) + 1
      BY <1>3, <2>a, <2>b
  <2>3. DOMAIN memory = Decls /\ DOMAIN lean = Decls
      BY DEF RunInit
  <2>4. writer \in [Locals -> (Nat \X Nat) \cup {None}] /\ unread \subseteq Locals
      BY DEF RunInit
  <2> QED
      BY <2>2, <2>3, <2>4 DEF RunTypeOK
<1>6. AtStart
    BY DEF RunInit, AtStart
<1> QED
    BY <1>1, <1>2, <1>5, <1>6 DEF RunInv

\* A step of the run, or none.
RunStep == RunEvent \/ RunThrow \/ RunBranch

LEMMA EnterKeeps ==
    ASSUME RunInv, Enter
    PROVE  RunInv'
<1>1. /\ UNCHANGED <<avars, at, memory, lean, writer, unread>>
      /\ Analyzed
      /\ colors = <<>>
    BY DEF Enter, Minimize
<1>2. PICK order \in Order : colors' = Colored(order)[Len(order)]
    BY DEF Enter, Minimize
<1>3. Proper(colors', Locals)
    BY <1>2, ColoredFacts
<1>4. AInv' /\ Analyzed' /\ localConflicts' = localConflicts /\ Blocks' = Blocks
    BY <1>1, SameAnalysis DEF RunInv, Analyzed, avars
<1>5. Proper(colors, Locals)'
    BY <1>3, <1>4 DEF Proper
<1>6. RunTypeOK'
    BY <1>1, <1>4 DEF RunInv, RunTypeOK, avars
<1>7. AtStart'
    BY <1>1 DEF RunInv, AtStart, avars
<1>8. DOMAIN merged' = {Slot(v)' : v \in Decls}
  <2>1. DOMAIN merged' = {colors'[v] : v \in Locals} \cup Globals
      BY DEF Enter
  <2> QED
      BY <2>1, GraphAssumption DEF Slot, Decls
<1> QED
    BY <1>4, <1>5, <1>6, <1>7, <1>8 DEF RunInv, Allocated

LEMMA RunStepKeeps ==
    ASSUME RunInv, RunStep
    PROVE  RunInv'
<1>1. UNCHANGED <<avars, colors>> /\ colors # <<>> /\ at # Done
    BY DEF RunStep, RunEvent, RunThrow, RunBranch, AtEvent, AtEnd, Running, mvars
<1>2. AInv' /\ Analyzed' /\ localConflicts' = localConflicts /\ Blocks' = Blocks
    BY <1>1, SameAnalysis DEF RunInv, Allocated, Analyzed, avars
<1>3. Proper(colors, Locals)'
    BY <1>1, <1>2 DEF RunInv, Allocated, Proper
<1>4. \A v : Slot(v)' = Slot(v)
    BY <1>1 DEF Slot
<1>5. at \in Nat \X Nat /\ at[1] \in Blocks /\ at[2] \in 1 .. Len(graph.events[at[1]]) + 1
    BY <1>1 DEF RunInv, RunTypeOK
<1> DEFINE b == at[1]
           n == Len(graph.events[b])
<1>6. /\ n \in Nat /\ graph.succs[b] \subseteq Blocks
      /\ graph.exsucc[b] # None => graph.exsucc[b] \in Blocks
      /\ \A c \in Blocks : c \in Nat /\ Len(graph.events[c]) \in Nat
    BY <1>5, GraphFacts DEF RunInv, AInv, TypeOK
<1>7. graph' = graph
    BY <1>1 DEF avars
<1>8. CASE RunEvent
  <2>1. at[2] \in 1 .. n /\ at' = [at EXCEPT ![2] = @ + 1]
      BY <1>5, <1>6, <1>8 DEF RunEvent, AtEvent
  <2>2. at' = <<b, at[2] + 1>>
      BY <1>5, <2>1
  <2>3. at' \in Nat \X Nat /\ at'[1] \in Blocks /\ at'[2] \in 1 .. Len(graph.events[at'[1]]) + 1
      BY <1>5, <1>6, <2>1, <2>2
  <2>e. Current \in EventTypes /\ (Current.type = "def" => Current.decl \in Decls)
    <3>1. Current \in EventTypes /\ EventAssumption(graph.events[b], at[2]) /\ Current = graph.events[b][at[2]]
        BY <1>5, <2>1, GraphFacts DEF RunInv, AInv, TypeOK, Current, Event
    <3> QED
        BY <3>1 DEF EventAssumption, EventTypes
  <2>4. DOMAIN memory' = DOMAIN memory /\ DOMAIN lean' = DOMAIN lean /\ DOMAIN merged' = DOMAIN merged
      BY <1>8 DEF RunEvent, StoreTo
  <2>5. writer' \in [Locals -> (Nat \X Nat) \cup {None}]
    <3>1. writer' = writer \/ writer' = [writer EXCEPT ![Current.decl] = IF Current.type = "def" THEN at ELSE None]
        BY <1>8 DEF RunEvent
    <3> QED
        BY <1>5, <3>1 DEF RunInv, RunTypeOK
  <2>6. unread' \subseteq Locals
    <3>1. unread' = unread \cup ({Current.decl} \cap Locals) \/ unread' = unread \ {Current.decl}
        BY <1>8 DEF RunEvent
    <3> QED
        BY <3>1 DEF RunInv, RunTypeOK
  <2>7. RunTypeOK'
      BY <1>2, <1>7, <2>3, <2>4, <2>5, <2>6 DEF RunInv, RunTypeOK
  <2> QED
      BY <1>1, <1>2, <1>3, <1>4, <2>4, <2>7 DEF RunInv, Allocated
<1>9. CASE RunThrow \/ RunBranch
  <2>1. UNCHANGED <<memory, lean, merged, writer, unread>>
      BY <1>9 DEF RunThrow, RunBranch
  <2>2. at' = Done \/ \E c \in Blocks : at' = <<c, 1>>
      BY <1>6, <1>9 DEF RunThrow, RunBranch
  <2>3. at' # Done => at' \in Nat \X Nat /\ at'[1] \in Blocks /\ at'[2] \in 1 .. Len(graph.events[at'[1]]) + 1
      BY <1>6, <2>2
  <2>4. RunTypeOK'
      BY <1>2, <1>7, <2>1, <2>3 DEF RunInv, RunTypeOK
  <2> QED
      BY <1>1, <1>2, <1>3, <1>4, <2>1, <2>4 DEF RunInv, Allocated
<1> QED
    BY <1>8, <1>9 DEF RunStep

LEMMA NextKeeps ==
    ASSUME RunInv, [Next]_vars
    PROVE  RunInv'
<1>1. CASE Visit /\ UNCHANGED <<colors, rvars>>
  <2>1. AInv'
      BY <1>1, VisitKeeps DEF RunInv
  <2>2. colors = <<>>
      BY <1>1 DEF RunInv, Allocated, Analyzed, Visit
  <2>3. graph' = graph /\ Blocks' = Blocks
      BY <1>1, SameGraph DEF Visit
  <2>4. RunTypeOK' /\ AtStart'
      BY <1>1, <2>2, <2>3 DEF RunInv, RunTypeOK, AtStart, rvars
  <2> QED
      BY <1>1, <2>1, <2>2, <2>4 DEF RunInv
<1>2. CASE Enter
    BY <1>2, EnterKeeps
<1>3. CASE RunEvent \/ RunThrow \/ RunBranch
    BY <1>3, RunStepKeeps DEF RunStep
<1>4. CASE UNCHANGED vars
  <2>1. UNCHANGED avars /\ UNCHANGED <<colors, at, memory, lean, merged, writer, unread>>
      BY <1>4 DEF vars, mvars, rvars
  <2>2. AInv' /\ Blocks' = Blocks /\ localConflicts' = localConflicts /\ graph' = graph /\ queue' = queue
      BY <2>1, SameAnalysis DEF RunInv, avars
  <2>3. RunTypeOK' /\ (AtStart => AtStart')
      BY <2>1, <2>2 DEF RunInv, RunTypeOK, AtStart
  <2>4. Allocated => Allocated'
    <3>1. \A v : Slot(v)' = Slot(v)
        BY <2>1 DEF Slot
    <3> QED
        BY <2>1, <2>2, <3>1 DEF Allocated, Analyzed, Proper
  <2> QED
      BY <2>1, <2>2, <2>3, <2>4 DEF RunInv
<1> QED
    BY <1>1, <1>2, <1>3, <1>4 DEF Next


-----------------------------------------------------------------------------
(* What is known at an event.                                              *)

LEMMA EventFacts ==
    ASSUME AInv, NEW b \in Blocks, states[b] # None, NEW i \in 1 .. Len(graph.events[b]),
           NEW A, Settled(b, A), NEW e, e = Event(b, i), NEW s, s = AfterThrow(A[i], b, e)
    PROVE  /\ e \in EventTypes /\ EventAssumption(graph.events[b], i)
           /\ StateOK(s) /\ Below(s, A[i])
           /\ e.mayThrow /\ graph.exsucc[b] # None => Below(s, states[b])
           /\ Judged(found, b, i, s)
           /\ StateOK(A[i]) /\ StateOK(A[i - 1]) /\ A[i - 1] = Before(s, e, <<b, i>>)
           /\ A[i - 1].dead = DeadBefore(s, e)
<1>1. TypeOK /\ graph \in Graphs
    BY DEF AInv, TypeOK
<1>2. e \in EventTypes /\ EventAssumption(graph.events[b], i) /\ Len(graph.events[b]) \in Nat
    BY <1>1, GraphFacts
<1>3. i \in 0 .. Len(graph.events[b]) /\ i - 1 \in 0 .. Len(graph.events[b])
    BY <1>2
<1>4. StateOK(A[i]) /\ StateOK(A[i - 1]) /\ A[i - 1] = Before(s, e, <<b, i>>)
    BY <1>3 DEF Settled, IsWalk
<1>5. StateOK(s) /\ Below(s, A[i]) /\ (e.mayThrow /\ graph.exsucc[b] # None => Below(s, states[b]))
    BY <1>1, <1>4, AfterThrowFacts
<1>6. Judged(found, b, i, s)
    BY DEF Settled, AllJudged
<1>7. A[i - 1].dead = DeadBefore(s, e)
    BY <1>1, <1>4, <1>5, BeforeFacts
<1> QED
    BY <1>2, <1>4, <1>5, <1>6, <1>7

\* The start of a block is above the end of its predecessors, of those with an
\* edge to its handler, too.
LEMMA EdgeFacts ==
    ASSUME AInv, NEW b \in Blocks, NEW c \in Blocks, c \in graph.succs[b] \/ graph.exsucc[b] = c,
           NEW A, Settled(c, A)
    PROVE  Below(states[b], A[0])
<1>1. b \in Preds(c)
    BY DEF Preds, PredsIn, Blocks
<1> QED
    BY <1>1 DEF Settled

LEMMA EndFacts ==
    ASSUME AInv, NEW b \in Blocks, NEW A, Settled(b, A)
    PROVE  A[Len(graph.events[b])] = states[b]
    BY DEF Settled, IsWalk

\* v is unset along the blocks of Z.
UnsetAlong(v, Z) ==
    /\ v \in Params \/ graph.entry \in Z
    /\ \A b \in Z : UnsetFrom(graph, b, 0, v, Z)
    /\ \A b \in Blocks : \A i \in DOMAIN graph.events[b] :
        Event(b, i).type = "kil" /\ Event(b, i).decl = v => UnsetFrom(graph, b, i, v, Z)

LEMMA UnsetFacts ==
    ASSUME NEW b, NEW v, NEW Z, NEW i \in Nat, Len(graph.events[b]) \in Nat,
           UnsetFrom(graph, b, i, v, Z)
    PROVE  /\ i + 1 <= Len(graph.events[b]) =>
                LET e == Event(b, i + 1)
                IN  /\ ~(e.decl = v /\ (e.type = "ref" \/ e.form = "update"))
                    /\ e.mayThrow /\ graph.exsucc[b] # None => graph.exsucc[b] \in Z
                    /\ ~(e.type = "def" /\ e.decl = v) => UnsetFrom(graph, b, i + 1, v, Z)
           /\ i = Len(graph.events[b]) => graph.succs[b] \subseteq Z
<1> DEFINE n == Len(graph.events[b])
           Unstored(m, k) == \A j \in m + 1 .. k : ~(Event(b, j).type = "def" /\ Event(b, j).decl = v)
           Reads1(e) == e.decl = v /\ (e.type = "ref" \/ e.form = "update")
           Throws(e) == e.mayThrow /\ graph.exsucc[b] # None
<1>1. ASSUME NEW m
      PROVE  UnsetFrom(graph, b, m, v, Z) <=>
                /\ \A k \in m + 1 .. n : Unstored(m, k - 1) =>
                        ~Reads1(Event(b, k)) /\ (Throws(Event(b, k)) => graph.exsucc[b] \in Z)
                /\ Unstored(m, n) => graph.succs[b] \subseteq Z
    BY DEF UnsetFrom, Event
<1> HIDE DEF Reads1, Throws, n
<1>2. /\ \A k \in i + 1 .. n : Unstored(i, k - 1) =>
                ~Reads1(Event(b, k)) /\ (Throws(Event(b, k)) => graph.exsucc[b] \in Z)
      /\ Unstored(i, n) => graph.succs[b] \subseteq Z
    BY <1>1
<1>n. n \in Nat
    BY DEF n
<1>3. ASSUME i + 1 <= n
      PROVE  /\ ~Reads1(Event(b, i + 1))
             /\ Throws(Event(b, i + 1)) => graph.exsucc[b] \in Z
  <2>1. i + 1 \in i + 1 .. n /\ Unstored(i, (i + 1) - 1)
      BY <1>3, <1>n
  <2> QED
      BY <1>2, <2>1
<1>4. ASSUME i + 1 <= n, ~(Event(b, i + 1).type = "def" /\ Event(b, i + 1).decl = v)
      PROVE  UnsetFrom(graph, b, i + 1, v, Z)
  <2>1. \A k \in Nat : Unstored(i + 1, k) => Unstored(i, k)
    <3> SUFFICES ASSUME NEW k \in Nat, Unstored(i + 1, k), NEW j \in i + 1 .. k
                 PROVE  ~(Event(b, j).type = "def" /\ Event(b, j).decl = v)
        OBVIOUS
    <3>1. j = i + 1 \/ j \in (i + 1) + 1 .. k
        OBVIOUS
    <3> QED
        BY <1>4, <3>1
  <2>2. ASSUME NEW k \in (i + 1) + 1 .. n, Unstored(i + 1, k - 1)
        PROVE  ~Reads1(Event(b, k)) /\ (Throws(Event(b, k)) => graph.exsucc[b] \in Z)
    <3>1. k \in i + 1 .. n /\ k - 1 \in Nat
        BY <1>n
    <3>2. Unstored(i, k - 1)
        BY <2>1, <2>2, <3>1
    <3> QED
        BY <1>2, <3>1, <3>2
  <2>3. Unstored(i + 1, n) => graph.succs[b] \subseteq Z
      BY <1>2, <1>n, <2>1
  <2> QED
      BY <1>1, <2>2, <2>3
<1>5. i = n => graph.succs[b] \subseteq Z
  <2>1. i = n => Unstored(i, n)
      BY <1>n
  <2> QED
      BY <1>2, <2>1
<1> QED
    BY <1>3, <1>4, <1>5 DEF Reads1, Throws, n

-----------------------------------------------------------------------------
(* The values of the variables.                                            *)

Alike(v) == lean[v] = memory[v] /\ merged[Slot(v)] = memory[v]

HasValue(v) == v \notin Locals \/ v \in Params \/ writer[v] # None

\* What is not dead in s, and has a value, has the same in all runs.
SameLive(s) == \A v \in Decls \ s.dead : HasValue(v) => Alike(v)

\* What has none behind the i-th event of b is not read.
UnsetAt(b, i) ==
    \A v \in Locals : HasValue(v) \/ \E Z \in SUBSET Blocks : UnsetAlong(v, Z) /\ UnsetFrom(graph, b, i, v, Z)

SameValues ==
    IF at = Done THEN \A v \in Globals : Alike(v)
    ELSE LET b == at[1]
             i == at[2] - 1
         IN  /\ \A A : Settled(b, A) => SameLive(A[i])
             /\ UnsetAt(b, i)
             /\ i > 0 /\ Event(b, i).type = "ref" => Alike(Event(b, i).decl)


LEMMA UnsetExists ==
    ASSUME SetBeforeRead(graph), NEW v \in Locals
    PROVE  \E Z \in SUBSET Blocks : UnsetAlong(v, Z)
    BY DEF SetBeforeRead, UnsetAlong, Blocks, Event

LEMMA SameUnset ==
    ASSUME graph' = graph
    PROVE  /\ \A v, Z : UnsetAlong(v, Z)' <=> UnsetAlong(v, Z)
           /\ \A b, i, v, Z : UnsetFrom(graph, b, i, v, Z)' <=> UnsetFrom(graph, b, i, v, Z)
<1>1. ASSUME NEW b, NEW i, NEW v, NEW Z
      PROVE  UnsetFrom(graph, b, i, v, Z)' <=> UnsetFrom(graph, b, i, v, Z)
    BY DEF UnsetFrom
<1>2. Blocks' = Blocks /\ \A b, i : Event(b, i)' = Event(b, i)
    BY SameGraph
<1>3. ASSUME NEW v, NEW Z PROVE UnsetAlong(v, Z)' <=> UnsetAlong(v, Z)
    BY <1>1, <1>2 DEF UnsetAlong
<1> QED
    BY <1>1, <1>3

LEMMA EnterValues ==
    ASSUME RunInv, Enter, SetBeforeRead(graph)
    PROVE  SameValues'
<1>1. /\ UNCHANGED <<avars, at, memory, lean, writer, unread>>
      /\ colors = <<>>
    BY DEF Enter, Minimize
<1>2. PICK order \in Order : colors' = Colored(order)[Len(order)]
    BY DEF Enter, Minimize
<1>3. Proper(colors', Locals)
    BY <1>2, ColoredFacts
<1>4. at' = <<graph.entry, 1>> /\ lean' = memory' /\ memory' = memory /\ writer' = [v \in Locals |-> None]
    BY <1>1 DEF RunInv, AtStart
<1>5. graph' = graph /\ graph.entry \in Blocks /\ Blocks \subseteq Nat
    BY <1>1, GraphAssumption, GraphFacts DEF avars, RunInv, AInv, TypeOK, Blocks
<1>6. \A v : HasValue(v)' <=> v \notin Locals \ Params
    BY <1>4 DEF HasValue
<1> DEFINE SlotThen(v) == IF v \in Locals THEN colors'[v] ELSE v
<1>7. ASSUME NEW v \in Decls, HasValue(v)' PROVE Alike(v)'
  <2>1. v \in Params \cup Globals
      BY <1>6, <1>7 DEF Decls
  <2> DEFINE here == {u \in Params \cup Globals : SlotThen(v) = SlotThen(u)}
  <2>2. SlotThen(v) \in {colors'[u] : u \in Locals} \cup Globals
      BY <2>1, GraphAssumption
  <2>3. merged'[SlotThen(v)] = IF here = {} THEN Unset ELSE memory[CHOOSE u \in here : TRUE]
      BY <2>2 DEF Enter
  <2>4. ASSUME NEW u \in here PROVE u = v
    <3> SUFFICES ASSUME u # v PROVE FALSE
        OBVIOUS
    <3>1. CASE u \in Locals /\ v \in Locals
      <4>1. <<u, v>> \in localConflicts
          BY <2>1, <3>1, GraphAssumption DEF localConflicts, Decls
      <4> QED
          BY <1>3, <3>1, <4>1 DEF Proper
    <3>2. CASE ~(u \in Locals /\ v \in Locals)
        BY <1>3, <2>1, <3>2, GraphAssumption DEF Proper
    <3> QED
        BY <3>1, <3>2
  <2>5. v \in here
      BY <2>1
  <2>6. (CHOOSE u \in here : TRUE) = v
    <3> HIDE DEF here
    <3> QED
        BY <2>4, <2>5
  <2>7. merged'[SlotThen(v)] = memory[v]
      BY <2>3, <2>5, <2>6
  <2> QED
      BY <1>4, <2>7 DEF Alike, Slot
<1>8. ASSUME NEW A PROVE SameLive(A[0])'
    BY <1>7 DEF SameLive
<1>9. UnsetAt(graph.entry, 0)'
  <2> SUFFICES ASSUME NEW v \in Locals, ~HasValue(v)'
               PROVE  (\E Z \in SUBSET Blocks : UnsetAlong(v, Z) /\ UnsetFrom(graph, graph.entry, 0, v, Z))'
      BY <1>5 DEF UnsetAt
  <2>1. PICK Z \in SUBSET Blocks : UnsetAlong(v, Z)
      BY UnsetExists
  <2>2. v \notin Params
      BY <1>6
  <2>3. UnsetFrom(graph, graph.entry, 0, v, Z)
      BY <2>1, <2>2 DEF UnsetAlong
  <2>4. UnsetAlong(v, Z)' /\ UnsetFrom(graph, graph.entry, 0, v, Z)'
      BY <1>5, <2>1, <2>3, SameUnset
  <2>5. Blocks' = Blocks
      BY <1>5 DEF Blocks
  <2> QED
      BY <2>4, <2>5
<1>10. at' # Done /\ at'[1] = graph.entry /\ at'[2] - 1 = 0
    BY <1>4 DEF Done
<1> QED
    BY <1>5, <1>8, <1>9, <1>10 DEF SameValues

\* The run comes to block c, from where s was known.
LEMMA ArriveValues ==
    ASSUME RunInv, NEW c \in Blocks, at' = <<c, 1>>,
           UNCHANGED <<mvars, memory, lean, merged, writer, unread>>,
           NEW s, SameLive(s), \A A : Settled(c, A) => s.dead \subseteq A[0].dead,
           \A v \in Locals : HasValue(v) \/ \E Z \in SUBSET Blocks : UnsetAlong(v, Z) /\ c \in Z
    PROVE  SameValues'
<1>1. UNCHANGED <<avars, colors>> /\ graph' = graph
    BY DEF mvars, avars
<1>2. Blocks' = Blocks /\ \A b, A : Settled(b, A)' <=> Settled(b, A)
    BY <1>1, SameAnalysis
<1>3. \A v : (Alike(v)' <=> Alike(v)) /\ (HasValue(v)' <=> HasValue(v))
    BY <1>1 DEF Alike, HasValue, Slot
<1>4. ASSUME NEW A, Settled(c, A) PROVE SameLive(A[0])'
    BY <1>3, <1>4 DEF SameLive
<1>5. UnsetAt(c, 0)'
  <2> SUFFICES ASSUME NEW v \in Locals, ~HasValue(v)
               PROVE  (\E Z \in SUBSET Blocks : UnsetAlong(v, Z) /\ UnsetFrom(graph, c, 0, v, Z))'
      BY <1>3 DEF UnsetAt
  <2>1. PICK Z \in SUBSET Blocks : UnsetAlong(v, Z) /\ c \in Z
      OBVIOUS
  <2>2. UnsetFrom(graph, c, 0, v, Z)
      BY <2>1 DEF UnsetAlong
  <2>3. UnsetAlong(v, Z)' /\ UnsetFrom(graph, c, 0, v, Z)'
      BY <1>1, <2>1, <2>2, SameUnset
  <2> QED
      BY <1>2, <2>3
<1>6. at' # Done /\ at'[1] = c /\ at'[2] - 1 = 0
    BY DEF Done
<1> QED
    BY <1>2, <1>4, <1>5, <1>6 DEF SameValues

\* At an event.
LEMMA AtEventFacts ==
    ASSUME RunInv, AtEvent
    PROVE  /\ at \in Nat \X Nat /\ at[1] \in Blocks /\ at[2] \in 1 .. Len(graph.events[at[1]])
           /\ at = <<at[1], at[2]>>
           /\ at # Done /\ Analyzed /\ Allocated
           /\ Current = Event(at[1], at[2])
<1>1. at # Done /\ colors # <<>>
    BY DEF AtEvent, Running
<1>2. at \in Nat \X Nat /\ at[1] \in Blocks /\ at[2] \in 1 .. Len(graph.events[at[1]]) + 1
    BY <1>1 DEF RunInv, RunTypeOK
<1>3. Len(graph.events[at[1]]) \in Nat
    BY <1>2, GraphFacts DEF RunInv, AInv, TypeOK
<1>4. at[2] \in 1 .. Len(graph.events[at[1]])
    BY <1>2, <1>3 DEF AtEvent
<1> QED
    BY <1>1, <1>2, <1>4 DEF RunInv, Allocated, Current


\* Whatever is read has the same value in all runs.
LEMMA ReadsAlike ==
    ASSUME RunInv, EveryBlockEnds(graph), colors # <<>>, SameValues, NEW v \in Reads
    PROVE  Alike(v)
<1>1. CASE AtEvent
  <2> DEFINE b == at[1]
             i == at[2]
             e == Event(b, i)
  <2>1. /\ b \in Blocks /\ i \in 1 .. Len(graph.events[b]) /\ at = <<b, i>>
        /\ at # Done /\ Analyzed /\ Current = e
      BY <1>1, AtEventFacts
  <2>2. AInv
      BY DEF RunInv
  <2>3. PICK A : states[b] # None /\ Settled(b, A)
      BY <2>1, <2>2, AllAreSettled
  <2>4. PICK s : s = AfterThrow(A[i], b, e)
      OBVIOUS
  <2>5. /\ e \in EventTypes /\ EventAssumption(graph.events[b], i)
        /\ Judged(found, b, i, s)
        /\ A[i - 1].dead = DeadBefore(s, e)
      BY <2>1, <2>2, <2>3, <2>4, EventFacts
  <2>6. SameLive(A[i - 1]) /\ UnsetAt(b, i - 1)
      BY <2>1, <2>3 DEF SameValues
  <2>7. i - 1 \in Nat /\ (i - 1) + 1 = i /\ (i - 1) + 1 <= Len(graph.events[b]) /\ Len(graph.events[b]) \in Nat
      BY <2>1, <2>2, GraphFacts DEF AInv, TypeOK
  <2>8. e = graph.events[b][i]
      BY DEF Event
  <2>t. /\ e.type \in {"ref", "def", "kil", "mod", "exn"}
        /\ e.type \in {"ref", "def", "kil"} <=> e.decl # None
        /\ e.type = "def" <=> e.form # ""
        /\ e.decl \in Decls \cup {None}
      BY <2>5, <2>8 DEF EventAssumption, EventTypes
  <2> HIDE DEF b, i, e
  <2>9. CASE e.type = "ref" \/ (e.form = "update" /\ at \notin found.dead)
    <3>1. v = e.decl
        BY <1>1, <2>1, <2>9, <2>t DEF Reads
    <3>2. v \in Decls
        BY <2>9, <2>t, <3>1
    <3>3. v \notin A[i - 1].dead
        BY <2>1, <2>5, <2>9, <2>t, <3>1 DEF DeadBefore, Judged, e
    <3>4. HasValue(v)
      <4> SUFFICES ASSUME ~HasValue(v) PROVE FALSE
          OBVIOUS
      <4>1. v \in Locals
          BY DEF HasValue
      <4>2. PICK Z : UnsetFrom(graph, b, i - 1, v, Z)
          BY <2>6, <4>1 DEF UnsetAt
      <4>3. ~(Event(b, (i - 1) + 1).decl = v
                /\ (Event(b, (i - 1) + 1).type = "ref" \/ Event(b, (i - 1) + 1).form = "update"))
          BY <2>7, <4>2, UnsetFacts
      <4> QED
          BY <2>7, <2>9, <3>1, <4>3 DEF e
    <3> QED
        BY <2>6, <3>2, <3>3, <3>4 DEF SameLive
  <2>10. CASE e.type = "mod"
    <3>1. v \in Globals
        BY <1>1, <2>1, <2>10, <2>t DEF Reads
    <3>2. v \in Decls /\ v \notin Locals
        BY <3>1, GraphAssumption DEF Decls
    <3>3. v \notin A[i - 1].dead
        BY <2>5, <2>10, <3>2 DEF DeadBefore
    <3> QED
        BY <2>6, <3>2, <3>3 DEF SameLive, HasValue
  <2>11. CASE ~(e.type = "ref" \/ (e.form = "update" /\ at \notin found.dead)) /\ e.type # "mod"
      BY <1>1, <2>1, <2>11 DEF Reads
  <2> QED
      BY <2>9, <2>10, <2>11
<1>2. CASE ~AtEvent /\ at = Done
  <2>1. v \in Globals
      BY <1>2 DEF Reads
  <2> QED
      BY <1>2, <2>1 DEF SameValues
<1>3. CASE ~AtEvent /\ at # Done
    BY <1>3 DEF Reads
<1> QED
    BY <1>1, <1>2, <1>3

LEMMA ThrowValues ==
    ASSUME RunInv, EveryBlockEnds(graph), SameValues, RunThrow
    PROVE  SameValues'
<1> DEFINE b == at[1]
           i == at[2]
           e == Event(b, i)
           c == graph.exsucc[b]
<1>1. /\ b \in Blocks /\ i \in 1 .. Len(graph.events[b]) /\ at = <<b, i>>
      /\ at # Done /\ Analyzed /\ Current = e
    BY AtEventFacts DEF RunThrow
<1>2. AInv
    BY DEF RunInv
<1>3. /\ e.mayThrow /\ c # None /\ at' = <<c, 1>>
      /\ UNCHANGED <<mvars, memory, lean, merged, writer, unread>>
    BY <1>1 DEF RunThrow
<1>4. c \in Blocks /\ Len(graph.events[b]) \in Nat
    BY <1>1, <1>2, <1>3, GraphFacts DEF AInv, TypeOK
<1>5. PICK A : states[b] # None /\ Settled(b, A)
    BY <1>1, <1>2, AllAreSettled
<1>6. PICK s : s = AfterThrow(A[i], b, e)
    OBVIOUS
<1>7. /\ e \in EventTypes /\ EventAssumption(graph.events[b], i)
      /\ Below(s, states[b])
      /\ A[i - 1].dead = DeadBefore(s, e)
    BY <1>1, <1>2, <1>3, <1>5, <1>6, EventFacts
<1>8. A[i - 1].dead \subseteq s.dead
  <2>1. e.type \in {"mod", "exn"} \/ (e.form = "update" /\ e.type = "def")
    <3>1. e = graph.events[b][i]
        BY DEF Event
    <3> QED
        BY <1>3, <1>7, <3>1 DEF EventAssumption
  <2> QED
      BY <1>7, <2>1 DEF DeadBefore
<1>9. \A B : Settled(c, B) => A[i - 1].dead \subseteq B[0].dead
  <2> SUFFICES ASSUME NEW B, Settled(c, B) PROVE A[i - 1].dead \subseteq B[0].dead
      OBVIOUS
  <2>1. Below(states[b], B[0])
      BY <1>1, <1>2, <1>4, EdgeFacts
  <2> QED
      BY <1>7, <1>8, <2>1 DEF Below
<1>10. SameLive(A[i - 1]) /\ UnsetAt(b, i - 1)
    BY <1>1, <1>5 DEF SameValues
<1>11. ASSUME NEW v \in Locals, ~HasValue(v)
       PROVE  \E Z \in SUBSET Blocks : UnsetAlong(v, Z) /\ c \in Z
  <2>1. PICK Z \in SUBSET Blocks : UnsetAlong(v, Z) /\ UnsetFrom(graph, b, i - 1, v, Z)
      BY <1>10, <1>11 DEF UnsetAt
  <2>2. i - 1 \in Nat /\ (i - 1) + 1 = i /\ (i - 1) + 1 <= Len(graph.events[b])
      BY <1>1, <1>4
  <2>3. Event(b, (i - 1) + 1).mayThrow /\ graph.exsucc[b] # None => graph.exsucc[b] \in Z
      BY <1>4, <2>1, <2>2, UnsetFacts
  <2>4. c \in Z
      BY <1>3, <2>2, <2>3
  <2> QED
      BY <2>1, <2>4
<1> HIDE DEF c
<1> QED
    BY <1>3, <1>4, <1>9, <1>10, <1>11, ArriveValues

LEMMA BranchValues ==
    ASSUME RunInv, EveryBlockEnds(graph), SameValues, RunBranch
    PROVE  SameValues'
<1> DEFINE b == at[1]
           n == Len(graph.events[b])
<1>1. at # Done /\ Analyzed /\ UNCHANGED <<mvars, memory, lean, merged, writer, unread>>
    BY DEF RunBranch, AtEnd, Running, RunInv, Allocated
<1>2. AInv
    BY DEF RunInv
<1>3. b \in Blocks /\ at[2] \in 1 .. n + 1
    BY <1>1 DEF RunInv, RunTypeOK
<1>4. n \in Nat /\ graph.succs[b] \subseteq Blocks
    BY <1>2, <1>3, GraphFacts DEF AInv, TypeOK
<1>5. at[2] - 1 = n
    BY <1>3, <1>4 DEF RunBranch, AtEnd
<1>6. PICK A : states[b] # None /\ Settled(b, A)
    BY <1>1, <1>2, <1>3, AllAreSettled
<1>7. A[n] = states[b]
    BY <1>2, <1>3, <1>6, EndFacts
<1>8. SameLive(states[b]) /\ UnsetAt(b, n)
    BY <1>1, <1>5, <1>6, <1>7 DEF SameValues
<1>9. ASSUME NEW c \in graph.succs[b], at' = <<c, 1>> PROVE SameValues'
  <2>1. c \in Blocks
      BY <1>4
  <2>2. \A B : Settled(c, B) => states[b].dead \subseteq B[0].dead
      BY <1>2, <1>3, <2>1, EdgeFacts DEF Below
  <2>3. ASSUME NEW v \in Locals, ~HasValue(v)
        PROVE  \E Z \in SUBSET Blocks : UnsetAlong(v, Z) /\ c \in Z
    <3>1. PICK Z \in SUBSET Blocks : UnsetAlong(v, Z) /\ UnsetFrom(graph, b, n, v, Z)
        BY <1>8, <2>3 DEF UnsetAt
    <3>2. graph.succs[b] \subseteq Z
        BY <1>4, <3>1, UnsetFacts
    <3> QED
        BY <3>1, <3>2
  <2> QED
      BY <1>1, <1>8, <1>9, <2>1, <2>2, <2>3, ArriveValues
<1>10. ASSUME graph.succs[b] = {}, at' = Done PROVE SameValues'
  <2>1. states[b].dead \subseteq Locals
      BY <1>2, <1>3, <1>10 DEF AInv, TypeOK, ExitOK
  <2>2. ASSUME NEW v \in Globals PROVE Alike(v)
    <3>1. v \in Decls \ states[b].dead /\ HasValue(v)
        BY <2>1, GraphAssumption DEF Decls, HasValue
    <3> QED
        BY <1>8, <3>1 DEF SameLive
  <2>3. \A v : Alike(v)' <=> Alike(v)
      BY <1>1 DEF Alike, Slot, mvars
  <2> QED
      BY <1>10, <2>2, <2>3 DEF SameValues
<1> QED
    BY <1>9, <1>10 DEF RunBranch


\* A store of u to a variable of its own, or of locals that are dead or hold
\* what it stores.
LEMMA StoreValues ==
    ASSUME RunInv, EveryBlockEnds(graph), SameValues, AtEvent, Current.type = "def",
           EquivalentsHold(Current), StoreTo(Current), UNCHANGED mvars,
           NEW s, Judged(found, at[1], at[2], s),
           NEW v \in Decls, v \notin s.dead, v = Current.decl \/ Alike(v)
    PROVE  Alike(v)'
<1> DEFINE b == at[1]
           i == at[2]
           e == Event(b, i)
           u == e.decl
           new == Fresh
<1>1. /\ b \in Blocks /\ i \in 1 .. Len(graph.events[b]) /\ at = <<b, i>>
      /\ at # Done /\ Allocated /\ Current = e
    BY AtEventFacts
<1>2. e \in EventTypes /\ EventAssumption(graph.events[b], i) /\ e = graph.events[b][i]
    BY <1>1, GraphFacts DEF RunInv, AInv, TypeOK, Event
<1>3. u \in Decls /\ e.rhs \in Decls \cup {None} /\ e.copies \subseteq Decls
    BY <1>1, <1>2 DEF EventAssumption, EventTypes
<1>4. e.rhs # None =>
        i > 1 /\ Event(b, i - 1).type = "ref" /\ Event(b, i - 1).decl = e.rhs
    BY <1>2 DEF EventAssumption, Event
<1>5. e.rhs = None => e.copies = {}
    BY <1>2 DEF EventAssumption
<1>6. e.rhs # None => Alike(e.rhs)
  <2>1. i > 1 => i - 1 > 0
      BY <1>1, GraphFacts DEF RunInv, AInv, TypeOK
  <2> QED
      BY <1>1, <1>4, <2>1 DEF SameValues
<1>7. \A w : Slot(w)' = Slot(w)
    BY DEF Slot, mvars
<1> DEFINE val(w) == IF e.rhs # None THEN w ELSE new
<1>8. /\ memory' = [memory EXCEPT ![u] = val(memory[e.rhs])]
      /\ lean' = IF at \in found.dead THEN lean ELSE [lean EXCEPT ![u] = val(lean[e.rhs])]
      /\ merged' = [merged EXCEPT ![Slot(u)] = val(merged[Slot(e.rhs)])]
    BY <1>1 DEF StoreTo, Value
<1>9. DOMAIN memory = Decls /\ DOMAIN lean = Decls /\ DOMAIN merged = {Slot(w) : w \in Decls}
    BY <1>1 DEF RunInv, RunTypeOK, Allocated
<1>10. /\ memory'[u] = val(memory[e.rhs]) /\ merged'[Slot(u)] = val(merged[Slot(e.rhs)])
       /\ \A w \in Decls : w # u => memory'[w] = memory[w] /\ lean'[w] = lean[w]
       /\ \A w \in Decls : Slot(w) # Slot(u) => merged'[Slot(w)] = merged[Slot(w)]
       /\ at \notin found.dead => lean'[u] = val(lean[e.rhs])
  <2> HIDE DEF val, u
  <2>1. memory'[u] = val(memory[e.rhs]) /\ \A w \in Decls : w # u => memory'[w] = memory[w]
      BY <1>3, <1>8, <1>9
  <2>2. Slot(u) \in DOMAIN merged /\ \A w \in Decls : Slot(w) \in DOMAIN merged
      BY <1>3, <1>9
  <2>3. merged'[Slot(u)] = val(merged[Slot(e.rhs)])
      BY <1>8, <2>2
  <2>4. \A w \in Decls : Slot(w) # Slot(u) => merged'[Slot(w)] = merged[Slot(w)]
      BY <1>8, <2>2
  <2>5. \A w \in Decls : w # u => lean'[w] = lean[w]
      BY <1>3, <1>8, <1>9
  <2>6. at \notin found.dead => lean'[u] = val(lean[e.rhs])
      BY <1>3, <1>8, <1>9
  <2> QED
      BY <2>1, <2>3, <2>4, <2>5, <2>6
<1>11. CASE v = u
  <2>1. at \notin found.dead
      BY <1>1, <1>11 DEF Judged
  <2>2. val(memory[e.rhs]) = val(lean[e.rhs]) /\ val(merged[Slot(e.rhs)]) = val(memory[e.rhs])
      BY <1>6 DEF Alike
  <2> QED
      BY <1>7, <1>10, <1>11, <2>1, <2>2 DEF Alike
<1>12. CASE v # u
  <2>1. Alike(v)
      BY <1>1, <1>12
  <2>2. CASE Slot(v) # Slot(u)
      BY <1>7, <1>10, <1>12, <2>1, <2>2 DEF Alike
  <2>3. CASE Slot(v) = Slot(u)
    <3>1. u \in Locals /\ v \in Locals /\ colors[u] = colors[v]
        BY <1>1, <1>3, <1>12, <2>3, GraphAssumption DEF Slot, Decls, Allocated, Proper
    <3>2. v \in e.copies
      <4> SUFFICES ASSUME v \notin e.copies PROVE FALSE
          OBVIOUS
      <4>1. <<b, i>> \in DOMAIN found.conflicts /\ found.conflicts[<<b, i>>] = Conflicts(s, e)
          BY <1>1 DEF Judged
      <4>2. {u, v} \subseteq Conflicts(s, e)
          BY <3>1 DEF Conflicts
      <4>3. <<u, v>> \in localConflicts
          BY <1>12, <3>1, <4>1, <4>2 DEF localConflicts, Decls
      <4> QED
          BY <1>1, <3>1, <4>3 DEF Allocated, Proper
    <3>3. e.rhs # None /\ memory[v] = memory[e.rhs]
        BY <1>1, <1>5, <3>2 DEF EquivalentsHold
    <3>4. merged'[Slot(v)] = memory[v]
        BY <1>6, <1>10, <2>3, <3>3 DEF Alike
    <3> QED
        BY <1>7, <1>10, <1>12, <2>1, <3>4 DEF Alike
  <2> QED
      BY <2>2, <2>3
<1> QED
    BY <1>11, <1>12


LEMMA EventValues ==
    ASSUME RunInv, EveryBlockEnds(graph), SetBeforeRead(graph), SameValues, RunEvent
    PROVE  SameValues'
<1>b. PICK b : b = at[1]
    OBVIOUS
<1>i. PICK i : i = at[2]
    OBVIOUS
<1>e. PICK e : e = Event(b, i)
    OBVIOUS
<1>1. /\ b \in Blocks /\ i \in 1 .. Len(graph.events[b]) /\ at = <<b, i>>
      /\ at # Done /\ Analyzed /\ Current = e /\ colors # <<>> /\ AtEvent /\ at \in Nat \X Nat
    BY <1>b, <1>i, <1>e, AtEventFacts DEF RunEvent, AtEvent, Running
<1>2. AInv
    BY DEF RunInv
<1>3. UNCHANGED mvars /\ UNCHANGED avars /\ graph' = graph
    BY DEF RunEvent, mvars, avars
<1>4. at' = <<b, i + 1>>
    BY <1>1 DEF RunEvent
<1>5. i \in Nat /\ i - 1 \in Nat /\ (i - 1) + 1 = i /\ (i + 1) - 1 = i /\ i > 0
      /\ (i - 1) + 1 <= Len(graph.events[b]) /\ Len(graph.events[b]) \in Nat
    BY <1>1, <1>2, GraphFacts DEF AInv, TypeOK
<1>6. e \in EventTypes /\ EventAssumption(graph.events[b], i) /\ e = graph.events[b][i]
    BY <1>e, <1>1, <1>2, GraphFacts DEF AInv, TypeOK, Event
<1>t. /\ e.type \in {"ref", "def", "kil", "mod", "exn"}
      /\ e.type \in {"ref", "def", "kil"} <=> e.decl # None
      /\ e.type = "kil" => e.decl \in Locals \ Params
      /\ e.decl \in Decls \cup {None}
      /\ None \notin Decls
    BY <1>6, GraphAssumption DEF EventAssumption, EventTypes
<1>7. \A v : Slot(v)' = Slot(v)
    BY <1>3 DEF Slot, mvars
<1>8. writer' = IF e.decl \in Locals /\ e.type \in {"def", "kil"}
                THEN [writer EXCEPT ![e.decl] = IF e.type = "def" THEN at ELSE None]
                ELSE writer
    BY <1>1 DEF RunEvent
<1>9. /\ Blocks' = Blocks /\ \A c, A : Settled(c, A)' <=> Settled(c, A)
      /\ \A c, j : Event(c, j)' = Event(c, j)
    BY <1>3, SameAnalysis
<1>w. at # None /\ DOMAIN writer = Locals
    BY <1>1, GraphAssumption DEF RunInv, RunTypeOK
<1>10. ASSUME NEW v
       PROVE  /\ v # e.decl \/ e.type \notin {"def", "kil"} => (HasValue(v)' <=> HasValue(v))
              /\ v = e.decl /\ e.type = "def" => HasValue(v)'
              /\ v = e.decl /\ e.type = "kil" => ~HasValue(v)'
  <2>1. CASE v \in Locals
    <3>1. v # e.decl \/ e.type \notin {"def", "kil"} => writer'[v] = writer[v]
        BY <1>8, <2>1
    <3>2. v = e.decl /\ e.type \in {"def", "kil"} => writer'[v] = IF e.type = "def" THEN at ELSE None
        BY <1>8, <1>w, <2>1
    <3> QED
        BY <1>t, <1>w, <3>1, <3>2 DEF HasValue
  <2>2. CASE v \notin Locals
      BY <1>t, <2>2 DEF HasValue
  <2> QED
      BY <2>1, <2>2
<1>11. UnsetAt(b, i - 1) /\ \A A : Settled(b, A) => SameLive(A[i - 1])
    BY <1>b, <1>i, <1>1 DEF SameValues
<1>12. ASSUME NEW v \in Locals, ~HasValue(v)'
       PROVE  (\E Z \in SUBSET Blocks : UnsetAlong(v, Z) /\ UnsetFrom(graph, b, i, v, Z))'
  <2>1. \E Z \in SUBSET Blocks : UnsetAlong(v, Z) /\ UnsetFrom(graph, b, i, v, Z)
    <3>1. CASE e.type = "kil" /\ e.decl = v
      <4>1. PICK Z \in SUBSET Blocks : UnsetAlong(v, Z)
          BY UnsetExists
      <4>2. i \in DOMAIN graph.events[b]
          BY <1>1, <1>2, GraphAssumption, LenProperties DEF AInv, TypeOK, Blocks
      <4>3. UnsetFrom(graph, b, i, v, Z)
          BY <1>e, <1>1, <3>1, <4>1, <4>2 DEF UnsetAlong
      <4> QED
          BY <4>1, <4>3
    <3>2. CASE ~(e.type = "kil" /\ e.decl = v)
      <4>1. ~HasValue(v) /\ ~(e.type = "def" /\ e.decl = v)
          BY <1>10, <1>12, <3>2
      <4>2. PICK Z \in SUBSET Blocks : UnsetAlong(v, Z) /\ UnsetFrom(graph, b, i - 1, v, Z)
          BY <1>11, <4>1 DEF UnsetAt
      <4>3. ~(Event(b, (i - 1) + 1).type = "def" /\ Event(b, (i - 1) + 1).decl = v)
                => UnsetFrom(graph, b, (i - 1) + 1, v, Z)
          BY <1>5, <4>2, UnsetFacts
      <4>4. UnsetFrom(graph, b, i, v, Z)
          BY <1>e, <1>5, <4>1, <4>3
      <4> QED
          BY <4>2, <4>4
    <3> QED
        BY <3>1, <3>2
  <2>2. PICK Z \in SUBSET Blocks : UnsetAlong(v, Z) /\ UnsetFrom(graph, b, i, v, Z)
      BY <2>1
  <2>3. UnsetAlong(v, Z)' /\ UnsetFrom(graph, b, i, v, Z)'
      BY <1>3, <2>2, SameUnset
  <2> QED
      BY <1>9, <2>3
<1>13. UnsetAt(b, i)'
    BY <1>12 DEF UnsetAt
<1>14. ASSUME e.type = "ref" PROVE Alike(e.decl)'
  <2>1. e.decl \in Reads
      BY <1>1, <1>14 DEF Reads
  <2>2. Alike(e.decl)
      BY <1>1, <2>1, ReadsAlike
  <2>3. UNCHANGED <<memory, lean, merged>>
      BY <1>1, <1>14 DEF RunEvent
  <2> QED
      BY <1>7, <2>2, <2>3 DEF Alike
<1>15. ASSUME NEW A, Settled(b, A) PROVE SameLive(A[i])'
  <2>1. states[b] # None
      BY <1>1, <1>2, AllAreSettled
  <2>2. PICK s : s = AfterThrow(A[i], b, e)
      OBVIOUS
  <2>3. Below(s, A[i]) /\ Judged(found, b, i, s) /\ A[i - 1].dead = DeadBefore(s, e)
      BY <1>e, <1>1, <1>2, <1>15, <2>1, <2>2, EventFacts
  <2>4. SameLive(A[i - 1])
      BY <1>11, <1>15
  <2> SUFFICES ASSUME NEW v \in Decls, v \notin A[i].dead, HasValue(v)' PROVE Alike(v)'
      BY DEF SameLive
  <2>5. v \notin s.dead
      BY <2>3 DEF Below
  <2>6. CASE e.type \in {"ref", "mod", "exn"}
    <3>1. UNCHANGED <<memory, lean, merged>>
        BY <1>1, <2>6 DEF RunEvent
    <3>2. HasValue(v) /\ v \notin A[i - 1].dead
        BY <1>10, <2>3, <2>5, <2>6 DEF DeadBefore
    <3> QED
        BY <1>7, <2>4, <3>1, <3>2 DEF SameLive, Alike
  <2>7. CASE e.type = "kil"
    <3>1. v # e.decl
        BY <1>10, <2>7
    <3>2. memory' = [memory EXCEPT ![e.decl] = Unset] /\ UNCHANGED <<lean, merged>>
        BY <1>1, <2>7 DEF RunEvent
    <3>3. memory'[v] = memory[v]
        BY <3>1, <3>2 DEF RunInv, RunTypeOK
    <3>4. HasValue(v) /\ v \notin A[i - 1].dead
        BY <1>10, <2>3, <2>5, <2>7, <3>1 DEF DeadBefore
    <3> QED
        BY <1>7, <2>4, <3>2, <3>3, <3>4 DEF SameLive, Alike
  <2>8. CASE e.type = "def"
    <3>1. EquivalentsHold(e) /\ StoreTo(e)
        BY <1>1, <2>8 DEF RunEvent
    <3>2. ASSUME v # e.decl PROVE Alike(v)
      <4>1. HasValue(v) /\ v \notin A[i - 1].dead
          BY <1>10, <2>3, <2>5, <2>8, <3>2 DEF DeadBefore
      <4> QED
          BY <2>4, <4>1 DEF SameLive
    <3> QED
        BY <1>b, <1>i, <1>1, <1>3, <2>3, <2>5, <2>8, <3>1, <3>2, StoreValues
  <2> QED
      BY <1>t, <2>6, <2>7, <2>8
<1>16. at' # Done /\ at'[1] = b /\ at'[2] - 1 = i
    BY <1>4, <1>5 DEF Done
<1>17. ASSUME NEW A, Settled(b, A)' PROVE SameLive(A[i])'
    BY <1>9, <1>15, <1>17
<1>18. Event(b, i)' = e
    BY <1>e, <1>9
<1> QED
    BY <1>13, <1>14, <1>16, <1>17, <1>18 DEF SameValues


\* The analysis knows of every block, and no local is read before it has a value.
ProperFunction == EveryBlockEnds(graph) /\ SetBeforeRead(graph)

ValuesInv == RunInv /\ (ProperFunction /\ colors # <<>> => SameValues)

LEMMA SameGraphAlways ==
    ASSUME RunInv, [Next]_vars
    PROVE  graph' = graph
    BY DEF Next, Visit, Enter, Minimize, RunEvent, RunThrow, RunBranch, vars, mvars, avars

LEMMA NextValues ==
    ASSUME ValuesInv, [Next]_vars
    PROVE  ValuesInv'
<1>1. RunInv /\ RunInv' /\ graph' = graph
    BY NextKeeps, SameGraphAlways DEF ValuesInv
<1> SUFFICES ASSUME ProperFunction, colors' # <<>> PROVE SameValues'
  <2>1. ProperFunction' <=> ProperFunction
      BY <1>1 DEF ProperFunction, EveryBlockEnds, SetBeforeRead
  <2> QED
      BY <1>1, <2>1 DEF ValuesInv
<1>2. EveryBlockEnds(graph) /\ SetBeforeRead(graph)
    BY DEF ProperFunction
<1>3. CASE Visit /\ UNCHANGED <<colors, rvars>>
    BY <1>1, <1>3 DEF Visit, RunInv, Allocated, Analyzed
<1>4. CASE Enter
    BY <1>1, <1>2, <1>4, EnterValues
<1>5. ASSUME RunEvent \/ RunThrow \/ RunBranch PROVE SameValues'
  <2>1. SameValues
      BY <1>5 DEF ValuesInv, RunEvent, RunThrow, RunBranch, AtEvent, AtEnd, Running
  <2> QED
      BY <1>1, <1>2, <1>5, <2>1, EventValues, ThrowValues, BranchValues
<1>6. ASSUME UNCHANGED vars PROVE SameValues'
  <2>1. UNCHANGED <<avars, colors, at, memory, lean, merged, writer, unread>>
      BY <1>6 DEF vars, mvars, rvars
  <2>2. SameValues
      BY <2>1 DEF ValuesInv
  <2>3. /\ \A b, A : Settled(b, A)' <=> Settled(b, A)
        /\ Blocks' = Blocks
        /\ \A b, i : Event(b, i)' = Event(b, i)
      BY <2>1, SameAnalysis
  <2>4. \A v : (Alike(v)' <=> Alike(v)) /\ (HasValue(v)' <=> HasValue(v))
      BY <2>1 DEF Alike, HasValue, Slot
  <2>5. \A s : SameLive(s)' <=> SameLive(s)
      BY <2>4 DEF SameLive
  <2>6. \A b, i : UnsetAt(b, i)' <=> UnsetAt(b, i)
      BY <1>1, <2>3, <2>4, SameUnset DEF UnsetAt
  <2>7. PICK b, i : b = at[1] /\ i = at[2] - 1
      OBVIOUS
  <2>8. b = at'[1] /\ i = at'[2] - 1 /\ at' = at
      BY <2>1, <2>7
  <2>9. Event(b, i)' = Event(b, i) /\ (Alike(Event(b, i).decl)' <=> Alike(Event(b, i).decl))
      BY <2>1, <2>3 DEF Alike, Slot
  <2> QED
      BY <2>2, <2>3, <2>4, <2>5, <2>6, <2>7, <2>8, <2>9 DEF SameValues
<1> QED
    BY <1>3, <1>4, <1>5, <1>6 DEF Next

LEMMA InitValues == RunInit => ValuesInv
    BY InitRun DEF ValuesInv, RunInit, MinimizeInit

LEMMA ReadsAreSame ==
    ASSUME ValuesInv, ProperFunction
    PROVE  DeadIsNeverRead /\ MergedIsOwn
<1>1. CASE colors = <<>>
  <2>1. at # Done
      BY <1>1 DEF ValuesInv, RunInv, AtStart, Done
  <2>2. Reads = {}
      BY <1>1, <2>1 DEF Reads, AtEvent, Running
  <2> QED
      BY <2>2 DEF DeadIsNeverRead, MergedIsOwn
<1>2. CASE colors # <<>>
  <2>1. RunInv /\ SameValues /\ EveryBlockEnds(graph)
      BY <1>2 DEF ValuesInv, ProperFunction
  <2>2. \A v \in Reads : Alike(v)
      BY <1>2, <2>1, ReadsAlike
  <2> QED
      BY <2>2 DEF DeadIsNeverRead, MergedIsOwn, Alike
<1> QED
    BY <1>1, <1>2

\* At every step the analysis is done with what is not queued: what was found in
\* such a block is what the walk from its end finds there, and its predecessors
\* claim no more than is left at its start (the worklist of findDeadStores).
THEOREM DoneStaysSettled == Spec => []AInv
<1>1. RunInit => RunInv
    BY InitRun
<1>2. RunInv /\ [Next]_vars => RunInv'
    BY NextKeeps
<1>3. RunInv => AInv
    BY DEF RunInv
<1> QED
    BY <1>1, <1>2, <1>3, PTL DEF Spec

\* Stores eliminateDeadStores removes are never read, in any function and
\* whatever path it takes: without them the same values are read.
THEOREM DeadStoresAreDead == Spec => [](ProperFunction => DeadIsNeverRead)
<1>1. RunInit => ValuesInv
    BY InitValues
<1>2. ValuesInv /\ [Next]_vars => ValuesInv'
    BY NextValues
<1>3. ValuesInv => (ProperFunction => DeadIsNeverRead)
    BY ReadsAreSame
<1> QED
    BY <1>1, <1>2, <1>3, PTL DEF Spec

\* Locals minimizeLocals merged are told apart: in any function, and whatever
\* order they were colored in, what is read of one is what it holds itself.
THEOREM MergedLocalsAreOwn == Spec => [](ProperFunction => MergedIsOwn)
<1>1. RunInit => ValuesInv
    BY InitValues
<1>2. ValuesInv /\ [Next]_vars => ValuesInv'
    BY NextValues
<1>3. ValuesInv => (ProperFunction => MergedIsOwn)
    BY ReadsAreSame
<1> QED
    BY <1>1, <1>2, <1>3, PTL DEF Spec


-----------------------------------------------------------------------------
(* The only reference.                                                     *)

\* v is not read behind s, or first at the reference of its last store.
FirstRef(s, v) == v \in s.dead \/ s.pant[v] \in {NoRef, found.copy[writer[v]].ref}

FirstRefs(s) == \A v \in Locals : Propagated(writer[v]) => FirstRef(s, v)

OnlyRefs == at # Done => \A A : Settled(at[1], A) => FirstRefs(A[at[2] - 1])

LEMMA PropagatedFacts ==
    ASSUME AInv, NEW n, Propagated(n)
    PROVE  /\ graph.candidates /\ n \in Nat \X Nat
           /\ found.copy[n].ref \in Nat \X Nat
           /\ n # None /\ found.copy[n].ref # NoRef /\ found.copy[n].ref # Many
<1>1. n \in DOMAIN found.copy
    BY DEF Propagated
<1>2. graph.candidates /\ {n, found.copy[n].ref} \subseteq Nat \X Nat
    BY <1>1 DEF AInv, TypeOK, FoundOK
<1>3. None \notin Nat \X Nat
    BY GraphAssumption
<1> QED
    BY <1>2, <1>3, RefFacts

\* An event that neither reads v nor stores to it leaves what is known of it.
LEMMA OtherRefs ==
    ASSUME AInv, NEW b \in Blocks, states[b] # None, NEW i \in 1 .. Len(graph.events[b]),
           NEW A, Settled(b, A), NEW e, e = Event(b, i), NEW s, s = AfterThrow(A[i], b, e),
           NEW v \in Locals, v # e.decl \/ e.type \in {"mod", "exn"}
    PROVE  (v \in A[i - 1].dead <=> v \in s.dead) /\ A[i - 1].pant[v] = s.pant[v] /\ A[i - 1].ant[v] = s.ant[v]
<1>1. /\ e \in EventTypes /\ EventAssumption(graph.events[b], i) /\ StateOK(s)
      /\ A[i - 1] = Before(s, e, <<b, i>>) /\ A[i - 1].dead = DeadBefore(s, e)
    BY EventFacts
<1>2. PICK t : t = A[i - 1]
    OBVIOUS
<1>3. \A u \in Locals : u # e.decl \/ e.type \notin {"ref", "def"} => t.ant[u] = s.ant[u] /\ t.pant[u] = s.pant[u]
  <2>1. graph \in Graphs /\ t = Before(s, e, <<b, i>>)
      BY <1>1, <1>2 DEF AInv, TypeOK
  <2> QED
      BY <1>1, <2>1, BeforeFacts DEF NotedBefore
<1>4. e.type \in {"ref", "def", "kil", "mod", "exn"}
    BY <1>1 DEF EventTypes
<1> QED
    BY <1>1, <1>2, <1>3, <1>4 DEF DeadBefore

\* What is known before a reference of v.
ReadFrom(s, t, e, n, v) ==
    /\ e.type = "ref" =>
        /\ v \notin t.dead
        /\ t.pant[v] = addAnt(s.pant[v], n) /\ t.ant[v] = addAnt(s.ant[v], n)
    /\ e.form = "update" =>
        /\ v \in t.dead <=> v \in s.dead
        /\ v \notin s.dead => t.pant[v] = n /\ t.ant[v] = n
        /\ t.ant[v] \in {n, Many}

LEMMA ReadRefs ==
    ASSUME AInv, NEW b \in Blocks, states[b] # None, NEW i \in 1 .. Len(graph.events[b]),
           NEW A, Settled(b, A), NEW e, e = Event(b, i), NEW s, s = AfterThrow(A[i], b, e),
           NEW v \in Locals, v = e.decl, graph.candidates
    PROVE  ReadFrom(s, A[i - 1], e, <<b, i>>, v)
<1>1. /\ e \in EventTypes /\ EventAssumption(graph.events[b], i) /\ StateOK(s)
      /\ A[i - 1] = Before(s, e, <<b, i>>) /\ A[i - 1].dead = DeadBefore(s, e)
    BY EventFacts
<1>2. PICK t : t = A[i - 1]
    OBVIOUS
<1>3. graph \in Graphs /\ t = Before(s, e, <<b, i>>)
    BY <1>1, <1>2 DEF AInv, TypeOK
<1>4. NotedBefore(s, t, e, <<b, i>>)
    BY <1>1, <1>3, BeforeFacts
<1>5. e.form = "update" => e.type = "def"
    BY <1>1 DEF EventAssumption, Event
<1> QED
    BY <1>1, <1>2, <1>4, <1>5 DEF DeadBefore, NotedBefore, ReadFrom

\* At a reference of v it is the one its last store has.
LEMMA RefIsFirst ==
    ASSUME AInv, NEW b \in Blocks, states[b] # None, NEW i \in 1 .. Len(graph.events[b]),
           NEW A, Settled(b, A), NEW e, e = Event(b, i), NEW s, s = AfterThrow(A[i], b, e),
           FirstRefs(A[i - 1]), NEW v \in Locals, v = e.decl, Propagated(writer[v]),
           e.type = "ref" \/ (e.form = "update" /\ v \notin s.dead)
    PROVE  found.copy[writer[v]].ref = <<b, i>>
<1>1. graph.candidates /\ found.copy[writer[v]].ref \notin {NoRef, Many}
    BY PropagatedFacts
<1>2. <<b, i>> \in Nat \X Nat /\ <<b, i>> # NoRef
    BY GraphFacts, RefFacts DEF AInv, TypeOK
<1>3. v \notin A[i - 1].dead /\ A[i - 1].pant[v] \in {<<b, i>>, Many}
  <2>1. ReadFrom(s, A[i - 1], e, <<b, i>>, v)
      BY <1>1, ReadRefs
  <2>2. addAnt(s.pant[v], <<b, i>>) \in {<<b, i>>, Many}
      BY DEF addAnt
  <2> QED
      BY <2>1, <2>2 DEF ReadFrom
<1>4. A[i - 1].pant[v] \in {NoRef, found.copy[writer[v]].ref}
    BY <1>3 DEF FirstRefs, FirstRef
<1> QED
    BY <1>1, <1>2, <1>3, <1>4, RefFacts

\* What is known in s, and is below t, is known in t.
LEMMA FirstRefBelow ==
    ASSUME AInv, NEW s, NEW t, Below(s, t), NEW v \in Locals, Propagated(writer[v]), FirstRef(s, v)
    PROVE  FirstRef(t, v)
<1>1. found.copy[writer[v]].ref # Many
    BY PropagatedFacts
<1> QED
    BY <1>1, RefFacts DEF Below, FirstRef


\* What is known behind an event of a local whose last store is still the same.
LEMMA FirstRefPasses ==
    ASSUME AInv, NEW b \in Blocks, states[b] # None, NEW i \in 1 .. Len(graph.events[b]),
           NEW A, Settled(b, A), NEW e, e = Event(b, i), NEW s, s = AfterThrow(A[i], b, e),
           FirstRefs(A[i - 1]), NEW v \in Locals, Propagated(writer[v]),
           v # e.decl \/ e.type \notin {"def", "kil"}
    PROVE  FirstRef(s, v)
<1>1. FirstRef(A[i - 1], v)
    BY DEF FirstRefs
<1>t. /\ e.type \in {"ref", "def", "kil", "mod", "exn"}
      /\ <<b, i>> \in Nat \X Nat
  <2>1. e \in EventTypes
      BY EventFacts
  <2>2. b \in Nat /\ i \in Nat
      BY GraphFacts DEF AInv, TypeOK
  <2> QED
      BY <2>1, <2>2 DEF EventTypes
<1>2. CASE v # e.decl \/ e.type \in {"mod", "exn"}
  <2>1. (v \in A[i - 1].dead <=> v \in s.dead) /\ A[i - 1].pant[v] = s.pant[v]
      BY <1>2, OtherRefs
  <2> QED
      BY <1>1, <2>1 DEF FirstRef
<1>3. CASE v = e.decl /\ e.type = "ref"
  <2>1. graph.candidates
      BY PropagatedFacts
  <2>2. ReadFrom(s, A[i - 1], e, <<b, i>>, v)
      BY <1>3, <2>1, ReadRefs
  <2>3. found.copy[writer[v]].ref = <<b, i>>
      BY <1>3, RefIsFirst
  <2>4. addAnt(s.pant[v], <<b, i>>) \in {NoRef, <<b, i>>}
      BY <1>1, <1>3, <2>2, <2>3 DEF FirstRef, ReadFrom
  <2>5. s.pant[v] \in {NoRef, <<b, i>>}
      BY <1>t, <2>4, RefFacts DEF addAnt
  <2> QED
      BY <2>3, <2>5 DEF FirstRef
<1> QED
    BY <1>t, <1>2, <1>3

LEMMA SameRefs ==
    ASSUME UNCHANGED avars
    PROVE  /\ \A n : Propagated(n)' <=> Propagated(n)
           /\ \A s, v : writer'[v] = writer[v] => (FirstRef(s, v)' <=> FirstRef(s, v))
<1>1. found' = found /\ graph' = graph
    BY DEF avars
<1>2. \A n : Propagated(n)' <=> Propagated(n)
    BY <1>1 DEF Propagated, Event
<1>3. \A s, v : writer'[v] = writer[v] => (FirstRef(s, v)' <=> FirstRef(s, v))
    BY <1>1 DEF FirstRef
<1> QED
    BY <1>2, <1>3

LEMMA EventRefs ==
    ASSUME RunInv, EveryBlockEnds(graph), OnlyRefs, RunEvent
    PROVE  OnlyRefs'
<1>b. PICK b : b = at[1]
    OBVIOUS
<1>i. PICK i : i = at[2]
    OBVIOUS
<1>e. PICK e : e = Event(b, i)
    OBVIOUS
<1>1. /\ b \in Blocks /\ i \in 1 .. Len(graph.events[b]) /\ at = <<b, i>>
      /\ at # Done /\ Analyzed /\ Current = e /\ at \in Nat \X Nat
    BY <1>b, <1>i, <1>e, AtEventFacts DEF RunEvent
<1>2. AInv
    BY DEF RunInv
<1>3. UNCHANGED avars
    BY DEF RunEvent, mvars
<1>4. at' = <<b, i + 1>> /\ i \in Nat /\ (i + 1) - 1 = i
    BY <1>1 DEF RunEvent
<1>5. writer' = IF e.decl \in Locals /\ e.type \in {"def", "kil"}
                THEN [writer EXCEPT ![e.decl] = IF e.type = "def" THEN at ELSE None]
                ELSE writer
    BY <1>1 DEF RunEvent
<1>6. DOMAIN writer = Locals
    BY DEF RunInv, RunTypeOK
<1>7. ASSUME NEW A, Settled(b, A), NEW v \in Locals, Propagated(writer'[v])
      PROVE  FirstRef(A[i], v)'
  <2>1. states[b] # None
      BY <1>1, <1>2, AllAreSettled
  <2>2. PICK s : s = AfterThrow(A[i], b, e)
      OBVIOUS
  <2>3. /\ e \in EventTypes /\ StateOK(s)
        /\ Below(s, A[i]) /\ Judged(found, b, i, s)
      BY <1>e, <1>1, <1>2, <1>7, <2>1, <2>2, EventFacts
  <2>4. FirstRefs(A[i - 1])
      BY <1>b, <1>i, <1>1, <1>7 DEF OnlyRefs
  <2>5. CASE v # e.decl \/ e.type \notin {"def", "kil"}
    <3>1. writer'[v] = writer[v]
        BY <1>5, <2>5
    <3>2. FirstRef(s, v)
        BY <1>e, <1>1, <1>2, <1>7, <2>1, <2>2, <2>4, <2>5, <3>1, FirstRefPasses
    <3>3. FirstRef(A[i], v)
        BY <1>2, <1>7, <2>3, <3>1, <3>2, FirstRefBelow
    <3> QED
        BY <1>3, <3>1, <3>3, SameRefs
  <2>6. CASE v = e.decl /\ e.type = "kil"
    <3>1. writer'[v] = None
        BY <1>5, <1>6, <2>6
    <3> QED
        BY <1>2, <1>7, <3>1, PropagatedFacts
  <2>7. CASE v = e.decl /\ e.type = "def"
    <3>1. writer'[v] = <<b, i>>
        BY <1>1, <1>5, <1>6, <2>7
    <3>2. <<b, i>> \in DOMAIN found.copy
        BY <1>7, <3>1 DEF Propagated
    <3>3. v \in s.dead \/ (s.pant[v] # Many /\ found.copy[<<b, i>>].ref = s.pant[v])
        BY <1>e, <2>3, <2>7, <3>2 DEF Judged
    <3>4. v \in A[i].dead \/ A[i].pant[v] \in {NoRef, found.copy[<<b, i>>].ref}
        BY <2>3, <3>3 DEF Below
    <3>5. found' = found
        BY <1>3 DEF avars
    <3> QED
        BY <3>1, <3>4, <3>5 DEF FirstRef
  <2> QED
      BY <2>5, <2>6, <2>7
<1>8. \A A : Settled(b, A)' <=> Settled(b, A)
    BY <1>3, SameAnalysis
<1>9. ASSUME NEW A, Settled(b, A)' PROVE FirstRefs(A[i])'
    BY <1>3, <1>7, <1>8, <1>9, SameRefs DEF FirstRefs
<1> QED
    BY <1>4, <1>9 DEF OnlyRefs

\* The run comes to block c, from where s was known.
LEMMA ArriveRefs ==
    ASSUME RunInv, NEW c \in Blocks, at' = <<c, 1>>, UNCHANGED <<mvars, writer>>,
           NEW s, \A v \in Locals : Propagated(writer[v]) => FirstRef(s, v),
           \A A : Settled(c, A) => Below(s, A[0])
    PROVE  OnlyRefs'
<1>1. UNCHANGED avars
    BY DEF mvars
<1>2. ASSUME NEW A, Settled(c, A)' PROVE FirstRefs(A[0])'
  <2>1. Settled(c, A)
      BY <1>1, <1>2, SameAnalysis
  <2>2. ASSUME NEW v \in Locals, Propagated(writer[v]) PROVE FirstRef(A[0], v)
      BY <2>1, <2>2, FirstRefBelow DEF RunInv
  <2> QED
      BY <1>1, <2>2, SameRefs DEF FirstRefs
<1>3. at'[1] = c /\ at'[2] - 1 = 0
    OBVIOUS
<1> QED
    BY <1>2, <1>3 DEF OnlyRefs

LEMMA ThrowRefs ==
    ASSUME RunInv, EveryBlockEnds(graph), OnlyRefs, RunThrow
    PROVE  OnlyRefs'
<1>b. PICK b : b = at[1]
    OBVIOUS
<1>i. PICK i : i = at[2]
    OBVIOUS
<1>e. PICK e : e = Event(b, i)
    OBVIOUS
<1>c. PICK c : c = graph.exsucc[b]
    OBVIOUS
<1>1. /\ b \in Blocks /\ i \in 1 .. Len(graph.events[b]) /\ at = <<b, i>>
      /\ at # Done /\ Analyzed /\ Current = e
    BY <1>b, <1>i, <1>e, AtEventFacts DEF RunThrow
<1>2. AInv
    BY DEF RunInv
<1>3. e.mayThrow /\ c # None /\ at' = <<c, 1>> /\ UNCHANGED <<mvars, writer>>
    BY <1>b, <1>c, <1>1 DEF RunThrow
<1>4. c \in Blocks
    BY <1>c, <1>1, <1>2, <1>3, GraphFacts DEF AInv, TypeOK
<1>5. PICK A : states[b] # None /\ Settled(b, A)
    BY <1>1, <1>2, AllAreSettled
<1>6. PICK s : s = AfterThrow(A[i], b, e)
    OBVIOUS
<1>7. /\ e \in EventTypes /\ EventAssumption(graph.events[b], i)
      /\ Below(s, states[b]) /\ Judged(found, b, i, s)
    BY <1>e, <1>c, <1>1, <1>2, <1>3, <1>5, <1>6, EventFacts
<1>8. FirstRefs(A[i - 1])
    BY <1>b, <1>i, <1>1, <1>5 DEF OnlyRefs
<1>9. e.type \in {"mod", "exn"} \/ (e.form = "update" /\ e.type = "def")
  <2>1. e = graph.events[b][i]
      BY <1>e DEF Event
  <2> QED
      BY <1>3, <1>7, <2>1 DEF EventAssumption
<1>10. ASSUME NEW v \in Locals, Propagated(writer[v]) PROVE FirstRef(s, v)
  <2>1. CASE v # e.decl \/ e.type \in {"mod", "exn"}
      BY <1>e, <1>1, <1>2, <1>5, <1>6, <1>8, <1>10, <2>1, FirstRefPasses
  <2>2. CASE v = e.decl /\ e.form = "update"
    <3> SUFFICES ASSUME v \notin s.dead PROVE FALSE
        BY DEF FirstRef
    <3>1. found.copy[writer[v]].ref = <<b, i>>
        BY <1>e, <1>1, <1>2, <1>5, <1>6, <1>8, <1>10, <2>2, RefIsFirst
    <3> QED
        BY <1>e, <1>10, <2>2, <3>1 DEF Propagated
  <2> QED
      BY <1>9, <2>1, <2>2
<1>11. ASSUME NEW B, Settled(c, B) PROVE Below(s, B[0])
  <2>1. Below(states[b], B[0])
      BY <1>c, <1>1, <1>2, <1>4, <1>11, EdgeFacts
  <2> QED
      BY <1>7, <2>1, BelowIsTransitive
<1> QED
    BY <1>3, <1>4, <1>10, <1>11, ArriveRefs

LEMMA BranchRefs ==
    ASSUME RunInv, EveryBlockEnds(graph), OnlyRefs, RunBranch
    PROVE  OnlyRefs'
<1> DEFINE b == at[1]
           n == Len(graph.events[b])
<1>1. at # Done /\ Analyzed /\ UNCHANGED <<mvars, writer>>
    BY DEF RunBranch, AtEnd, Running, RunInv, Allocated
<1>2. AInv
    BY DEF RunInv
<1>3. b \in Blocks /\ at[2] \in 1 .. n + 1
    BY <1>1 DEF RunInv, RunTypeOK
<1>4. n \in Nat /\ graph.succs[b] \subseteq Blocks
    BY <1>2, <1>3, GraphFacts DEF AInv, TypeOK
<1>5. at[2] - 1 = n
    BY <1>3, <1>4 DEF RunBranch, AtEnd
<1>6. PICK A : states[b] # None /\ Settled(b, A)
    BY <1>1, <1>2, <1>3, AllAreSettled
<1>7. A[n] = states[b]
    BY <1>2, <1>3, <1>6, EndFacts
<1>8. \A v \in Locals : Propagated(writer[v]) => FirstRef(states[b], v)
    BY <1>1, <1>5, <1>6, <1>7 DEF OnlyRefs, FirstRefs
<1>9. ASSUME NEW c \in graph.succs[b], at' = <<c, 1>> PROVE OnlyRefs'
  <2>1. c \in Blocks
      BY <1>4
  <2>2. \A B : Settled(c, B) => Below(states[b], B[0])
      BY <1>2, <1>3, <2>1, EdgeFacts
  <2> QED
      BY <1>1, <1>8, <1>9, <2>1, <2>2, ArriveRefs
<1>10. ASSUME at' = Done PROVE OnlyRefs'
    BY <1>10 DEF OnlyRefs
<1> QED
    BY <1>9, <1>10 DEF RunBranch


RefsInv == RunInv /\ (EveryBlockEnds(graph) /\ colors # <<>> => OnlyRefs)

LEMMA EnterRefs ==
    ASSUME RunInv, Enter
    PROVE  OnlyRefs'
<1>1. /\ UNCHANGED <<avars, at, writer>>
      /\ colors = <<>>
    BY DEF Enter, Minimize
<1>2. AInv /\ writer = [v \in Locals |-> None]
    BY <1>1 DEF RunInv, AtStart
<1>3. ASSUME NEW v \in Locals PROVE ~Propagated(writer[v])
    BY <1>2, <1>3, PropagatedFacts
<1>4. \A s : FirstRefs(s)'
    BY <1>1, <1>3, SameRefs DEF FirstRefs
<1> QED
    BY <1>4 DEF OnlyRefs

LEMMA NextRefs ==
    ASSUME RefsInv, [Next]_vars
    PROVE  RefsInv'
<1>1. RunInv /\ RunInv' /\ graph' = graph
    BY NextKeeps, SameGraphAlways DEF RefsInv
<1> SUFFICES ASSUME EveryBlockEnds(graph), colors' # <<>> PROVE OnlyRefs'
  <2>1. EveryBlockEnds(graph)' <=> EveryBlockEnds(graph)
      BY <1>1 DEF EveryBlockEnds
  <2> QED
      BY <1>1, <2>1 DEF RefsInv
<1>2. CASE Visit /\ UNCHANGED <<colors, rvars>>
    BY <1>1, <1>2 DEF Visit, RunInv, Allocated, Analyzed
<1>3. CASE Enter
    BY <1>1, <1>3, EnterRefs
<1>4. ASSUME RunEvent \/ RunThrow \/ RunBranch PROVE OnlyRefs'
  <2>1. OnlyRefs
      BY <1>4 DEF RefsInv, RunEvent, RunThrow, RunBranch, AtEvent, AtEnd, Running
  <2> QED
      BY <1>1, <1>4, <2>1, EventRefs, ThrowRefs, BranchRefs
<1>5. ASSUME UNCHANGED vars PROVE OnlyRefs'
  <2>1. UNCHANGED <<avars, colors, at, writer>>
      BY <1>5 DEF vars, mvars, rvars
  <2>2. OnlyRefs
      BY <2>1 DEF RefsInv
  <2>3. \A b, A : Settled(b, A)' <=> Settled(b, A)
      BY <2>1, SameAnalysis
  <2>4. \A s : FirstRefs(s)' <=> FirstRefs(s)
      BY <2>1, SameRefs DEF FirstRefs
  <2> QED
      BY <2>1, <2>2, <2>3, <2>4 DEF OnlyRefs
<1> QED
    BY <1>2, <1>3, <1>4, <1>5 DEF Next

LEMMA ReadsTheRef ==
    ASSUME RefsInv, EveryBlockEnds(graph)
    PROVE  OnlyRef
<1> SUFFICES ASSUME NEW v \in Reads \cap Locals, Propagated(writer[v])
             PROVE  found.copy[writer[v]].ref = at
    BY DEF OnlyRef
<1>1. CASE AtEvent
  <2>b. PICK b : b = at[1]
      OBVIOUS
  <2>i. PICK i : i = at[2]
      OBVIOUS
  <2>e. PICK e : e = Event(b, i)
      OBVIOUS
  <2>1. /\ b \in Blocks /\ i \in 1 .. Len(graph.events[b]) /\ at = <<b, i>>
        /\ at # Done /\ Analyzed /\ Current = e
      BY <1>1, <2>b, <2>i, <2>e, AtEventFacts DEF RefsInv
  <2>2. AInv /\ OnlyRefs
      BY <1>1 DEF RefsInv, RunInv, AtEvent, Running
  <2>3. PICK A : states[b] # None /\ Settled(b, A)
      BY <2>1, <2>2, AllAreSettled
  <2>4. PICK s : s = AfterThrow(A[i], b, e)
      OBVIOUS
  <2>5. FirstRefs(A[i - 1])
      BY <2>b, <2>i, <2>1, <2>2, <2>3 DEF OnlyRefs
  <2>6. /\ Judged(found, b, i, s)
        /\ e.type = "def" <=> e.form # ""
        /\ v \notin Globals
    <3>1. EventAssumption(graph.events[b], i) /\ Judged(found, b, i, s)
        BY <2>e, <2>1, <2>2, <2>3, <2>4, EventFacts
    <3>2. e = graph.events[b][i]
        BY <2>e DEF Event
    <3> QED
        BY <3>1, <3>2, GraphAssumption DEF EventAssumption
  <2>7. v = e.decl /\ (e.type = "ref" \/ (e.form = "update" /\ at \notin found.dead))
      BY <1>1, <2>1, <2>6 DEF Reads
  <2>8. e.form = "update" /\ at \notin found.dead => v \notin s.dead
      BY <2>e, <2>1, <2>6, <2>7 DEF Judged
  <2>9. CASE e.type = "ref"
    <3>1. found.copy[writer[v]].ref = <<b, i>>
        BY <2>e, <2>1, <2>2, <2>3, <2>4, <2>5, <2>7, <2>9, RefIsFirst
    <3> QED
        BY <2>1, <3>1
  <2>10. CASE e.form = "update" /\ v \notin s.dead
    <3>a. v \in Locals /\ v = e.decl /\ v \notin s.dead /\ e.form = "update"
        BY <2>7, <2>10
    <3>1. found.copy[writer[v]].ref = <<b, i>>
        BY <2>e, <2>1, <2>2, <2>3, <2>4, <2>5, <3>a, RefIsFirst
    <3> QED
        BY <2>1, <3>1
  <2> QED
      BY <2>7, <2>8, <2>9, <2>10
<1>2. CASE ~AtEvent
    BY <1>2, GraphAssumption DEF Reads
<1> QED
    BY <1>1, <1>2

\* A store that may be moved to its reader is read by that one only, in any
\* function all of whose blocks end: what propagateTypes asserts.
THEOREM CandidatesHaveOneRef == Spec => [](EveryBlockEnds(graph) => OnlyRef)
<1>1. RunInit => RefsInv
    BY InitRun DEF RefsInv, RunInit, MinimizeInit
<1>2. RefsInv /\ [Next]_vars => RefsInv'
    BY NextRefs
<1>3. RefsInv => (EveryBlockEnds(graph) => OnlyRef)
    BY ReadsTheRef
<1> QED
    BY <1>1, <1>2, <1>3, PTL DEF Spec


-----------------------------------------------------------------------------
(* The anticipated reference.                                              *)

\* A reference that does not store to what it reads.
PlainRef(r) == r \in Nat \X Nat /\ Event(r[1], r[2]).form # "update"

\* Behind the k-th event of b the reference r of v is anticipated, although v is
\* dead there, or has no value until the next store.
RefAhead(b, A, k, v, r, Z) ==
    A[k].ant[v] = r /\ (v \in A[k].dead \/ UnsetFrom(graph, b, k, v, Z))

\* It is not reached there, but passed on.
LEMMA RefAheadPasses ==
    ASSUME AInv, graph.candidates, NEW b \in Blocks, states[b] # None,
           NEW i \in 1 .. Len(graph.events[b]), NEW A, Settled(b, A),
           NEW v \in Locals, NEW Z, UnsetAlong(v, Z), NEW r, PlainRef(r),
           RefAhead(b, A, i - 1, v, r, Z)
    PROVE  RefAhead(b, A, i, v, r, Z)
<1>e. PICK e : e = Event(b, i)
    OBVIOUS
<1>s. PICK s : s = AfterThrow(A[i], b, e)
    OBVIOUS
<1>1. /\ e \in EventTypes /\ EventAssumption(graph.events[b], i) /\ StateOK(s) /\ Below(s, A[i])
      /\ A[i - 1] = Before(s, e, <<b, i>>) /\ A[i - 1].dead = DeadBefore(s, e)
    BY <1>e, <1>s, EventFacts
<1>t. /\ e.type \in {"ref", "def", "kil", "mod", "exn"}
      /\ e.form \in {"", "assign", "update", "compound"}
      /\ e.type = "def" <=> e.form # ""
  <2>1. e = graph.events[b][i]
      BY <1>e DEF Event
  <2> QED
      BY <1>1, <2>1 DEF EventTypes, EventAssumption
<1>2. graph \in Graphs /\ Len(graph.events[b]) \in Nat /\ i - 1 \in Nat /\ (i - 1) + 1 = i
    BY GraphFacts DEF AInv, TypeOK
<1>r. r # NoRef /\ r # Many
    BY RefFacts DEF PlainRef
<1>3. ASSUME UnsetFrom(graph, b, i - 1, v, Z)
      PROVE  /\ ~(e.decl = v /\ (e.type = "ref" \/ e.form = "update"))
             /\ ~(e.type = "def" /\ e.decl = v) => UnsetFrom(graph, b, i, v, Z)
    BY <1>e, <1>2, <1>3, UnsetFacts
<1>4. ASSUME s.ant[v] = r PROVE A[i].ant[v] = r
    BY <1>1, <1>4, <1>r DEF Below
<1>5. v \in s.dead => v \in A[i].dead
    BY <1>1 DEF Below
<1>6. A[i - 1].ant[v] = r /\ (v \in A[i - 1].dead \/ UnsetFrom(graph, b, i - 1, v, Z))
    BY DEF RefAhead
<1>7. CASE v # e.decl \/ e.type \in {"mod", "exn"}
  <2>1. (v \in A[i - 1].dead <=> v \in s.dead) /\ A[i - 1].ant[v] = s.ant[v]
      BY <1>e, <1>s, <1>7, OtherRefs
  <2>2. ~(e.type = "def" /\ e.decl = v)
      BY <1>7
  <2> QED
      BY <1>3, <1>4, <1>5, <1>6, <2>1, <2>2 DEF RefAhead
<1>8. CASE v = e.decl /\ e.type = "ref"
  <2>1. v \notin A[i - 1].dead
      BY <1>1, <1>8 DEF DeadBefore
  <2> QED
      BY <1>3, <1>6, <1>8, <2>1
<1>9. CASE v = e.decl /\ e.form = "update"
  <2>1. ReadFrom(s, A[i - 1], e, <<b, i>>, v)
      BY <1>e, <1>s, <1>9, ReadRefs
  <2>2. r = <<b, i>>
      BY <1>6, <1>9, <1>r, <2>1 DEF ReadFrom
  <2>3. r[1] = b /\ r[2] = i
      BY <2>2
  <2> QED
      BY <1>e, <1>9, <2>3 DEF PlainRef
<1>n. PICK t : t = A[i - 1]
    OBVIOUS
<1>10. NotedBefore(s, t, e, <<b, i>>)
    BY <1>e, <1>1, <1>2, <1>n, BeforeFacts
<1>11. CASE v = e.decl /\ e.form \in {"assign", "compound"}
  <2>1. e.type = "def" /\ e.form # "update"
      BY <1>t, <1>11
  <2>2. v \in s.dead
    <3> SUFFICES ASSUME v \notin s.dead PROVE FALSE
        OBVIOUS
    <3>1. t.ant[v] = NoRef
        BY <1>10, <1>11, <2>1 DEF NotedBefore
    <3> QED
        BY <1>6, <1>n, <1>r, <3>1
  <2>3. t.ant[v] = s.ant[v]
      BY <1>10, <1>11, <2>1, <2>2 DEF NotedBefore
  <2> QED
      BY <1>4, <1>5, <1>6, <1>n, <2>2, <2>3 DEF RefAhead
<1>12. CASE v = e.decl /\ e.type = "kil"
  <2>1. t.ant[v] = s.ant[v]
      BY <1>10, <1>12 DEF NotedBefore
  <2>2. i \in DOMAIN graph.events[b]
    <3>1. graph.events[b] \in Seq(EventTypes)
        BY <1>2, GraphAssumption DEF Blocks
    <3> QED
        BY <3>1, LenProperties
  <2>3. UnsetFrom(graph, b, i, v, Z)
      BY <1>e, <1>12, <2>2 DEF UnsetAlong
  <2> QED
      BY <1>4, <1>6, <1>n, <2>1, <2>3 DEF RefAhead
<1> QED
    BY <1>t, <1>7, <1>8, <1>9, <1>11, <1>12

LEMMA RefAheadAtEnd ==
    ASSUME AInv, graph.candidates, NEW b \in Blocks, states[b] # None,
           NEW j \in 0 .. Len(graph.events[b]), NEW A, Settled(b, A),
           NEW v \in Locals, NEW Z, UnsetAlong(v, Z), NEW r, PlainRef(r),
           RefAhead(b, A, j, v, r, Z)
    PROVE  RefAhead(b, A, Len(graph.events[b]), v, r, Z)
<1> DEFINE n == Len(graph.events[b])
           S == {k \in Nat : j + k <= n => RefAhead(b, A, j + k, v, r, Z)}
<1>1. n \in Nat /\ j \in Nat /\ j <= n
    BY GraphFacts DEF AInv, TypeOK
<1>2. 0 \in S
  <2>1. j + 0 = j
      BY <1>1
  <2> QED
      BY <2>1
<1>3. ASSUME NEW k \in Nat, k \in S PROVE k + 1 \in S
  <2> SUFFICES ASSUME j + (k + 1) <= n PROVE RefAhead(b, A, j + (k + 1), v, r, Z)
      OBVIOUS
  <2>1. j + (k + 1) \in 1 .. n /\ (j + (k + 1)) - 1 = j + k /\ j + k <= n
      BY <1>1
  <2>2. RefAhead(b, A, j + k, v, r, Z)
      BY <1>3, <2>1
  <2>3. PICK i \in 1 .. n : i = j + (k + 1)
      BY <2>1
  <2>4. RefAhead(b, A, i - 1, v, r, Z)
      BY <2>1, <2>2, <2>3
  <2>5. RefAhead(b, A, i, v, r, Z)
      BY <2>4, RefAheadPasses
  <2> QED
      BY <2>3, <2>5
<1>4. n - j \in S
  <2>1. n - j \in Nat
      BY <1>1
  <2> HIDE DEF S
  <2> QED
      BY <1>2, <1>3, <2>1, SetInduction
<1>5. j + (n - j) = n
    BY <1>1
<1> QED
    BY <1>1, <1>4, <1>5

\* A dead local has no anticipated reference.  It would be passed on to every
\* successor, from there to theirs, and never reached; but behind the last block
\* there is none.
LEMMA NoRefAhead ==
    ASSUME AInv, Analyzed, EveryBlockEnds(graph), EveryBlockReturns(graph), graph.candidates,
           NEW b \in Blocks, NEW j \in 0 .. Len(graph.events[b]), NEW A, Settled(b, A),
           NEW v \in Locals, NEW Z, UnsetAlong(v, Z), NEW r, PlainRef(r)
    PROVE  ~RefAhead(b, A, j, v, r, Z)
<1> DEFINE S == {c \in Blocks : \E B : Settled(c, B) /\ RefAhead(c, B, 0, v, r, Z)}
<1>r. r # NoRef
    BY RefFacts DEF PlainRef
<1>1. ASSUME NEW c \in Blocks, NEW k \in 0 .. Len(graph.events[c]), NEW B, Settled(c, B),
             RefAhead(c, B, k, v, r, Z)
      PROVE  graph.succs[c] \subseteq S /\ graph.succs[c] # {}
  <2>1. states[c] # None
      BY AllAreSettled
  <2>2. RefAhead(c, B, Len(graph.events[c]), v, r, Z)
      BY <1>1, <2>1, RefAheadAtEnd
  <2>3. B[Len(graph.events[c])] = states[c]
      BY <1>1, EndFacts
  <2>4. states[c].ant[v] = r
      BY <2>2, <2>3 DEF RefAhead
  <2>5. graph.succs[c] # {}
      BY <1>r, <2>4 DEF AInv, TypeOK, ExitOK
  <2>6. ASSUME NEW d \in graph.succs[c] PROVE d \in S
    <3>1. d \in Blocks /\ Len(graph.events[c]) \in Nat
        BY GraphFacts DEF AInv, TypeOK
    <3>2. PICK D : Settled(d, D)
        BY <3>1, AllAreSettled
    <3>3. Below(states[c], D[0])
        BY <3>1, <3>2, EdgeFacts
    <3>4. D[0].ant[v] = r
        BY <1>r, <2>4, <3>3 DEF Below
    <3>5. CASE v \in states[c].dead
        BY <3>1, <3>2, <3>3, <3>4, <3>5 DEF Below, RefAhead
    <3>6. CASE UnsetFrom(graph, c, Len(graph.events[c]), v, Z)
      <4>1. d \in Z
          BY <3>1, <3>6, UnsetFacts
      <4>2. UnsetFrom(graph, d, 0, v, Z)
          BY <4>1 DEF UnsetAlong
      <4> QED
          BY <3>1, <3>2, <3>4, <4>2 DEF RefAhead
    <3> QED
        BY <2>2, <2>3, <3>5, <3>6 DEF RefAhead
  <2> QED
      BY <2>5, <2>6
<1>2. SUFFICES ASSUME RefAhead(b, A, j, v, r, Z) PROVE FALSE
    OBVIOUS
<1>3. S # {}
    BY <1>1, <1>2
<1>4. ASSUME NEW c \in S PROVE graph.succs[c] \subseteq S /\ graph.succs[c] # {}
  <2>1. c \in Blocks /\ 0 \in 0 .. Len(graph.events[c])
      BY GraphFacts DEF AInv, TypeOK
  <2>2. PICK B : Settled(c, B) /\ RefAhead(c, B, 0, v, r, Z)
      BY <1>4
  <2> QED
      BY <1>1, <2>1, <2>2
<1>5. S \in (SUBSET DOMAIN graph.succs) \ {{}}
    BY <1>3 DEF Blocks
<1> HIDE DEF S
<1> QED
    BY <1>4, <1>5 DEF EveryBlockReturns


-----------------------------------------------------------------------------
(* Anticipated references are reached.                                     *)

\* A store whose only reference is on every path.
Anticipated(n) == Propagated(n) /\ found.copy[n].ant

\* What was stored, and not read yet, has its reference ahead.
AntRef(s, v) == s.ant[v] = found.copy[writer[v]].ref

AntRefs(s) == \A v \in unread : Anticipated(writer[v]) => AntRef(s, v)

AntIsAhead ==
    /\ at # Done => \A A : Settled(at[1], A) => AntRefs(A[at[2] - 1])
    /\ at = Done => \A v \in unread : ~Anticipated(writer[v])

LEMMA AnticipatedFacts ==
    ASSUME AInv, NEW n, Anticipated(n)
    PROVE  /\ graph.candidates /\ PlainRef(found.copy[n].ref) /\ n # None
           /\ found.copy[n].ref # NoRef
    BY PropagatedFacts DEF Anticipated, Propagated, PlainRef

LEMMA SameAnts ==
    ASSUME UNCHANGED avars
    PROVE  /\ \A n : Anticipated(n)' <=> Anticipated(n)
           /\ \A s, v : writer'[v] = writer[v] => (AntRef(s, v)' <=> AntRef(s, v))
<1>1. found' = found
    BY DEF avars
<1>2. \A n : Anticipated(n)' <=> Anticipated(n)
    BY <1>1, SameRefs DEF Anticipated
<1>3. \A s, v : writer'[v] = writer[v] => (AntRef(s, v)' <=> AntRef(s, v))
    BY <1>1 DEF AntRef
<1> QED
    BY <1>2, <1>3

\* What is known in s, and is below t, is known in t.
LEMMA AntRefBelow ==
    ASSUME AInv, NEW s, NEW t, Below(s, t), NEW v \in Locals, Anticipated(writer[v]), AntRef(s, v)
    PROVE  AntRef(t, v)
<1>1. found.copy[writer[v]].ref # NoRef
    BY AnticipatedFacts
<1> QED
    BY <1>1 DEF Below, AntRef

\* The value of a local is not read by an event that stores to it, too, if its
\* only reference is anticipated.
LEMMA AntRefPasses ==
    ASSUME AInv, NEW b \in Blocks, states[b] # None, NEW i \in 1 .. Len(graph.events[b]),
           NEW A, Settled(b, A), NEW e, e = Event(b, i), NEW s, s = AfterThrow(A[i], b, e),
           NEW v \in Locals, Anticipated(writer[v]), AntRef(A[i - 1], v)
    PROVE  /\ v # e.decl \/ e.type \in {"mod", "exn"} => AntRef(s, v)
           /\ v = e.decl => e.form # "update"
<1>1. ASSUME v # e.decl \/ e.type \in {"mod", "exn"} PROVE AntRef(s, v)
  <2>1. A[i - 1].ant[v] = s.ant[v]
      BY <1>1, OtherRefs
  <2> QED
      BY <2>1 DEF AntRef
<1>2. ASSUME v = e.decl, e.form = "update" PROVE FALSE
  <2>1. graph.candidates /\ PlainRef(found.copy[writer[v]].ref)
      BY AnticipatedFacts
  <2>2. ReadFrom(s, A[i - 1], e, <<b, i>>, v)
      BY <1>2, <2>1, ReadRefs
  <2>3. found.copy[writer[v]].ref # Many
      BY <2>1, RefFacts DEF PlainRef
  <2>4. found.copy[writer[v]].ref = <<b, i>>
      BY <1>2, <2>2, <2>3 DEF ReadFrom, AntRef
  <2>5. PICK r : r = found.copy[writer[v]].ref
      OBVIOUS
  <2>6. r[1] = b /\ r[2] = i
      BY <2>4, <2>5
  <2> QED
      BY <1>2, <2>1, <2>5, <2>6 DEF PlainRef
<1> QED
    BY <1>1, <1>2

LEMMA EventAnts ==
    ASSUME RunInv, CandidatesLive, EveryBlockEnds(graph), AntIsAhead, RunEvent
    PROVE  AntIsAhead'
<1>b. PICK b : b = at[1]
    OBVIOUS
<1>i. PICK i : i = at[2]
    OBVIOUS
<1>e. PICK e : e = Event(b, i)
    OBVIOUS
<1>1. /\ b \in Blocks /\ i \in 1 .. Len(graph.events[b]) /\ at = <<b, i>>
      /\ at # Done /\ Analyzed /\ Current = e /\ at \in Nat \X Nat
    BY <1>b, <1>i, <1>e, AtEventFacts DEF RunEvent
<1>2. AInv
    BY DEF RunInv
<1>3. UNCHANGED avars
    BY DEF RunEvent, mvars
<1>4. at' = <<b, i + 1>> /\ i \in Nat /\ (i + 1) - 1 = i /\ at' # Done
    BY <1>1 DEF RunEvent, Done
<1>5. /\ writer' = IF e.decl \in Locals /\ e.type \in {"def", "kil"}
                   THEN [writer EXCEPT ![e.decl] = IF e.type = "def" THEN at ELSE None]
                   ELSE writer
      /\ unread' = IF e.type = "def" THEN unread \cup ({e.decl} \cap Locals)
                   ELSE unread \ {e.decl}
    BY <1>1 DEF RunEvent
<1>6. DOMAIN writer = Locals /\ unread \subseteq Locals
    BY DEF RunInv, RunTypeOK
<1>7. ASSUME NEW A, Settled(b, A), NEW v \in unread', Anticipated(writer'[v])
      PROVE  AntRef(A[i], v)'
  <2>1. states[b] # None
      BY <1>1, <1>2, AllAreSettled
  <2>2. PICK s : s = AfterThrow(A[i], b, e)
      OBVIOUS
  <2>3. Below(s, A[i]) /\ Judged(found, b, i, s)
      BY <1>e, <1>1, <1>2, <1>7, <2>1, <2>2, EventFacts
  <2>4. AntRefs(A[i - 1]) /\ v \in Locals
      BY <1>b, <1>i, <1>1, <1>5, <1>6, <1>7 DEF AntIsAhead
  <2>5. CASE v # e.decl
    <3>1. writer'[v] = writer[v] /\ v \in unread
        BY <1>5, <1>7, <2>5
    <3>2. AntRef(A[i - 1], v)
        BY <1>7, <2>4, <3>1 DEF AntRefs
    <3>3. AntRef(s, v)
        BY <1>e, <1>1, <1>2, <1>7, <2>1, <2>2, <2>4, <2>5, <3>1, <3>2, AntRefPasses
    <3>4. AntRef(A[i], v)
        BY <1>2, <1>7, <2>3, <2>4, <3>1, <3>3, AntRefBelow
    <3> QED
        BY <1>3, <3>1, <3>4, SameAnts
  <2>6. CASE v = e.decl
    <3>1. e.type = "def"
        BY <1>5, <1>7, <2>6
    <3>2. writer'[v] = <<b, i>>
        BY <1>1, <1>5, <1>6, <2>4, <2>6, <3>1
    <3>3. <<b, i>> \in DOMAIN found.copy /\ found.copy[<<b, i>>].ant
        BY <1>7, <3>2 DEF Anticipated, Propagated
    <3>4. v \notin s.dead
      <4>1. LiveStore(<<b, i>>)
          BY <3>3 DEF CandidatesLive
      <4>2. PICK c \in Blocks : \E k \in 1 .. Len(graph.events[c]) :
                /\ <<b, i>> = <<c, k>>
                /\ \A B : IsWalk(c, B) => Event(c, k).decl \notin AfterThrow(B[k], c, Event(c, k)).dead
          BY <4>1 DEF LiveStore
      <4>3. \A B : IsWalk(b, B) => Event(b, i).decl \notin AfterThrow(B[i], b, Event(b, i)).dead
          BY <4>2
      <4> QED
          BY <1>e, <1>7, <2>2, <2>6, <4>3 DEF Settled
    <3>5. s.ant[v] = found.copy[<<b, i>>].ref
      <4>1. found.copy[<<b, i>>] = [ref |-> s.pant[v], ant |-> s.ant[v] = s.pant[v]]
          BY <1>e, <2>3, <2>6, <3>1, <3>3, <3>4 DEF Judged
      <4>2. PICK c : c = found.copy[<<b, i>>]
          OBVIOUS
      <4>3. c = [ref |-> s.pant[v], ant |-> s.ant[v] = s.pant[v]] /\ c.ant
          BY <3>3, <4>1, <4>2
      <4>4. c.ref = s.pant[v]
          BY <4>3
      <4>5. s.ant[v] = s.pant[v]
          BY <4>3, Zenon
      <4> QED
          BY <4>2, <4>4, <4>5
    <3>6. found.copy[<<b, i>>].ref # NoRef
        BY <1>2, <1>7, <3>2, AnticipatedFacts
    <3>7. A[i].ant[v] = found.copy[<<b, i>>].ref
        BY <2>3, <2>4, <3>5, <3>6 DEF Below
    <3>8. found' = found
        BY <1>3 DEF avars
    <3> QED
        BY <3>2, <3>7, <3>8 DEF AntRef
  <2> QED
      BY <2>5, <2>6
<1>8. \A A : Settled(b, A)' <=> Settled(b, A)
    BY <1>3, SameAnalysis
<1>9. ASSUME NEW A, Settled(b, A)' PROVE AntRefs(A[i])'
    BY <1>3, <1>7, <1>8, <1>9, SameAnts DEF AntRefs
<1> QED
    BY <1>4, <1>9 DEF AntIsAhead


\* The run comes to block c, from where s was known.
LEMMA ArriveAnts ==
    ASSUME RunInv, NEW c \in Blocks, at' = <<c, 1>>, UNCHANGED <<mvars, writer, unread>>,
           NEW s, AntRefs(s), \A A : Settled(c, A) => Below(s, A[0])
    PROVE  AntIsAhead'
<1>1. UNCHANGED avars
    BY DEF mvars
<1>2. ASSUME NEW A, Settled(c, A)' PROVE AntRefs(A[0])'
  <2>1. Settled(c, A)
      BY <1>1, <1>2, SameAnalysis
  <2>2. ASSUME NEW v \in unread, Anticipated(writer[v]) PROVE AntRef(A[0], v)
    <3>1. v \in Locals /\ AInv
        BY DEF RunInv, RunTypeOK
    <3>2. AntRef(s, v) /\ Below(s, A[0])
        BY <2>1, <2>2 DEF AntRefs
    <3> QED
        BY <2>2, <3>1, <3>2, AntRefBelow
  <2> QED
      BY <1>1, <2>2, SameAnts DEF AntRefs
<1>3. at'[1] = c /\ at'[2] - 1 = 0 /\ at' # Done
    BY DEF Done
<1> QED
    BY <1>2, <1>3 DEF AntIsAhead

LEMMA ThrowAnts ==
    ASSUME RunInv, EveryBlockEnds(graph), AntIsAhead, RunThrow
    PROVE  AntIsAhead'
<1>b. PICK b : b = at[1]
    OBVIOUS
<1>i. PICK i : i = at[2]
    OBVIOUS
<1>e. PICK e : e = Event(b, i)
    OBVIOUS
<1>c. PICK c : c = graph.exsucc[b]
    OBVIOUS
<1>1. /\ b \in Blocks /\ i \in 1 .. Len(graph.events[b]) /\ at = <<b, i>>
      /\ at # Done /\ Analyzed /\ Current = e
    BY <1>b, <1>i, <1>e, AtEventFacts DEF RunThrow
<1>2. AInv /\ unread \subseteq Locals
    BY DEF RunInv, RunTypeOK
<1>3. e.mayThrow /\ c # None /\ at' = <<c, 1>> /\ UNCHANGED <<mvars, writer, unread>>
    BY <1>b, <1>c, <1>1 DEF RunThrow
<1>4. c \in Blocks
    BY <1>c, <1>1, <1>2, <1>3, GraphFacts DEF AInv, TypeOK
<1>5. PICK A : states[b] # None /\ Settled(b, A)
    BY <1>1, <1>2, AllAreSettled
<1>6. PICK s : s = AfterThrow(A[i], b, e)
    OBVIOUS
<1>7. EventAssumption(graph.events[b], i) /\ Below(s, states[b])
    BY <1>e, <1>c, <1>1, <1>2, <1>3, <1>5, <1>6, EventFacts
<1>8. AntRefs(A[i - 1])
    BY <1>b, <1>i, <1>1, <1>5 DEF AntIsAhead
<1>9. e.type \in {"mod", "exn"} \/ e.form = "update"
  <2>1. e = graph.events[b][i]
      BY <1>e DEF Event
  <2> QED
      BY <1>3, <1>7, <2>1 DEF EventAssumption
<1>10. ASSUME NEW v \in unread, Anticipated(writer[v]) PROVE AntRef(s, v)
  <2>1. v \in Locals /\ AntRef(A[i - 1], v)
      BY <1>2, <1>8, <1>10 DEF AntRefs
  <2>2. /\ v # e.decl \/ e.type \in {"mod", "exn"} => AntRef(s, v)
        /\ v = e.decl => e.form # "update"
      BY <1>e, <1>1, <1>2, <1>5, <1>6, <1>10, <2>1, AntRefPasses
  <2> QED
      BY <1>9, <2>2
<1>11. ASSUME NEW B, Settled(c, B) PROVE Below(s, B[0])
  <2>1. Below(states[b], B[0])
      BY <1>c, <1>1, <1>2, <1>4, <1>11, EdgeFacts
  <2> QED
      BY <1>7, <2>1, BelowIsTransitive
<1>12. AntRefs(s)
    BY <1>10 DEF AntRefs
<1> QED
    BY <1>3, <1>4, <1>11, <1>12, ArriveAnts

LEMMA BranchAnts ==
    ASSUME RunInv, EveryBlockEnds(graph), AntIsAhead, RunBranch
    PROVE  AntIsAhead'
<1> DEFINE b == at[1]
           n == Len(graph.events[b])
<1>1. at # Done /\ Analyzed /\ UNCHANGED <<mvars, writer, unread>>
    BY DEF RunBranch, AtEnd, Running, RunInv, Allocated
<1>2. AInv /\ unread \subseteq Locals
    BY DEF RunInv, RunTypeOK
<1>3. b \in Blocks /\ at[2] \in 1 .. n + 1
    BY <1>1 DEF RunInv, RunTypeOK
<1>4. n \in Nat /\ graph.succs[b] \subseteq Blocks
    BY <1>2, <1>3, GraphFacts DEF AInv, TypeOK
<1>5. at[2] - 1 = n
    BY <1>3, <1>4 DEF RunBranch, AtEnd
<1>6. PICK A : states[b] # None /\ Settled(b, A)
    BY <1>1, <1>2, <1>3, AllAreSettled
<1>7. A[n] = states[b]
    BY <1>2, <1>3, <1>6, EndFacts
<1>8. AntRefs(states[b])
    BY <1>1, <1>5, <1>6, <1>7 DEF AntIsAhead
<1>9. ASSUME NEW c \in graph.succs[b], at' = <<c, 1>> PROVE AntIsAhead'
  <2>1. c \in Blocks
      BY <1>4
  <2>2. \A B : Settled(c, B) => Below(states[b], B[0])
      BY <1>2, <1>3, <2>1, EdgeFacts
  <2> QED
      BY <1>1, <1>8, <1>9, <2>1, <2>2, ArriveAnts
<1>10. ASSUME at' = Done, graph.succs[b] = {} PROVE AntIsAhead'
  <2>1. ASSUME NEW v \in unread PROVE ~Anticipated(writer[v])
    <3> SUFFICES ASSUME Anticipated(writer[v]) PROVE FALSE
        OBVIOUS
    <3>1. states[b].ant[v] = found.copy[writer[v]].ref
        BY <1>8 DEF AntRefs, AntRef
    <3>2. states[b].ant[v] = NoRef
        BY <1>2, <1>3, <1>10 DEF AInv, TypeOK, ExitOK
    <3> QED
        BY <1>2, <3>1, <3>2, AnticipatedFacts
  <2>2. \A v \in unread' : ~Anticipated(writer[v])'
      BY <1>1, <2>1, SameAnts DEF mvars
  <2> QED
      BY <1>10, <2>2 DEF AntIsAhead
<1> QED
    BY <1>9, <1>10 DEF RunBranch

AntInv == RunInv /\ CandidatesLive /\ (EveryBlockEnds(graph) /\ colors # <<>> => AntIsAhead)

LEMMA InitAnts == RunInit => AntInv
<1> SUFFICES ASSUME RunInit PROVE AntInv
    OBVIOUS
<1>1. Init /\ colors = <<>>
    BY DEF RunInit, MinimizeInit
<1> QED
    BY <1>1, InitRun, InitLive DEF AntInv

LEMMA NextAnts ==
    ASSUME AntInv, [Next]_vars
    PROVE  AntInv'
<1>1. RunInv /\ RunInv' /\ graph' = graph /\ CandidatesLive
    BY NextKeeps, SameGraphAlways DEF AntInv
<1>2. CandidatesLive'
  <2>1. CASE Visit
      BY <1>1, <2>1, VisitLive DEF RunInv
  <2>2. CASE UNCHANGED avars
      BY <1>1, <2>2, SameAnalysis
  <2> QED
      BY <2>1, <2>2 DEF Next, Enter, Minimize, RunEvent, RunThrow, RunBranch, vars, mvars
<1> SUFFICES ASSUME EveryBlockEnds(graph), colors' # <<>> PROVE AntIsAhead'
  <2>1. EveryBlockEnds(graph)' <=> EveryBlockEnds(graph)
      BY <1>1 DEF EveryBlockEnds
  <2> QED
      BY <1>1, <1>2, <2>1 DEF AntInv
<1>3. CASE Visit /\ UNCHANGED <<colors, rvars>>
    BY <1>1, <1>3 DEF Visit, RunInv, Allocated, Analyzed
<1>4. CASE Enter
  <2>1. unread' = {}
      BY <1>1, <1>4 DEF Enter, Minimize, RunInv, AtStart
  <2> QED
      BY <2>1 DEF AntIsAhead, AntRefs
<1>5. ASSUME RunEvent \/ RunThrow \/ RunBranch PROVE AntIsAhead'
  <2>1. AntIsAhead
      BY <1>5 DEF AntInv, RunEvent, RunThrow, RunBranch, AtEvent, AtEnd, Running
  <2> QED
      BY <1>1, <1>5, <2>1, EventAnts, ThrowAnts, BranchAnts
<1>6. ASSUME UNCHANGED vars PROVE AntIsAhead'
  <2>1. UNCHANGED <<avars, colors, at, writer, unread>>
      BY <1>6 DEF vars, mvars, rvars
  <2>2. AntIsAhead
      BY <2>1 DEF AntInv
  <2>3. \A b, A : Settled(b, A)' <=> Settled(b, A)
      BY <2>1, SameAnalysis
  <2>4. /\ \A s : AntRefs(s)' <=> AntRefs(s)
        /\ \A n : Anticipated(n)' <=> Anticipated(n)
      BY <2>1, SameAnts DEF AntRefs
  <2>5. (\A v \in unread : ~Anticipated(writer[v]))' <=> \A v \in unread : ~Anticipated(writer[v])
      BY <2>1, <2>4
  <2> QED
      BY <2>1, <2>2, <2>3, <2>4, <2>5 DEF AntIsAhead
<1> QED
    BY <1>3, <1>4, <1>5, <1>6 DEF Next

LEMMA AntsAreReached ==
    ASSUME AntInv, ProperFunction, EveryBlockReturns(graph)
    PROVE  AntIsReached
<1> SUFFICES ASSUME NEW v \in Lost, Anticipated(writer[v]) PROVE FALSE
    BY DEF AntIsReached, Anticipated
<1>1. RunInv /\ AInv /\ unread \subseteq Locals /\ EveryBlockEnds(graph) /\ SetBeforeRead(graph)
    BY DEF AntInv, RunInv, RunTypeOK, ProperFunction
<1>2. v \in unread
    BY DEF Lost
<1>3. colors # <<>>
    BY <1>1, <1>2 DEF RunInv, AtStart
<1>4. AntIsAhead
    BY <1>1, <1>3 DEF AntInv
<1>5. CASE ~AtEvent
    BY <1>2, <1>4, <1>5 DEF Lost, AntIsAhead
<1>6. CASE AtEvent
  <2>b. PICK b : b = at[1]
      OBVIOUS
  <2>i. PICK i : i = at[2]
      OBVIOUS
  <2>e. PICK e : e = Event(b, i)
      OBVIOUS
  <2>1. /\ b \in Blocks /\ i \in 1 .. Len(graph.events[b]) /\ at = <<b, i>>
        /\ at # Done /\ Analyzed /\ Current = e
      BY <1>1, <1>6, <2>b, <2>i, <2>e, AtEventFacts
  <2>2. v \in Locals /\ v = e.decl /\ (e.type = "kil" \/ e.form = "assign")
      BY <1>1, <1>2, <1>6, <2>1 DEF Lost
  <2>3. PICK A : states[b] # None /\ Settled(b, A)
      BY <1>1, <2>1, AllAreSettled
  <2>4. PICK s : s = AfterThrow(A[i], b, e)
      OBVIOUS
  <2>5. /\ e \in EventTypes /\ EventAssumption(graph.events[b], i) /\ StateOK(s)
        /\ A[i - 1] = Before(s, e, <<b, i>>) /\ A[i - 1].dead = DeadBefore(s, e)
      BY <1>1, <2>e, <2>1, <2>3, <2>4, EventFacts
  <2>6. A[i - 1].ant[v] = found.copy[writer[v]].ref
      BY <1>2, <1>4, <2>b, <2>i, <2>1, <2>3 DEF AntIsAhead, AntRefs, AntRef
  <2>7. graph.candidates /\ PlainRef(found.copy[writer[v]].ref)
      BY <1>1, AnticipatedFacts
  <2>8. v \in A[i - 1].dead
    <3>1. e = graph.events[b][i]
        BY <2>e DEF Event
    <3>2. e.form = "assign" => e.type = "def"
        BY <2>5, <3>1 DEF EventAssumption
    <3> QED
        BY <2>2, <2>5, <3>2 DEF DeadBefore
  <2>9. PICK Z \in SUBSET Blocks : UnsetAlong(v, Z)
      BY <1>1, <2>2, UnsetExists
  <2>10. PICK r, j : r = found.copy[writer[v]].ref /\ j = i - 1
      OBVIOUS
  <2>11. j \in 0 .. Len(graph.events[b])
      BY <1>1, <2>1, <2>10, GraphFacts DEF AInv, TypeOK
  <2>12. RefAhead(b, A, j, v, r, Z)
      BY <2>6, <2>8, <2>10 DEF RefAhead
  <2> QED
      BY <1>1, <2>1, <2>2, <2>3, <2>7, <2>9, <2>10, <2>11, <2>12, NoRefAhead
<1> QED
    BY <1>5, <1>6

\* A store whose only reference is anticipated is read on every path before the
\* local is stored to again, or goes out of scope: in any function that leaves
\* each of its blocks, a call propagateTypes moves to that reference is made.
THEOREM AnticipatedAreReached ==
    Spec => [](ProperFunction /\ EveryBlockReturns(graph) => AntIsReached)
<1>1. RunInit => AntInv
    BY InitAnts
<1>2. AntInv /\ [Next]_vars => AntInv'
    BY NextAnts
<1>3. AntInv => (ProperFunction /\ EveryBlockReturns(graph) => AntIsReached)
    BY AntsAreReached
<1> QED
    BY <1>1, <1>2, <1>3, PTL DEF Spec

-----------------------------------------------------------------------------
\* As long as a block is queued every step is a visit, and where no candidates
\* are asked for it gets on: finitely often only, so that the analysis ends.
\* (With candidates it need not: mergeStates reports a change wherever there
\* have been many references before, line 318.)
THEOREM VisitsGetOn == Spec => [][~Analyzed /\ ~graph.candidates => GetsOn]_vars
<1>1. ASSUME RunInv, Next, ~Analyzed, ~graph.candidates PROVE GetsOn
  <2>1. TypeOK /\ colors = <<>>
      BY <1>1 DEF RunInv, AInv, Allocated
  <2>2. Visit
      BY <1>1, <2>1 DEF Next, Enter, Minimize, RunEvent, RunThrow, RunBranch, AtEvent, AtEnd, Running
  <2> QED
      BY <1>1, <2>1, <2>2, PlainVisitGetsOn
<1>2. RunInv /\ [Next]_vars => [~Analyzed /\ ~graph.candidates => GetsOn]_vars
    BY <1>1
<1>3. RunInit => RunInv
    BY InitRun
<1>4. RunInv /\ [Next]_vars => RunInv'
    BY NextKeeps
<1> QED
    BY <1>2, <1>3, <1>4, PTL DEF Spec

-----------------------------------------------------------------------------
(* What is found does not depend on the order of the visits.               *)

LEMMA NothingIsGivenUpYet ==
    ASSUME RunInv, NothingIsGivenUp, [Next]_vars
    PROVE  NothingIsGivenUp'
<1>1. CASE Visit
    BY <1>1, VisitGivesNothingUp DEF RunInv, AInv
<1>2. CASE UNCHANGED avars
  <2>1. graph' = graph /\ states' = states
      BY <1>2 DEF avars
  <2>2. \A b, i : Event(b, i)' = Event(b, i)
      BY <2>1, SameGraph
  <2>3. \A D, b, i : Behind(D, b, i)' = Behind(D, b, i)
      BY <2>1, <2>2 DEF Behind
  <2>4. \A s, e : DeadBefore(s, e)' = DeadBefore(s, e)
      BY DEF DeadBefore
  <2>5. Blocks' = Blocks /\ \A b : Preds(b)' = Preds(b)
      BY <2>1, SameGraph
  <2>6. \A D : Justified(D)' <=> Justified(D)
      BY <2>1, <2>2, <2>3, <2>4, <2>5 DEF Justified
  <2> QED
      BY <2>1, <2>5, <2>6 DEF NothingIsGivenUp
<1> QED
    BY <1>1, <1>2 DEF Next, Enter, Minimize, RunEvent, RunThrow, RunBranch, vars, mvars

\* When the analysis ends it has found all there is, for a function with a way
\* out of each block: the dead stores, and what is live behind each store, are
\* those of the solution of the data flow equations that claims most, whatever
\* the order in which the worklist came to the blocks.
THEOREM GreatestIsFound ==
    Spec => [](Analyzed /\ EveryBlockEnds(graph) => \E D : Greatest(D) /\ IsFound(D))
<1>1. RunInit => RunInv /\ NothingIsGivenUp
    BY InitRun, InitGivesNothingUp DEF RunInit, MinimizeInit
<1>2. RunInv /\ NothingIsGivenUp /\ [Next]_vars => (RunInv /\ NothingIsGivenUp)'
    BY NextKeeps, NothingIsGivenUpYet
<1>3. ASSUME RunInv, NothingIsGivenUp, Analyzed, EveryBlockEnds(graph)
      PROVE  \E D : Greatest(D) /\ IsFound(D)
  <2>1. AInv
      BY <1>3 DEF RunInv
  <2> PICK W : W = [b \in Blocks |-> CHOOSE A : Settled(b, A)]
      OBVIOUS
  <2>2. \A b \in Blocks : states[b] # None /\ Settled(b, W[b])
      BY <1>3, <2>1, AllAreSettled
  <2> PICK D : D = [b \in Blocks |-> [i \in 0 .. Len(graph.events[b]) |-> W[b][i].dead]]
      OBVIOUS
  <2>3. \A b \in Blocks : \A i \in 0 .. Len(graph.events[b]) : D[b][i] = W[b][i].dead
      OBVIOUS
  <2>4. Greatest(D) /\ IsFound(D)
      BY <1>3, <2>1, <2>2, <2>3, SettledIsGreatest
  <2> QED
      BY <2>4
<1> QED
    BY <1>1, <1>2, <1>3, PTL DEF Spec
=============================================================================
