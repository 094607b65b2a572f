-------------------------- MODULE DeadStoreProofs --------------------------
(***************************************************************************)
(* Proofs about DeadStore, for any control flow graphs: what the analysis  *)
(* says of a block it is done with.                                        *)
(*                                                                         *)
(* States go down only: mergeStates keeps of a state what another says,    *)
(* too (Below).  A block that is not queued is settled: the walk through   *)
(* it, from its state, gives what was found at its stores, and leaves at   *)
(* its start no less than what its predecessors end with.  Once no block   *)
(* is queued this holds of all, whatever the order they were visited in:   *)
(* what is known behind an event is known before it, along every path.     *)
(* If no candidates are asked for it comes to that: every visit leaves     *)
(* less to find out, or as much and less to look at (GetsOn).              *)
(*                                                                         *)
(* Nor is anything given up that some solution of the equations has        *)
(* (NothingIsGivenUp): what is found is the greatest one.                  *)
(***************************************************************************)
EXTENDS DeadStore, FiniteSetTheorems, SequenceTheorems, TLAPS

-----------------------------------------------------------------------------
(* Induction over the numbers, with sets for the formulas.                 *)

\* There is no set of numbers that goes down from each of them: below a number
\* k of one, as many would have to fit into a place less.
LEMMA NoDescent ==
    ASSUME NEW T \in SUBSET Nat, \A n \in T : n # 0 /\ n - 1 \in T
    PROVE  T = {}
<1> SUFFICES ASSUME NEW k \in T PROVE FALSE
    OBVIOUS
<1> DEFINE B == {n \in T : n <= k}
           pred == [n \in B |-> n - 1]
<1>1. k \in Nat /\ k \in B /\ B \subseteq 0 .. k
  <2>1. T \subseteq Nat
      OBVIOUS
  <2>2. k \in Nat /\ k \in B
      BY <2>1
  <2>3. ASSUME NEW n \in B PROVE n \in 0 .. k
      BY <2>1, <2>2
  <2> QED
      BY <2>2, <2>3
<1>2. IsFiniteSet(0 .. k)
    BY <1>1, FS_Interval
<1>3. IsFiniteSet(B)
    BY <1>1, <1>2, FS_Subset
<1>4. pred \in [B -> B]
  <2>1. \A n \in B : n - 1 \in B
      BY <1>1
  <2> QED
      BY <2>1
<1>5. \A m, n \in B : pred[m] = pred[n] => m = n
    OBVIOUS
<1>6. pred \in Injection(B, B)
    BY <1>4, <1>5 DEF Injection, IsInjective
<1>7. pred \in Surjection(B, B)
    BY <1>3, <1>6, FS_Injection
<1>8. \E n \in B : pred[n] = k
    BY <1>1, <1>7 DEF Surjection
<1> QED
    BY <1>1, <1>8

LEMMA SetInduction ==
    ASSUME NEW S, 0 \in S, \A n \in Nat : n \in S => n + 1 \in S
    PROVE  Nat \subseteq S
<1> DEFINE T == Nat \ S
<1>1. \A n \in T : n # 0 /\ n - 1 \in T
  <2> SUFFICES ASSUME NEW n \in T PROVE n # 0 /\ n - 1 \in T
      OBVIOUS
  <2>1. n # 0 /\ n - 1 \in Nat /\ (n - 1) + 1 = n
      OBVIOUS
  <2> QED
      BY <2>1
<1>2. T = {}
    BY <1>1, NoDescent
<1> QED
    BY <1>2

\* A set of numbers has a least one.
LEMMA LeastNumber ==
    ASSUME NEW T \in SUBSET Nat, T # {}
    PROVE  \E m \in T : \A n \in T : m <= n
<1> SUFFICES ASSUME \A m \in T : \E n \in T : n < m PROVE FALSE
    OBVIOUS
<1> DEFINE S == {n \in Nat : \A k \in T : n < k}
<1>1. 0 \in S
    OBVIOUS
<1>2. \A n \in Nat : n \in S => n + 1 \in S
    OBVIOUS
<1>3. Nat \subseteq S
    BY <1>1, <1>2, SetInduction
<1>4. PICK k : k \in T
    OBVIOUS
<1> QED
    BY <1>3, <1>4

-----------------------------------------------------------------------------
(* Types.                                                                  *)

\* A state; without candidates nothing is noted of references.
StateOK(s) ==
    /\ s \in DeadState
    /\ graph.candidates \/ \A v \in Locals : s.ant[v] = NoRef /\ s.pant[v] = NoRef

FoundOK(f) ==
    \A n \in DOMAIN f.copy : graph.candidates /\ {n, f.copy[n].ref} \subseteq Nat \X Nat

\* No more is found in a caller, behind the last block.
ExitOK(s) == s.dead \subseteq Locals /\ \A v \in Locals : s.ant[v] = NoRef

TypeOK ==
    /\ graph \in Graphs
    /\ queue \subseteq Blocks
    /\ states \in [Blocks -> DeadState \cup {None}]
    /\ \A b \in Blocks : states[b] # None => StateOK(states[b])
    /\ \A b \in queue : states[b] # None
    /\ \A b \in Blocks : graph.succs[b] = {} => states[b] # None /\ ExitOK(states[b])
    /\ FoundOK(found)

LEMMA RefFacts ==
    /\ NoRef \in Refs /\ Many \in Refs
    /\ \A n \in Nat \X Nat : n \in Refs /\ n # NoRef /\ n # Many
    /\ NoRef # Many
    /\ \A r \in Refs : r \notin {NoRef, Many} => r \in Nat \X Nat
    BY DEF Refs, NoRef, Many

LEMMA GraphFacts ==
    ASSUME graph \in Graphs
    PROVE  /\ Blocks \subseteq Nat
           /\ \A b \in Blocks :
                /\ graph.succs[b] \subseteq Blocks
                /\ graph.exsucc[b] # None => graph.exsucc[b] \in Blocks
                /\ Preds(b) \subseteq Blocks
                /\ Len(graph.events[b]) \in Nat
                /\ \A i \in 1 .. Len(graph.events[b]) :
                    /\ Event(b, i) \in EventTypes
                    /\ EventAssumption(graph.events[b], i)
<1>1. graph.succs \in Seq(SUBSET Nat)
    BY GraphAssumption
<1>2. Blocks = 1 .. Len(graph.succs) /\ Len(graph.succs) \in Nat
    BY <1>1, LenProperties DEF Blocks
<1>3. SUFFICES ASSUME NEW b \in Blocks
      PROVE  /\ graph.succs[b] \subseteq Blocks
             /\ graph.exsucc[b] # None => graph.exsucc[b] \in Blocks
             /\ Preds(b) \subseteq Blocks
             /\ Len(graph.events[b]) \in Nat
             /\ \A i \in 1 .. Len(graph.events[b]) :
                    /\ Event(b, i) \in EventTypes
                    /\ EventAssumption(graph.events[b], i)
    BY <1>2
<1>4. /\ graph.succs[b] \subseteq DOMAIN graph.succs
      /\ {graph.exsucc[b], graph.bogo[b]} \subseteq DOMAIN graph.succs \cup {None}
      /\ graph.events[b] \in Seq(EventTypes)
      /\ \A i \in DOMAIN graph.events[b] : EventAssumption(graph.events[b], i)
    BY GraphAssumption DEF Blocks
<1>5. Preds(b) \subseteq Blocks
    BY <1>4 DEF Blocks, Preds, PredsIn
<1>6. /\ Len(graph.events[b]) \in Nat
      /\ DOMAIN graph.events[b] = 1 .. Len(graph.events[b])
      /\ \A i \in 1 .. Len(graph.events[b]) : graph.events[b][i] \in EventTypes
    BY <1>4, LenProperties, ElementOfSeq
<1> QED
    BY <1>4, <1>5, <1>6 DEF Blocks, Event

-----------------------------------------------------------------------------
(* States.                                                                 *)

\* s claims no more than t.
Below(s, t) ==
    /\ s.dead \subseteq t.dead
    /\ \A v \in Locals :
        /\ s.ant[v] \in {NoRef, t.ant[v]}
        /\ s.pant[v] = Many \/ t.pant[v] \in {NoRef, s.pant[v]}

LEMMA BelowIsTransitive ==
    ASSUME NEW s, NEW t, NEW u, Below(s, t), Below(t, u)
    PROVE  Below(s, u)
<1>1. s.dead \subseteq u.dead
    BY DEF Below
<1>2. ASSUME NEW v \in Locals
      PROVE  /\ s.ant[v] \in {NoRef, u.ant[v]}
             /\ s.pant[v] = Many \/ u.pant[v] \in {NoRef, s.pant[v]}
    BY <1>2, RefFacts DEF Below
<1> QED
    BY <1>1, <1>2 DEF Below

\* mergeStates: the result claims no more than either state; where no change is
\* reported there was none.
LEMMA MergeFacts ==
    ASSUME NEW s, NEW t, StateOK(s), StateOK(t), NEW m, m = mergeStates(s, t)
    PROVE  /\ StateOK(m)
           /\ Below(m, s) /\ Below(m, t)
           /\ ~Changes(s, t) => m = s
           /\ ExitOK(s) => ExitOK(m)
<1>1. /\ s = [dead |-> s.dead, ant |-> s.ant, pant |-> s.pant]
      /\ s.dead \subseteq Decls /\ t.dead \subseteq Decls
      /\ s.ant \in [Locals -> Refs] /\ s.pant \in [Locals -> Refs]
      /\ t.ant \in [Locals -> Refs] /\ t.pant \in [Locals -> Refs]
    BY DEF StateOK, DeadState
<1>2. /\ m.dead = s.dead \cap t.dead
      /\ m.ant = [v \in Locals |-> MergeAnt(s.ant[v], t.ant[v])]
      /\ m.pant = [v \in Locals |-> MergePartly(s.pant[v], t.pant[v])]
      /\ m = [dead |-> m.dead, ant |-> m.ant, pant |-> m.pant]
    BY DEF mergeStates, MergeDead
<1>3. \A v \in Locals : /\ m.ant[v] \in {NoRef, s.ant[v]} /\ m.ant[v] \in {NoRef, t.ant[v]}
                        /\ m.pant[v] \in {s.pant[v], t.pant[v], Many}
    BY <1>2 DEF MergeAnt, MergePartly
<1>4. StateOK(m)
  <2>1. m.ant \in [Locals -> Refs] /\ m.pant \in [Locals -> Refs]
      BY <1>1, <1>2, <1>3, RefFacts
  <2>2. m \in DeadState
      BY <1>1, <1>2, <2>1 DEF DeadState
  <2>3. graph.candidates \/ \A v \in Locals : m.ant[v] = NoRef /\ m.pant[v] = NoRef
      BY <1>2 DEF StateOK, MergeAnt, MergePartly
  <2> QED
      BY <2>2, <2>3 DEF StateOK
<1>5. Below(m, s) /\ Below(m, t)
    BY <1>2, <1>3 DEF Below, MergePartly
<1>6. ASSUME ~Changes(s, t) PROVE m = s
  <2>1. m.dead = s.dead
      BY <1>2, <1>6 DEF Changes
  <2>2. \A v \in Locals : m.ant[v] = s.ant[v] /\ m.pant[v] = s.pant[v]
      BY <1>2, <1>6 DEF Changes, MergeAnt, MergePartly
  <2>3. m.ant = s.ant /\ m.pant = s.pant
      BY <1>1, <1>2, <2>2
  <2> QED
      BY <1>1, <1>2, <2>1, <2>3
<1>7. ExitOK(s) => ExitOK(m)
    BY <1>2, <1>3 DEF ExitOK
<1> QED
    BY <1>4, <1>5, <1>6, <1>7

LEMMA WithDead ==
    ASSUME NEW s, StateOK(s), NEW D \in SUBSET Decls,
           NEW t, t = [dead |-> D, ant |-> s.ant, pant |-> s.pant]
    PROVE  StateOK(t) /\ t.dead = D /\ t.ant = s.ant /\ t.pant = s.pant
<1>1. t.dead = D /\ t.ant = s.ant /\ t.pant = s.pant
    OBVIOUS
<1>2. s.ant \in [Locals -> Refs] /\ s.pant \in [Locals -> Refs]
    BY DEF StateOK, DeadState
<1>3. t \in DeadState
    BY <1>2 DEF DeadState
<1> QED
    BY <1>1, <1>3 DEF StateOK

LEMMA AddAntFacts ==
    ASSUME NEW r \in Refs, NEW n \in Nat \X Nat
    PROVE  /\ addAnt(r, n) \in Refs
           /\ addAnt(r, n) \in {n, Many}
           /\ addAnt(r, n) = n <=> r \in {NoRef, n}
    BY RefFacts DEF addAnt

\* copyPropRef: a reference is noted, if it is one of a local.
LEMMA CopyPropRefFacts ==
    ASSUME NEW s, StateOK(s), NEW v \in Decls, NEW n \in Nat \X Nat,
           NEW t, t = copyPropRef(s, v, n)
    PROVE  /\ StateOK(t)
           /\ t.dead = s.dead
           /\ \A u \in Locals : u # v => t.ant[u] = s.ant[u] /\ t.pant[u] = s.pant[u]
           /\ v \in Locals /\ graph.candidates =>
                t.ant[v] = addAnt(s.ant[v], n) /\ t.pant[v] = addAnt(s.pant[v], n)
<1>1. /\ s \in DeadState
      /\ s.ant \in [Locals -> Refs] /\ s.pant \in [Locals -> Refs] /\ s.dead \subseteq Decls
    BY DEF StateOK, DeadState
<1>2. CASE graph.candidates /\ v \in Locals
  <2>1. /\ t.dead = s.dead
        /\ t.ant = [s.ant EXCEPT ![v] = addAnt(s.ant[v], n)]
        /\ t.pant = [s.pant EXCEPT ![v] = addAnt(s.pant[v], n)]
        /\ t = [dead |-> t.dead, ant |-> t.ant, pant |-> t.pant]
      BY <1>2 DEF copyPropRef
  <2>2. addAnt(s.ant[v], n) \in Refs /\ addAnt(s.pant[v], n) \in Refs
      BY <1>1, <1>2, AddAntFacts
  <2>3. t.ant \in [Locals -> Refs] /\ t.pant \in [Locals -> Refs]
      BY <1>1, <2>1, <2>2
  <2>4. t \in DeadState
      BY <1>1, <2>1, <2>3 DEF DeadState
  <2> QED
      BY <1>1, <1>2, <2>1, <2>4 DEF StateOK
<1>3. CASE ~(graph.candidates /\ v \in Locals)
    BY <1>3 DEF copyPropRef
<1> QED
    BY <1>2, <1>3

\* The references behind a store are dropped, if it is one of a local that is
\* live.
LEMMA StoreFacts ==
    ASSUME NEW s, StateOK(s), NEW v \in Decls, NEW t, t = Store(s, v)
    PROVE  /\ StateOK(t)
           /\ t.dead = s.dead
           /\ \A u \in Locals : u # v \/ v \in s.dead => t.ant[u] = s.ant[u] /\ t.pant[u] = s.pant[u]
           /\ v \in Locals \ s.dead => t.ant[v] = NoRef /\ t.pant[v] = NoRef
<1>1. /\ s \in DeadState
      /\ s.ant \in [Locals -> Refs] /\ s.pant \in [Locals -> Refs] /\ s.dead \subseteq Decls
    BY DEF StateOK, DeadState
<1>2. CASE v \in Locals \ s.dead
  <2>1. /\ t.dead = s.dead
        /\ t.ant = [s.ant EXCEPT ![v] = NoRef] /\ t.pant = [s.pant EXCEPT ![v] = NoRef]
        /\ t = [dead |-> t.dead, ant |-> t.ant, pant |-> t.pant]
      BY <1>2 DEF Store
  <2>2. t.ant \in [Locals -> Refs] /\ t.pant \in [Locals -> Refs]
      BY <1>1, <2>1, RefFacts
  <2>3. t \in DeadState
      BY <1>1, <2>1, <2>2 DEF DeadState
  <2> QED
      BY <1>1, <1>2, <2>1, <2>3 DEF StateOK
<1>3. CASE v \notin Locals \ s.dead
  <2>1. t = s
      BY <1>3 DEF Store
  <2> QED
      BY <1>3, <2>1
<1> QED
    BY <1>2, <1>3

-----------------------------------------------------------------------------
(* Events.                                                                 *)

\* What an event does to a state, one fact for each part.
DeadBefore(s, e) ==
    CASE e.type = "ref" -> s.dead \ {e.decl}
      [] e.type = "def" -> IF e.form = "assign" THEN s.dead \cup {e.decl} ELSE s.dead
      [] e.type = "kil" -> s.dead \cup {e.decl}
      [] e.type = "mod" -> s.dead \cap Locals
      [] e.type = "exn" -> s.dead

NotedBefore(s, t, e, n) ==
    /\ \A u \in Locals :
        \/ u # e.decl
        \/ e.type \notin {"ref", "def"}
        \/ e.type = "def" /\ e.form # "update" /\ u \in s.dead
        => t.ant[u] = s.ant[u] /\ t.pant[u] = s.pant[u]
    /\ e.decl \in Locals /\ e.type = "def" /\ e.form # "update" /\ e.decl \notin s.dead =>
        t.ant[e.decl] = NoRef /\ t.pant[e.decl] = NoRef
    /\ e.decl \in Locals /\ e.type = "ref" /\ graph.candidates =>
        /\ t.ant[e.decl] = addAnt(s.ant[e.decl], n)
        /\ t.pant[e.decl] = addAnt(s.pant[e.decl], n)
    /\ e.decl \in Locals /\ e.form = "update" /\ graph.candidates =>
        /\ t.ant[e.decl] \in {n, Many}
        /\ e.decl \notin s.dead => t.ant[e.decl] = n /\ t.pant[e.decl] = n

LEMMA BeforeFacts ==
    ASSUME NEW b \in Blocks, graph \in Graphs, NEW i \in 1 .. Len(graph.events[b]),
           NEW e, e = Event(b, i), NEW s, StateOK(s), NEW t, t = Before(s, e, <<b, i>>)
    PROVE  /\ StateOK(t)
           /\ t.dead = DeadBefore(s, e)
           /\ NotedBefore(s, t, e, <<b, i>>)
<1> USE DEF NotedBefore
<1> DEFINE n == <<b, i>>
<1>1. /\ e \in EventTypes
      /\ e.type \in {"ref", "def", "kil"} <=> e.decl # None
      /\ e.type = "def" <=> e.form # ""
      /\ e.type = "kil" => e.decl \in Locals \ Params
      /\ n \in Nat \X Nat
  <2>1. e \in EventTypes /\ EventAssumption(graph.events[b], i) /\ b \in Nat /\ i \in Nat
      BY GraphFacts
  <2>2. e = graph.events[b][i]
      BY DEF Event
  <2> QED
      BY <2>1, <2>2 DEF EventAssumption
<1>2. /\ s \in DeadState
      /\ s = [dead |-> s.dead, ant |-> s.ant, pant |-> s.pant]
      /\ s.ant \in [Locals -> Refs] /\ s.pant \in [Locals -> Refs] /\ s.dead \subseteq Decls
    BY DEF StateOK, DeadState
<1>3. /\ e.type \in {"ref", "def", "kil", "mod", "exn"}
      /\ e.form \in {"", "assign", "update", "compound"}
      /\ e.type \in {"ref", "def", "kil"} => e.decl \in Decls
    BY <1>1 DEF EventTypes
<1>r. n \in Nat \X Nat
    BY <1>1
<1> HIDE DEF n
<1>4. CASE e.type = "ref"
  <2>d. e.decl \in Decls
      BY <1>3, <1>4
  <2>1. PICK c : c = copyPropRef(s, e.decl, n)
      OBVIOUS
  <2>2. /\ StateOK(c) /\ c.dead = s.dead
        /\ \A u \in Locals : u # e.decl => c.ant[u] = s.ant[u] /\ c.pant[u] = s.pant[u]
        /\ e.decl \in Locals /\ graph.candidates =>
                c.ant[e.decl] = addAnt(s.ant[e.decl], n) /\ c.pant[e.decl] = addAnt(s.pant[e.decl], n)
      BY <1>r, <2>d, <2>1, CopyPropRefFacts
  <2>3. t = [c EXCEPT !.dead = @ \ {e.decl}]
      BY <1>4, <2>1 DEF Before, Ref, n
  <2>4. c = [dead |-> c.dead, ant |-> c.ant, pant |-> c.pant]
      BY <2>2 DEF StateOK, DeadState
  <2>5. t = [dead |-> c.dead \ {e.decl}, ant |-> c.ant, pant |-> c.pant]
      BY <2>3, <2>4
  <2>6. c.dead \ {e.decl} \in SUBSET Decls
      BY <1>2, <2>2
  <2>7. StateOK(t) /\ t.dead = c.dead \ {e.decl} /\ t.ant = c.ant /\ t.pant = c.pant
      BY <2>2, <2>5, <2>6, WithDead
  <2>8. t.dead = DeadBefore(s, e)
      BY <1>4, <2>2, <2>7 DEF DeadBefore
  <2> QED
      BY <1>1, <1>4, <2>2, <2>7, <2>8 DEF n
<1>5. CASE e.type = "def"
  <2>d. e.decl \in Decls
      BY <1>3, <1>5
  <2>1. PICK d : d = Store(s, e.decl)
      OBVIOUS
  <2>2. PICK c : c = copyPropRef(d, e.decl, n)
      OBVIOUS
  <2>3. /\ StateOK(d) /\ d.dead = s.dead
        /\ \A u \in Locals : u # e.decl \/ e.decl \in s.dead => d.ant[u] = s.ant[u] /\ d.pant[u] = s.pant[u]
        /\ e.decl \in Locals \ s.dead => d.ant[e.decl] = NoRef /\ d.pant[e.decl] = NoRef
      BY <2>d, <2>1, StoreFacts
  <2>4. t = CASE e.form = "assign" -> [d EXCEPT !.dead = @ \cup {e.decl}]
             [] e.form = "update" -> c
             [] e.form = "compound" -> d
      BY <1>5, <2>1, <2>2 DEF Before, Def, n
  <2>5. e.form \in {"assign", "update", "compound"}
      BY <1>1, <1>3, <1>5
  <2>6. CASE e.form = "assign"
    <3>1. d = [dead |-> d.dead, ant |-> d.ant, pant |-> d.pant]
        BY <2>3 DEF StateOK, DeadState
    <3>2. t = [dead |-> d.dead \cup {e.decl}, ant |-> d.ant, pant |-> d.pant]
        BY <2>4, <2>6, <3>1
    <3>3. d.dead \cup {e.decl} \in SUBSET Decls
        BY <1>2, <1>3, <1>5, <2>3
    <3>4. StateOK(t) /\ t.dead = d.dead \cup {e.decl} /\ t.ant = d.ant /\ t.pant = d.pant
        BY <2>3, <3>2, <3>3, WithDead
    <3>5. t.dead = DeadBefore(s, e)
        BY <1>5, <2>3, <2>6, <3>4 DEF DeadBefore
    <3> QED
        BY <1>5, <2>3, <2>6, <3>4, <3>5
  <2>7. CASE e.form = "update"
    <3>1. /\ StateOK(c) /\ c.dead = s.dead
          /\ \A u \in Locals : u # e.decl => c.ant[u] = d.ant[u] /\ c.pant[u] = d.pant[u]
          /\ e.decl \in Locals /\ graph.candidates =>
                c.ant[e.decl] = addAnt(d.ant[e.decl], n) /\ c.pant[e.decl] = addAnt(d.pant[e.decl], n)
        BY <1>r, <2>d, <2>2, <2>3, CopyPropRefFacts
    <3>2. t = c
        BY <2>4, <2>7
    <3>3. t.dead = DeadBefore(s, e)
        BY <1>5, <2>7, <3>1, <3>2 DEF DeadBefore
    <3>4. ASSUME e.decl \in Locals, graph.candidates
          PROVE  /\ t.ant[e.decl] \in {n, Many}
                 /\ e.decl \notin s.dead => t.ant[e.decl] = n /\ t.pant[e.decl] = n
      <4>1. d.ant[e.decl] \in Refs /\ d.pant[e.decl] \in Refs
          BY <2>3, <3>4 DEF StateOK, DeadState
      <4>2. t.ant[e.decl] = addAnt(d.ant[e.decl], n) /\ t.pant[e.decl] = addAnt(d.pant[e.decl], n)
          BY <3>1, <3>2, <3>4
      <4>3. addAnt(d.ant[e.decl], n) \in {n, Many}
          BY <1>1, <4>1, AddAntFacts
      <4>4. addAnt(NoRef, n) = n
          BY <1>1, RefFacts, AddAntFacts
      <4> QED
          BY <2>3, <3>4, <4>2, <4>3, <4>4
    <3>5. \A u \in Locals : u # e.decl => t.ant[u] = s.ant[u] /\ t.pant[u] = s.pant[u]
        BY <2>3, <3>1, <3>2
    <3> QED
        BY <1>5, <2>7, <3>1, <3>2, <3>3, <3>4, <3>5 DEF n
  <2>8. CASE e.form = "compound"
    <3>1. t = d
        BY <2>4, <2>8
    <3>2. t.dead = DeadBefore(s, e)
        BY <1>5, <2>3, <2>8, <3>1 DEF DeadBefore
    <3> QED
        BY <1>5, <2>3, <2>8, <3>1, <3>2
  <2> QED
      BY <2>5, <2>6, <2>7, <2>8
<1>6. CASE e.type = "kil"
  <2>1. t = [dead |-> s.dead \cup {e.decl}, ant |-> s.ant, pant |-> s.pant]
      BY <1>2, <1>6 DEF Before, Kil
  <2>2. s.dead \cup {e.decl} \in SUBSET Decls
      BY <1>2, <1>3, <1>6
  <2>3. StateOK(t) /\ t.dead = s.dead \cup {e.decl} /\ t.ant = s.ant /\ t.pant = s.pant
      BY <2>1, <2>2, WithDead
  <2>4. t.dead = DeadBefore(s, e)
      BY <1>6, <2>3 DEF DeadBefore
  <2> QED
      BY <1>1, <1>6, <2>3, <2>4
<1>7. CASE e.type = "mod"
  <2>1. t = [dead |-> s.dead \cap Locals, ant |-> s.ant, pant |-> s.pant]
      BY <1>2, <1>7 DEF Before, Mod
  <2>2. s.dead \cap Locals \in SUBSET Decls
      BY <1>2
  <2>3. StateOK(t) /\ t.dead = s.dead \cap Locals /\ t.ant = s.ant /\ t.pant = s.pant
      BY <2>1, <2>2, WithDead
  <2>4. t.dead = DeadBefore(s, e)
      BY <1>7, <2>3 DEF DeadBefore
  <2> QED
      BY <1>1, <1>7, <2>3, <2>4
<1>8. CASE e.type = "exn"
  <2>1. t = s
      BY <1>8 DEF Before
  <2>2. t.dead = DeadBefore(s, e)
      BY <1>8, <2>1 DEF DeadBefore
  <2> QED
      BY <1>1, <1>8, <2>1, <2>2
<1> QED
    BY <1>3, <1>4, <1>5, <1>6, <1>7, <1>8

LEMMA AfterThrowFacts ==
    ASSUME TypeOK, NEW b \in Blocks, states[b] # None, NEW s, StateOK(s), NEW e,
           NEW t, t = AfterThrow(s, b, e)
    PROVE  /\ StateOK(t)
           /\ Below(t, s)
           /\ e.mayThrow /\ graph.exsucc[b] # None => Below(t, states[b])
<1>1. StateOK(states[b])
    BY DEF TypeOK
<1>2. CASE e.mayThrow /\ graph.exsucc[b] # None
    BY <1>1, <1>2, MergeFacts DEF AfterThrow
<1>3. CASE ~(e.mayThrow /\ graph.exsucc[b] # None)
    BY <1>3 DEF AfterThrow, Below
<1> QED
    BY <1>2, <1>3

-----------------------------------------------------------------------------
(* What is found at a store.                                               *)

\* f has at the i-th event of b, if that is a store, what is right for the
\* state s behind it.
Judged(f, b, i, s) ==
    LET e == Event(b, i)
        n == <<b, i>>
    IN  e.type = "def" =>
            /\ n \in f.dead <=> e.decl \in s.dead
            /\ e.decl \notin s.dead =>
                /\ n \in DOMAIN f.copy <=> e.decl \in Locals /\ s.pant[e.decl] \notin {NoRef, Many}
                /\ n \in DOMAIN f.copy =>
                    f.copy[n] = [ref |-> s.pant[e.decl], ant |-> s.ant[e.decl] = s.pant[e.decl]]
            /\ n \in DOMAIN f.conflicts
            /\ f.conflicts[n] = Conflicts(s, e)

\* f and h have the same at n.
SameAt(f, h, n) ==
    /\ n \in f.dead <=> n \in h.dead
    /\ n \in DOMAIN f.copy <=> n \in DOMAIN h.copy
    /\ n \in DOMAIN f.copy => f.copy[n] = h.copy[n]
    /\ n \in DOMAIN f.conflicts <=> n \in DOMAIN h.conflicts
    /\ n \in DOMAIN f.conflicts => f.conflicts[n] = h.conflicts[n]

LEMMA SameJudged ==
    ASSUME NEW f, NEW h, NEW b, NEW i, NEW s, SameAt(f, h, <<b, i>>), Judged(h, b, i, s)
    PROVE  Judged(f, b, i, s)
    BY DEF SameAt, Judged

LEMMA SameIsTransitive ==
    ASSUME NEW f, NEW h, NEW k, NEW n, SameAt(f, h, n), SameAt(h, k, n)
    PROVE  SameAt(f, k, n)
    BY DEF SameAt

\* h differs from the map f only at n, where it has what is right for v.
CopyJudged(f, s, v, n, h) ==
    /\ \A m : m # n => (m \in DOMAIN h <=> m \in DOMAIN f) /\ (m \in DOMAIN f => h[m] = f[m])
    /\ v \in s.dead => h = f
    /\ v \notin s.dead =>
        /\ n \in DOMAIN h <=> v \in Locals /\ s.pant[v] \notin {NoRef, Many}
        /\ n \in DOMAIN h => h[n] = [ref |-> s.pant[v], ant |-> s.ant[v] = s.pant[v]]

LEMMA CopyFoundFacts ==
    ASSUME NEW f, NEW s, NEW v, NEW n, NEW h, h = CopyFound(f, s, v, n)
    PROVE  CopyJudged(f, s, v, n, h)
<1> USE DEF CopyJudged
<1>1. CASE v \in s.dead
    BY <1>1 DEF CopyFound
<1>2. CASE v \notin s.dead /\ (v \notin Locals \/ s.pant[v] \in {NoRef, Many})
  <2>1. h = Without(f, n)
      BY <1>2 DEF CopyFound
  <2> QED
      BY <1>2, <2>1 DEF Without
<1>3. CASE v \notin s.dead /\ v \in Locals /\ s.pant[v] \notin {NoRef, Many}
  <2> DEFINE r == [ref |-> s.pant[v], ant |-> s.ant[v] = s.pant[v]]
  <2>1. h = Put(f, n, r)
      BY <1>3 DEF CopyFound
  <2> HIDE DEF r
  <2>2. DOMAIN h = DOMAIN f \cup {n} /\ h[n] = r /\ \A m \in DOMAIN f : m # n => h[m] = f[m]
      BY <2>1 DEF Put
  <2> QED
      BY <1>3, <2>2 DEF r
<1> QED
    BY <1>1, <1>2, <1>3

LEMMA JudgeFacts ==
    ASSUME NEW b \in Blocks, graph \in Graphs, NEW i \in 1 .. Len(graph.events[b]),
           Event(b, i).type = "def",
           NEW f, FoundOK(f), NEW s, StateOK(s),
           NEW h, h = Judge(f, s, Event(b, i), <<b, i>>)
    PROVE  /\ FoundOK(h)
           /\ Judged(h, b, i, s)
           /\ \A m : m # <<b, i>> => SameAt(h, f, m)
           /\ Event(b, i).decl \in s.dead => h.copy = f.copy
<1> DEFINE e == Event(b, i)
           n == <<b, i>>
<1>1. /\ h.dead = DeadFound(f.dead, s, e.decl, n)
      /\ h.copy = CopyFound(f.copy, s, e.decl, n)
      /\ h.conflicts = Put(f.conflicts, n, Conflicts(s, e))
    BY DEF Judge
<1>2. /\ n \in h.dead <=> e.decl \in s.dead
      /\ \A m : m # n => (m \in h.dead <=> m \in f.dead)
    BY <1>1 DEF DeadFound
<1>3. /\ \A m : m # n => (m \in DOMAIN h.copy <=> m \in DOMAIN f.copy)
                            /\ (m \in DOMAIN f.copy => h.copy[m] = f.copy[m])
      /\ e.decl \in s.dead => h.copy = f.copy
      /\ e.decl \notin s.dead =>
            /\ n \in DOMAIN h.copy <=> e.decl \in Locals /\ s.pant[e.decl] \notin {NoRef, Many}
            /\ n \in DOMAIN h.copy =>
                  h.copy[n] = [ref |-> s.pant[e.decl], ant |-> s.ant[e.decl] = s.pant[e.decl]]
  <2> HIDE DEF e, n
  <2>1. CopyJudged(f.copy, s, e.decl, n, h.copy)
      BY <1>1, CopyFoundFacts
  <2> QED
      BY <2>1 DEF CopyJudged
<1>4. /\ n \in DOMAIN h.conflicts /\ h.conflicts[n] = Conflicts(s, e)
      /\ \A m : m # n => (m \in DOMAIN h.conflicts <=> m \in DOMAIN f.conflicts)
                            /\ (m \in DOMAIN f.conflicts => h.conflicts[m] = f.conflicts[m])
  <2> HIDE DEF e, n
  <2>1. h.conflicts = Put(f.conflicts, n, Conflicts(s, e))
      BY <1>1
  <2> QED
      BY <2>1 DEF Put
<1>5. \A m : m # n => SameAt(h, f, m)
  <2> HIDE DEF n
  <2> QED
      BY <1>2, <1>3, <1>4 DEF SameAt
<1>6. Judged(h, b, i, s)
    BY <1>2, <1>3, <1>4 DEF Judged
<1>7. ASSUME NEW m \in DOMAIN h.copy PROVE graph.candidates /\ {m, h.copy[m].ref} \subseteq Nat \X Nat
  <2>1. CASE m # n \/ e.decl \in s.dead
      BY <1>3, <1>7, <2>1 DEF FoundOK
  <2>2. CASE m = n /\ e.decl \notin s.dead
    <3>1. /\ e.decl \in Locals /\ s.pant[e.decl] \notin {NoRef, Many}
          /\ h.copy[m].ref = s.pant[e.decl]
        BY <1>3, <1>7, <2>2
    <3>2. s.pant[e.decl] \in Refs /\ (graph.candidates \/ s.pant[e.decl] = NoRef)
        BY <3>1 DEF StateOK, DeadState
    <3>3. graph.candidates \in BOOLEAN
        BY GraphAssumption
    <3>4. m \in Nat \X Nat
        BY <2>2, GraphFacts
    <3> QED
        BY <3>1, <3>2, <3>3, <3>4, RefFacts
  <2> QED
      BY <2>1, <2>2
<1> QED
    BY <1>3, <1>5, <1>6, <1>7 DEF FoundOK

-----------------------------------------------------------------------------
(* The walk through a block.                                               *)

LEMMA WalkIs ==
    ASSUME NEW b, Len(graph.events[b]) \in Nat
    PROVE  LET n == Len(graph.events[b])
           IN  Walk(b) = [k \in 0 .. n |-> IF k = 0 THEN [state |-> states[b], found |-> found]
                                           ELSE Backward(b, n + 1 - k, Walk(b)[k - 1])]
<1> DEFINE n == Len(graph.events[b])
           Upto(m, w) == w = [k \in 0 .. m |-> IF k = 0 THEN [state |-> states[b], found |-> found]
                                               ELSE Backward(b, n + 1 - k, w[k - 1])]
           S == {m \in Nat : \E w : Upto(m, w)}
<1>1. 0 \in S
  <2> DEFINE w == [k \in 0 .. 0 |-> [state |-> states[b], found |-> found]]
  <2>1. Upto(0, w)
      OBVIOUS
  <2> QED
      BY <2>1
<1>2. ASSUME NEW m \in Nat, m \in S PROVE m + 1 \in S
  <2>1. PICK w : Upto(m, w)
      BY <1>2
  <2>2. /\ w[0] = [state |-> states[b], found |-> found]
        /\ \A k \in 0 .. m : k # 0 => w[k] = Backward(b, n + 1 - k, w[k - 1])
      BY <2>1
  <2> DEFINE v == [k \in 0 .. m + 1 |-> IF k = m + 1 THEN Backward(b, n + 1 - k, w[m]) ELSE w[k]]
  <2>a. ASSUME NEW k \in 0 .. m PROVE v[k] = w[k]
      OBVIOUS
  <2>b. m + 1 \in 0 .. m + 1
      OBVIOUS
  <2>c. v[m + 1] = Backward(b, n + 1 - (m + 1), w[m])
      BY <2>b
  <2>d. v = [k \in 0 .. m + 1 |-> v[k]]
      OBVIOUS
  <2> HIDE DEF v
  <2>3. /\ \A k \in 0 .. m : v[k] = w[k]
        /\ v[m + 1] = Backward(b, n + 1 - (m + 1), w[m])
      BY <2>a, <2>c
  <2>4. ASSUME NEW k \in 0 .. m + 1
        PROVE  v[k] = IF k = 0 THEN [state |-> states[b], found |-> found]
                      ELSE Backward(b, n + 1 - k, v[k - 1])
    <3>1. CASE k = m + 1
      <4>1. k # 0 /\ k - 1 = m /\ m \in 0 .. m
          BY <3>1
      <4> QED
          BY <2>3, <3>1, <4>1
    <3>2. CASE k \in 0 .. m /\ k # 0
      <4>1. k - 1 \in 0 .. m
          BY <3>2
      <4> QED
          BY <2>2, <2>3, <3>2, <4>1
    <3>3. CASE k = 0
        BY <2>2, <2>3, <3>3
    <3> QED
        BY <3>1, <3>2, <3>3
  <2>5. Upto(m + 1, v)
      BY <2>d, <2>4
  <2>6. \E u : Upto(m + 1, u)
      BY <2>5
  <2> QED
      BY <2>6
<1>3. n \in S
    BY <1>1, <1>2, SetInduction
<1>4. \E w : Upto(n, w)
    BY <1>3
<1>5. Walk(b) = CHOOSE w : Upto(n, w)
    BY DEF Walk
<1>6. Upto(n, Walk(b))
  <2> HIDE DEF Upto
  <2> QED
      BY <1>4, <1>5
<1> QED
    BY <1>6

\* A has the state behind each event of b, and that before the first.
IsWalk(b, A) ==
    LET n == Len(graph.events[b])
    IN  /\ \A i \in 0 .. n : StateOK(A[i])
        /\ A[n] = states[b]
        /\ \A i \in 1 .. n :
            A[i - 1] = Before(AfterThrow(A[i], b, Event(b, i)), Event(b, i), <<b, i>>)

\* f is right at all stores of b.
AllJudged(f, b, A) ==
    \A i \in 1 .. Len(graph.events[b]) : Judged(f, b, i, AfterThrow(A[i], b, Event(b, i)))

\* f and h are the same but for the stores of b.
SameElsewhere(f, h, b) ==
    \A m : (\A i \in 1 .. Len(graph.events[b]) : m # <<b, i>>) => SameAt(f, h, m)

\* Candidates are found at stores of what is live only.
CopyKept(f, h, e, s) == e.type # "def" \/ e.decl \in s.dead => f.copy = h.copy

LEMMA BackwardFacts ==
    ASSUME TypeOK, NEW b \in Blocks, states[b] # None, NEW i \in 1 .. Len(graph.events[b]),
           NEW acc, StateOK(acc.state), FoundOK(acc.found),
           NEW next, next = Backward(b, i, acc),
           NEW s, s = AfterThrow(acc.state, b, Event(b, i))
    PROVE  /\ StateOK(next.state) /\ next.state = Before(s, Event(b, i), <<b, i>>)
           /\ FoundOK(next.found)
           /\ Judged(next.found, b, i, s)
           /\ \A m : m # <<b, i>> => SameAt(next.found, acc.found, m)
           /\ CopyKept(next.found, acc.found, Event(b, i), s)
<1> USE DEF CopyKept
<1>1. StateOK(s)
    BY AfterThrowFacts
<1>2. next.state = Before(s, Event(b, i), <<b, i>>)
    BY DEF Backward
<1>3. StateOK(next.state)
    BY <1>1, <1>2, BeforeFacts DEF TypeOK
<1>4. CASE Event(b, i).type = "def"
  <2>1. next.found = Judge(acc.found, s, Event(b, i), <<b, i>>)
      BY <1>4 DEF Backward
  <2>2. graph \in Graphs
      BY DEF TypeOK
  <2>3. /\ FoundOK(next.found)
        /\ Judged(next.found, b, i, s)
        /\ \A m : m # <<b, i>> => SameAt(next.found, acc.found, m)
      BY <1>1, <1>4, <2>1, <2>2, JudgeFacts
  <2>4. ASSUME Event(b, i).decl \in s.dead PROVE next.found.copy = acc.found.copy
      BY <1>1, <1>4, <2>1, <2>2, <2>4, JudgeFacts
  <2> QED
      BY <1>2, <1>3, <1>4, <2>3, <2>4
<1>5. CASE Event(b, i).type # "def"
  <2>1. next.found = acc.found
      BY <1>5 DEF Backward
  <2> QED
      BY <1>2, <1>3, <1>5, <2>1 DEF Judged, SameAt
<1> QED
    BY <1>4, <1>5

\* The states of a walk, by events.
Walked(b) ==
    LET n == Len(graph.events[b])
    IN  [i \in 0 .. n |-> Walk(b)[n - i].state]

\* What copy has and old has not is a store of b, from the k-th event on, whose
\* local is not dead behind it; state[i] is the state behind the i-th event.
CopyIsNew(copy, old, b, k, state) ==
    \A m \in DOMAIN copy :
        \/ m \in DOMAIN old
        \/ \E i \in k .. Len(graph.events[b]) :
            /\ m = <<b, i>> /\ Event(b, i).type = "def"
            /\ Event(b, i).decl \notin AfterThrow(state[i], b, Event(b, i)).dead

LEMMA WalkFacts ==
    ASSUME TypeOK, NEW b \in Blocks, states[b] # None
    PROVE  LET start == Walk(b)[Len(graph.events[b])]
           IN  /\ IsWalk(b, Walked(b))
               /\ start.state = Walked(b)[0]
               /\ FoundOK(start.found)
               /\ AllJudged(start.found, b, Walked(b))
               /\ SameElsewhere(start.found, found, b)
               /\ CopyIsNew(start.found.copy, found.copy, b, 1, Walked(b))
<1> DEFINE n == Len(graph.events[b])
           w == Walk(b)
           Right(k) ==
            /\ StateOK(w[k].state)
            /\ FoundOK(w[k].found)
            /\ \A i \in n - k + 1 .. n :
                    Judged(w[k].found, b, i, AfterThrow(w[n - i].state, b, Event(b, i)))
            /\ SameElsewhere(w[k].found, found, b)
            /\ CopyIsNew(w[k].found.copy, found.copy, b, n + 1 - k, Walked(b))
           S == {k \in Nat : k <= n => Right(k)}
<1>1. n \in Nat /\ graph \in Graphs
    BY GraphFacts DEF TypeOK
<1>2. w = [k \in 0 .. n |-> IF k = 0 THEN [state |-> states[b], found |-> found]
                            ELSE Backward(b, n + 1 - k, w[k - 1])]
    BY <1>1, WalkIs
<1> HIDE DEF n, w
<1>3. /\ w[0] = [state |-> states[b], found |-> found]
      /\ \A k \in 0 .. n : k # 0 => w[k] = Backward(b, n + 1 - k, w[k - 1])
  <2>1. 0 \in 0 .. n
      BY <1>1
  <2>2. w[0] = [state |-> states[b], found |-> found]
      BY <1>2, <2>1
  <2>3. ASSUME NEW k \in 0 .. n, k # 0 PROVE w[k] = Backward(b, n + 1 - k, w[k - 1])
      BY <1>2, <2>3
  <2> QED
      BY <2>2, <2>3
<1>4. 0 \in S
  <2>1. w[0].state = states[b] /\ w[0].found = found
      BY <1>3
  <2>2. StateOK(states[b]) /\ FoundOK(found)
      BY DEF TypeOK
  <2>3. SameElsewhere(found, found, b)
      BY DEF SameElsewhere, SameAt
  <2>4. \A i \in n - 0 + 1 .. n : FALSE
      BY <1>1
  <2>c. CopyIsNew(found.copy, found.copy, b, n + 1 - 0, Walked(b))
      BY DEF CopyIsNew
  <2>5. Right(0)
      BY <2>1, <2>2, <2>3, <2>4, <2>c
  <2> QED
      BY <2>5
<1>5. ASSUME NEW k \in Nat, k \in S PROVE k + 1 \in S
  <2> SUFFICES ASSUME k + 1 <= n PROVE Right(k + 1)
      OBVIOUS
  <2>2. Right(k)
      BY <1>1, <1>5
  <2> HIDE DEF S
  <2>3. PICK i \in 1 .. n : i = n - k
      BY <1>1
  <2>4. k + 1 \in 0 .. n /\ k + 1 # 0 /\ n - k + 1 = i + 1 /\ n - i = k
      BY <1>1, <2>3
  <2>a. n + 1 - (k + 1) = i /\ n - (k + 1) + 1 = i /\ (k + 1) - 1 = k
      BY <1>1, <2>3
  <2>5. w[k + 1] = Backward(b, i, w[k])
      BY <1>3, <2>4, <2>a
  <2>6. PICK s : s = AfterThrow(w[k].state, b, Event(b, i))
      OBVIOUS
  <2>7. /\ StateOK(w[k + 1].state) /\ FoundOK(w[k + 1].found)
        /\ Judged(w[k + 1].found, b, i, s)
        /\ \A m : m # <<b, i>> => SameAt(w[k + 1].found, w[k].found, m)
        /\ CopyKept(w[k + 1].found, w[k].found, Event(b, i), s)
      BY <2>2, <2>5, <2>6, BackwardFacts DEF n
  <2>w. Walked(b)[i] = w[k].state
      BY <1>1, <2>3, <2>4 DEF Walked, n, w
  <2>c. CopyIsNew(w[k + 1].found.copy, found.copy, b, i, Walked(b))
    <3> SUFFICES ASSUME NEW m \in DOMAIN w[k + 1].found.copy, m \notin DOMAIN found.copy
                 PROVE  \E j \in i .. Len(graph.events[b]) :
                            /\ m = <<b, j>> /\ Event(b, j).type = "def"
                            /\ Event(b, j).decl \notin AfterThrow(Walked(b)[j], b, Event(b, j)).dead
        BY DEF CopyIsNew
    <3>1. CASE m \in DOMAIN w[k].found.copy
      <4>1. i + 1 = n + 1 - k
          BY <1>1, <2>3
      <4>2. PICK j \in i + 1 .. n :
                /\ m = <<b, j>> /\ Event(b, j).type = "def"
                /\ Event(b, j).decl \notin AfterThrow(Walked(b)[j], b, Event(b, j)).dead
          BY <2>2, <3>1, <4>1 DEF CopyIsNew, n
      <4>3. j \in i .. n
          BY <1>1, <2>3
      <4> QED
          BY <4>2, <4>3 DEF n
    <3>2. CASE m \notin DOMAIN w[k].found.copy
      <4>1. m = <<b, i>>
          BY <2>7, <3>2 DEF SameAt
      <4>2. w[k + 1].found.copy # w[k].found.copy
          BY <3>2
      <4>3. Event(b, i).type = "def" /\ Event(b, i).decl \notin s.dead
          BY <2>7, <4>2 DEF CopyKept
      <4>4. i \in i .. n
          BY <1>1, <2>3
      <4> QED
          BY <2>6, <2>w, <4>1, <4>3, <4>4 DEF n
    <3> QED
        BY <3>1, <3>2
  <2>8. ASSUME NEW j \in i .. n
        PROVE  Judged(w[k + 1].found, b, j, AfterThrow(w[n - j].state, b, Event(b, j)))
    <3>1. CASE j = i
        BY <2>4, <2>6, <2>7, <3>1
    <3>2. CASE j # i
      <4>1. j \in n - k + 1 .. n
          BY <1>1, <2>4, <3>2
      <4>2. Judged(w[k].found, b, j, AfterThrow(w[n - j].state, b, Event(b, j)))
          BY <2>2, <4>1
      <4>3. SameAt(w[k + 1].found, w[k].found, <<b, j>>)
          BY <2>7, <3>2
      <4> QED
          BY <4>2, <4>3, SameJudged
    <3> QED
        BY <3>1, <3>2
  <2>9. SameElsewhere(w[k + 1].found, found, b)
    <3> SUFFICES ASSUME NEW m, \A j \in 1 .. Len(graph.events[b]) : m # <<b, j>>
                 PROVE  SameAt(w[k + 1].found, found, m)
        BY DEF SameElsewhere
    <3>1. SameAt(w[k + 1].found, w[k].found, m)
        BY <2>7 DEF n
    <3>2. SameAt(w[k].found, found, m)
        BY <2>2 DEF SameElsewhere
    <3> QED
        BY <3>1, <3>2, SameIsTransitive
  <2>10. n + 1 - (k + 1) = i
      BY <2>a
  <2> QED
      BY <2>a, <2>7, <2>8, <2>9, <2>10, <2>c
<1>6. \A k \in 0 .. n : Right(k)
  <2>1. Nat \subseteq S
    <3> HIDE DEF S
    <3> QED
        BY <1>4, <1>5, SetInduction
  <2> QED
      BY <1>1, <2>1
<1>t. PICK A : A = Walked(b)
    OBVIOUS
<1>u. \A i \in 0 .. n : A[i] = w[n - i].state
    BY <1>t DEF Walked, n, w
<1>7. IsWalk(b, A)
  <2>1. \A i \in 0 .. n : A[i] = w[n - i].state /\ n - i \in 0 .. n
      BY <1>1, <1>u
  <2>2. \A i \in 0 .. n : StateOK(A[i])
      BY <1>6, <2>1
  <2>3. A[n] = states[b]
      BY <1>1, <1>3, <2>1
  <2>4. ASSUME NEW i \in 1 .. n
        PROVE  A[i - 1] = Before(AfterThrow(A[i], b, Event(b, i)), Event(b, i), <<b, i>>)
    <3>1. /\ i \in 0 .. n /\ i - 1 \in 0 .. n /\ n - (i - 1) \in 0 .. n /\ n - (i - 1) # 0
          /\ n - (i - 1) - 1 = n - i /\ n + 1 - (n - (i - 1)) = i
        BY <1>1
    <3>2. w[n - (i - 1)] = Backward(b, i, w[n - i])
        BY <1>3, <3>1
    <3>3. w[n - (i - 1)].state = Before(AfterThrow(w[n - i].state, b, Event(b, i)), Event(b, i), <<b, i>>)
        BY <3>2 DEF Backward
    <3> QED
        BY <2>1, <3>1, <3>3
  <2> QED
      BY <2>2, <2>3, <2>4 DEF IsWalk, n
<1>8. AllJudged(w[n].found, b, A)
  <2> SUFFICES ASSUME NEW i \in 1 .. n
               PROVE  Judged(w[n].found, b, i, AfterThrow(A[i], b, Event(b, i)))
      BY DEF AllJudged, n
  <2>1. n \in 0 .. n /\ i \in n - n + 1 .. n /\ A[i] = w[n - i].state
      BY <1>1, <1>u
  <2>2. Right(n)
      BY <1>6, <2>1
  <2> QED
      BY <2>1, <2>2
<1>9. w[n].state = A[0]
  <2>1. 0 \in 0 .. n /\ n - 0 = n
      BY <1>1
  <2> QED
      BY <1>u, <2>1
<1>10. Right(n)
  <2>1. n \in 0 .. n
      BY <1>1
  <2> QED
      BY <1>6, <2>1
<1>11. n + 1 - n = 1
    BY <1>1
<1> QED
    BY <1>t, <1>7, <1>8, <1>9, <1>10, <1>11 DEF n, w

-----------------------------------------------------------------------------
(* The worklist.                                                           *)

\* What was found in b is right for its state, and its predecessors know no
\* more than what is left at its start.
Settled(b, A) ==
    /\ IsWalk(b, A)
    /\ AllJudged(found, b, A)
    /\ \A p \in Preds(b) : states[p] # None /\ Below(states[p], A[0])

DoneIsSettled == \A b \in Blocks \ queue : states[b] # None => \E A : Settled(b, A)

AInv == TypeOK /\ DoneIsSettled

LEMMA InitAnalysis == Init => AInv
<1> SUFFICES ASSUME Init PROVE AInv
    OBVIOUS
<1>1. graph \in Graphs /\ Blocks \subseteq Nat
    BY GraphFacts DEF Init
<1>2. /\ Everywhere(Locals) \in DeadState
      /\ \A v \in Locals : Everywhere(Locals).ant[v] = NoRef /\ Everywhere(Locals).pant[v] = NoRef
      /\ Everywhere(Locals).dead = Locals
    BY RefFacts DEF Everywhere, DeadState, Decls
<1>3. StateOK(Everywhere(Locals)) /\ ExitOK(Everywhere(Locals)) /\ Everywhere(Locals) # None
    BY <1>2, GraphAssumption DEF StateOK, ExitOK
<1>4. /\ queue = {b \in Blocks : graph.succs[b] = {}}
      /\ \A b \in Blocks : states[b] = IF graph.succs[b] = {} THEN Everywhere(Locals) ELSE None
      /\ states \in [Blocks -> DeadState \cup {None}]
    BY <1>2 DEF Init, Blocks
<1>5. FoundOK(found)
    BY DEF Init, FoundOK
<1>6. TypeOK
    BY <1>1, <1>3, <1>4, <1>5 DEF TypeOK
<1>7. DoneIsSettled
    BY <1>4 DEF DoneIsSettled
<1> QED
    BY <1>6, <1>7 DEF AInv

LEMMA SameGraph ==
    ASSUME graph' = graph
    PROVE  /\ Blocks' = Blocks
           /\ \A b : Preds(b)' = Preds(b)
           /\ \A s : StateOK(s)' <=> StateOK(s)
           /\ \A f : FoundOK(f)' <=> FoundOK(f)
           /\ \A b, i : Event(b, i)' = Event(b, i)
<1>1. Blocks' = Blocks
    BY DEF Blocks
<1>2. \A b : Preds(b)' = Preds(b)
    BY DEF Preds
<1>3. \A s : StateOK(s)' <=> StateOK(s)
    BY DEF StateOK
<1>4. \A f : FoundOK(f)' <=> FoundOK(f)
    BY DEF FoundOK
<1>5. \A b, i : Event(b, i)' = Event(b, i)
    BY DEF Event
<1> QED
    BY <1>1, <1>2, <1>3, <1>4, <1>5

LEMMA SameBefore ==
    ASSUME graph' = graph, NEW s, NEW e, NEW n
    PROVE  Before(s, e, n)' = Before(s, e, n)
<1>1. \A t, v : copyPropRef(t, v, n)' = copyPropRef(t, v, n)
    BY DEF copyPropRef
<1>2. Ref(s, e, n)' = Ref(s, e, n)
    BY <1>1 DEF Ref
<1>3. Def(s, e, n)' = Def(s, e, n)
    BY <1>1 DEF Def
<1> QED
    BY <1>2, <1>3 DEF Before

LEMMA SameWalk ==
    ASSUME graph' = graph, NEW b, states'[b] = states[b], NEW A, IsWalk(b, A)
    PROVE  IsWalk(b, A)'
<1>1. \A s, e : AfterThrow(s, b, e)' = AfterThrow(s, b, e)
    BY DEF AfterThrow
<1>2. \A s, e, n : Before(s, e, n)' = Before(s, e, n)
    BY SameBefore
<1>3. \A i : Event(b, i)' = Event(b, i)
    BY SameGraph
<1>4. \A s : StateOK(s)' <=> StateOK(s)
    BY SameGraph
<1>5. \A i \in 1 .. Len(graph.events[b]) :
            Before(AfterThrow(A[i], b, Event(b, i)), Event(b, i), <<b, i>>)'
                = Before(AfterThrow(A[i], b, Event(b, i)), Event(b, i), <<b, i>>)
    BY <1>1, <1>2, <1>3
<1> QED
    BY <1>4, <1>5 DEF IsWalk

LEMMA FirstIsQueued ==
    ASSUME TypeOK, queue # {}
    PROVE  First \in queue
<1>1. queue \in SUBSET Nat
    BY GraphFacts DEF TypeOK
<1>2. \E b \in queue : \A c \in queue : b <= c
    BY <1>1, LeastNumber
<1> QED
    BY <1>2 DEF First

\* A visit keeps or lowers what blocks end with, and leaves its predecessors
\* below what is at the start of the block.  What is not queued did not change.
LEMMA VisitStates ==
    ASSUME TypeOK, Visit, NEW start, StateOK(start.state),
           start = Walk(First)[Len(graph.events[First])]
    PROVE  /\ \A p \in Blocks :
                /\ states'[p] # None => StateOK(states'[p])
                /\ states[p] # None =>
                    /\ states'[p] # None /\ Below(states'[p], states[p])
                    /\ ExitOK(states[p]) => ExitOK(states'[p])
                /\ p \in queue' => states'[p] # None
                /\ p \notin queue' => p = First \/ p \notin queue
                /\ p \notin queue' => states'[p] = states[p]
           /\ \A p \in Preds(First) : states'[p] # None /\ Below(states'[p], start.state)
           /\ queue' \subseteq Blocks
<1> DEFINE b == First
           Grows(p) == states[p] = None \/ Changes(states[p], start.state)
<1>1. /\ queue' = (queue \ {b}) \cup {p \in Preds(b) : Grows(p)}
      /\ states' = [p \in Blocks |->
                IF p \notin Preds(b) THEN states[p]
                ELSE IF states[p] = None THEN start.state
                ELSE mergeStates(states[p], start.state)]
      /\ queue # {}
    BY DEF Visit
<1>2. b \in Blocks /\ Preds(b) \subseteq Blocks
    BY <1>1, FirstIsQueued, GraphFacts DEF TypeOK
<1>3. start.state # None /\ Below(start.state, start.state)
    BY GraphAssumption DEF StateOK, Below
<1> HIDE DEF b
<1>4. ASSUME NEW p \in Blocks
      PROVE  /\ states'[p] # None => StateOK(states'[p])
             /\ states[p] # None =>
                    /\ states'[p] # None /\ Below(states'[p], states[p])
                    /\ ExitOK(states[p]) => ExitOK(states'[p])
             /\ p \in queue' => states'[p] # None
             /\ p \notin queue' => p = b \/ p \notin queue
             /\ p \notin queue' => states'[p] = states[p]
             /\ p \in Preds(b) => states'[p] # None /\ Below(states'[p], start.state)
  <2>1. p \in queue => states[p] # None
      BY DEF TypeOK
  <2>2. states[p] # None => StateOK(states[p])
      BY DEF TypeOK
  <2>3. CASE p \notin Preds(b)
    <3>1. states'[p] = states[p]
        BY <1>1, <2>3
    <3>2. p \in queue' => p \in queue
        BY <1>1, <2>3
    <3> QED
        BY <1>1, <2>1, <2>2, <2>3, <3>1, <3>2 DEF Below
  <2>4. CASE p \in Preds(b) /\ states[p] = None
    <3>1. states'[p] = start.state
        BY <1>1, <2>4
    <3>2. p \in queue'
        BY <1>1, <2>4
    <3> QED
        BY <1>3, <2>4, <3>1, <3>2
  <2>5. CASE p \in Preds(b) /\ states[p] # None
    <3>1. PICK m : m = mergeStates(states[p], start.state)
        OBVIOUS
    <3>2. states'[p] = m
        BY <1>1, <2>5, <3>1
    <3>3. /\ StateOK(m) /\ Below(m, states[p]) /\ Below(m, start.state)
          /\ ~Changes(states[p], start.state) => m = states[p]
          /\ ExitOK(states[p]) => ExitOK(m)
        BY <2>2, <2>5, <3>1, MergeFacts
    <3>4. m # None
        BY <3>3, GraphAssumption DEF StateOK
    <3>5. p \notin queue' => (p = b \/ p \notin queue) /\ ~Changes(states[p], start.state)
        BY <1>1, <2>5
    <3> QED
        BY <2>5, <3>2, <3>3, <3>4, <3>5
  <2> QED
      BY <2>3, <2>4, <2>5
<1>5. queue' \subseteq Blocks
    BY <1>1, <1>2 DEF TypeOK
<1> QED
    BY <1>2, <1>4, <1>5 DEF b

LEMMA VisitKeeps ==
    ASSUME AInv, Visit
    PROVE  AInv'
<1> DEFINE b == First
           start == Walk(b)[Len(graph.events[b])]
<1>1. TypeOK /\ DoneIsSettled
    BY DEF AInv
<1>2. queue # {} /\ graph' = graph /\ found' = start.found
    BY DEF Visit
<1>3. b \in queue /\ b \in Blocks /\ states[b] # None
    BY <1>1, <1>2, FirstIsQueued DEF TypeOK
<1>4. /\ IsWalk(b, Walked(b)) /\ start.state = Walked(b)[0]
      /\ FoundOK(start.found) /\ AllJudged(start.found, b, Walked(b))
      /\ SameElsewhere(start.found, found, b)
    BY <1>1, <1>3, WalkFacts
<1>5. StateOK(start.state)
  <2>1. 0 \in 0 .. Len(graph.events[b])
      BY <1>1, <1>3, GraphFacts DEF TypeOK
  <2> QED
      BY <1>4, <2>1 DEF IsWalk
<1> HIDE DEF start
<1>6. /\ \A p \in Blocks :
                /\ states'[p] # None => StateOK(states'[p])
                /\ states[p] # None =>
                    /\ states'[p] # None /\ Below(states'[p], states[p])
                    /\ ExitOK(states[p]) => ExitOK(states'[p])
                /\ p \in queue' => states'[p] # None
                /\ p \notin queue' => p = b \/ p \notin queue
                /\ p \notin queue' => states'[p] = states[p]
      /\ \A p \in Preds(b) : states'[p] # None /\ Below(states'[p], start.state)
      /\ queue' \subseteq Blocks
    BY <1>1, <1>5, VisitStates DEF start
<1>7. /\ Blocks' = Blocks
      /\ \A c : Preds(c)' = Preds(c)
      /\ \A s : StateOK(s)' <=> StateOK(s)
      /\ \A f : FoundOK(f)' <=> FoundOK(f)
    BY <1>2, SameGraph
<1>8. TypeOK'
  <2>1. states' \in [Blocks -> DeadState \cup {None}]
    <3>1. states' = [p \in Blocks |-> states'[p]]
        BY DEF Visit
    <3>2. \A p \in Blocks : states'[p] \in DeadState \cup {None}
        BY <1>6 DEF StateOK
    <3> QED
        BY <3>1, <3>2
  <2>2. \A c \in Blocks : graph.succs[c] = {} => states'[c] # None /\ ExitOK(states'[c])
      BY <1>1, <1>6 DEF TypeOK
  <2>3. graph' \in Graphs
      BY <1>1, <1>2 DEF TypeOK
  <2>4. FoundOK(found)'
      BY <1>2, <1>4, <1>7
  <2>5. \A c \in Blocks : states'[c] # None => StateOK(states'[c])
      BY <1>6
  <2>6. \A c \in queue' : states'[c] # None
      BY <1>6
  <2> QED
      BY <1>2, <1>6, <1>7, <2>1, <2>2, <2>3, <2>4, <2>5, <2>6 DEF TypeOK, ExitOK, StateOK
<1>9. DoneIsSettled'
  <2> SUFFICES ASSUME NEW c \in Blocks, c \notin queue', states'[c] # None
               PROVE  \E A : Settled(c, A)'
      BY <1>7 DEF DoneIsSettled
  <2>1. states'[c] = states[c]
      BY <1>6
  <2>2. ASSUME NEW A, IsWalk(c, A), AllJudged(found', c, A),
               \A p \in Preds(c) : states'[p] # None /\ Below(states'[p], A[0])
        PROVE  Settled(c, A)'
    <3>1. IsWalk(c, A)'
        BY <1>2, <2>1, <2>2, SameWalk
    <3>2. AllJudged(found, c, A)'
        BY <1>2, <2>1, <2>2 DEF AllJudged, AfterThrow, Judged, Event
    <3>3. \A p : Below(states[p], A[0])' <=> Below(states'[p], A[0])
        BY DEF Below
    <3> QED
        BY <1>7, <2>2, <3>1, <3>2, <3>3 DEF Settled
  <2>3. CASE c = b
    <3>1. AllJudged(found', c, Walked(b))
        BY <1>2, <1>4, <2>3
    <3>2. \A p \in Preds(c) : states'[p] # None /\ Below(states'[p], Walked(b)[0])
        BY <1>4, <1>6, <2>3
    <3>3. PICK A : A = Walked(b)
        OBVIOUS
    <3>4. Settled(c, A)'
        BY <1>4, <2>2, <2>3, <3>1, <3>2, <3>3
    <3> QED
        BY <3>4
  <2>4. CASE c # b
    <3>1. c \notin queue /\ states[c] # None
        BY <1>6, <2>1, <2>4
    <3>2. PICK A : Settled(c, A)
        BY <1>1, <3>1 DEF DoneIsSettled
    <3>3. AllJudged(found', c, A)
      <4> SUFFICES ASSUME NEW i \in 1 .. Len(graph.events[c])
                   PROVE  Judged(found', c, i, AfterThrow(A[i], c, Event(c, i)))
          BY DEF AllJudged
      <4>1. Judged(found, c, i, AfterThrow(A[i], c, Event(c, i)))
          BY <3>2 DEF Settled, AllJudged
      <4>2. SameAt(found', found, <<c, i>>)
          BY <1>2, <1>4, <2>4 DEF SameElsewhere
      <4> QED
          BY <4>1, <4>2, SameJudged
    <3>4. ASSUME NEW p \in Preds(c) PROVE states'[p] # None /\ Below(states'[p], A[0])
      <4>1. p \in Blocks
          BY <1>1, GraphFacts DEF TypeOK
      <4>2. states[p] # None /\ Below(states[p], A[0])
          BY <3>2 DEF Settled
      <4> QED
          BY <1>6, <4>1, <4>2, BelowIsTransitive
    <3>5. Settled(c, A)'
        BY <2>2, <3>2, <3>3, <3>4 DEF Settled
    <3> QED
        BY <3>5
  <2> QED
      BY <2>3, <2>4
<1> QED
    BY <1>8, <1>9 DEF AInv

-----------------------------------------------------------------------------
(* Candidates of copy propagation.                                         *)

\* A store of a local that is live behind it, now and for all that was known
\* before, for the dead only get fewer.
LiveStore(n) ==
    \E b \in Blocks : \E i \in 1 .. Len(graph.events[b]) :
        /\ n = <<b, i>> /\ states[b] # None /\ Event(b, i).type = "def"
        /\ \A A : IsWalk(b, A) => Event(b, i).decl \notin AfterThrow(A[i], b, Event(b, i)).dead

CandidatesLive == \A n \in DOMAIN found.copy : LiveStore(n)

\* While states go down, less is dead behind each event of a block.
LEMMA WalkGoesDown ==
    ASSUME TypeOK, graph' = graph, NEW b \in Blocks, states[b] # None,
           StateOK(states'[b]), Below(states'[b], states[b]),
           NEW A, IsWalk(b, A), NEW B, IsWalk(b, B)',
           NEW j \in 1 .. Len(graph.events[b])
    PROVE  AfterThrow(B[j], b, Event(b, j))'.dead \subseteq AfterThrow(A[j], b, Event(b, j)).dead
<1>x. PICK x : x = states'[b]
    OBVIOUS
<1> DEFINE n == Len(graph.events[b])
           throws(i) == Event(b, i).mayThrow /\ graph.exsucc[b] # None
           After(i) == IF throws(i) THEN mergeStates(B[i], x) ELSE B[i]
           Behind(i) == AfterThrow(A[i], b, Event(b, i))
           S == {k \in Nat : k <= n => B[n - k].dead \subseteq A[n - k].dead}
<1>1. n \in Nat /\ graph \in Graphs
    BY GraphFacts DEF TypeOK
<1>2. /\ \A i \in 0 .. n : StateOK(A[i]) /\ StateOK(B[i])
      /\ A[n] = states[b] /\ B[n] = x
      /\ \A i \in 1 .. n : A[i - 1] = Before(Behind(i), Event(b, i), <<b, i>>)
      /\ \A i \in 1 .. n : B[i - 1] = Before(After(i), Event(b, i), <<b, i>>)
  <2>1. \A i \in 0 .. n : StateOK(A[i]) /\ StateOK(B[i])
      BY SameGraph DEF IsWalk
  <2>2. ASSUME NEW i \in 1 .. n PROVE B[i - 1] = Before(After(i), Event(b, i), <<b, i>>)
    <3>1. AfterThrow(B[i], b, Event(b, i))' = After(i)
        BY <1>x DEF AfterThrow, Event
    <3>2. PICK e : e = Event(b, i)
        OBVIOUS
    <3>3. PICK s : s = After(i)
        OBVIOUS
    <3>4. e = Event(b, i)'
        BY <3>2, SameGraph
    <3>5. B[i - 1] = Before(s, e, <<b, i>>)'
        BY <3>1, <3>3, <3>4 DEF IsWalk
    <3> QED
        BY <3>2, <3>3, <3>5, SameBefore
  <2> QED
      BY <1>x, <2>1, <2>2 DEF IsWalk
<1>3. ASSUME NEW i \in 1 .. n, B[i].dead \subseteq A[i].dead
      PROVE  /\ StateOK(After(i)) /\ StateOK(Behind(i))
             /\ After(i).dead \subseteq Behind(i).dead
  <2>1. StateOK(A[i]) /\ StateOK(B[i]) /\ StateOK(x) /\ StateOK(states[b])
      BY <1>1, <1>2, <1>x DEF TypeOK
  <2>2. StateOK(mergeStates(B[i], x)) /\ StateOK(mergeStates(A[i], states[b]))
      BY <2>1, MergeFacts
  <2>3. StateOK(After(i)) /\ StateOK(Behind(i))
      BY <2>1, <2>2 DEF AfterThrow
  <2>4. x.dead \subseteq states[b].dead
      BY <1>x DEF Below
  <2>5. CASE throws(i)
    <3>1. After(i).dead = B[i].dead \cap x.dead /\ Behind(i).dead = A[i].dead \cap states[b].dead
        BY <2>5 DEF AfterThrow, mergeStates, MergeDead
    <3> QED
        BY <1>3, <2>3, <2>4, <3>1
  <2>6. CASE ~throws(i)
    <3>1. After(i) = B[i] /\ Behind(i) = A[i]
        BY <2>6 DEF AfterThrow
    <3> QED
        BY <1>3, <2>3, <3>1
  <2> QED
      BY <2>5, <2>6
<1>4. ASSUME NEW i \in 1 .. n, B[i].dead \subseteq A[i].dead
      PROVE  B[i - 1].dead \subseteq A[i - 1].dead
  <2> HIDE DEF After, Behind
  <2>1. /\ StateOK(After(i)) /\ StateOK(Behind(i))
        /\ After(i).dead \subseteq Behind(i).dead
      BY <1>3, <1>4
  <2>2. PICK e : e = Event(b, i)
      OBVIOUS
  <2>3. PICK s, t : s = After(i) /\ t = Behind(i)
      OBVIOUS
  <2>4. PICK p : p = Before(s, e, <<b, i>>)
      OBVIOUS
  <2>5. PICK q : q = Before(t, e, <<b, i>>)
      OBVIOUS
  <2>6. p.dead = DeadBefore(s, e)
      BY <1>1, <2>1, <2>2, <2>3, <2>4, BeforeFacts
  <2>7. q.dead = DeadBefore(t, e)
      BY <1>1, <2>1, <2>2, <2>3, <2>5, BeforeFacts
  <2>8. e.type \in {"ref", "def", "kil", "mod", "exn"}
      BY <1>1, <2>2, GraphFacts DEF EventTypes
  <2>9. DeadBefore(s, e) \subseteq DeadBefore(t, e)
      BY <2>1, <2>3, <2>8 DEF DeadBefore
  <2>10. B[i - 1] = p /\ A[i - 1] = q
      BY <1>2, <2>2, <2>3, <2>4, <2>5
  <2> QED
      BY <2>6, <2>7, <2>9, <2>10
<1>5. 0 \in S
  <2>1. n - 0 = n
      BY <1>1
  <2> QED
      BY <1>2, <1>x, <2>1 DEF Below
<1>6. ASSUME NEW k \in Nat, k \in S PROVE k + 1 \in S
  <2> SUFFICES ASSUME k + 1 <= n PROVE B[n - (k + 1)].dead \subseteq A[n - (k + 1)].dead
      OBVIOUS
  <2>1. n - k \in 1 .. n /\ (n - k) - 1 = n - (k + 1) /\ k <= n
      BY <1>1
  <2>2. B[n - k].dead \subseteq A[n - k].dead
      BY <1>6, <2>1
  <2> QED
      BY <1>4, <2>1, <2>2
<1>7. B[j].dead \subseteq A[j].dead
  <2>j. j \in 1 .. n
      OBVIOUS
  <2>1. n - j \in Nat /\ n - j <= n /\ n - (n - j) = j
    <3> HIDE DEF n
    <3> QED
        BY <1>1, <2>j
  <2>2. n - j \in S
    <3> HIDE DEF S
    <3> QED
        BY <1>5, <1>6, <2>1, SetInduction
  <2> QED
      BY <2>1, <2>2
<1>8. AfterThrow(B[j], b, Event(b, j))' = After(j)
    BY <1>x DEF AfterThrow, Event
<1>9. After(j).dead \subseteq Behind(j).dead
    BY <1>3, <1>7
<1> QED
    BY <1>8, <1>9

LEMMA InitLive == Init => CandidatesLive
<1> SUFFICES ASSUME Init PROVE DOMAIN found.copy = {}
    BY DEF CandidatesLive
<1>1. found.copy = <<>>
    BY DEF Init
<1>2. DOMAIN <<>> = 1 .. 0
    BY LenProperties, EmptySeq
<1> QED
    BY <1>1, <1>2

LEMMA VisitLive ==
    ASSUME AInv, CandidatesLive, Visit
    PROVE  CandidatesLive'
<1> DEFINE b == First
           start == Walk(b)[Len(graph.events[b])]
<1>1. TypeOK
    BY DEF AInv
<1>2. queue # {} /\ graph' = graph /\ found' = start.found
    BY DEF Visit
<1>3. b \in Blocks /\ states[b] # None
    BY <1>1, <1>2, FirstIsQueued DEF TypeOK
<1>4. /\ IsWalk(b, Walked(b)) /\ start.state = Walked(b)[0]
      /\ CopyIsNew(start.found.copy, found.copy, b, 1, Walked(b))
    BY <1>1, <1>3, WalkFacts
<1>5. StateOK(start.state)
  <2>1. 0 \in 0 .. Len(graph.events[b])
      BY <1>1, <1>3, GraphFacts DEF TypeOK
  <2> QED
      BY <1>4, <2>1 DEF IsWalk
<1>6. ASSUME NEW c \in Blocks, states[c] # None
      PROVE  states'[c] # None /\ StateOK(states'[c]) /\ Below(states'[c], states[c])
    BY <1>1, <1>5, <1>6, VisitStates
<1> HIDE DEF b, start
<1>7. ASSUME NEW c \in Blocks, NEW i \in 1 .. Len(graph.events[c]), states[c] # None,
             Event(c, i).type = "def", NEW A, IsWalk(c, A),
             Event(c, i).decl \notin AfterThrow(A[i], c, Event(c, i)).dead
      PROVE  LiveStore(<<c, i>>)'
  <2>1. Blocks' = Blocks /\ Event(c, i)' = Event(c, i)
      BY <1>2, SameGraph
  <2>2. ASSUME NEW B, IsWalk(c, B)'
        PROVE  Event(c, i)'.decl \notin AfterThrow(B[i], c, Event(c, i))'.dead
    <3>1. AfterThrow(B[i], c, Event(c, i))'.dead \subseteq AfterThrow(A[i], c, Event(c, i)).dead
        BY <1>1, <1>2, <1>6, <1>7, <2>2, WalkGoesDown
    <3> QED
        BY <1>7, <2>1, <3>1
  <2>3. states'[c] # None
      BY <1>6, <1>7
  <2> QED
      BY <1>2, <1>7, <2>1, <2>2, <2>3 DEF LiveStore
<1> SUFFICES ASSUME NEW m \in DOMAIN start.found.copy PROVE LiveStore(m)'
    BY <1>2 DEF CandidatesLive
<1>8. CASE m \in DOMAIN found.copy
  <2>1. PICK c \in Blocks : \E i \in 1 .. Len(graph.events[c]) :
            /\ m = <<c, i>> /\ states[c] # None /\ Event(c, i).type = "def"
            /\ \A A : IsWalk(c, A) => Event(c, i).decl \notin AfterThrow(A[i], c, Event(c, i)).dead
      BY <1>8 DEF CandidatesLive, LiveStore
  <2>2. PICK i \in 1 .. Len(graph.events[c]) :
            /\ m = <<c, i>> /\ states[c] # None /\ Event(c, i).type = "def"
            /\ \A A : IsWalk(c, A) => Event(c, i).decl \notin AfterThrow(A[i], c, Event(c, i)).dead
      BY <2>1
  <2>3. PICK A : A = Walked(c)
      OBVIOUS
  <2>4. IsWalk(c, A)
      BY <1>1, <2>2, <2>3, WalkFacts
  <2> QED
      BY <1>7, <2>2, <2>4
<1>9. CASE m \notin DOMAIN found.copy
  <2>1. PICK A : A = Walked(b)
      OBVIOUS
  <2>2. PICK i \in 1 .. Len(graph.events[b]) :
            /\ m = <<b, i>> /\ Event(b, i).type = "def"
            /\ Event(b, i).decl \notin AfterThrow(A[i], b, Event(b, i)).dead
      BY <1>4, <1>9, <2>1 DEF CopyIsNew
  <2> QED
      BY <1>3, <1>4, <1>7, <2>1, <2>2
<1> QED
    BY <1>8, <1>9

-----------------------------------------------------------------------------
(* The variant of the worklist.                                            *)

\* What may still be found out: that a block gets to its end at all, and that
\* what is dead at its end is not.
Undecided ==
    {x \in Blocks \X (Decls \cup {None}) :
        states[x[1]] = None \/ (x[2] # None /\ x[2] \in states[x[1]].dead)}

\* More is found out, or less is left to be looked at.
GetsOn ==
    \/ Cardinality(Undecided') < Cardinality(Undecided)
    \/ Undecided' = Undecided /\ Cardinality(queue') < Cardinality(queue)

LEMMA WorkIsFinite ==
    ASSUME TypeOK PROVE IsFiniteSet(Undecided) /\ IsFiniteSet(queue)
<1>1. graph.succs \in Seq(SUBSET Nat)
    BY GraphAssumption DEF TypeOK
<1>2. Blocks = 1 .. Len(graph.succs) /\ Len(graph.succs) \in Nat
    BY <1>1, LenProperties DEF Blocks
<1>3. IsFiniteSet(Blocks)
    BY <1>2, FS_Interval
<1>4. IsFiniteSet(Decls \cup {None})
    BY GraphAssumption, FS_Union, FS_AddElement DEF Decls
<1>5. IsFiniteSet(Blocks \X (Decls \cup {None}))
    BY <1>3, <1>4, FS_Product
<1>6. Undecided \in SUBSET (Blocks \X (Decls \cup {None}))
    BY DEF Undecided
<1>7. queue \in SUBSET Blocks
    BY DEF TypeOK
<1> QED
    BY <1>3, <1>5, <1>6, <1>7, FS_Subset

LEMMA FewerElements ==
    ASSUME NEW S, IsFiniteSet(S), NEW T, T \subseteq S, T # S
    PROVE  Cardinality(T) < Cardinality(S)
<1>1. IsFiniteSet(T) /\ Cardinality(T) <= Cardinality(S) /\ Cardinality(S) # Cardinality(T)
    BY FS_Subset
<1>2. Cardinality(S) \in Nat /\ Cardinality(T) \in Nat
    BY <1>1, FS_CardinalityType
<1> QED
    BY <1>1, <1>2

\* Where no candidates are asked for, a change is a variable less that is dead.
LEMMA PlainChange ==
    ASSUME ~graph.candidates, NEW s, StateOK(s), NEW t, StateOK(t), Changes(s, t),
           NEW m, m = mergeStates(s, t)
    PROVE  \E v \in Decls : v \in s.dead /\ v \notin m.dead
<1>1. \A v \in Locals : s.ant[v] = NoRef /\ t.pant[v] = NoRef
    BY DEF StateOK
<1>2. ~(s.dead \subseteq t.dead)
    BY <1>1 DEF Changes
<1>3. m.dead = s.dead \cap t.dead /\ s.dead \subseteq Decls
    BY DEF mergeStates, MergeDead, StateOK, DeadState
<1> QED
    BY <1>2, <1>3

LEMMA PlainVisitGetsOn ==
    ASSUME TypeOK, Visit, ~graph.candidates PROVE GetsOn
<1> PICK b : b = First
    OBVIOUS
<1> PICK start : start = Walk(b)[Len(graph.events[b])]
    OBVIOUS
<1>1. /\ queue # {} /\ graph' = graph
      /\ queue' = (queue \ {b}) \cup {p \in Preds(b) : states[p] = None \/ Changes(states[p], start.state)}
      /\ states' = [p \in Blocks |->
                IF p \notin Preds(b) THEN states[p]
                ELSE IF states[p] = None THEN start.state
                ELSE mergeStates(states[p], start.state)]
    BY DEF Visit
<1>2. b \in queue /\ b \in Blocks /\ states[b] # None /\ Preds(b) \subseteq Blocks
    BY <1>1, FirstIsQueued, GraphFacts DEF TypeOK
<1>3. StateOK(start.state)
  <2>1. IsWalk(b, Walked(b)) /\ start.state = Walked(b)[0]
      BY <1>2, WalkFacts
  <2>2. 0 \in 0 .. Len(graph.events[b])
      BY <1>2, GraphFacts DEF TypeOK
  <2> QED
      BY <2>1, <2>2 DEF IsWalk
<1>4. Blocks' = Blocks
    BY <1>1, SameGraph
<1>5. \A p \in Blocks : states[p] # None =>
            /\ StateOK(states[p])
            /\ states'[p] # None /\ states'[p].dead \subseteq states[p].dead
    BY <1>3, VisitStates DEF TypeOK, Below
<1>6. Undecided' \subseteq Undecided
    BY <1>4, <1>5 DEF Undecided
<1>7. CASE \E p \in Preds(b) : states[p] = None \/ Changes(states[p], start.state)
  <2> PICK p \in Preds(b) : states[p] = None \/ Changes(states[p], start.state)
      BY <1>7
  <2>1. \E x : x \in Undecided /\ x \notin Undecided'
    <3>1. CASE states[p] = None
      <4>1. states'[p] # None
          BY <1>1, <1>2, <1>3, <3>1, GraphAssumption DEF StateOK
      <4>2. <<p, None>> \in Undecided
          BY <1>2, <3>1 DEF Undecided
      <4>3. <<p, None>> \notin Undecided'
          BY <4>1 DEF Undecided
      <4> QED
          BY <4>2, <4>3
    <3>2. CASE states[p] # None /\ Changes(states[p], start.state)
      <4>1. states'[p] = mergeStates(states[p], start.state) /\ states'[p] # None
          BY <1>1, <1>2, <1>5, <3>2
      <4>2. PICK v \in Decls : v \in states[p].dead /\ v \notin states'[p].dead
          BY <1>2, <1>3, <1>5, <3>2, <4>1, PlainChange
      <4>3. v # None
          BY GraphAssumption
      <4>4. <<p, v>> \in Undecided
          BY <1>2, <4>2, <4>3 DEF Undecided
      <4>5. <<p, v>> \notin Undecided'
          BY <4>1, <4>2 DEF Undecided
      <4> QED
          BY <4>4, <4>5
    <3> QED
        BY <3>1, <3>2
  <2> QED
      BY <1>6, <2>1, WorkIsFinite, FewerElements DEF GetsOn
<1>8. CASE ~\E p \in Preds(b) : states[p] = None \/ Changes(states[p], start.state)
  <2>1. queue' = queue \ {b}
      BY <1>1, <1>8
  <2>2. Cardinality(queue') < Cardinality(queue)
      BY <1>2, <2>1, WorkIsFinite, FewerElements
  <2>3. \A p \in Blocks : states'[p] = states[p]
      BY <1>1, <1>2, <1>3, <1>5, <1>8, MergeFacts
  <2>4. Undecided' = Undecided
      BY <1>4, <2>3 DEF Undecided
  <2> QED
      BY <2>2, <2>4 DEF GetsOn
<1> QED
    BY <1>7, <1>8

-----------------------------------------------------------------------------
(* The greatest solution.                                                  *)

\* What D says is dead behind the i-th event of b, where that may throw.
Behind(D, b, i) ==
    IF Event(b, i).mayThrow /\ graph.exsucc[b] # None
    THEN D[b][i] \cap D[b][Len(graph.events[b])]
    ELSE D[b][i]

\* D says, for each block, what is dead behind each of its events, and before
\* the first, and no more than the events justify: of what is dead behind one,
\* what is dead before it; at the end of a block, what is dead in all that
\* follows.  Behind the last block locals are dead.
Justified(D) ==
    \A b \in Blocks :
        /\ graph.succs[b] = {} => D[b][Len(graph.events[b])] \subseteq Locals
        /\ \A i \in 1 .. Len(graph.events[b]) :
            D[b][i - 1] \subseteq DeadBefore([dead |-> Behind(D, b, i)], Event(b, i))
        /\ \A p \in Preds(b) : D[p][Len(graph.events[p])] \subseteq D[b][0]

\* The states claim all that any D can justify.
NothingIsGivenUp ==
    \A D : Justified(D) =>
        \A b \in Blocks : states[b] # None => D[b][Len(graph.events[b])] \subseteq states[b].dead

\* The more is dead behind an event, the more before it.
LEMMA DeadBeforeGrows ==
    ASSUME NEW b \in Blocks, graph \in Graphs, NEW i \in 1 .. Len(graph.events[b]),
           NEW X, NEW s, X \subseteq s.dead
    PROVE  DeadBefore([dead |-> X], Event(b, i)) \subseteq DeadBefore(s, Event(b, i))
<1> PICK e : e = Event(b, i)
    OBVIOUS
<1>1. e.type \in {"ref", "def", "kil", "mod", "exn"}
    BY GraphFacts DEF EventTypes
<1>2. [dead |-> X].dead = X
    OBVIOUS
<1>3. DeadBefore([dead |-> X], e) \subseteq DeadBefore(s, e)
    BY <1>1, <1>2 DEF DeadBefore
<1> QED
    BY <1>3

\* So a walk from a state that claims all that D does claims it everywhere.
LEMMA WalkGivesNothingUp ==
    ASSUME TypeOK, NEW b \in Blocks, states[b] # None, NEW A, IsWalk(b, A),
           NEW D, Justified(D), D[b][Len(graph.events[b])] \subseteq states[b].dead
    PROVE  \A i \in 0 .. Len(graph.events[b]) : D[b][i] \subseteq A[i].dead
<1> DEFINE n == Len(graph.events[b])
           S == {k \in Nat : k <= n => D[b][n - k] \subseteq A[n - k].dead}
<1>1. n \in Nat /\ graph \in Graphs
    BY GraphFacts DEF TypeOK
<1>2. ASSUME NEW i \in 1 .. n, D[b][i] \subseteq A[i].dead
      PROVE  Behind(D, b, i) \subseteq AfterThrow(A[i], b, Event(b, i)).dead
  <2>1. CASE Event(b, i).mayThrow /\ graph.exsucc[b] # None
    <3>1. AfterThrow(A[i], b, Event(b, i)).dead = A[i].dead \cap states[b].dead
        BY <2>1 DEF AfterThrow, mergeStates, MergeDead
    <3> QED
        BY <1>2, <2>1, <3>1 DEF Behind
  <2>2. CASE ~(Event(b, i).mayThrow /\ graph.exsucc[b] # None)
      BY <1>2, <2>2 DEF AfterThrow, Behind
  <2> QED
      BY <2>1, <2>2
<1>3. ASSUME NEW i \in 1 .. n, D[b][i] \subseteq A[i].dead
      PROVE  D[b][i - 1] \subseteq A[i - 1].dead
  <2> PICK s : s = AfterThrow(A[i], b, Event(b, i))
      OBVIOUS
  <2>1. i \in 0 .. n
      BY <1>1
  <2>2. StateOK(s)
      BY <1>1, <2>1, AfterThrowFacts DEF IsWalk
  <2>3. A[i - 1].dead = DeadBefore(s, Event(b, i))
      BY <1>1, <2>2, BeforeFacts DEF IsWalk
  <2>4. Behind(D, b, i) \subseteq s.dead
      BY <1>2, <1>3
  <2>5. DeadBefore([dead |-> Behind(D, b, i)], Event(b, i)) \subseteq DeadBefore(s, Event(b, i))
      BY <1>1, <2>4, DeadBeforeGrows
  <2> QED
      BY <2>3, <2>5 DEF Justified
<1>4. 0 \in S
  <2>1. n - 0 = n /\ A[n] = states[b]
      BY <1>1 DEF IsWalk
  <2> QED
      BY <2>1
<1>5. ASSUME NEW k \in Nat, k \in S PROVE k + 1 \in S
  <2> SUFFICES ASSUME k + 1 <= n PROVE D[b][n - (k + 1)] \subseteq A[n - (k + 1)].dead
      OBVIOUS
  <2>1. n - k \in 1 .. n /\ n - (k + 1) = (n - k) - 1
      BY <1>1
  <2>2. D[b][n - k] \subseteq A[n - k].dead
      BY <1>1, <1>5
  <2>3. D[b][(n - k) - 1] \subseteq A[(n - k) - 1].dead
      BY <1>3, <2>1, <2>2
  <2> QED
      BY <2>1, <2>3
<1>6. \A k \in Nat : k \in S
  <2> HIDE DEF S
  <2> QED
      BY <1>4, <1>5, SetInduction
<1>7. ASSUME NEW i \in 0 .. n PROVE D[b][i] \subseteq A[i].dead
  <2>1. n - i \in Nat /\ n - i <= n /\ n - (n - i) = i
    <3> HIDE DEF n
    <3> QED
        BY <1>1
  <2>2. D[b][n - (n - i)] \subseteq A[n - (n - i)].dead
      BY <1>6, <2>1
  <2> QED
      BY <2>1, <2>2
<1> QED
    BY <1>7

LEMMA VisitGivesNothingUp ==
    ASSUME TypeOK, NothingIsGivenUp, Visit PROVE NothingIsGivenUp'
<1> PICK b : b = First
    OBVIOUS
<1> PICK start : start = Walk(b)[Len(graph.events[b])]
    OBVIOUS
<1>1. /\ queue # {} /\ graph' = graph
      /\ states' = [p \in Blocks |->
                IF p \notin Preds(b) THEN states[p]
                ELSE IF states[p] = None THEN start.state
                ELSE mergeStates(states[p], start.state)]
    BY DEF Visit
<1>2. b \in Blocks /\ states[b] # None
    BY <1>1, FirstIsQueued DEF TypeOK
<1>3. IsWalk(b, Walked(b)) /\ start.state = Walked(b)[0]
    BY <1>2, WalkFacts
<1>4. Blocks' = Blocks /\ \A D : Justified(D)' <=> Justified(D)
  <2>1. /\ Blocks' = Blocks /\ \A c : Preds(c)' = Preds(c)
        /\ \A c, i : Event(c, i)' = Event(c, i)
      BY <1>1, SameGraph
  <2>2. \A D, c, i : Behind(D, c, i)' = Behind(D, c, i)
      BY <1>1, <2>1 DEF Behind
  <2>3. \A s, e : DeadBefore(s, e)' = DeadBefore(s, e)
      BY DEF DeadBefore
  <2> QED
      BY <1>1, <2>1, <2>2, <2>3 DEF Justified
<1> SUFFICES ASSUME NEW D, Justified(D), NEW p \in Blocks, states'[p] # None
             PROVE  D[p][Len(graph.events[p])] \subseteq states'[p].dead
    BY <1>1, <1>4 DEF NothingIsGivenUp
<1>5. p \in Preds(b) => D[p][Len(graph.events[p])] \subseteq start.state.dead
  <2>1. 0 \in 0 .. Len(graph.events[b])
      BY <1>2, GraphFacts DEF TypeOK
  <2>2. D[b][Len(graph.events[b])] \subseteq states[b].dead
      BY <1>2 DEF NothingIsGivenUp
  <2>3. D[b][0] \subseteq start.state.dead
      BY <1>2, <1>3, <2>1, <2>2, WalkGivesNothingUp
  <2> QED
      BY <1>2, <2>3 DEF Justified
<1>6. states[p] # None => D[p][Len(graph.events[p])] \subseteq states[p].dead
    BY DEF NothingIsGivenUp
<1>7. CASE p \notin Preds(b)
    BY <1>1, <1>6, <1>7
<1>8. CASE p \in Preds(b) /\ states[p] = None
    BY <1>1, <1>5, <1>8
<1>9. CASE p \in Preds(b) /\ states[p] # None
  <2>1. states'[p].dead = states[p].dead \cap start.state.dead
      BY <1>1, <1>9 DEF mergeStates, MergeDead
  <2> QED
      BY <1>5, <1>6, <1>9, <2>1
<1> QED
    BY <1>7, <1>8, <1>9

LEMMA InitGivesNothingUp == Init => NothingIsGivenUp
<1> SUFFICES ASSUME Init, NEW D, Justified(D), NEW b \in Blocks, states[b] # None
             PROVE  D[b][Len(graph.events[b])] \subseteq states[b].dead
    BY DEF NothingIsGivenUp
<1>1. graph.succs[b] = {} /\ states[b] = Everywhere(Locals)
    BY DEF Init, Blocks
<1>2. states[b].dead = Locals
    BY <1>1 DEF Everywhere
<1> QED
    BY <1>1, <1>2 DEF Justified

\* D is the solution that claims most, ...
Greatest(D) ==
    /\ Justified(D)
    /\ \A E : Justified(E) =>
        \A b \in Blocks : \A i \in 0 .. Len(graph.events[b]) : E[b][i] \subseteq D[b][i]

\* ... and it is what was found: the dead stores, and the conflicts of each.
IsFound(D) ==
    \A b \in Blocks : \A i \in 1 .. Len(graph.events[b]) :
        Event(b, i).type = "def" =>
            /\ <<b, i>> \in found.dead <=> Event(b, i).decl \in Behind(D, b, i)
            /\ <<b, i>> \in DOMAIN found.conflicts
            /\ found.conflicts[<<b, i>>] = Conflicts([dead |-> Behind(D, b, i)], Event(b, i))

\* What the states of all blocks claim, once none is queued.
LEMMA SettledIsGreatest ==
    ASSUME AInv, NothingIsGivenUp, NEW W,
           \A b \in Blocks : states[b] # None /\ Settled(b, W[b]),
           NEW D, \A b \in Blocks : \A i \in 0 .. Len(graph.events[b]) : D[b][i] = W[b][i].dead
    PROVE  Greatest(D) /\ IsFound(D)
<1>1. TypeOK /\ graph \in Graphs
    BY DEF AInv, TypeOK
<1>2. ASSUME NEW b \in Blocks
      PROVE  /\ Len(graph.events[b]) \in Nat
             /\ \A i \in 0 .. Len(graph.events[b]) : D[b][i] = W[b][i].dead
             /\ D[b][0] = W[b][0].dead
             /\ D[b][Len(graph.events[b])] = states[b].dead
  <2>1. Len(graph.events[b]) \in Nat
      BY <1>1, GraphFacts
  <2>2. \A i \in 0 .. Len(graph.events[b]) : D[b][i] = W[b][i].dead
      OBVIOUS
  <2>3. 0 \in 0 .. Len(graph.events[b]) /\ Len(graph.events[b]) \in 0 .. Len(graph.events[b])
      BY <2>1
  <2>4. W[b][Len(graph.events[b])] = states[b]
      BY DEF Settled, IsWalk
  <2>5. D[b][0] = W[b][0].dead
      BY <2>2, <2>3
  <2>6. D[b][Len(graph.events[b])] = W[b][Len(graph.events[b])].dead
      BY <2>2, <2>3
  <2> QED
      BY <2>1, <2>2, <2>4, <2>5, <2>6
<1>3. ASSUME NEW b \in Blocks, NEW i \in 1 .. Len(graph.events[b])
      PROVE  /\ i \in 0 .. Len(graph.events[b]) /\ i - 1 \in 0 .. Len(graph.events[b])
             /\ Behind(D, b, i) = AfterThrow(W[b][i], b, Event(b, i)).dead
  <2>1. i \in 0 .. Len(graph.events[b]) /\ i - 1 \in 0 .. Len(graph.events[b])
      BY <1>2
  <2>2. D[b][i] = W[b][i].dead /\ D[b][Len(graph.events[b])] = states[b].dead
      BY <1>2, <2>1
  <2>3. mergeStates(W[b][i], states[b]).dead = W[b][i].dead \cap states[b].dead
      BY DEF mergeStates, MergeDead
  <2> QED
      BY <2>1, <2>2, <2>3 DEF Behind, AfterThrow
<1>4. ASSUME NEW b \in Blocks, NEW i \in 1 .. Len(graph.events[b])
      PROVE  D[b][i - 1] \subseteq DeadBefore([dead |-> Behind(D, b, i)], Event(b, i))
  <2>1. PICK s : s = AfterThrow(W[b][i], b, Event(b, i))
      OBVIOUS
  <2>2. StateOK(W[b][i]) /\ W[b][i - 1] = Before(s, Event(b, i), <<b, i>>)
      BY <1>3, <2>1 DEF Settled, IsWalk
  <2>3. StateOK(s)
      BY <1>1, <2>1, <2>2, AfterThrowFacts
  <2>4. W[b][i - 1].dead = DeadBefore(s, Event(b, i))
      BY <1>1, <2>2, <2>3, BeforeFacts
  <2>5. PICK t : t = [dead |-> Behind(D, b, i)]
      OBVIOUS
  <2>6. t.dead = s.dead
      BY <1>3, <2>1, <2>5
  <2>7. DeadBefore(t, Event(b, i)) = DeadBefore(s, Event(b, i))
      BY <2>6 DEF DeadBefore
  <2>8. D[b][i - 1] = W[b][i - 1].dead
      BY <1>2, <1>3
  <2> QED
      BY <2>4, <2>5, <2>7, <2>8
<1>5. ASSUME NEW b \in Blocks, graph.succs[b] = {}
      PROVE  D[b][Len(graph.events[b])] \subseteq Locals
    BY <1>1, <1>2, <1>5 DEF TypeOK, ExitOK
<1>6. ASSUME NEW b \in Blocks, NEW p \in Preds(b)
      PROVE  D[p][Len(graph.events[p])] \subseteq D[b][0]
  <2>1. p \in Blocks
      BY <1>1, GraphFacts
  <2>2. states[p].dead \subseteq W[b][0].dead
      BY DEF Settled, Below
  <2> QED
      BY <1>2, <2>1, <2>2
<1>7. Justified(D)
    BY <1>4, <1>5, <1>6 DEF Justified
<1>8. ASSUME NEW E, Justified(E), NEW b \in Blocks, NEW i \in 0 .. Len(graph.events[b])
      PROVE  E[b][i] \subseteq D[b][i]
  <2>1. E[b][Len(graph.events[b])] \subseteq states[b].dead
      BY <1>8 DEF NothingIsGivenUp
  <2>2. IsWalk(b, W[b])
      BY DEF Settled
  <2>3. E[b][i] \subseteq W[b][i].dead
      BY <1>1, <1>8, <2>1, <2>2, WalkGivesNothingUp
  <2> QED
      BY <1>2, <2>3
<1>9. Greatest(D)
    BY <1>7, <1>8 DEF Greatest
<1>10. ASSUME NEW b \in Blocks, NEW i \in 1 .. Len(graph.events[b]), Event(b, i).type = "def"
       PROVE  /\ <<b, i>> \in found.dead <=> Event(b, i).decl \in Behind(D, b, i)
              /\ <<b, i>> \in DOMAIN found.conflicts
              /\ found.conflicts[<<b, i>>] = Conflicts([dead |-> Behind(D, b, i)], Event(b, i))
  <2>1. PICK s : s = AfterThrow(W[b][i], b, Event(b, i))
      OBVIOUS
  <2>2. Judged(found, b, i, s)
      BY <2>1 DEF Settled, AllJudged
  <2>3. PICK t : t = [dead |-> Behind(D, b, i)]
      OBVIOUS
  <2>4. t.dead = s.dead /\ Behind(D, b, i) = s.dead
      BY <1>3, <2>1, <2>3
  <2>5. Conflicts(t, Event(b, i)) = Conflicts(s, Event(b, i))
      BY <2>4 DEF Conflicts
  <2> QED
      BY <1>10, <2>2, <2>3, <2>4, <2>5 DEF Judged
<1> QED
    BY <1>9, <1>10 DEF IsFound
=============================================================================
