---------------------------- MODULE BytecodeFlow ----------------------------
(***************************************************************************)
(* Orders, dominators and the backward analyses of a function's blocks.    *)
(*                                                                         *)
(* Three passes ask which locals are live: the removal of dead code (is    *)
(* anybody going to read it?), the minimization of locals (who is?) and    *)
(* the debug information (as what?).  They share `postOrderPropagate`;     *)
(* here what is live is a set of pairs of a local and what the pass wants  *)
(* to know of it.  Blocks are looked at in post-order, and again when      *)
(* something is added to what is live at their end.  What becomes live in  *)
(* a handler later on does not count: its `try` is not looked at again.    *)
(***************************************************************************)
EXTENDS Bytecode

RECURSIVE PostOrderFrom(_, _, _, _)
PostOrderFrom(bs, todo, seen, out) ==
  IF todo = <<>> THEN out
  ELSE PostOrderFrom(
         bs,
         IF todo[1].done \/ todo[1].o \in seen \cup {None} THEN Tail(todo)
         ELSE << [o |-> bs[todo[1].o].exsucc, done |-> FALSE], [o |-> bs[todo[1].o].taken, done |-> FALSE],
                 [o |-> bs[todo[1].o].next, done |-> FALSE], [o |-> todo[1].o, done |-> TRUE] >> \o Tail(todo),
         seen \cup {todo[1].o},
         IF todo[1].done THEN Append(out, todo[1].o) ELSE out)

\* the blocks that the entry reaches, in post-order: handler first, then the branch, then what follows
PostOrder(f) == PostOrderFrom(f.blocks, <<[o |-> f.at, done |-> FALSE]>>, {}, <<>>)
Position(order) == [o \in ToSet(order) |-> CHOOSE i \in DOMAIN order : order[i] = o]

Earliest(queue, position) == CHOOSE o \in queue : \A p \in queue : position[o] <= position[p]
Latest(queue, position) == CHOOSE o \in queue : \A p \in queue : position[o] >= position[p]

-----------------------------------------------------------------------------
\* The ends of the subroutine (`finally`) that a block calls: whatever `ret` can be reached, also from behind the call
RECURSIVE ReachNoRet(_, _, _)
ReachNoRet(bs, todo, seen) ==
  IF todo \subseteq seen THEN seen
  ELSE ReachNoRet(bs, UNION { IF LastOp(bs[o].code) = "ret" THEN {} ELSE {bs[o].next, bs[o].taken} \ {None}
                              : o \in todo \ seen }, seen \cup todo)
JsrBlocks(f) == {o \in DOMAIN f.blocks : LastOp(f.blocks[o].code) = "jsr"}
Rets(f, o) == {r \in ReachNoRet(f.blocks, {o}, {}) : LastOp(f.blocks[r].code) = "ret"}
JsrMap(f) == [o \in JsrBlocks(f) |-> Rets(f, o)]
RetSuccs(f, jsrs, o) == {f.blocks[j].next : j \in {k \in DOMAIN jsrs : o \in jsrs[k]}}

-----------------------------------------------------------------------------
\* Dominators, by `rpoPropagate` with a merge that intersects
RECURSIVE Dominate(_, _, _, _, _)
Dominate(f, position, jsrs, queue, states) ==
  IF queue = {} THEN [o \in DOMAIN states |-> states[o] \cup {o}]
  ELSE LET top == Latest(queue, position)
           out == states[top] \cup {top}
           succs == Successors(f.blocks[top]) \cup RetSuccs(f, jsrs, top)
           merged == [s \in succs |-> IF s \in DOMAIN states THEN states[s] \cap out ELSE out]
           changed == {s \in succs : s \notin DOMAIN states \/ merged[s] # states[s]}
       IN  Dominate(f, position, jsrs, (queue \ {top}) \cup changed,
                    [s \in changed |-> merged[s]] @@ states)
Dominators(f) == Dominate(f, Position(PostOrder(f)), JsrMap(f), {f.at}, (f.at :> {}))

-----------------------------------------------------------------------------
NoVar == [names |-> {}, id |-> 0, param |-> FALSE]

\* `kind` is "live", "ranges" or "names".  Only the last forgets what it knew of a local when it learns better, and
\* looks only at instructions with debug information
AddRead(kind, live, bc) ==
  CASE ReadsLocal(bc) = None -> live
    [] kind = "live" -> live \cup {<<ReadsLocal(bc), 0>>}
    [] kind = "ranges" -> live \cup {<<ReadsLocal(bc), bc.at>>}
    [] OTHER -> IF bc.var = NoVar \/ bc.op \notin {"lgetv", "getlocalv"} THEN live
                ELSE {p \in live : p[1] # ReadsLocal(bc)} \cup {<<ReadsLocal(bc), bc.var>>}
Merge(kind, from, to) ==
  IF kind = "names" THEN to \cup {p \in from : \A q \in to : q[1] # p[1]} ELSE to \cup from

\* For a store: who reads it, and who reads the locals that are live beside it
Store(live, bc, equiv) ==
  [ live |-> {p[2] : p \in {q \in live : q[1] = bc.arg}},
    conflicts |-> {p[2] : p \in {q \in live : q[1] # bc.arg /\ q[1] \notin equiv}} ]

\* One instruction, from its end to its start.  acc: what is live, the stores met
Before(kind, bc, handler, equiv, acc) ==
  LET live == IF MayThrow(bc.op) THEN Merge(kind, handler, acc.live) ELSE acc.live
  IN  IF bc.op = "lputv"
      THEN [ live |-> {p \in live : p[1] # bc.arg},
             stores |-> (bc.at :> Store(live, bc, IF bc.at \in DOMAIN equiv THEN equiv[bc.at] ELSE {})) @@ acc.stores ]
      ELSE [ acc EXCEPT !.live = AddRead(kind, live, bc) ]

LiveAt(facts, o) == IF o \in DOMAIN facts THEN facts[o] ELSE {}
Backward(kind, b, live, ins, equiv, stores) ==
  FoldDown(LAMBDA bc, acc : Before(kind, bc, LiveAt(ins, b.exsucc), equiv, acc), b.code,
            [live |-> live, stores |-> stores])

\* The blocks whose end what is live at the start of o flows to: not those that only get there by an exception, but
\* the ends of subroutines called right before o
FlowsTo(f, jsrs, o) ==
  {p \in f.blocks[o].preds : o \in {f.blocks[p].next, f.blocks[p].taken}}
    \cup UNION {jsrs[p] : p \in {q \in f.blocks[o].preds \cap DOMAIN jsrs : f.blocks[q].next = o}}

\* s: the queue, what is live at the start and at the end of each block, the stores
Visited(kind, f, jsrs, s, o, done) ==
  LET tos == FlowsTo(f, jsrs, o)
      outs == [p \in tos |-> Merge(kind, done.live, LiveAt(s.outs, p))]
      changed == {p \in tos : p \notin DOMAIN s.outs \/ outs[p] # s.outs[p]}
  IN  [ queue |-> (s.queue \ {o}) \cup changed,
        ins |-> (o :> done.live) @@ s.ins,
        outs |-> outs @@ s.outs,
        stores |-> done.stores ]

RECURSIVE Propagate(_, _, _, _, _, _)
Propagate(kind, f, position, jsrs, equiv, s) ==
  IF s.queue = {} THEN s
  ELSE Propagate(kind, f, position, jsrs, equiv,
         Visited(kind, f, jsrs, s, Earliest(s.queue, position),
                 Backward(kind, f.blocks[Earliest(s.queue, position)], LiveAt(s.outs, Earliest(s.queue, position)),
                          s.ins, equiv, s.stores)))

\* `equiv`: for stores, the other locals that then hold the same value
PostOrderPropagate(kind, f, equiv) ==
  Propagate(kind, f, Position(PostOrder(f)), JsrMap(f), equiv,
            [queue |-> ToSet(PostOrder(f)), ins |-> <<>>, outs |-> <<>>, stores |-> <<>>])
=============================================================================
