-------------------------- MODULE BytecodeSharing --------------------------
(***************************************************************************)
(* `blockSharing`: blocks that go to the same places and end in the same   *)
(* instructions keep one copy of those, the target's, and the others jump  *)
(* there.  What will be shared is decided for all blocks of a group before *)
(* anything is changed; a block that is split while others still refer to  *)
(* it is, from then on, its second half if it is a target, its first half  *)
(* otherwise (`names` says where it is).                                   *)
(***************************************************************************)
EXTENDS BytecodeArrays

\* args of several parts are never the same
SameInst(a, b) == a.op = b.op /\ a.arg = b.arg /\ a.op \notin {"getlocalv", "getmv", "argcincsp"}
End(b) == b.code[Len(b.code)]
SameTry(f, b, key) ==
  IF b.try = None \/ key.try = None THEN b.try = key.try ELSE Innermost(f, b) = Innermost(f, key)
SameEnd(f, b, key) ==
  /\ IF End(b).op = End(key).op
     THEN (End(b).arg = End(key).arg /\ End(b).op \notin {"getlocalv", "getmv", "argcincsp"})
            /\ b.taken = key.taken /\ b.next = key.next
     ELSE {End(b).op, End(key).op} \subseteq CondBranches /\ b.taken = key.next /\ b.next = key.taken
  /\ SameTry(f, b, key)

\* the first block of `os`, with those that end like it
GroupOf(f, os) ==
  SelectSeq(os, LAMBDA o : o = os[1] \/ SameEnd(f, f.blocks[o], f.blocks[os[1]]))
Longer(f, o, p) == Len(f.blocks[o].code) > Len(f.blocks[p].code)
RECURSIVE LongestFirst(_, _, _)
LongestFirst(f, os, sorted) ==
  IF os = <<>> THEN sorted
  ELSE LongestFirst(f, Tail(os), InsertAt(sorted, Cardinality({i \in DOMAIN sorted : ~Longer(f, os[1], sorted[i])}) + 1,
                                          os[1]))
RECURSIVE Groups(_, _)
Groups(f, os) ==
  IF os = <<>> THEN <<>>
  ELSE Append(<<>>, LongestFirst(f, GroupOf(f, os), <<>>))
         \o Groups(f, SelectSeq(os, LAMBDA o : o \notin ToSet(GroupOf(f, os))))

-----------------------------------------------------------------------------
\* The blocks of a group whose last n instructions match (only the last ones may differ as branches do), split by the
\* one before those
At(f, o, n) == f.blocks[o].code[Len(f.blocks[o].code) - n]
Alike(f, n, o, p) ==
  /\ Len(f.blocks[o].code) > n /\ Len(f.blocks[p].code) > n
  /\ SameInst(At(f, o, n), At(f, p, n))
LikeFirst(f, n, os) == SelectSeq(os, LAMBDA o : o = os[1] \/ Alike(f, n, o, os[1]))
RECURSIVE Parts(_, _, _)
Parts(f, n, os) ==
  IF os = <<>> THEN <<>>
  ELSE <<LikeFirst(f, n, os)>> \o Parts(f, n, SelectSeq(os, LAMBDA o : o \notin ToSet(LikeFirst(f, n, os))))

\* what n instructions match: the blocks for which this is all that matches, and those that match further
Match(n, size, os, parts) ==
  LET alone == FlattenSeq(SelectSeq(parts, LAMBDA p : Len(p) = 1))
  IN  IF alone = <<>> THEN <<>>
      ELSE <<[length |-> n, size |-> size, blocks |-> alone,
              rest |-> SelectSeq(os, LAMBDA o : o \notin ToSet(alone))]>>
More(f, n, size, parts) ==
  LET several == SelectSeq(parts, LAMBDA p : Len(p) > 1)
  IN  [i \in DOMAIN several |-> [os |-> several[i], size |-> size + Size(At(f, several[i][1], n).op)]]
\* states: the groups of blocks of which n instructions match.  Longest matches first
RECURSIVE Matches(_, _, _)
Matches(f, n, states) ==
  IF states = <<>> THEN <<>>
  ELSE Matches(f, n + 1, FlattenSeq([i \in DOMAIN states |-> More(f, n, states[i].size, Parts(f, n, states[i].os))]))
         \o FlattenSeq([i \in DOMAIN states |->
                          Match(n, states[i].size, states[i].os, Parts(f, n, states[i].os))])

-----------------------------------------------------------------------------
\* All of a block is replaced, and whoever goes there may as well branch to the target
IsFree(f, o, n) == Len(f.blocks[o].code) = n /\ CountFallthroughPreds(f, o) = 0
\* not one that is free to replace, if possible; then the last one
BetterTarget(f, n, t, o) ==
  IF IsFree(f, t, n) # IsFree(f, o, n) THEN IF IsFree(f, t, n) THEN o ELSE t
  ELSE IF t < o THEN o ELSE t
BestTarget(f, n, os) == FoldUp(LAMBDA t, o : BetterTarget(f, n, t, o), os[1], os)
Target(f, m, targets) ==
  LET possible == IF m.rest = <<>> THEN m.blocks ELSE m.rest
      already == SelectSeq(possible, LAMBDA o : o \in targets)
  IN  IF already # <<>> THEN already[1] ELSE BestTarget(f, m.length, possible)

\* A jump to the target takes three bytes.  It costs nothing where there is one already
JumpCost(f, os) == IF Truthy(f.blocks[os[1]].next) THEN 0 ELSE 3
ToReplace(f, m, target, cost) ==
  IF m.size > cost THEN m.blocks ELSE SelectSeq(m.blocks, LAMBDA o : o # target /\ IsFree(f, o, m.length))
Decide(f, acc, m, cost, target) ==
  IF ToReplace(f, m, target, cost) = <<>> THEN acc
  ELSE [targets |-> acc.targets \cup {target},
        toDo |-> Append(acc.toDo, [target |-> target, length |-> m.length, blocks |-> ToReplace(f, m, target, cost)])]
Decisions(f, os, matches) ==
  FoldUp(LAMBDA acc, m : Decide(f, acc, m, JumpCost(f, os), Target(f, m, acc.targets)),
           [targets |-> {}, toDo |-> <<>>], matches).toDo

-----------------------------------------------------------------------------
\* s: the function, and where the blocks are
SplitTarget(s, t, n) ==
  LET o == s.names[t]
      code == s.f.blocks[o].code
  IN  IF Len(code) <= n THEN s
      ELSE [f |-> SplitBlock(s.f, o, Len(code) - n), names |-> [s.names EXCEPT ![t] = code[Len(code) - n + 1].at]]
ShareTail(f, o, n, to) ==
  LET code == f.blocks[o].code
      tail == code[Len(code) - n + 1].at
  IN  RemoveBlock(Redirect(SplitBlock(f, o, Len(code) - n), o, tail, to), tail)
ShareAll(f, o, to) ==
  RemoveBlock(FoldUp(LAMBDA g, p : Redirect(g, p, o, to), f, Listed(f.blocks[o].preds)), o)
ShareBlock(s, o, n, to) ==
  [s EXCEPT !.f = Changing(IF Len(@.blocks[s.names[o]].code) < n THEN Asserting(@, FALSE, "blockSharing")
                           ELSE IF Len(@.blocks[s.names[o]].code) > n THEN ShareTail(@, s.names[o], n, to)
                           ELSE ShareAll(@, s.names[o], to))]
ShareOne(s, target, o, n) == ShareBlock(SplitTarget(s, target, n), o, n, SplitTarget(s, target, n).names[target])
Share(s, do) ==
  FoldUp(LAMBDA t, o : IF o = do.target THEN t ELSE ShareOne(t, do.target, o, do.length), s, do.blocks)
ShareGroup(f, os) ==
  IF Len(os) < 2 THEN f
  ELSE FoldUp(Share, [f |-> f, names |-> [o \in Blocks(f) |-> o]],
                Decisions(f, os, Matches(f, 1, <<[os |-> os, size |-> Size(End(f.blocks[os[1]]).op)]>>))).f

\* The groups are made before anything is shared
BlockSharing(f) ==
  FoldUp(ShareGroup, f, Groups(f, SelectSeq(f.order, LAMBDA o : f.blocks[o].code # <<>>)))
=============================================================================
