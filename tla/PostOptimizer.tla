--------------------------- MODULE PostOptimizer ---------------------------
(***************************************************************************)
(* The post-optimizer (`optimizeProgram`, `optimizeFunc`): the passes run  *)
(* one after the other, from the first again whenever one changes          *)
(* something, and when none does any more the function is written out.     *)
(* Then the device runs the function it was given and the one it got side  *)
(* by side.                                                                *)
(***************************************************************************)
EXTENDS BytecodeVM

CONSTANTS Programs,       \* [code, exns]: functions as Garmin's compiler emits them
          PostBuildPRE,   \* the option
          Arguments,      \* what a function may be called with
          Outcomes        \* how what it calls may end

VARIABLES program,        \* the function as it was
          f,              \* and as it is
          pass,           \* the next pass
          equivSets,      \* what the last interpFunc has found of stores
          out,            \* the function written out
          before, after   \* the machines that run the one and the other
vars == <<program, f, pass, equivSets, out, before, after>>

NotYet == [code |-> <<>>, exns |-> <<>>, ranges |-> <<>>, size |-> 0, broken |-> {}]
Idle == Machine(<<>>)

Init ==
  /\ program \in Programs
  /\ f = FindFunction(program.code, program.exns)
  /\ pass = "cleanCfg"
  /\ equivSets = <<>>
  /\ out = NotYet
  /\ before = Idle /\ after = Idle

\* A pass, and what comes after it.  A broken assertion ends it all
Ran(g, next) ==
  /\ f' = g
  /\ pass' = IF g.broken = {} THEN next ELSE "failed"
  /\ UNCHANGED <<program, out, before, after>>
OrAgain(g, next) == IF g.changed THEN "cleanCfg" ELSE next

Cleans ==
  /\ pass = "cleanCfg"
  /\ Ran(CleanCfg([f EXCEPT !.changed = FALSE]), "localDCE")
  /\ UNCHANGED equivSets
RemovesDead ==
  /\ pass = "localDCE"
  /\ Ran(LocalDCE(f), "simpleOpts")
  /\ UNCHANGED equivSets
Simplifies ==
  /\ pass = "simpleOpts"
  /\ Ran(SimpleOpts(f), "interpFunc")
  /\ UNCHANGED equivSets
Interprets ==
  /\ pass = "interpFunc"
  /\ \E r \in {Learn(f)} : \E g \in {FoldAndInit(f, SafeBranches(f), r)} :
       Ran(g, OrAgain(g, "blockSharing")) /\ equivSets' = r.same
SharesBlocks ==
  /\ pass = "blockSharing"
  /\ \E g \in {BlockSharing(f)} :
       Ran(g, OrAgain(g, IF PostBuildPRE THEN "sizeBasedPRE" ELSE "minimizeLocals"))
  /\ UNCHANGED equivSets
KeepsLiterals ==
  /\ pass = "sizeBasedPRE"
  /\ \E g \in {SizeBasedPRE(f)} : Ran(g, OrAgain(g, "minimizeLocals"))
  /\ UNCHANGED equivSets
MinimizesLocals ==
  /\ pass = "minimizeLocals"
  /\ \E g \in {MinimizeLocals(f, equivSets)} : Ran(g, OrAgain(g, "emitFunc"))
  /\ UNCHANGED equivSets

Emits ==
  /\ pass = "emitFunc"
  /\ \E g \in {CleanCfg(f)} : \E o \in {EmitFunc(g)} :
       /\ f' = [g EXCEPT !.broken = @ \cup o.broken]
       /\ out' = o
       /\ pass' = IF f'.broken = {} THEN "emitted" ELSE "failed"
  /\ UNCHANGED <<program, equivSets, before, after>>
Optimizes ==
  Cleans \/ RemovesDead \/ Simplifies \/ Interprets \/ SharesBlocks \/ KeepsLiterals \/ MinimizesLocals \/ Emits

-----------------------------------------------------------------------------
Old == Loaded(program.code, program.exns)
New1 == Loaded(out.code, out.exns)
Begins ==
  /\ pass = "emitted"
  /\ \E args \in Arguments :
       /\ before' = RunVM(Old, Start(Old, args), Fuel)
       /\ after' = RunVM(New1, Start(New1, args), Fuel)
  /\ pass' = "running"
  /\ UNCHANGED <<program, f, equivSets, out>>
\* what is called does the same for both
Continues ==
  /\ pass = "running"
  /\ before.event[1] \in {"calls", "puts"} /\ after.event = before.event
  /\ \E outcome \in Outcomes :
       /\ before.event[1] = "puts" => outcome[1] = "returns"
       /\ before' = RunVM(Old, Resume(Old, before, outcome), Fuel)
       /\ after' = RunVM(New1, Resume(New1, after, outcome), Fuel)
  /\ UNCHANGED <<program, f, pass, equivSets, out>>

Next == Optimizes \/ Begins \/ Continues
Passes == {"cleanCfg", "localDCE", "simpleOpts", "interpFunc", "blockSharing", "sizeBasedPRE", "minimizeLocals",
           "emitFunc", "emitted", "running", "failed"}
\* Every pass comes to an end
Spec == Init /\ [][Next]_vars /\ WF_pass(pass \notin {"running", "failed"} /\ pass' \in Passes /\ pass' # pass)

-----------------------------------------------------------------------------
\* Nobody can tell the optimized function from the original: it makes the same calls with the same arguments, the same
\* stores to members, and returns or throws the same, whatever it is called with and whatever it calls does.  (And the
\* original does none of what makes the device give up, so there is something to be the same as)
SameBehaviour ==
  /\ before.event = after.event
  /\ pass = "running" => before.event[1] \notin {"stuck", "spins"}
\* After every pass each block is in the order once, and what a block has as predecessors are the blocks that have it as
\* a successor: they decide what may be merged, copied, turned, split and removed
GraphInOrder ==
  /\ pass \in Passes
  /\ ToSet(f.order) = Blocks(f) /\ Len(f.order) = Cardinality(Blocks(f))
  /\ \A o \in Blocks(f) : Successors(f.blocks[o]) \subseteq Blocks(f) /\ f.blocks[o].preds \subseteq Blocks(f)
  /\ \A o, p \in Blocks(f) : p \in f.blocks[o].preds <=> o \in Successors(f.blocks[p])
\* What is written out is no longer than what was read
NoLonger == pass \in {"emitted", "running"} => out.size <= SizeOf(program.code)
\* The debugger finds a local that has a name in the source wherever it is read: there is one range of its slot, and
\* only one.  (Where two locals hold the same value in one slot it may have the name of either)
LocalsFound ==
  pass \in {"emitted", "running"} =>
    \A bc \in ToSet(out.code) :
      bc.op = "lgetv" /\ bc.var # NoVar =>
        Cardinality({i \in DOMAIN out.ranges : out.ranges[i].slot = bc.arg /\ out.ranges[i].start <= bc.at
                                               /\ bc.at <= out.ranges[i].end}) = 1
\* The passes do not undo each other for ever, and none of their assertions fails (that would be the last thing they do)
EventuallyEmitted == <>(pass \in {"emitted", "running"})
=============================================================================
