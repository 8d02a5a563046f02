---------------------------- MODULE AnalysesProofs ----------------------------
(***************************************************************************)
(* Proofs about Dominators and LoopSearch on the functions that            *)
(* CminusfBuilder builds, of any size and any nesting, and on any given    *)
(* function: the invariant of the builder gives the passes the function    *)
(* they rely on, and that of a pass says what it makes of it.              *)
(***************************************************************************)
EXTENDS Analyses, SequenceTheorems, TLAPS

BuilderP == INSTANCE CfgBuilderProofs
DomP == INSTANCE DominatorsProofs WITH MaxBlock <- MaxBlocks
LoopP == INSTANCE LoopSearchProofs WITH MaxBlock <- MaxBlocks, pc <- loop_pc

-------------------------------------------------------------------------------
(* The modules that are composed, and those that hold proofs about them *)

\* The visits are steps of CfgBuilder, as the proofs about it know them.
LEMMA SameVisits == Visit => BuilderP!Next
<1>1. Builder!VisitFunctionBody => BuilderP!VisitFunctionBody
  BY DEF Builder!VisitFunctionBody, BuilderP!VisitFunctionBody, Builder!In, BuilderP!In,
         Builder!Top, BuilderP!Top, Builder!Return, BuilderP!Return, Builder!Last,
         BuilderP!Last, Builder!Front, BuilderP!Front, Builder!Compound, BuilderP!Compound,
         Builder!Function, BuilderP!Function, Builder!EnterCompound, BuilderP!EnterCompound,
         Builder!blocks, BuilderP!blocks
<1>2. Builder!VisitCompound => BuilderP!VisitCompound
  BY DEF Builder!VisitCompound, BuilderP!VisitCompound, Builder!In, BuilderP!In, Builder!Top,
         BuilderP!Top, Builder!Return, BuilderP!Return, Builder!Last, BuilderP!Last,
         Builder!Front, BuilderP!Front, Builder!Compound, BuilderP!Compound,
         Builder!EnterCompound, BuilderP!EnterCompound, Builder!blocks, BuilderP!blocks
<1>3. Builder!NextStatement => BuilderP!NextStatement
  BY DEF Builder!NextStatement, BuilderP!NextStatement, Builder!In, BuilderP!In, Builder!Top,
         BuilderP!Top, Builder!Return, BuilderP!Return, Builder!Last, BuilderP!Last,
         Builder!Front, BuilderP!Front, Builder!Compound, BuilderP!Compound, Builder!Statement,
         BuilderP!Statement, Builder!Terminated, BuilderP!Terminated, Builder!blocks,
         BuilderP!blocks
<1>4. Builder!EndCompound => BuilderP!EndCompound
  BY DEF Builder!EndCompound, BuilderP!EndCompound, Builder!In, BuilderP!In, Builder!Top,
         BuilderP!Top, Builder!Return, BuilderP!Return, Builder!Last, BuilderP!Last,
         Builder!Front, BuilderP!Front, Builder!blocks, BuilderP!blocks
<1>5. ASSUME NEW else \in BOOLEAN
      PROVE  Builder!VisitSelection(else) => BuilderP!VisitSelection(else)
  BY DEF Builder!VisitSelection, BuilderP!VisitSelection, Builder!In, BuilderP!In,
         Builder!Return, BuilderP!Return, Builder!Last, BuilderP!Last, Builder!Front,
         BuilderP!Front, Builder!Condition, BuilderP!Condition, Builder!blocks, BuilderP!blocks
<1>6. Builder!BeginThen => BuilderP!BeginThen
  BY DEF Builder!BeginThen, BuilderP!BeginThen, Builder!In, BuilderP!In, Builder!Top,
         BuilderP!Top, Builder!Return, BuilderP!Return, Builder!Last, BuilderP!Last,
         Builder!Front, BuilderP!Front, Builder!Then, BuilderP!Then, Builder!Statement,
         BuilderP!Statement, Builder!CreateBlocks, BuilderP!CreateBlocks, Builder!Branch,
         BuilderP!Branch, Builder!Emitted, BuilderP!Emitted, Builder!Plain, BuilderP!Plain,
         Builder!CondBr, BuilderP!CondBr, Builder!SuccAfter, BuilderP!SuccAfter,
         Builder!PreAfter, BuilderP!PreAfter, Builder!Reverse, BuilderP!Reverse, Builder!ToSet,
         BuilderP!ToSet, Builder!Block, BuilderP!Block
<1>7. Builder!EndThenWithoutElse => BuilderP!EndThenWithoutElse
  BY DEF Builder!EndThenWithoutElse, BuilderP!EndThenWithoutElse, Builder!In, BuilderP!In,
         Builder!Top, BuilderP!Top, Builder!Return, BuilderP!Return, Builder!Last,
         BuilderP!Last, Builder!Front, BuilderP!Front, Builder!Terminated, BuilderP!Terminated,
         Builder!Emitted, BuilderP!Emitted, Builder!Plain, BuilderP!Plain, Builder!Br,
         BuilderP!Br, Builder!SuccAfter, BuilderP!SuccAfter, Builder!PreAfter,
         BuilderP!PreAfter, Builder!Reverse, BuilderP!Reverse, Builder!ToSet, BuilderP!ToSet,
         Builder!Block, BuilderP!Block, Builder!RemoveFirst, BuilderP!RemoveFirst,
         Builder!RemoveAt, BuilderP!RemoveAt, Builder!SelectInSeq, BuilderP!SelectInSeq,
         Builder!Min, BuilderP!Min
<1>8. Builder!EndThenBeginElse => BuilderP!EndThenBeginElse
  BY DEF Builder!EndThenBeginElse, BuilderP!EndThenBeginElse, Builder!In, BuilderP!In,
         Builder!Top, BuilderP!Top, Builder!Return, BuilderP!Return, Builder!Last,
         BuilderP!Last, Builder!Front, BuilderP!Front, Builder!Else, BuilderP!Else,
         Builder!Statement, BuilderP!Statement, Builder!BranchUnlessTerminated,
         BuilderP!BranchUnlessTerminated, Builder!Branch, BuilderP!Branch, Builder!Terminated,
         BuilderP!Terminated, Builder!Emitted, BuilderP!Emitted, Builder!Plain, BuilderP!Plain,
         Builder!Br, BuilderP!Br, Builder!SuccAfter, BuilderP!SuccAfter, Builder!PreAfter,
         BuilderP!PreAfter, Builder!Reverse, BuilderP!Reverse, Builder!ToSet, BuilderP!ToSet,
         Builder!Block, BuilderP!Block
<1>9. Builder!EndElse => BuilderP!EndElse
  BY DEF Builder!EndElse, BuilderP!EndElse, Builder!In, BuilderP!In, Builder!Top, BuilderP!Top,
         Builder!Return, BuilderP!Return, Builder!Last, BuilderP!Last, Builder!Front,
         BuilderP!Front, Builder!BranchUnlessTerminated, BuilderP!BranchUnlessTerminated,
         Builder!Branch, BuilderP!Branch, Builder!Terminated, BuilderP!Terminated,
         Builder!Emitted, BuilderP!Emitted, Builder!Plain, BuilderP!Plain, Builder!Br,
         BuilderP!Br, Builder!SuccAfter, BuilderP!SuccAfter, Builder!PreAfter,
         BuilderP!PreAfter, Builder!Reverse, BuilderP!Reverse, Builder!ToSet, BuilderP!ToSet,
         Builder!Block, BuilderP!Block
<1>10. Builder!VisitIteration => BuilderP!VisitIteration
  BY DEF Builder!VisitIteration, BuilderP!VisitIteration, Builder!In, BuilderP!In,
         Builder!Return, BuilderP!Return, Builder!Last, BuilderP!Last, Builder!Front,
         BuilderP!Front, Builder!LoopCondition, BuilderP!LoopCondition, Builder!CreateBlocks,
         BuilderP!CreateBlocks, Builder!BranchUnlessTerminated,
         BuilderP!BranchUnlessTerminated, Builder!Branch, BuilderP!Branch, Builder!Terminated,
         BuilderP!Terminated, Builder!Emitted, BuilderP!Emitted, Builder!Plain, BuilderP!Plain,
         Builder!Br, BuilderP!Br, Builder!SuccAfter, BuilderP!SuccAfter, Builder!PreAfter,
         BuilderP!PreAfter, Builder!Reverse, BuilderP!Reverse, Builder!ToSet, BuilderP!ToSet,
         Builder!Block, BuilderP!Block
<1>11. Builder!BeginBody => BuilderP!BeginBody
  BY DEF Builder!BeginBody, BuilderP!BeginBody, Builder!In, BuilderP!In, Builder!Top,
         BuilderP!Top, Builder!Return, BuilderP!Return, Builder!Last, BuilderP!Last,
         Builder!Front, BuilderP!Front, Builder!Body, BuilderP!Body, Builder!Statement,
         BuilderP!Statement, Builder!CreateBlocks, BuilderP!CreateBlocks, Builder!Branch,
         BuilderP!Branch, Builder!Emitted, BuilderP!Emitted, Builder!Plain, BuilderP!Plain,
         Builder!CondBr, BuilderP!CondBr, Builder!SuccAfter, BuilderP!SuccAfter,
         Builder!PreAfter, BuilderP!PreAfter, Builder!Reverse, BuilderP!Reverse, Builder!ToSet,
         BuilderP!ToSet, Builder!Block, BuilderP!Block
<1>12. Builder!EndBody => BuilderP!EndBody
  BY DEF Builder!EndBody, BuilderP!EndBody, Builder!In, BuilderP!In, Builder!Top, BuilderP!Top,
         Builder!Return, BuilderP!Return, Builder!Last, BuilderP!Last, Builder!Front,
         BuilderP!Front, Builder!BranchUnlessTerminated, BuilderP!BranchUnlessTerminated,
         Builder!Branch, BuilderP!Branch, Builder!Terminated, BuilderP!Terminated,
         Builder!Emitted, BuilderP!Emitted, Builder!Plain, BuilderP!Plain, Builder!Br,
         BuilderP!Br, Builder!SuccAfter, BuilderP!SuccAfter, Builder!PreAfter,
         BuilderP!PreAfter, Builder!Reverse, BuilderP!Reverse, Builder!ToSet, BuilderP!ToSet,
         Builder!Block, BuilderP!Block
<1>13. Builder!VisitExpressionStmt => BuilderP!VisitExpressionStmt
  BY DEF Builder!VisitExpressionStmt, BuilderP!VisitExpressionStmt, Builder!In, BuilderP!In,
         Builder!Return, BuilderP!Return, Builder!Last, BuilderP!Last, Builder!Front,
         BuilderP!Front, Builder!Expression, BuilderP!Expression, Builder!blocks,
         BuilderP!blocks
<1>14. Builder!EndExpression => BuilderP!EndExpression
  BY DEF Builder!EndExpression, BuilderP!EndExpression, Builder!In, BuilderP!In,
         Builder!Return, BuilderP!Return, Builder!Last, BuilderP!Last, Builder!Front,
         BuilderP!Front, Builder!blocks, BuilderP!blocks
<1>15. Builder!VisitVoidReturn => BuilderP!VisitVoidReturn
  BY DEF Builder!VisitVoidReturn, BuilderP!VisitVoidReturn, Builder!In, BuilderP!In,
         Builder!Return, BuilderP!Return, Builder!Last, BuilderP!Last, Builder!Front,
         BuilderP!Front, Builder!Emitted, BuilderP!Emitted, Builder!Plain, BuilderP!Plain,
         Builder!Ret, BuilderP!Ret
<1>16. Builder!EndFunction => BuilderP!EndFunction
  BY DEF Builder!EndFunction, BuilderP!EndFunction, Builder!In, BuilderP!In, Builder!Top,
         BuilderP!Top, Builder!Return, BuilderP!Return, Builder!Last, BuilderP!Last,
         Builder!Front, BuilderP!Front, Builder!Terminated, BuilderP!Terminated,
         Builder!Emitted, BuilderP!Emitted, Builder!Plain, BuilderP!Plain, Builder!Ret,
         BuilderP!Ret
<1> QED BY <1>1, <1>2, <1>3, <1>4, <1>5, <1>6, <1>7, <1>8, <1>9, <1>10, <1>11, <1>12, <1>13,
           <1>14, <1>15, <1>16 DEF Visit, BuilderP!Next

\* The same of the steps of Dominators,
LEMMA SameSteps == Dom!Next <=> DomP!Next
<1>1. Dom!VisitSuccessor <=> DomP!VisitSuccessor
  BY DEF Dom!VisitSuccessor, DomP!VisitSuccessor, Dom!function, DomP!function, Dom!iteration,
         DomP!iteration, Dom!results, DomP!results, Dom!Last, DomP!Last, Dom!Front, DomP!Front
<1>2. Dom!LeaveBlock <=> DomP!LeaveBlock
  BY DEF Dom!LeaveBlock, DomP!LeaveBlock, Dom!function, DomP!function, Dom!iteration,
         DomP!iteration, Dom!results, DomP!results, Dom!Last, DomP!Last, Dom!Front, DomP!Front
<1>3. Dom!ReverseOrder <=> DomP!ReverseOrder
  BY DEF Dom!ReverseOrder, DomP!ReverseOrder, Dom!function, DomP!function, Dom!results,
         DomP!results, Dom!Reverse, DomP!Reverse, Dom!Pointer, DomP!Pointer, Dom!BB, DomP!BB,
         Dom!root, DomP!root, Dom!nullptr, DomP!nullptr
<1>4. Dom!Round <=> DomP!Round
  BY DEF Dom!Round, DomP!Round, Dom!function, DomP!function, Dom!order, DomP!order,
         Dom!results, DomP!results
<1>5. Dom!EndRound <=> DomP!EndRound
  BY DEF Dom!EndRound, DomP!EndRound, Dom!function, DomP!function, Dom!order, DomP!order,
         Dom!iteration, DomP!iteration, Dom!results, DomP!results
<1>6. Dom!SkipRoot <=> DomP!SkipRoot
  BY DEF Dom!SkipRoot, DomP!SkipRoot, Dom!function, DomP!function, Dom!order, DomP!order,
         Dom!iteration, DomP!iteration, Dom!results, DomP!results, Dom!bb, DomP!bb, Dom!root,
         DomP!root
<1>7. Dom!ChoosePred <=> DomP!ChoosePred
  BY DEF Dom!ChoosePred, DomP!ChoosePred, Dom!function, DomP!function, Dom!order, DomP!order,
         Dom!results, DomP!results, Dom!bb, DomP!bb, Dom!root, DomP!root, Dom!Known,
         DomP!Known, Dom!First, DomP!First, Dom!nullptr, DomP!nullptr
<1>8. Dom!NextPred <=> DomP!NextPred
  BY DEF Dom!NextPred, DomP!NextPred, Dom!function, DomP!function, Dom!order, DomP!order,
         Dom!results, DomP!results, Dom!bb, DomP!bb, Dom!Known, DomP!Known, Dom!First,
         DomP!First, Dom!nullptr, DomP!nullptr
<1>9. \A b : Dom!Climb(b) <=> DomP!Climb(b)
  BY DEF Dom!Climb, DomP!Climb, Dom!function, DomP!function, Dom!order, DomP!order,
         Dom!results, DomP!results, Dom!nullptr, DomP!nullptr
<1>10. Dom!Met <=> DomP!Met
  BY DEF Dom!Met, DomP!Met, Dom!function, DomP!function, Dom!order, DomP!order, Dom!results,
         DomP!results
<1>11. Dom!SetIdom <=> DomP!SetIdom
  BY DEF Dom!SetIdom, DomP!SetIdom, Dom!function, DomP!function, Dom!order, DomP!order,
         Dom!results, DomP!results, Dom!bb, DomP!bb
<1>12. Dom!NextJoin <=> DomP!NextJoin
  BY DEF Dom!NextJoin, DomP!NextJoin, Dom!function, DomP!function, Dom!order, DomP!order,
         Dom!iteration, DomP!iteration
<1>13. Dom!Walk <=> DomP!Walk
  BY DEF Dom!Walk, DomP!Walk, Dom!function, DomP!function, Dom!order, DomP!order,
         Dom!iteration, DomP!iteration
<1>14. Dom!EndWalk <=> DomP!EndWalk
  BY DEF Dom!EndWalk, DomP!EndWalk, Dom!function, DomP!function, Dom!order, DomP!order,
         Dom!iteration, DomP!iteration
<1>15. Dom!BuildTree <=> DomP!BuildTree
  BY DEF Dom!BuildTree, DomP!BuildTree, Dom!function, DomP!function, Dom!order, DomP!order,
         Dom!iteration, DomP!iteration, Dom!Pointer, DomP!Pointer, Dom!BB, DomP!BB,
         Dom!nullptr, DomP!nullptr, Dom!ToSet, DomP!ToSet
<1> QED BY <1>1, <1>2, <1>3, <1>4, <1>5, <1>6, <1>7, <1>8, <1>9, <1>10, <1>11, <1>12, <1>13,
           <1>14, <1>15 DEF Dom!Next, DomP!Next, Dom!BB, DomP!BB

\* of its variables and its start,
LEMMA SameStart == (Dom!Start <=> DomP!Start) /\ Dom!vars = DomP!vars
BY DEF Dom!Start, DomP!Start, Dom!StartSearch, DomP!StartSearch, Dom!Pointer, DomP!Pointer,
       Dom!BB, DomP!BB, Dom!root, DomP!root, Dom!nullptr, DomP!nullptr, Dom!vars, DomP!vars,
       Dom!function, DomP!function, Dom!order, DomP!order, Dom!iteration, DomP!iteration,
       Dom!results, DomP!results

\* and of what it promises.
LEMMA SameResults ==
  /\ Dom!TypeOK <=> DomP!TypeOK
  /\ Dom!NoAssertionFails <=> DomP!NoAssertionFails
  /\ Dom!OrderFollowsEdges <=> DomP!OrderFollowsEdges
  /\ Dom!IdomCorrect <=> DomP!IdomCorrect
  /\ Dom!FrontierCorrect <=> DomP!FrontierCorrect
  /\ Dom!TreeCoversReachable <=> DomP!TreeCoversReachable
<1>0. \A S : Dom!Cardinality(S) = DomP!Cardinality(S)
  BY DEF Dom!Cardinality, DomP!Cardinality, Dom!IsFiniteSet, DomP!IsFiniteSet
<1>1. \A S, N, E : Dom!ReachableFrom(S, N, E) = DomP!ReachableFrom(S, N, E)
  BY <1>0 DEF Dom!ReachableFrom, DomP!ReachableFrom
<1>2. \A d, n, N, E : Dom!DominatedBy(d, n, N, E) = DomP!DominatedBy(d, n, N, E)
  BY <1>1 DEF Dom!DominatedBy, DomP!DominatedBy
<1>3. \A n, N, E : Dom!Dominance(n, N, E) = DomP!Dominance(n, N, E)
  BY <1>1, <1>2 DEF Dom!Dominance, DomP!Dominance
<1>4. \A n, N, E : Dom!IdomPairs(n, N, E) = DomP!IdomPairs(n, N, E)
  BY <1>3 DEF Dom!IdomPairs, DomP!IdomPairs
<1>5. \A b, n, N, E : Dom!Frontier(b, n, N, E) = DomP!Frontier(b, n, N, E)
  BY <1>2 DEF Dom!Frontier, DomP!Frontier
<1>6. /\ Dom!BB = DomP!BB /\ Dom!root = DomP!root /\ Dom!nullptr = DomP!nullptr
      /\ Dom!Pointer = DomP!Pointer
  BY DEF Dom!BB, DomP!BB, Dom!root, DomP!root, Dom!nullptr, DomP!nullptr, Dom!Pointer, DomP!Pointer
<1>7. \A s : Dom!ToSet(s) = DomP!ToSet(s) /\ (Dom!IsInjective(s) <=> DomP!IsInjective(s))
  BY DEF Dom!ToSet, DomP!ToSet, Dom!IsInjective, DomP!IsInjective
<1>8. Dom!Nodes = DomP!Nodes /\ Dom!Edges = DomP!Edges
  BY <1>6, <1>7 DEF Dom!Nodes, DomP!Nodes, Dom!Edges, DomP!Edges
<1>9. Dom!Reachable = DomP!Reachable
  BY <1>1, <1>6, <1>8 DEF Dom!Reachable, DomP!Reachable
<1>10. Dom!TypeOK <=> DomP!TypeOK
  BY <1>6, <1>7 DEF Dom!TypeOK, DomP!TypeOK
<1>11. Dom!NoAssertionFails <=> DomP!NoAssertionFails
  BY DEF Dom!NoAssertionFails, DomP!NoAssertionFails
<1>12. Dom!OrderFollowsEdges <=> DomP!OrderFollowsEdges
  BY <1>6, <1>7, <1>8, <1>9 DEF Dom!OrderFollowsEdges, DomP!OrderFollowsEdges
<1>13. Dom!IdomCorrect <=> DomP!IdomCorrect
  BY <1>4, <1>6, <1>8, <1>9 DEF Dom!IdomCorrect, DomP!IdomCorrect
<1>14. Dom!FrontierCorrect <=> DomP!FrontierCorrect
  BY <1>5, <1>6, <1>8, <1>9 DEF Dom!FrontierCorrect, DomP!FrontierCorrect
<1>15. Dom!TreeCoversReachable <=> DomP!TreeCoversReachable
  BY <1>0, <1>1, <1>6, <1>8, <1>9 DEF Dom!TreeCoversReachable, DomP!TreeCoversReachable
<1> QED BY <1>10, <1>11, <1>12, <1>13, <1>14, <1>15

\* The same of LoopSearch.
LEMMA SameLoopSteps == Loop!Next <=> LoopP!Next
<1>1. \A b : Loop!StartFrom(b) <=> LoopP!StartFrom(b)
  BY DEF Loop!StartFrom, LoopP!StartFrom, Loop!function, LoopP!function, Loop!graph,
         LoopP!graph, Loop!found, LoopP!found, Loop!Call, LoopP!Call, Loop!None, LoopP!None,
         Loop!BB, LoopP!BB
<1>2. \A b : Loop!VisitSuccessor(b) <=> LoopP!VisitSuccessor(b)
  BY DEF Loop!VisitSuccessor, LoopP!VisitSuccessor, Loop!function, LoopP!function, Loop!graph,
         LoopP!graph, Loop!found, LoopP!found, Loop!Call, LoopP!Call, Loop!None, LoopP!None,
         Loop!Last, LoopP!Last, Loop!Front, LoopP!Front, Loop!Least, LoopP!Least, Loop!BB,
         LoopP!BB
<1>3. Loop!Leave <=> LoopP!Leave
  BY DEF Loop!Leave, LoopP!Leave, Loop!function, LoopP!function, Loop!graph, LoopP!graph,
         Loop!found, LoopP!found, Loop!Last, LoopP!Last, Loop!Front, LoopP!Front, Loop!Least,
         LoopP!Least, Loop!BB, LoopP!BB
<1>4. Loop!EndSearch <=> LoopP!EndSearch
  BY DEF Loop!EndSearch, LoopP!EndSearch, Loop!function, LoopP!function, Loop!graph,
         LoopP!graph, Loop!tarjan, LoopP!tarjan, Loop!found, LoopP!found, Loop!None,
         LoopP!None, Loop!BB, LoopP!BB
<1>5. Loop!NextRound <=> LoopP!NextRound
  BY DEF Loop!NextRound, LoopP!NextRound, Loop!function, LoopP!function, Loop!graph,
         LoopP!graph, Loop!found, LoopP!found, Loop!None, LoopP!None, Loop!BB, LoopP!BB
<1>6. \A b : Loop!TakeComponent(b) <=> LoopP!TakeComponent(b)
  BY DEF Loop!TakeComponent, LoopP!TakeComponent, Loop!function, LoopP!function, Loop!graph,
         LoopP!graph, Loop!tarjan, LoopP!tarjan, Loop!found, LoopP!found, Loop!Bases,
         LoopP!Bases, Loop!KeepLoop, LoopP!KeepLoop, Loop!RemoveBase, LoopP!RemoveBase,
         Loop!BB, LoopP!BB
<1> QED BY <1>1, <1>2, <1>3, <1>4, <1>5, <1>6 DEF Loop!Next, LoopP!Next, Loop!BB, LoopP!BB

\* What LoopSearch is before it starts, and its typing, are the same in both instances.
LEMMA SameLoop == (Loop!Idle <=> LoopP!Idle) /\ (Loop!TypeOK <=> LoopP!TypeOK)
BY DEF Loop!Idle, LoopP!Idle, Loop!TypeOK, LoopP!TypeOK, Loop!BB, LoopP!BB, Loop!None,
       LoopP!None, Loop!Nodes, LoopP!Nodes, Loop!ToSet, LoopP!ToSet, Loop!Cardinality,
       LoopP!Cardinality, Loop!IsFiniteSet, LoopP!IsFiniteSet

-------------------------------------------------------------------------------
(* The invariant *)

\* A function of the builder, finished or not, and a given one.
Made == BuilderP!PInv /\ BuilderP!EInv /\ BuilderP!Entry \in BuilderP!ToSet(listed)
Given == stack = << >> /\ DomP!Sound

AInv ==
  /\ Made \/ Given
  /\ pass \in {"CminusfBuilder", "Dominators", "LoopSearch"}
  /\ IF pass = "Dominators" THEN DomP!DInv ELSE DomP!Start
  /\ IF pass = "LoopSearch" THEN LoopP!LInv ELSE LoopP!Idle

\* The bounds of CfgBuilder.
LEMMA BuilderBounds == BuilderP!BoundsNat
BY BoundsNat

\* The functions the builder makes and the given ones are as the pass expects them.
LEMMA SoundFunction ==
  ASSUME Made \/ Given
  PROVE  DomP!Sound
<1>1. CASE Given
  BY <1>1 DEF Given
<1>2. CASE Made
  <2>1. /\ BuilderP!PInv /\ BuilderP!EInv /\ BuilderP!Entry \in BuilderP!ToSet(listed)
    BY <1>2 DEF Made
  <2>2. /\ listed \in Seq(BuilderP!Block) /\ BuilderP!Once(listed)
        /\ pre \in [BuilderP!Block -> Seq(BuilderP!Block)]
        /\ succ \in [BuilderP!Block -> Seq(BuilderP!Block)]
        /\ \A b \in BuilderP!Block : BuilderP!Once(pre[b])
        /\ \A b, c \in BuilderP!Block :
             /\ c \in BuilderP!ToSet(succ[b]) <=> b \in BuilderP!ToSet(pre[c])
             /\ c \in BuilderP!ToSet(succ[b])
                  => b \in BuilderP!ToSet(listed) /\ c \in BuilderP!ToSet(listed)
    BY <2>1, BuilderBounds, BuilderP!GivenToPasses DEF BuilderP!FunctionMade
  <2>3. BuilderP!Block = DomP!BB /\ BuilderP!Entry = DomP!root
    BY DEF BuilderP!Block, DomP!BB, BuilderP!Entry, DomP!root
  <2>4. /\ \A s : BuilderP!ToSet(s) = DomP!ToSet(s)
        /\ \A s : BuilderP!Once(s) <=> DomP!IsInjective(s)
    BY DEF BuilderP!ToSet, DomP!ToSet, BuilderP!Once, DomP!IsInjective
  <2>5. pre[DomP!root] = << >>
    BY <2>1, <2>3 DEF BuilderP!EInv
  <2> QED BY <2>1, <2>2, <2>3, <2>4, <2>5, BoundsNat DEF DomP!Sound, DomP!Nodes
<1> QED BY <1>1, <1>2

\* LoopSearch relies on less.
LEMMA SoundForLoops ==
  ASSUME Made \/ Given
  PROVE  LoopP!Given
<1>1. DomP!Sound
  BY SoundFunction
<1>2. LoopP!BB = DomP!BB /\ LoopP!BB = 1 .. MaxBlocks
  BY DEF LoopP!BB, DomP!BB
<1>3. \A s : LoopP!ToSet(s) = DomP!ToSet(s)
  BY DEF LoopP!ToSet, DomP!ToSet
<1>4. \A S \in SUBSET LoopP!BB : Order(S) \subseteq S
  BY <1>2, OrderIsOfSet
<1>5. ASSUME NEW b \in DomP!BB
      PROVE  DomP!ToSet(pre[b]) \cup DomP!ToSet(succ[b]) \subseteq DomP!ToSet(listed)
  <2>1. pre[b] \in Seq(DomP!BB) /\ succ[b] \in Seq(DomP!BB)
    BY <1>1 DEF DomP!Sound
  <2>2. DomP!ToSet(pre[b]) \subseteq DomP!BB /\ DomP!ToSet(succ[b]) \subseteq DomP!BB
    BY <2>1, ElementOfSeq, LenProperties DEF DomP!ToSet
  <2>3. \A c \in DomP!BB : /\ c \in DomP!ToSet(pre[b]) <=> b \in DomP!ToSet(succ[c])
                           /\ c \in DomP!ToSet(succ[b]) => c \in DomP!ToSet(listed)
                           /\ b \in DomP!ToSet(succ[c]) => c \in DomP!ToSet(listed)
    BY <1>1 DEF DomP!Sound, DomP!Nodes
  <2> QED BY <2>2, <2>3
<1>6. \A b \in LoopP!BB :
        LoopP!ToSet(pre[b]) \cup LoopP!ToSet(succ[b]) \subseteq LoopP!ToSet(listed)
  BY <1>2, <1>3, <1>5
<1>7. /\ MaxBlocks \in Nat \ {0} /\ listed \in Seq(LoopP!BB)
      /\ pre \in [LoopP!BB -> Seq(LoopP!BB)] /\ succ \in [LoopP!BB -> Seq(LoopP!BB)]
  BY <1>1, <1>2, BoundsNat DEF DomP!Sound
<1> QED BY <1>4, <1>6, <1>7 DEF LoopP!Given

\* At first the builder or the given function is all there is: both passes are idle.
LEMMA Initially == Init => AInv
<1> SUFFICES ASSUME Init PROVE AInv
  OBVIOUS
<1>1. pass = "CminusfBuilder" /\ DomP!Start /\ LoopP!Idle
  BY SameStart, SameLoop DEF Init
<1>2. CASE Builder!Init
  <2>1. BuilderP!Init
    BY <1>2 DEF Builder!Init, BuilderP!Init, Builder!Block, BuilderP!Block, Builder!Entry,
                BuilderP!Entry, Builder!Plain, BuilderP!Plain, Builder!Function,
                BuilderP!Function
  <2>2. BuilderP!PInv /\ BuilderP!EInv
    BY <2>1, BuilderBounds, BuilderP!Initially, BuilderP!EdgesInitially
  <2>3. listed = <<1>>
    BY <2>1 DEF BuilderP!Init, BuilderP!Entry
  <2>4. BuilderP!Entry \in BuilderP!ToSet(listed)
    BY <2>3 DEF BuilderP!Entry, BuilderP!ToSet
  <2> QED BY <1>1, <2>2, <2>4 DEF AInv, Made
<1>3. CASE ~ Builder!Init
  <2>1. PICK g \in Graphs : listed = g.listed /\ pre = g.pre /\ succ = g.succ
    BY <1>3 DEF Init
  <2>2. IsFunction(g) /\ stack = << >>
    BY <1>3, GraphsAreFunctions DEF Init
  <2>3. /\ \A s : ToSet(s) = DomP!ToSet(s)
        /\ \A s : IsInjective(s) <=> DomP!IsInjective(s)
    BY DEF ToSet, DomP!ToSet, IsInjective, DomP!IsInjective
  <2>4. DomP!BB = 1 .. MaxBlocks /\ DomP!root = 1
    BY DEF DomP!BB, DomP!root
  <2>5. DomP!Sound
    BY <2>1, <2>2, <2>3, <2>4, BoundsNat DEF IsFunction, DomP!Sound, DomP!Nodes
  <2> QED BY <1>1, <2>2, <2>5 DEF AInv, Given
<1> QED BY <1>2, <1>3

-------------------------------------------------------------------------------
(* Steps *)

\* A visit goes on with a function that is not finished.
LEMMA VisitMakes ==
  ASSUME Made \/ Given, Visit
  PROVE  Made'
<1>1. BuilderP!Next
  BY SameVisits
<1>2. CASE Made
  <2>1. BuilderP!PInv /\ BuilderP!EInv /\ BuilderP!Entry \in BuilderP!ToSet(listed)
    BY <1>2 DEF Made
  <2>2. BuilderP!PInv' /\ BuilderP!EInv'
    BY <1>1, <2>1, BuilderBounds, BuilderP!Inductive, BuilderP!EdgesInductive
  <2>3. (BuilderP!Entry \in BuilderP!ToSet(listed))'
    BY <1>1, <2>1, BuilderBounds, BuilderP!EntryListed DEF BuilderP!Entry, BuilderP!ToSet
  <2> QED BY <2>2, <2>3 DEF Made
<1>3. stack # << >>
  BY DEF Visit, Builder!VisitFunctionBody, Builder!VisitCompound, Builder!NextStatement,
         Builder!EndCompound, Builder!VisitSelection, Builder!BeginThen,
         Builder!EndThenWithoutElse, Builder!EndThenBeginElse, Builder!EndElse,
         Builder!VisitIteration, Builder!BeginBody, Builder!EndBody,
         Builder!VisitExpressionStmt, Builder!EndExpression, Builder!VisitVoidReturn,
         Builder!EndFunction, Builder!In
<1> QED BY <1>2, <1>3 DEF Given

\* A function stays what it is while passes run,
LEMMA FunctionStays ==
  ASSUME Made \/ Given, UNCHANGED <<function, builderOnly>>
  PROVE  (Made \/ Given)'
<1>1. UNCHANGED BuilderP!vars
  BY DEF function, builderOnly, BuilderP!vars, BuilderP!blocks
<1>2. CASE Made
  <2>1. BuilderP!PInv /\ BuilderP!EInv /\ BuilderP!Entry \in BuilderP!ToSet(listed)
    BY <1>2 DEF Made
  <2>2. BuilderP!PInv' /\ BuilderP!EInv'
    BY <1>1, <2>1, BuilderBounds, BuilderP!Inductive, BuilderP!EdgesInductive
  <2>3. (BuilderP!Entry \in BuilderP!ToSet(listed))'
    BY <2>1 DEF BuilderP!Entry, BuilderP!ToSet, function
  <2> QED BY <2>2, <2>3 DEF Made
<1>3. CASE Given
  <2>1. UNCHANGED DomP!function
    BY DEF function, DomP!function
  <2>2. DomP!Sound'
    BY <1>3, <2>1, DomP!SameFunction DEF Given
  <2> QED BY <1>3, <2>2 DEF Given, builderOnly
<1> QED BY <1>2, <1>3

\* and so does what Dominators has yet to begin.
LEMMA StartStays ==
  ASSUME DomP!Start, UNCHANGED domOnly
  PROVE  DomP!Start'
BY DEF domOnly, DomP!Start, DomP!StartSearch

\* A pass that is not running stays as it is.
LEMMA IdleStays ==
  ASSUME LoopP!Idle, UNCHANGED loopOnly
  PROVE  LoopP!Idle'
BY DEF loopOnly, LoopP!Idle

\* LoopSearch starts on a copy of the function,
LEMMA LoopSearchStarts ==
  ASSUME Made \/ Given, LoopP!Idle, Run("LoopSearch")
  PROVE  LoopP!LInv'
<1>1. /\ nodes' = {listed[i] : i \in DOMAIN listed}
      /\ succs' = [b \in 1 .. MaxBlocks |-> {succ[b][i] : i \in DOMAIN succ[b]}]
      /\ prevs' = [b \in 1 .. MaxBlocks |-> {pre[b][i] : i \in DOMAIN pre[b]}]
      /\ UNCHANGED <<function, builderOnly, loopOnly>>
  BY DEF Run
<1>2. LoopP!Idle'
  BY <1>1, IdleStays
<1>3. listed' = listed /\ pre' = pre /\ succ' = succ
  BY <1>1 DEF function
<1>4. LoopP!Start'
  BY <1>1, <1>2, <1>3 DEF LoopP!Start, LoopP!ToSet, LoopP!BB
<1>5. LoopP!Given'
  <2>1. LoopP!Given
    BY SoundForLoops
  <2>2. UNCHANGED LoopP!function
    BY <1>3 DEF LoopP!function
  <2> QED BY <2>1, <2>2, LoopP!SameFunction
<1> QED BY <1>4, <1>5, LoopP!StartedNext

\* which it leaves alone.
LEMMA LoopLeavesFunction == Loop!Next => UNCHANGED function
BY DEF Loop!Next, Loop!StartFrom, Loop!VisitSuccessor, Loop!Leave, Loop!EndSearch,
       Loop!NextRound, Loop!TakeComponent, Loop!function, function

\* Every step of the builder, of the call of a pass, and of a pass keeps the invariant.
LEMMA Inductive == AInv /\ [Next]_vars => AInv'
<1> SUFFICES ASSUME AInv, [Next]_vars PROVE AInv'
  OBVIOUS
<1>1. /\ Made \/ Given
      /\ pass \in {"CminusfBuilder", "Dominators", "LoopSearch"}
      /\ pass = "Dominators" => DomP!DInv
      /\ pass # "Dominators" => DomP!Start
      /\ pass = "LoopSearch" => LoopP!LInv
      /\ pass # "LoopSearch" => LoopP!Idle
  BY DEF AInv
<1>2. CASE Build
  <2>1. pass = "CminusfBuilder" /\ pass' = pass /\ UNCHANGED <<domOnly, loopOnly>>
    BY <1>2 DEF Build
  <2>2. Made'
    BY <1>1, <1>2, VisitMakes DEF Build
  <2>3. DomP!Start' /\ LoopP!Idle'
    BY <1>1, <2>1, StartStays, IdleStays
  <2> QED BY <2>1, <2>2, <2>3 DEF AInv
<1>3. ASSUME NEW name \in {"Dominators", "LoopSearch"}, Run(name) PROVE AInv'
  <2>1. /\ pass = "CminusfBuilder" /\ pass' = name
        /\ UNCHANGED <<function, builderOnly, domOnly, loopOnly>>
    BY <1>3 DEF Run
  <2>2. (Made \/ Given)'
    BY <1>1, <2>1, FunctionStays
  <2>3. DomP!Start /\ DomP!Start'
    BY <1>1, <2>1, StartStays
  <2>4. DomP!DInv
    BY <1>1, <2>3, SoundFunction, DomP!Started
  <2>5. UNCHANGED DomP!vars
    BY <2>1 DEF function, domOnly, DomP!vars, DomP!function, DomP!order, DomP!iteration,
                DomP!results
  <2>6. DomP!DInv'
    BY <2>4, <2>5, DomP!KeptByStutter
  <2>7. LoopP!Idle'
    BY <1>1, <2>1, IdleStays
  <2>8. name = "LoopSearch" => LoopP!LInv'
    BY <1>1, <1>3, <2>1, LoopSearchStarts
  <2> QED BY <2>1, <2>2, <2>3, <2>6, <2>7, <2>8 DEF AInv
<1>4. CASE DomStep
  <2>1. /\ pass = "Dominators" /\ pass' = pass /\ UNCHANGED <<builderOnly, loopOnly>>
        /\ DomP!Next
    BY <1>4, SameSteps DEF DomStep
  <2>2. DomP!DInv'
    BY <1>1, <2>1, DomP!KeptByNext
  <2>3. UNCHANGED function
    BY <2>1, DomP!NextKeepsFunction DEF function, DomP!function
  <2>4. (Made \/ Given)'
    BY <1>1, <2>1, <2>3, FunctionStays
  <2>5. LoopP!Idle'
    BY <1>1, <2>1, IdleStays
  <2> QED BY <2>1, <2>2, <2>4, <2>5 DEF AInv
<1>5. CASE LoopStep
  <2>1. pass = "LoopSearch" /\ pass' = pass /\ UNCHANGED <<builderOnly, domOnly>> /\ Loop!Next
    BY <1>5 DEF LoopStep
  <2>2. (Made \/ Given)'
    BY <1>1, <2>1, LoopLeavesFunction, FunctionStays
  <2>3. DomP!Start'
    BY <1>1, <2>1, StartStays
  <2>4. LoopP!LInv'
    BY <1>1, <2>1, SameLoopSteps, LoopP!KeptByNext
  <2> QED BY <2>1, <2>2, <2>3, <2>4 DEF AInv
<1>6. CASE UNCHANGED vars
  <2>1. UNCHANGED <<function, builderOnly, domOnly, graph, loopOnly, pass>>
    BY <1>6 DEF vars
  <2>2. UNCHANGED DomP!vars
    BY <2>1 DEF function, domOnly, DomP!vars, DomP!function, DomP!order, DomP!iteration,
                DomP!results
  <2>3. (Made \/ Given)'
    BY <1>1, <2>1, FunctionStays
  <2>4. pass = "Dominators" => DomP!DInv'
    BY <1>1, <2>2, DomP!KeptByStutter
  <2>5. pass # "Dominators" => DomP!Start'
    BY <1>1, <2>1, StartStays
  <2>6. pass # "LoopSearch" => LoopP!Idle'
    BY <1>1, <2>1, IdleStays
  <2>7. UNCHANGED LoopP!vars
    BY <2>1 DEF function, graph, loopOnly, LoopP!vars, LoopP!function, LoopP!graph, LoopP!tarjan,
                LoopP!found
  <2>8. pass = "LoopSearch" => LoopP!LInv'
    BY <1>1, <2>7, LoopP!KeptByNext
  <2> QED BY <1>1, <2>1, <2>3, <2>4, <2>5, <2>6, <2>8 DEF AInv
<1> QED BY <1>2, <1>3, <1>4, <1>5, <1>6 DEF Next

-------------------------------------------------------------------------------
(* Theorems *)

\* The invariant holds in every state of builder and passes.
LEMMA Invariant == Spec => []AInv
BY Initially, Inductive, PTL DEF Spec

\* Whichever pass runs, on whatever function: its variables stay in their ranges, a base
\* of LoopSearch does not come back into the graph, and onStack marks the stack.
THEOREM Typing == Spec => []TypeOK
<1>1. AInv => TypeOK
  BY SameResults, SameLoop, DomP!InRange, LoopP!InRange DEF AInv, TypeOK
<1> QED BY <1>1, Invariant, PTL

\* What Dominators computes is right (see PassIsRight of DominatorsProofs) for every
\* function of the builder, however large and nested it is, whether its branches return
\* or not, and for every given function.
THEOREM DominatorsAreRight == Spec => []DominatorsRight
<1>1. AInv => DominatorsRight
  <2> SUFFICES ASSUME AInv PROVE DominatorsRight
    OBVIOUS
  <2>1. CASE pass = "Dominators"
    <3>1. DomP!DInv
      BY <2>1 DEF AInv
    <3>2. /\ DomP!NoAssertionFails /\ DomP!OrderFollowsEdges /\ DomP!IdomCorrect
          /\ DomP!FrontierCorrect /\ DomP!TreeCoversReachable
      BY <3>1, DomP!InRange, DomP!OrderRight, DomP!IdomRight, DomP!FrontierRight, DomP!TreeRight
    <3> QED BY <3>2, SameResults DEF DominatorsRight
  <2>2. CASE pass # "Dominators"
    <3>1. pc = "search"
      BY <2>2 DEF AInv, DomP!Start
    <3> QED BY <3>1 DEF DominatorsRight, Dom!NoAssertionFails
  <2> QED BY <2>1, <2>2
<1> QED BY <1>1, Invariant, PTL

\* No step of the rounds replaces the dominator of a block by a lower one.
THEOREM IdomClimbs == Spec => IdomOnlyClimbs
<1> DEFINE Up == \A b \in Dom!BB : idom_[b] # Dom!nullptr
                   => post_order_id_[idom_'[b]] >= post_order_id_[idom_[b]]
<1>1. AInv /\ [Next]_vars => [Up]_(Dom!vars)
  <2> SUFFICES ASSUME AInv, [Next]_vars, ~ UNCHANGED Dom!vars PROVE Up
    OBVIOUS
  <2>0. Dom!BB = DomP!BB /\ Dom!nullptr = DomP!nullptr
    BY DEF Dom!BB, DomP!BB, Dom!nullptr, DomP!nullptr
  <2>1. CASE DomStep
    <3>1. DomP!DInv /\ DomP!Next
      BY <2>1, SameSteps DEF AInv, DomStep
    <3> QED BY <2>0, <3>1, DomP!Climbs
  <2>2. CASE ~ DomStep /\ Next
    <3>1. pass # "Dominators"
      BY <2>2 DEF Next, Build, Run, LoopStep
    <3>2. DomP!Start
      BY <3>1 DEF AInv
    <3>3. \A b \in DomP!BB : idom_[b] = DomP!nullptr
      BY <3>2 DEF DomP!Start, DomP!Pointer
    <3> QED BY <2>0, <3>3
  <2>3. CASE UNCHANGED vars
    <3>1. UNCHANGED Dom!vars
      BY <2>3 DEF vars, function, domOnly, Dom!vars, Dom!function, Dom!order, Dom!iteration,
                  Dom!results
    <3> QED BY <3>1
  <2> QED BY <2>1, <2>2, <2>3
<1> QED BY <1>1, Invariant, PTL DEF Spec, IdomOnlyClimbs, Dom!IdomOnlyClimbs
===============================================================================
