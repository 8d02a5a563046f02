------------------------------- MODULE Analyses -------------------------------
(***************************************************************************)
(* The passes Dominators and LoopSearch, on which Mem2Reg and LoopInvHoist *)
(* rely, on the functions that CminusfBuilder can build and on given       *)
(* graphs.  Builder and passes share the lists of blocks and edges, which  *)
(* no other pass changes.                                                  *)
(***************************************************************************)
EXTENDS Naturals, Sequences, SequencesExt

CONSTANTS MaxBlocks, MaxDepth,   \* bounds of CfgBuilder
          Order(_),              \* the next elements of an unordered set: see LoopSearch
          Graphs                 \* functions that no builder has built: see Dominators

ASSUME BoundsNat == MaxBlocks \in Nat \ {0} /\ MaxDepth \in Nat \ {0}

\* The lists of a function as create_br and create_cond_br leave them: its blocks once,
\* each edge at both ends and once at its target, none to the entry.
IsFunction(g) ==
  LET BB == 1 .. MaxBlocks IN
    /\ g.listed \in Seq(BB) /\ IsInjective(g.listed) /\ 1 \in ToSet(g.listed)
    /\ g.pre \in [BB -> Seq(BB)] /\ g.succ \in [BB -> Seq(BB)] /\ g.pre[1] = << >>
    /\ \A b \in BB : IsInjective(g.pre[b])
    /\ \A b, c \in BB : /\ c \in ToSet(g.succ[b]) <=> b \in ToSet(g.pre[c])
                        /\ c \in ToSet(g.succ[b]) => {b, c} \subseteq ToSet(g.listed)

\* A loop over an unordered set comes to its elements, and to one at least.
ASSUME OrderIsOfSet ==
  \A S \in SUBSET (1 .. MaxBlocks) : Order(S) \subseteq S /\ (S # {} => Order(S) # {})

ASSUME GraphsAreFunctions == \A g \in Graphs : IsFunction(g)

VARIABLES created, listed, code, pre, succ, BB_, depth, pre_enter_scope, stack
VARIABLES pc, dfs, visited, reverse_post_order_, post_order_id_, idom_, changed, at, p,
          new_idom, b1, b2, runner, dom_frontier_, dom_tree_succ_blocks_
VARIABLES loop_pc, nodes, succs, prevs, index, lowlink, onStack, index_count, calls,
          node_stack, sccs, reserved, loops, bb2base
VARIABLE pass    \* what is running

Builder == INSTANCE CfgBuilder
Dom == INSTANCE Dominators WITH MaxBlock <- MaxBlocks
Loop == INSTANCE LoopSearch WITH MaxBlock <- MaxBlocks, pc <- loop_pc

function == <<listed, pre, succ>>
builderOnly == <<created, code, BB_, depth, pre_enter_scope, stack>>
domOnly == <<pc, dfs, visited, reverse_post_order_, post_order_id_, idom_, changed, at, p,
             new_idom, b1, b2, runner, dom_frontier_, dom_tree_succ_blocks_>>
graph == <<nodes, succs, prevs>>
loopOnly == <<loop_pc, index, lowlink, onStack, index_count, calls, node_stack, sccs,
              reserved, loops, bb2base>>
vars == <<function, builderOnly, domOnly, graph, loopOnly, pass>>

Built == stack = << >>

\* The visits of the builder but those of expression statements and index accesses,
\* and without parameters and declarations: programs of blocks, if, while and return.
\* (A check of an index adds a block that returns, as a return does.)
Visit == \/ Builder!VisitFunctionBody \/ Builder!VisitCompound \/ Builder!NextStatement
         \/ Builder!EndCompound
         \/ (\E else \in BOOLEAN : Builder!VisitSelection(else))
         \/ Builder!BeginThen \/ Builder!EndThenWithoutElse
         \/ Builder!EndThenBeginElse \/ Builder!EndElse
         \/ Builder!VisitIteration \/ Builder!BeginBody \/ Builder!EndBody
         \/ Builder!VisitExpressionStmt \/ Builder!EndExpression
         \/ Builder!VisitVoidReturn \/ Builder!EndFunction

Build == /\ pass = "CminusfBuilder" /\ Visit
         /\ UNCHANGED <<domOnly, graph, loopOnly, pass>>

\* PassManager: -mem2reg asks for Dominators, -loop-search and -loop-inv-hoist for
\* LoopSearch, whose build_cfg copies blocks and edges.
Run(name) ==
  /\ pass = "CminusfBuilder" /\ Built
  /\ pass' = name
  /\ IF name = "LoopSearch"
     THEN /\ nodes' = {listed[i] : i \in DOMAIN listed}
          /\ succs' = [b \in 1 .. MaxBlocks |-> {succ[b][i] : i \in DOMAIN succ[b]}]
          /\ prevs' = [b \in 1 .. MaxBlocks |-> {pre[b][i] : i \in DOMAIN pre[b]}]
     ELSE UNCHANGED graph
  /\ UNCHANGED <<function, builderOnly, domOnly, loopOnly>>

DomStep == /\ pass = "Dominators" /\ Dom!Next
           /\ UNCHANGED <<builderOnly, graph, loopOnly, pass>>
LoopStep == /\ pass = "LoopSearch" /\ Loop!Next
            /\ UNCHANGED <<builderOnly, domOnly, pass>>

\* A function to be built, without parameters, or one of the given ones.
Init == /\ pass = "CminusfBuilder" /\ Dom!Start
        /\ Loop!Idle /\ nodes = {} /\ succs = << >> /\ prevs = << >>
        /\ \/ Builder!Init /\ code[1] = << >>
           \/ /\ \E g \in Graphs : listed = g.listed /\ pre = g.pre /\ succ = g.succ
              /\ created = MaxBlocks /\ code = [b \in 1 .. MaxBlocks |-> << >>] /\ BB_ = 1
              /\ depth = 1 /\ pre_enter_scope = FALSE /\ stack = << >>
Next == Build \/ Run("Dominators") \/ Run("LoopSearch") \/ DomStep \/ LoopStep

\* A pass is one call on one thread; how long a program is, is not up to us.
Spec == Init /\ [][Next]_vars /\ WF_vars(DomStep \/ LoopStep)

-------------------------------------------------------------------------------

\* The variables of the passes stay in their ranges; onStack marks the stack of LoopSearch,
\* and bases leave the graph.
TypeOK == /\ pass = "Dominators" => Dom!TypeOK
          /\ pass = "LoopSearch" => Loop!TypeOK

\* Whatever the graph, returning branches, unreachable code and loops with two entries
\* included, no assertion of Dominators fails, and the order, dominators, frontiers and
\* tree it computes for the blocks that can be reached are theirs.
DominatorsRight ==
  /\ Dom!NoAssertionFails
  /\ pc = "done" => /\ Dom!OrderFollowsEdges /\ Dom!IdomCorrect
                    /\ Dom!FrontierCorrect /\ Dom!TreeCoversReachable

\* Dominators only move up: this is why the rounds of Dominators come to an end.
IdomOnlyClimbs == Dom!IdomOnlyClimbs

\* LoopSearch finds the loops of the function, the innermost one of each block, and the
\* one around each loop, unless a loop has two entries or code that cannot be reached
\* flows into code that can.
LoopsRight ==
  loop_pc = "done" =>
    Loop!LoopsAreNatural /\ Loop!InnermostBase /\ Loop!ParentIsSmallestAround

\* In a function of the builder the condition of a loop has one predecessor in the loop and one outside, where
\* LoopInvHoist puts what it moves ("at most two", 4-ir-opt/README.md:91); there is
\* one outside even if the base is not the condition (pre_bb is never left unset).
OnePreheader ==
  loop_pc = "done" /\ code[1] # << >> =>
    \A l \in loops :
      LET outside == {i \in DOMAIN pre[l.base] : pre[l.base][i] \notin l.bbs}
          inside == DOMAIN pre[l.base] \ outside
      IN  /\ outside # {}
          /\ Loop!NoDeadPredecessor => \A i, j \in outside : i = j
          /\ Loop!NoDeadPredecessor => \A i, j \in inside : i = j

\* Whatever the program, LoopSearch ends, with a base for every loop, and Dominators
\* ends or walks from code that cannot be reached into code that can: then it stays at
\* the null pointer.
EndsWithoutDeadPredecessor ==
  pass # "CminusfBuilder"
    ~> \/ pc = "done" \/ loop_pc = "done"
       \/ pc = "walk" /\ runner = Dom!nullptr /\ ~ Loop!NoDeadPredecessor
===============================================================================
