------------------------------ MODULE LoopSearch ------------------------------
(***************************************************************************)
(* The pass LoopSearch on one function.  Tarjan's algorithm finds the      *)
(* strongly connected components; each gets a base, its entry, and is a    *)
(* loop; the bases are taken out of the graph and the search starts again, *)
(* for the loops inside, until no component is left.                       *)
(*                                                                         *)
(* The code's sets are unordered sets of pointers: Order says which      *)
(* element a loop over one of them may come to next.                       *)
(***************************************************************************)
EXTENDS Naturals, Sequences, SequencesExt, Cfg

CONSTANTS MaxBlock,      \* blocks are 1 .. MaxBlock; block 1 is the entry
          Graphs,        \* the functions: records with fields listed, pre and succ
          Order(_)     \* of a set: any element, or fewer to keep the model small

BB == 1 .. MaxBlock
Entry == 1
None == 0                \* no index (-1 in the code), no block, no base
Least(m, n) == IF m < n THEN m ELSE n

VARIABLES
  listed, pre, succ,      \* the function: its list of blocks, and their edges
  pc,                     \* "search", "bases", "done" or "crashed"
  nodes,                  \* the blocks that are still in the graph
  succs, prevs,           \* of the nodes of the graph: edges that are left
  index, lowlink, onStack,
  index_count,            \* one more than in the code: indices start at 1
  calls,                  \* activations of traverse: <<node, successors to go>>
  node_stack,             \* the stack of the algorithm
  sccs,                   \* the components found in this round, as sets
  reserved,               \* the bases of all rounds
  loops,                  \* func2loop and loop2base: records with fields base and bbs
  bb2base

function == <<listed, pre, succ>>
graph == <<nodes, succs, prevs>>
tarjan == <<index, lowlink, onStack, index_count, calls, node_stack>>
found == <<reserved, loops, bb2base>>
vars == <<function, pc, graph, tarjan, sccs, found>>

-------------------------------------------------------------------------------
(* strongly_connected_components, traverse *)

\* traverse(n), called with these activations above.
Call(n, above) ==
  /\ index' = [index EXCEPT ![n] = index_count]
  /\ lowlink' = [lowlink EXCEPT ![n] = index_count]
  /\ index_count' = index_count + 1
  /\ onStack' = [onStack EXCEPT ![n] = TRUE]
  /\ node_stack' = Append(node_stack, n)
  /\ calls' = Append(above, <<n, succs[n]>>)

StartFrom(n) ==
  /\ pc = "search" /\ calls = << >>
  /\ n \in Order({m \in nodes : index[m] = None})
  /\ Call(n, << >>)
  /\ UNCHANGED <<function, pc, graph, sccs, found>>

\* The next successor: visited now, or if it is on the stack, its index counts.
VisitSuccessor(su) ==
  LET n == Last(calls)[1]
      rest == Append(Front(calls), <<n, Last(calls)[2] \ {su}>>)
  IN  /\ pc = "search" /\ calls # << >> /\ su \in Order(Last(calls)[2])
      /\ IF index[su] = None THEN Call(su, rest)
         ELSE /\ lowlink' = IF onStack[su]
                            THEN [lowlink EXCEPT ![n] = Least(index[su], @)] ELSE lowlink
              /\ calls' = rest
              /\ UNCHANGED <<index, onStack, index_count, node_stack>>
      /\ UNCHANGED <<function, pc, graph, sccs, found>>

\* Seeded fault: the caller does not look at the lowlink of the node it called.
LeaveWithoutLowlink ==
  LET n == Last(calls)[1]
      from == CHOOSE i \in DOMAIN node_stack : node_stack[i] = n
      component == {node_stack[i] : i \in from .. Len(node_stack)}
      isRoot == index[n] = lowlink[n]
  IN  /\ pc = "search" /\ calls # << >> /\ Last(calls)[2] = {}
      /\ calls' = Front(calls)
      /\ node_stack' = IF isRoot THEN SubSeq(node_stack, 1, from - 1) ELSE node_stack
      /\ onStack' = [m \in BB |-> onStack[m] /\ ~ (isRoot /\ m \in component)]
      /\ sccs' = IF isRoot /\ component # {n} THEN sccs \cup {component} ELSE sccs
      /\ UNCHANGED <<function, pc, graph, index, lowlink, index_count, found>>

\* All successors done: the root of a component takes it off the stack, and keeps it
\* if it has more than one node; the caller, if any, looks at the lowlink.
Leave ==
  LET n == Last(calls)[1]
      from == CHOOSE i \in DOMAIN node_stack : node_stack[i] = n
      component == {node_stack[i] : i \in from .. Len(node_stack)}
      isRoot == index[n] = lowlink[n]
  IN  /\ pc = "search" /\ calls # << >> /\ Last(calls)[2] = {}
      /\ calls' = Front(calls)
      /\ node_stack' = IF isRoot THEN SubSeq(node_stack, 1, from - 1) ELSE node_stack
      /\ onStack' = [m \in BB |-> onStack[m] /\ ~ (isRoot /\ m \in component)]
      /\ sccs' = IF isRoot /\ component # {n} THEN sccs \cup {component} ELSE sccs
      /\ lowlink' = IF Len(calls) = 1 THEN lowlink
                    ELSE LET caller == calls[Len(calls) - 1][1]
                         IN  [lowlink EXCEPT ![caller] = Least(lowlink[n], @)]
      /\ UNCHANGED <<function, pc, graph, index, index_count, found>>

\* while (strongly_connected_components(..)): some were found, or the pass is done.
EndSearch ==
  /\ pc = "search" /\ calls = << >> /\ \A n \in nodes : index[n] # None
  /\ pc' = IF sccs = {} THEN "done" ELSE "bases"
  /\ UNCHANGED <<function, graph, tarjan, sccs, found>>

-------------------------------------------------------------------------------
(* find_loop_base, and the rest of run *)

\* The blocks of scc with a predecessor outside; if the predecessors have been taken
\* out of the graph, the successors of earlier bases.  (The code takes the last one it
\* comes to.)
Bases(scc) ==
  LET entered == {n \in scc : prevs[n] \ scc # {}}
  IN  IF entered # {} THEN entered ELSE (UNION {succs[r] : r \in reserved}) \cap scc

\* Steps 4, 5 and the first half of 6.
KeepLoop(scc, base) ==
  /\ loops' = loops \cup {[base |-> base, bbs |-> scc]}
  /\ bb2base' = [b \in BB |-> IF b \in scc THEN base ELSE bb2base[b]]
  /\ reserved' = reserved \cup {base}

\* Step 6: the base leaves the graph; it keeps its own edges.
RemoveBase(base) ==
  /\ nodes' = nodes \ {base}
  /\ prevs' = [b \in BB |-> IF b \in succs[base] THEN prevs[b] \ {base} ELSE prevs[b]]
  /\ succs' = [b \in BB |-> IF b \in prevs[base] THEN succs[b] \ {base} ELSE succs[b]]

\* The next component.  Without a base, base->bb dereferences null.
TakeComponent(scc) ==
  /\ pc = "bases" /\ scc \in sccs /\ scc \cap Order(UNION sccs) # {}
  /\ sccs' = sccs \ {scc}
  /\ IF Bases(scc) = {} THEN pc' = "crashed" /\ UNCHANGED <<graph, found>>
     ELSE /\ \E base \in Order(Bases(scc)) : KeepLoop(scc, base) /\ RemoveBase(base)
          /\ UNCHANGED pc
  /\ UNCHANGED <<function, tarjan>>

\* After the last component, the nodes are unmarked for the next round.
NextRound ==
  /\ pc = "bases" /\ sccs = {}
  /\ pc' = "search"
  /\ index' = [n \in BB |-> IF n \in nodes THEN None ELSE index[n]]
  /\ lowlink' = [n \in BB |-> IF n \in nodes THEN None ELSE lowlink[n]]
  /\ onStack' = [n \in BB |-> onStack[n] /\ n \notin nodes]
  /\ index_count' = 1
  /\ UNCHANGED <<function, graph, calls, node_stack, sccs, found>>

-------------------------------------------------------------------------------

\* Nothing has been searched yet.
Idle ==
  /\ pc = "search"
  /\ index = [b \in BB |-> None] /\ lowlink = index
  /\ onStack = [b \in BB |-> FALSE]
  /\ index_count = 1 /\ calls = << >> /\ node_stack = << >>
  /\ sccs = {} /\ reserved = {} /\ loops = {}
  /\ bb2base = [b \in BB |-> None]

\* build_cfg has copied the blocks and edges of the function.
Start ==
  /\ Idle
  /\ nodes = ToSet(listed)
  /\ succs = [b \in BB |-> ToSet(succ[b])] /\ prevs = [b \in BB |-> ToSet(pre[b])]

Init == /\ \E g \in Graphs : listed = g.listed /\ pre = g.pre /\ succ = g.succ
        /\ Start

Next == \/ \E n \in BB : StartFrom(n) \/ VisitSuccessor(n)
        \/ Leave \/ EndSearch \/ NextRound
        \/ \E scc \in sccs : TakeComponent(scc)

\* One call of run() on one thread.
Fairness == WF_vars(Next)

Spec == Init /\ [][Next]_vars /\ Fairness

-------------------------------------------------------------------------------
(* What the pass answers *)

\* The header's get_inner_loop: the loop of the innermost base (base2loop[bb2base[bb]]).
get_inner_loop(b) == {l \in loops : l.base = bb2base[b]}

\* get_parent_loop looks at the first predecessor of the base that is not in the loop.
get_parent_loop(l) ==
  LET outside == SelectSeq(pre[l.base], LAMBDA b : b \notin l.bbs)
  IN  IF outside = << >> THEN {} ELSE {m \in get_inner_loop(outside[1]) : l.base \in m.bbs}

-------------------------------------------------------------------------------
(* Properties *)

Nodes == ToSet(listed)
Edges == UNION {{b} \X ToSet(succ[b]) : b \in Nodes}
Reachable == ReachableFrom({Entry}, Nodes, Edges)

\* A reachable block with an unreachable predecessor: see LoopsAreNatural.
NoDeadPredecessor == \A b \in Reachable : ToSet(pre[b]) \subseteq Reachable

\* Every variable stays in its range; onStack marks the stack of the algorithm.
TypeOK ==
  /\ pc \in {"search", "bases", "done", "crashed"}
  /\ nodes \subseteq Nodes /\ reserved \cap nodes = {}
  /\ succs \in [BB -> SUBSET BB] /\ prevs \in [BB -> SUBSET BB]
  /\ index_count \in 1 .. Cardinality(BB) + 1
  /\ \A b \in BB : index[b] \in 0 .. MaxBlock /\ lowlink[b] \in 0 .. index[b]
  /\ ToSet(node_stack) = {b \in BB : onStack[b]}
  /\ bb2base \in [BB -> BB \cup {None}]

\* The loops found are the natural loops of more than one block, each with its header
\* as the base, if every loop has one entry and unless code that cannot be reached flows
\* into code that can.
LoopsAreNatural ==
  pc = "done" /\ NoDeadPredecessor /\ Reducible(Entry, Nodes, Edges) =>
    {l \in loops : l.base \in Reachable}
      = {l \in NaturalLoops(Entry, Nodes, Edges) : l.bbs # {l.base}}

\* bb2base names the innermost of the loops a block is in (CodeReading.md:37).
InnermostBase ==
  pc = "done" =>
    \A b \in Nodes :
      LET around == {l \in loops : b \in l.bbs} IN
        IF around = {} THEN bb2base[b] = None
        ELSE \E l \in get_inner_loop(b) : b \in l.bbs /\ \A m \in around : l.bbs \subseteq m.bbs

\* get_parent_loop is the smallest loop around a loop, if there is one.
ParentIsSmallestAround ==
  pc = "done" /\ NoDeadPredecessor /\ Reducible(Entry, Nodes, Edges) =>
    \A l \in loops :
      LET around == {m \in loops \ {l} : l.bbs \subseteq m.bbs} IN
        get_parent_loop(l) = {m \in around : \A k \in around : m.bbs \subseteq k.bbs}
===============================================================================
