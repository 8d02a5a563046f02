------------------------------ MODULE Dominators ------------------------------
(***************************************************************************)
(* The pass Dominators on one function: a depth-first search that numbers  *)
(* the blocks in post order, the iteration of Cooper, Harvey and Kennedy   *)
(* for immediate dominators, dominance frontiers and the dominator tree.   *)
(* The steps are those of the loops in the code.                           *)
(***************************************************************************)
EXTENDS Naturals, Sequences, SequencesExt, Cfg

CONSTANTS MaxBlock,  \* blocks are 1 .. MaxBlock; block 1 is the entry
          Graphs     \* the functions: records with fields listed, pre and succ

BB == 1 .. MaxBlock
root == 1
nullptr == 0
Pointer == BB \cup {nullptr}

VARIABLES
  listed, pre, succ,     \* the function: its list of blocks, and their edges
  pc,                    \* which loop is running
  dfs,                   \* activations of post_order_visit: <<block, next successor>>
  visited,
  reverse_post_order_,
  post_order_id_,        \* 0 when absent: std::map::operator[]
  idom_,                 \* also at nullptr, where the map's default is nullptr
  changed,
  at, p,                 \* positions in the list of blocks and in a list of preds
  new_idom,
  b1, b2,                \* the two fingers of intersect
  runner,
  dom_frontier_,         \* like idom_, also at nullptr
  dom_tree_succ_blocks_

function == <<listed, pre, succ>>
order == <<dfs, visited, reverse_post_order_, post_order_id_>>
iteration == <<idom_, changed, new_idom, b1, b2>>
results == <<runner, dom_frontier_, dom_tree_succ_blocks_>>
vars == <<function, pc, order, iteration, at, p, results>>

-------------------------------------------------------------------------------
(* create_reverse_post_order *)

\* post_order_visit(entry) has just been called.
StartSearch ==
  /\ dfs = <<<<root, 1>>>>
  /\ visited = {root}
  /\ reverse_post_order_ = << >>
  /\ post_order_id_ = [b \in Pointer |-> 0]

\* Seeded fault: every successor is visited, whether it has been or not.
VisitSuccessorAgain ==
  LET bb == Last(dfs)[1]
      i == Last(dfs)[2]
  IN  /\ pc = "search" /\ dfs # << >> /\ i <= Len(succ[bb])
      /\ dfs' = Append(Append(Front(dfs), <<bb, i + 1>>), <<succ[bb][i], 1>>)
      /\ visited' = visited \cup {succ[bb][i]}
      /\ UNCHANGED <<function, pc, reverse_post_order_, post_order_id_, iteration,
                     at, p, results>>

\* The next successor is visited, unless it has been.
VisitSuccessor ==
  LET bb == Last(dfs)[1]
      i == Last(dfs)[2]
      rest == Append(Front(dfs), <<bb, i + 1>>)
  IN  /\ pc = "search" /\ dfs # << >> /\ i <= Len(succ[bb])
      /\ dfs' = IF succ[bb][i] \in visited THEN rest ELSE Append(rest, <<succ[bb][i], 1>>)
      /\ visited' = visited \cup {succ[bb][i]}
      /\ UNCHANGED <<function, pc, reverse_post_order_, post_order_id_, iteration,
                     at, p, results>>

\* All successors visited: the block gets the next number.
LeaveBlock ==
  LET bb == Last(dfs)[1] IN
    /\ pc = "search" /\ dfs # << >> /\ Last(dfs)[2] > Len(succ[bb])
    /\ post_order_id_' = [post_order_id_ EXCEPT ![bb] = Len(reverse_post_order_)]
    /\ reverse_post_order_' = Append(reverse_post_order_, bb)
    /\ dfs' = Front(dfs)
    /\ UNCHANGED <<function, pc, visited, iteration, at, p, results>>

\* The list is reversed; create_idom sets the root as its own dominator.
ReverseOrder ==
  /\ pc = "search" /\ dfs = << >>
  /\ reverse_post_order_' = Reverse(reverse_post_order_)
  /\ pc' = "round"
  /\ idom_' = [b \in Pointer |-> IF b = root THEN root ELSE nullptr]
  /\ changed' = TRUE
  /\ UNCHANGED <<function, dfs, visited, post_order_id_, at, p, new_idom, b1, b2, results>>

-------------------------------------------------------------------------------
(* create_idom *)

\* Seeded fault: changed keeps the value it had.
RoundWithoutReset ==
  /\ pc = "round"
  /\ at' = 1
  /\ pc' = IF changed THEN "block" ELSE "frontier"
  /\ UNCHANGED <<function, order, changed, p, idom_, new_idom, b1, b2, results>>

\* while (changed)
Round ==
  /\ pc = "round"
  /\ at' = 1
  /\ IF changed THEN pc' = "block" /\ changed' = FALSE
                ELSE pc' = "frontier" /\ UNCHANGED changed
  /\ UNCHANGED <<function, order, p, idom_, new_idom, b1, b2, results>>

\* The block of this turn of the loop, and its preds that have a dominator yet.
bb == reverse_post_order_[at]
Known == {i \in DOMAIN pre[bb] : idom_[pre[bb][i]] # nullptr}
First(S) == CHOOSE i \in S : \A j \in S : i <= j

EndRound ==
  /\ pc = "block" /\ at > Len(reverse_post_order_)
  /\ pc' = "round"
  /\ UNCHANGED <<function, order, iteration, at, p, results>>

SkipRoot ==
  /\ pc = "block" /\ at <= Len(reverse_post_order_) /\ bb = root
  /\ at' = at + 1
  /\ UNCHANGED <<function, pc, order, iteration, p, results>>

\* One pred that has a dominator; assert(pred).
ChoosePred ==
  /\ pc = "block" /\ at <= Len(reverse_post_order_) /\ bb # root
  /\ IF Known = {} THEN pc' = "aborted" /\ UNCHANGED new_idom
     ELSE pc' = "preds" /\ new_idom' = pre[bb][First(Known)]
  /\ p' = 1
  /\ UNCHANGED <<function, order, idom_, changed, b1, b2, at, results>>

\* Seeded fault: the last pred that has a dominator is taken, without intersect.
TakeLastPred ==
  /\ pc = "preds" /\ p <= Len(pre[bb])
  /\ new_idom' = IF p \in Known THEN pre[bb][p] ELSE new_idom
  /\ p' = p + 1
  /\ UNCHANGED <<function, pc, order, idom_, changed, b1, b2, at, results>>

\* The other preds that have a dominator are intersected with what we have.
\* (pred itself is skipped, wherever it stands in the list.)
NextPred ==
  /\ pc = "preds" /\ p <= Len(pre[bb])
  /\ IF pre[bb][p] # pre[bb][First(Known)] /\ p \in Known
     THEN pc' = "intersect" /\ b1' = pre[bb][p] /\ b2' = new_idom
     ELSE UNCHANGED <<pc, b1, b2>>
  /\ p' = p + 1
  /\ UNCHANGED <<function, order, idom_, changed, new_idom, at, results>>

\* intersect: the finger with the lower number climbs; assert(get_idom(b)).
Climb(b) ==
  /\ pc = "intersect"
  /\ \/ b = b1 /\ post_order_id_[b1] < post_order_id_[b2] /\ b1' = idom_[b1] /\ b2' = b2
     \/ b = b2 /\ post_order_id_[b2] < post_order_id_[b1] /\ b2' = idom_[b2] /\ b1' = b1
  /\ pc' = IF idom_[b] = nullptr THEN "aborted" ELSE pc
  /\ UNCHANGED <<function, order, idom_, changed, new_idom, at, p, results>>

Met ==
  /\ pc = "intersect" /\ b1 = b2
  /\ new_idom' = b1
  /\ pc' = "preds"
  /\ UNCHANGED <<function, order, idom_, changed, b1, b2, at, p, results>>

\* set_idom, and another round if that changed anything.
SetIdom ==
  /\ pc = "preds" /\ p > Len(pre[bb])
  /\ idom_' = [idom_ EXCEPT ![bb] = new_idom]
  /\ changed' = (changed \/ idom_[bb] # new_idom)
  /\ at' = at + 1 /\ pc' = "block"
  /\ UNCHANGED <<function, order, new_idom, b1, b2, p, results>>

-------------------------------------------------------------------------------
(* create_dominance_frontier, create_dom_tree_succ *)

\* The next block of the function with two predecessors or more.
NextJoin ==
  /\ pc = "frontier" /\ at <= Len(listed)
  /\ IF Len(pre[listed[at]]) >= 2
     THEN pc' = "walk" /\ p' = 1 /\ runner' = pre[listed[at]][1] /\ UNCHANGED at
     ELSE at' = at + 1 /\ UNCHANGED <<pc, p, runner>>
  /\ UNCHANGED <<function, order, iteration, dom_frontier_, dom_tree_succ_blocks_>>

\* Seeded fault: the runner jumps to the dominator of the join after one step.
WalkOneStep ==
  /\ pc = "walk" /\ runner # idom_[listed[at]]
  /\ dom_frontier_' = [dom_frontier_ EXCEPT ![runner] = @ \cup {listed[at]}]
  /\ runner' = idom_[listed[at]]
  /\ UNCHANGED <<function, pc, order, iteration, at, p, dom_tree_succ_blocks_>>

\* while (runner != get_idom(bb)); a null runner stays null.
Walk ==
  /\ pc = "walk" /\ runner # idom_[listed[at]]
  /\ dom_frontier_' = [dom_frontier_ EXCEPT ![runner] = @ \cup {listed[at]}]
  /\ runner' = idom_[runner]
  /\ UNCHANGED <<function, pc, order, iteration, at, p, dom_tree_succ_blocks_>>

\* The walk from this pred has ended: on to the next pred, or the next block.
EndWalk ==
  /\ pc = "walk" /\ runner = idom_[listed[at]]
  /\ IF p < Len(pre[listed[at]])
     THEN p' = p + 1 /\ runner' = pre[listed[at]][p + 1] /\ UNCHANGED <<pc, at>>
     ELSE pc' = "frontier" /\ at' = at + 1 /\ UNCHANGED <<p, runner>>
  /\ UNCHANGED <<function, order, iteration, dom_frontier_, dom_tree_succ_blocks_>>

\* Each block is a child of its immediate dominator; the entry is its own.
BuildTree ==
  /\ pc = "frontier" /\ at > Len(listed)
  /\ dom_tree_succ_blocks_' =
       [b \in Pointer |-> {c \in ToSet(listed) : idom_[c] = b /\ c # b}]
  /\ pc' = "done"
  /\ UNCHANGED <<function, order, iteration, at, p, runner, dom_frontier_>>

-------------------------------------------------------------------------------

\* run() has reserved empty results for the blocks.
Start ==
  /\ pc = "search"
  /\ StartSearch
  /\ idom_ = [b \in Pointer |-> nullptr]
  /\ changed = FALSE /\ new_idom = nullptr /\ b1 = nullptr /\ b2 = nullptr
  /\ at = 1 /\ p = 1 /\ runner = nullptr
  /\ dom_frontier_ = [b \in Pointer |-> {}]
  /\ dom_tree_succ_blocks_ = [b \in Pointer |-> {}]

Init == /\ \E g \in Graphs : listed = g.listed /\ pre = g.pre /\ succ = g.succ
        /\ Start

Next == \/ VisitSuccessor \/ LeaveBlock \/ ReverseOrder
        \/ Round \/ EndRound \/ SkipRoot \/ ChoosePred \/ NextPred
        \/ (\E b \in BB : Climb(b)) \/ Met \/ SetIdom
        \/ NextJoin \/ Walk \/ EndWalk \/ BuildTree

\* The pass is one call of run() on one thread: it goes on as long as it can.
Fairness == WF_vars(Next)

Spec == Init /\ [][Next]_vars /\ Fairness

-------------------------------------------------------------------------------
(* Properties *)

Nodes == ToSet(listed)
Edges == UNION {{b} \X ToSet(succ[b]) : b \in BB}
Reachable == ReachableFrom({root}, Nodes, Edges)

\* Every variable stays in its range; loop positions are at most one past the end.
TypeOK ==
  /\ pc \in {"search", "round", "block", "preds", "intersect", "frontier", "walk",
             "done", "aborted"}
  /\ visited \subseteq BB
  /\ ToSet(reverse_post_order_) \subseteq BB
  /\ post_order_id_ \in [Pointer -> 0 .. MaxBlock - 1]
  /\ idom_ \in [Pointer -> Pointer]
  /\ changed \in BOOLEAN
  /\ at \in 1 .. MaxBlock + 1 /\ p \in 1 .. 2 * MaxBlock + 1
  /\ {new_idom, b1, b2, runner} \subseteq Pointer
  /\ dom_frontier_ \in [Pointer -> SUBSET BB]
  /\ dom_tree_succ_blocks_ \in [Pointer -> SUBSET BB]

\* The search numbers the blocks that can be reached, each once, and in reverse
\* post order every block but the entry follows one of its predecessors: what
\* assert(pred) relies on.
OrderFollowsEdges ==
  pc # "search" =>
    LET rpo == reverse_post_order_ IN
    /\ IsInjective(rpo) /\ ToSet(rpo) = Reachable /\ rpo[1] = root
    /\ \A i \in 2 .. Len(rpo) : \E j \in 1 .. i - 1 : <<rpo[j], rpo[i]>> \in Edges
    /\ \A i \in DOMAIN rpo : post_order_id_[rpo[i]] = Len(rpo) - i

\* No assertion of the pass fails: assert(pred) in create_idom, and
\* assert(get_idom(b)) in intersect, for either finger.
NoAssertionFails == pc # "aborted"

\* When the iteration has ended, idom_ is the immediate dominator of every block
\* that can be reached, and null for the others.
IdomCorrect ==
  pc \in {"frontier", "done"} =>
    /\ idom_[root] = root
    /\ {<<idom_[b], b>> : b \in Reachable \ {root}} = IdomPairs(root, Nodes, Edges)
    /\ \A b \in Nodes \ Reachable : idom_[b] = nullptr

\* In the end, dom_frontier_ is the dominance frontier of every block that can be
\* reached: where Mem2Reg puts its phis.
FrontierCorrect ==
  pc = "done" =>
    \A b \in Reachable : dom_frontier_[b] = Frontier(b, root, Nodes, Edges)

\* In the end, walking down from the entry meets every block that can be reached,
\* exactly once: the tree that Mem2Reg::re_name recurses over.
TreeCoversReachable ==
  pc = "done" =>
    LET down == {e \in BB \X BB : e[2] \in dom_tree_succ_blocks_[e[1]]} IN
    /\ ReachableFrom({root}, Nodes, down) = Reachable
    /\ \A b \in Reachable : Cardinality({e \in down : e[2] = b}) = IF b = root THEN 0 ELSE 1

\* Dominators only move up: a block's idom is never replaced by one that was
\* numbered lower.  (This is why the rounds come to an end.)
IdomOnlyClimbs ==
  [][\A b \in BB : idom_[b] # nullptr =>
       post_order_id_[idom_'[b]] >= post_order_id_[idom_[b]]]_vars
===============================================================================
