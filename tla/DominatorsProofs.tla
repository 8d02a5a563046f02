--------------------------- MODULE DominatorsProofs ---------------------------
(***************************************************************************)
(* Proofs about Dominators, for every control flow graph: the search       *)
(* numbers the reachable blocks in post order, no assertion fails, and     *)
(* when the rounds have ended, idom_, dom_frontier_ and the tree are what  *)
(* their names say.                                                        *)
(***************************************************************************)
EXTENDS Dominators, CfgProofs, SequenceTheorems

-------------------------------------------------------------------------------
(* What the pass is given *)

\* A function: its blocks are listed once, both ends of each edge are recorded, once at
\* its target, and the entry has no predecessors.
Sound ==
  /\ MaxBlock \in Nat \ {0}
  /\ listed \in Seq(BB) /\ IsInjective(listed) /\ root \in Nodes
  /\ pre \in [BB -> Seq(BB)] /\ succ \in [BB -> Seq(BB)]
  /\ \A b \in BB : IsInjective(pre[b])
  /\ \A b, c \in BB : /\ c \in ToSet(succ[b]) <=> b \in ToSet(pre[c])
                      /\ c \in ToSet(succ[b]) => b \in Nodes /\ c \in Nodes
  /\ pre[root] = << >>

Ranges ==
  /\ pc \in {"search", "round", "block", "preds", "intersect", "frontier", "walk", "done"}
  /\ visited \subseteq BB /\ reverse_post_order_ \in Seq(BB)
  /\ post_order_id_ \in [Pointer -> 0 .. MaxBlock - 1]
  /\ idom_ \in [Pointer -> Pointer]
  /\ changed \in BOOLEAN
  /\ at \in 1 .. MaxBlock + 1 /\ p \in 1 .. MaxBlock + 1
  /\ new_idom \in Pointer /\ b1 \in Pointer /\ b2 \in Pointer /\ runner \in Pointer
  /\ dom_frontier_ \in [Pointer -> SUBSET BB]
  /\ dom_tree_succ_blocks_ \in [Pointer -> SUBSET BB]

-------------------------------------------------------------------------------
(* The search *)

\* The blocks whose visit has begun and not ended, and those whose visit has ended.
Active == {dfs[j][1] : j \in DOMAIN dfs}
Finished == ToSet(reverse_post_order_)

\* The activations are a path from the entry.
Path ==
  /\ dfs \in Seq(BB \X (Nat \ {0}))
  /\ dfs # << >> => dfs[1][1] = root
  /\ dfs = << >> => reverse_post_order_ # << >> /\ Last(reverse_post_order_) = root
  /\ \A i, j \in DOMAIN dfs : dfs[i][1] = dfs[j][1] => i = j
  /\ \A j \in DOMAIN dfs : j # 1 => dfs[j][1] \in ToSet(succ[dfs[j - 1][1]])

\* What has been visited can be reached; of a block whose visit has ended, all successors
\* have been visited, and of the others those before the next one.
Covered ==
  /\ visited = Active \cup Finished /\ Active \cap Finished = {}
  /\ visited \subseteq Reachable
  /\ \A b \in Finished : ToSet(succ[b]) \subseteq visited
  /\ \A j \in DOMAIN dfs : /\ dfs[j][2] <= Len(succ[dfs[j][1]]) + 1
                           /\ \A i \in 1 .. dfs[j][2] - 1 : succ[dfs[j][1]][i] \in visited

\* Blocks are numbered in the order they end in; of each but the entry a predecessor
\* ends later.
PostOrder ==
  /\ IsInjective(reverse_post_order_)
  /\ \A i \in DOMAIN reverse_post_order_ :
       /\ post_order_id_[reverse_post_order_[i]] = i - 1
       /\ reverse_post_order_[i] # root =>
            \/ \E a \in Active : <<a, reverse_post_order_[i]>> \in Edges
            \/ \E j \in DOMAIN reverse_post_order_ :
                 i < j /\ <<reverse_post_order_[j], reverse_post_order_[i]>> \in Edges

SearchInv == 
  pc = "search" =>
    /\ Path /\ Covered /\ PostOrder
    /\ idom_ = [b \in Pointer |-> nullptr] /\ at = 1
    /\ dom_frontier_ = [b \in Pointer |-> {}]

\* What the search leaves behind.
Numbered ==
  LET rpo == reverse_post_order_ IN
    /\ IsInjective(rpo) /\ ToSet(rpo) = Reachable
    /\ rpo # << >> /\ rpo[1] = root
    /\ \A i \in DOMAIN rpo : post_order_id_[rpo[i]] = Len(rpo) - i
    /\ \A i \in DOMAIN rpo : i # 1 =>
         \E j \in DOMAIN rpo : j < i /\ <<rpo[j], rpo[i]>> \in Edges

-------------------------------------------------------------------------------
(* The iteration *)

\* The blocks that have a dominator, and one of them over another in their chains.
Placed == {b \in BB : idom_[b] # nullptr}
Above(x, y) == Over(idom_, Placed, x, y)

\* A predecessor that comes first in reverse post order, and chains of such ones.
parent ==
  [b \in Reachable |->
     IF b = root THEN root
     ELSE CHOOSE c \in Reachable : <<c, b>> \in Edges /\ post_order_id_[b] < post_order_id_[c]]
TreeAbove(x, y) == Over(parent, Reachable, x, y)

Doms(d, n) == d \in Reachable /\ n \in DominatedBy(d, root, Nodes, Edges)

\* The edges from blocks that have a dominator.
Arrives(q, b) == q \in Placed /\ <<q, b>> \in Edges

\* idom_ is a tree along paths of the search.  It never misses a dominator, and never is
\* higher than what the predecessors have in common.
Tree ==
  /\ idom_[nullptr] = nullptr
  /\ Placed \subseteq Reachable
  /\ Climbing(idom_, Placed, post_order_id_, root)
  /\ \A b \in Placed \ {root} :
       /\ TreeAbove(idom_[b], b)
       /\ \E q \in Placed : Arrives(q, b)
       /\ \A d \in Reachable \ {b} : Doms(d, b) => Doms(d, idom_[b])
       /\ \A y \in Placed : (\A q \in Placed : Arrives(q, b) => Above(y, q))
                              => post_order_id_[idom_[b]] <= post_order_id_[y]

\* The blocks whose turn in this round is over.
Turned == {reverse_post_order_[i] : i \in 1 .. at - 1}

\* The dominator of a block is over all its predecessors.
Settled(b) == \A q \in Placed : Arrives(q, b) => Above(idom_[b], q)

\* Between two rounds.
BetweenRounds ==
  /\ Reachable \subseteq Placed \/ changed
  /\ ~ changed => \A b \in Reachable \ {root} : Settled(b)

\* Within a round, the chains of the blocks that have had their turn nest as dominators
\* do: what is over t is also over the blocks on the way from there to t.
WithinRound ==
  /\ at \in 1 .. Len(reverse_post_order_) + 1
  /\ Turned \subseteq Placed
  /\ \A t \in Turned, u \in Turned, x \in Placed :
       TreeAbove(u, t) /\ Above(x, t) /\ post_order_id_[u] <= post_order_id_[x] => Above(x, u)
  /\ ~ changed => \A b \in Turned \ {root} : Settled(b)

\* The predecessors of bb that new_idom stands for.
Taken ==
  LET last == IF pc = "intersect" THEN p - 1 ELSE p
  IN  {pre[bb][i] : i \in {i \in Known : i < last \/ pre[bb][i] = pre[bb][First(Known)]}}

\* new_idom is what the predecessors taken so far have in common.
Meeting ==
  /\ at <= Len(reverse_post_order_) /\ bb # root
  /\ Known # {} /\ p \in 1 .. Len(pre[bb]) + 1
  /\ new_idom \in Placed
  /\ \A q \in Taken : Above(new_idom, q)
  /\ \A y \in Placed : (\A q \in Taken : Above(y, q)) => Above(y, new_idom)
  /\ \A d \in Reachable \ {bb} : Doms(d, bb) => Doms(d, new_idom)

\* The fingers climb the chains of new_idom and of the predecessor that comes next; what
\* is over both stays over the fingers.
Fingers ==
  /\ p - 1 \in Known
  /\ Above(b1, pre[bb][p - 1]) /\ Above(b2, new_idom)
  /\ \A y \in Placed : Above(y, pre[bb][p - 1]) /\ Above(y, new_idom)
                         => Above(y, b1) /\ Above(y, b2)
  /\ \A d \in Reachable \ {bb} : Doms(d, bb) => Doms(d, b1) /\ Doms(d, b2)

IterationInv ==
  /\ pc \in {"round", "block", "preds", "intersect"} => dom_frontier_ = [b \in Pointer |-> {}]
  /\ pc = "round" => BetweenRounds
  /\ pc \in {"block", "preds", "intersect"} => WithinRound
  /\ pc \in {"preds", "intersect"} => Meeting
  /\ pc = "intersect" => Fingers

-------------------------------------------------------------------------------
(* The frontiers *)

Complete == Reachable \subseteq Placed /\ \A b \in Reachable \ {root} : Settled(b)

\* The blocks that a walk from q adds the join j to.
Passed(j, q) == {r \in Placed : Above(r, q) /\ ~ Above(r, idom_[j])}

\* Joins behind the current one.
Walked(j, b) ==
  \E i \in DOMAIN listed : /\ i < at /\ listed[i] = j /\ Len(pre[j]) >= 2
                           /\ \E l \in DOMAIN pre[j] : b \in Passed(j, pre[j][l])

\* The current one.
Walking(j, b) ==
  /\ pc = "walk" /\ j = listed[at]
  /\ \/ \E l \in DOMAIN pre[j] : l < p /\ b \in Passed(j, pre[j][l])
     \/ Above(b, pre[j][p]) /\ ~ Above(b, runner)

FrontierInv ==
  pc \in {"frontier", "walk", "done"} =>
    /\ Complete
    /\ at \in 1 .. Len(listed) + 1
    /\ pc = "done" =>
         /\ at = Len(listed) + 1
         /\ dom_tree_succ_blocks_ = [b \in Pointer |-> {c \in Nodes : idom_[c] = b /\ c # b}]
    /\ \A b \in Reachable, j \in BB :
         j \in dom_frontier_[b] <=> Walked(j, b) \/ Walking(j, b)
    /\ pc = "walk" =>
         /\ at <= Len(listed) /\ Len(pre[listed[at]]) >= 2
         /\ p \in DOMAIN pre[listed[at]]
         /\ pre[listed[at]][p] \in Placed =>
              Above(runner, pre[listed[at]][p]) /\ Above(idom_[listed[at]], runner)
         /\ pre[listed[at]][p] \notin Placed => runner \notin Placed

DInv ==
  /\ Sound /\ Ranges /\ SearchInv
  /\ pc # "search" => Numbered /\ Tree
  /\ IterationInv /\ FrontierInv

-------------------------------------------------------------------------------
(* Sequences *)

\* A sequence of different blocks is at most as long as there are blocks.
LEMMA Short ==
  ASSUME MaxBlock \in Nat, NEW s \in Seq(BB), IsInjective(s)
  PROVE  Len(s) \in 0 .. MaxBlock
<1>1. Len(s) \in Nat /\ DOMAIN s = 1 .. Len(s) /\ s \in [1 .. Len(s) -> BB]
  BY LenProperties
<1>2. s \in Injection(1 .. Len(s), BB)
  BY <1>1 DEF IsInjective, Injection
<1>3. IsFiniteSet(BB) /\ Cardinality(BB) = MaxBlock
  <2>1. 1 \in Int /\ MaxBlock \in Int
    OBVIOUS
  <2>2. IsFiniteSet(BB) /\ Cardinality(BB) = IF 1 > MaxBlock THEN 0 ELSE MaxBlock - 1 + 1
    BY <2>1, FS_Interval DEF BB
  <2> QED BY <2>2
<1>4. Cardinality(1 .. Len(s)) = Len(s)
  <2>1. 1 \in Int /\ Len(s) \in Int
    BY <1>1
  <2>2. Cardinality(1 .. Len(s)) = IF 1 > Len(s) THEN 0 ELSE Len(s) - 1 + 1
    BY <2>1, FS_Interval
  <2> QED BY <1>1, <2>2
<1>5. Cardinality(1 .. Len(s)) <= Cardinality(BB)
  BY <1>2, <1>3, FS_Injection
<1> QED BY <1>1, <1>3, <1>4, <1>5

-------------------------------------------------------------------------------
(* The graph *)

\* The edges of a function, and what they reach.
LEMMA Graph ==
  ASSUME Sound
  PROVE  /\ MaxBlock \in Nat \ {0} /\ root \in BB /\ nullptr \notin BB
         /\ Nodes \subseteq BB /\ IsFiniteSet(Nodes) /\ IsFiniteSet(BB)
         /\ \A a, b : <<a, b>> \in Edges <=> a \in BB /\ b \in ToSet(succ[a])
         /\ \A a, b : <<a, b>> \in Edges => /\ a \in Nodes /\ b \in Nodes /\ b # root
                                            /\ a \in ToSet(pre[b])
         /\ \A b \in BB : \A a \in ToSet(pre[b]) : <<a, b>> \in Edges
         /\ root \in Reachable /\ Reachable \subseteq Nodes /\ IsFiniteSet(Reachable)
         /\ \A a \in Reachable : \A b : <<a, b>> \in Edges => b \in Reachable
<1>1. MaxBlock \in Nat \ {0} /\ root \in BB /\ nullptr \notin BB
  BY DEF Sound, BB, root, nullptr
<1>2. IsFiniteSet(BB)
  <2>1. 1 \in Int /\ MaxBlock \in Int
    BY <1>1
  <2> QED BY <2>1, FS_Interval DEF BB
<1>3. Nodes \subseteq BB
  BY ElementOfSeq, LenProperties DEF Sound, Nodes, ToSet
<1>4. IsFiniteSet(Nodes)
  BY <1>2, <1>3, FS_Subset
<1>5. \A a, b : <<a, b>> \in Edges <=> a \in BB /\ b \in ToSet(succ[a])
  BY DEF Edges
<1>6. \A b \in BB : /\ \A c \in ToSet(succ[b]) : c \in BB
                    /\ \A c \in ToSet(pre[b]) : c \in BB
  <2> TAKE b \in BB
  <2>1. succ[b] \in Seq(BB) /\ pre[b] \in Seq(BB)
    BY DEF Sound
  <2> QED BY <2>1, ElementOfSeq, LenProperties DEF ToSet
<1>7. ToSet(pre[root]) = {}
  BY DEF Sound, ToSet
<1>8. \A a, b : <<a, b>> \in Edges => /\ a \in Nodes /\ b \in Nodes /\ b # root
                                      /\ a \in ToSet(pre[b])
  BY <1>5, <1>6, <1>7 DEF Sound
<1>9. \A b \in BB : \A a \in ToSet(pre[b]) : <<a, b>> \in Edges
  BY <1>5, <1>6 DEF Sound
<1>10. /\ {root} \subseteq Reachable /\ Reachable \subseteq {root} \cup Nodes
       /\ \A a \in Reachable, b \in Nodes : <<a, b>> \in Edges => b \in Reachable
  BY <1>4, ReachableClosed DEF Reachable
<1>11. root \in Nodes
  BY DEF Sound
<1>12. IsFiniteSet(Reachable)
  BY <1>4, <1>10, <1>11, FS_Subset
<1> QED BY <1>1, <1>2, <1>3, <1>4, <1>5, <1>8, <1>9, <1>10, <1>11, <1>12

\* Lists of successors and predecessors.
LEMMA Lists ==
  ASSUME Sound, NEW b \in BB
  PROVE  /\ succ[b] \in Seq(BB) /\ DOMAIN succ[b] = 1 .. Len(succ[b]) /\ Len(succ[b]) \in Nat
         /\ \A i \in 1 .. Len(succ[b]) : succ[b][i] \in BB /\ succ[b][i] \in ToSet(succ[b])
         /\ pre[b] \in Seq(BB) /\ DOMAIN pre[b] = 1 .. Len(pre[b])
         /\ Len(pre[b]) \in 0 .. MaxBlock
         /\ \A i \in 1 .. Len(pre[b]) : pre[b][i] \in BB /\ <<pre[b][i], b>> \in Edges
<1>1. succ[b] \in Seq(BB) /\ pre[b] \in Seq(BB) /\ IsInjective(pre[b]) /\ MaxBlock \in Nat
  BY DEF Sound
<1>2. /\ DOMAIN succ[b] = 1 .. Len(succ[b]) /\ Len(succ[b]) \in Nat
      /\ \A i \in 1 .. Len(succ[b]) : succ[b][i] \in BB
      /\ DOMAIN pre[b] = 1 .. Len(pre[b])
      /\ \A i \in 1 .. Len(pre[b]) : pre[b][i] \in BB
  BY <1>1, ElementOfSeq, LenProperties
<1>3. Len(pre[b]) \in 0 .. MaxBlock
  BY <1>1, Short
<1>4. \A i \in 1 .. Len(succ[b]) : succ[b][i] \in ToSet(succ[b])
  BY <1>2 DEF ToSet
<1>5. \A i \in 1 .. Len(pre[b]) : pre[b][i] \in ToSet(pre[b])
  BY <1>2 DEF ToSet
<1>6. \A i \in 1 .. Len(pre[b]) : <<pre[b][i], b>> \in Edges
  BY <1>5, Graph
<1> QED BY <1>1, <1>2, <1>3, <1>4, <1>6

\* The function stays the same.
LEMMA SameFunction ==
  ASSUME UNCHANGED function
  PROVE  /\ Sound' <=> Sound
         /\ Nodes' = Nodes /\ Edges' = Edges /\ Reachable' = Reachable
BY DEF function, Sound, Nodes, Edges, Reachable

-------------------------------------------------------------------------------
(* The steps of the search *)

\* The search goes on to the next successor.
LEMMA KeptByVisitSuccessor ==
  ASSUME DInv, VisitSuccessor
  PROVE  DInv'
<1> DEFINE n == Len(dfs)
           c == Last(dfs)[1]
           i == Last(dfs)[2]
           s == succ[c][i]
           rest == Append(Front(dfs), <<c, i + 1>>)
<1>1. /\ pc = "search" /\ dfs # << >> /\ i <= Len(succ[c])
      /\ dfs' = IF s \in visited THEN rest ELSE Append(rest, <<s, 1>>)
      /\ visited' = visited \cup {s}
      /\ UNCHANGED <<function, pc, reverse_post_order_, post_order_id_, iteration,
                     at, p, results>>
  BY DEF VisitSuccessor
<1>2. Sound /\ Ranges /\ Path /\ Covered /\ PostOrder
  BY <1>1 DEF DInv, SearchInv
<1>3. /\ n \in Nat \ {0} /\ DOMAIN dfs = 1 .. n
      /\ Front(dfs) \in Seq(BB \X (Nat \ {0})) /\ Len(Front(dfs)) = n - 1
      /\ \A j \in 1 .. n - 1 : Front(dfs)[j] = dfs[j]
      /\ Last(dfs) = dfs[n] /\ Last(dfs) \in BB \X (Nat \ {0})
  BY <1>1, <1>2, FrontFacts DEF Path
<1>4. c \in BB /\ i \in Nat \ {0} /\ dfs[n][1] = c /\ dfs[n][2] = i
  BY <1>3
<1>5. s \in BB /\ s \in ToSet(succ[c]) /\ Len(succ[c]) \in Nat
  BY <1>1, <1>2, <1>4, Lists
<1>6. s \in Reachable
  <2>1. c \in Active
    BY <1>3, <1>4 DEF Active
  <2>2. c \in Reachable
    BY <1>2, <2>1 DEF Covered
  <2>3. <<c, s>> \in Edges
    <3> HIDE DEF c, s
    <3> QED BY <1>2, <1>4, <1>5, Graph
  <2> HIDE DEF c, s
  <2> QED BY <1>2, <2>2, <2>3, Graph
<1> HIDE DEF c, i, s, n
<1>7. /\ rest \in Seq(BB \X (Nat \ {0})) /\ Len(rest) = n /\ DOMAIN rest = 1 .. n
      /\ \A j \in 1 .. n - 1 : rest[j] = dfs[j]
      /\ rest[n] = <<c, i + 1>>
  <2>1. <<c, i + 1>> \in BB \X (Nat \ {0})
    BY <1>4
  <2>2. /\ rest \in Seq(BB \X (Nat \ {0})) /\ Len(rest) = n - 1 + 1
        /\ DOMAIN rest = 1 .. n - 1 + 1
        /\ \A j \in 1 .. n - 1 : rest[j] = Front(dfs)[j]
        /\ rest[n - 1 + 1] = <<c, i + 1>>
    BY <1>3, <2>1, AppendFacts
  <2>3. n - 1 + 1 = n
    BY <1>3
  <2> HIDE DEF rest
  <2> QED BY <1>3, <2>2, <2>3
<1> HIDE DEF rest
<1>8. /\ \A j \in 1 .. n : rest[j][1] = dfs[j][1]
      /\ \A j \in 1 .. n - 1 : rest[j][2] = dfs[j][2]
      /\ rest[n][1] = c /\ rest[n][2] = i + 1
  <2>1. rest[n][1] = c /\ rest[n][2] = i + 1
    BY <1>7
  <2>2. n \in Nat /\ dfs[n][1] = c /\ \A j \in 1 .. n - 1 : rest[j] = dfs[j]
    BY <1>3, <1>4, <1>7
  <2> QED BY <2>1, <2>2
<1> DEFINE m == Len(dfs')
<1>9. /\ dfs' \in Seq(BB \X (Nat \ {0})) /\ DOMAIN dfs' = 1 .. m /\ dfs' # << >>
      /\ m = IF s \in visited THEN n ELSE n + 1
      /\ \A j \in 1 .. n : dfs'[j] = rest[j]
      /\ s \notin visited => dfs'[n + 1] = <<s, 1>>
  <2>1. CASE s \in visited
    <3>1. rest # << >>
      BY <1>3, <1>7, EmptySeq
    <3> QED BY <1>1, <1>7, <2>1, <3>1
  <2>2. CASE s \notin visited
    <3>1. <<s, 1>> \in BB \X (Nat \ {0}) /\ dfs' = Append(rest, <<s, 1>>)
      BY <1>1, <1>5, <2>2
    <3> QED BY <1>7, <2>2, <3>1, AppendFacts
  <2> QED BY <2>1, <2>2
<1> HIDE DEF m
<1>10. /\ n \in Nat \ {0} /\ DOMAIN dfs = 1 .. n /\ DOMAIN dfs' = 1 .. m
       /\ m = IF s \in visited THEN n ELSE n + 1
       /\ \A j \in 1 .. n : dfs'[j][1] = dfs[j][1]
       /\ s \notin visited => dfs'[n + 1][1] = s /\ dfs'[n + 1][2] = 1
       /\ \A j \in 1 .. n - 1 : dfs'[j][2] = dfs[j][2]
       /\ dfs'[n][2] = i + 1
  <2>1. s \notin visited => dfs'[n + 1][1] = s /\ dfs'[n + 1][2] = 1
    BY <1>9
  <2>2. n \in Nat \ {0} /\ DOMAIN dfs = 1 .. n
    BY <1>3
  <2>3. /\ \A j \in 1 .. n : dfs'[j][1] = dfs[j][1]
        /\ \A j \in 1 .. n - 1 : dfs'[j][2] = dfs[j][2]
        /\ dfs'[n][2] = i + 1
    <3>1. \A j \in 1 .. n : dfs'[j] = rest[j]
      BY <1>9
    <3>2. \A j \in 1 .. n - 1 : j \in 1 .. n
      BY <2>2
    <3>3. n \in 1 .. n
      BY <2>2
    <3> QED BY <1>8, <3>1, <3>2, <3>3
  <2> QED BY <1>9, <2>1, <2>2, <2>3
<1>11. Active' = Active \cup ({s} \ visited)
  <2>1. ASSUME NEW j \in DOMAIN dfs' PROVE dfs'[j][1] \in Active \cup ({s} \ visited)
    <3>1. CASE j <= n
      BY <1>10, <2>1, <3>1 DEF Active
    <3>2. CASE j > n
      <4>1. j = n + 1 /\ s \notin visited /\ dfs'[j][1] = s
        BY <1>10, <2>1, <3>2
      <4> QED BY <4>1
    <3> QED BY <1>10, <2>1, <3>1, <3>2
  <2>2. ASSUME NEW j \in DOMAIN dfs PROVE dfs[j][1] \in Active'
    BY <1>10, <2>2 DEF Active
  <2>3. s \notin visited => s \in Active'
    BY <1>10 DEF Active
  <2> QED BY <2>1, <2>2, <2>3 DEF Active
<1>12. Path'
  <2>1. dfs'[1][1] = root
    BY <1>1, <1>2, <1>3, <1>9, <1>10 DEF Path
  <2>2. \A j, l \in DOMAIN dfs' : dfs'[j][1] = dfs'[l][1] => j = l
    <3>1. \A j \in 1 .. n : s \notin visited => dfs[j][1] # s
      BY <1>2, <1>3 DEF Covered, Active
    <3>2. \A j, l \in 1 .. n : dfs[j][1] = dfs[l][1] => j = l
      BY <1>2, <1>3 DEF Path
    <3> QED BY <1>10, <3>1, <3>2
  <2>3. ASSUME NEW j \in DOMAIN dfs', j # 1
        PROVE  dfs'[j][1] \in ToSet(succ'[dfs'[j - 1][1]])
    <3>1. j - 1 \in 1 .. n /\ dfs'[j - 1][1] = dfs[j - 1][1]
      BY <1>10, <2>3
    <3>2. CASE j <= n
      <4>1. j \in DOMAIN dfs /\ dfs'[j][1] = dfs[j][1]
        BY <1>10, <3>2
      <4>2. dfs[j][1] \in ToSet(succ[dfs[j - 1][1]])
        BY <1>2, <2>3, <4>1 DEF Path
      <4> QED BY <1>1, <3>1, <4>1, <4>2 DEF function
    <3>3. CASE j = n + 1
      <4>1. dfs'[j][1] = s /\ dfs[j - 1][1] = c
        BY <1>4, <1>10, <2>3, <3>3
      <4> QED BY <1>1, <1>5, <3>1, <4>1 DEF function
    <3> QED BY <1>10, <2>3, <3>2, <3>3
  <2> QED BY <1>9, <2>1, <2>2, <2>3 DEF Path
<1>13. Covered'
  <2>1. visited' = Active' \cup Finished' /\ Active' \cap Finished' = {}
    BY <1>1, <1>2, <1>11 DEF Covered, Finished
  <2>2. visited' \subseteq Reachable'
    BY <1>1, <1>2, <1>6, SameFunction DEF Covered
  <2>3. \A b \in Finished' : ToSet(succ'[b]) \subseteq visited'
    BY <1>1, <1>2 DEF Covered, Finished, function
  <2>4. ASSUME NEW j \in DOMAIN dfs'
        PROVE  /\ dfs'[j][2] <= Len(succ'[dfs'[j][1]]) + 1
               /\ \A l \in 1 .. dfs'[j][2] - 1 : succ'[dfs'[j][1]][l] \in visited'
    <3>1. CASE j \in 1 .. n - 1
      <4>1. dfs'[j][1] = dfs[j][1] /\ dfs'[j][2] = dfs[j][2] /\ j \in DOMAIN dfs
        BY <1>10, <3>1
      <4> QED BY <1>1, <1>2, <4>1 DEF Covered, function
    <3>2. CASE j = n
      <4>1. dfs'[j][1] = c /\ dfs'[j][2] = i + 1 /\ n \in DOMAIN dfs
        BY <1>4, <1>10, <3>2
      <4>2. \A l \in 1 .. i - 1 : succ[c][l] \in visited
        BY <1>2, <1>4, <4>1 DEF Covered
      <4>3. \A l \in 1 .. i : succ[c][l] \in visited'
        BY <1>1, <1>4, <4>2 DEF s
      <4> QED BY <1>1, <1>4, <1>5, <4>1, <4>3 DEF function
    <3>3. CASE j = n + 1
      <4>1. dfs'[j][1] = s /\ dfs'[j][2] = 1
        BY <1>10, <2>4, <3>3
      <4>2. Len(succ[s]) \in Nat
        BY <1>2, <1>5, Lists
      <4> QED BY <1>1, <4>1, <4>2 DEF function
    <3> QED BY <1>10, <2>4, <3>1, <3>2, <3>3
  <2> QED BY <2>1, <2>2, <2>3, <2>4 DEF Covered
<1>14. PostOrder'
  <2>1. Edges' = Edges /\ Active \subseteq Active'
    BY <1>1, <1>11, SameFunction
  <2> QED BY <1>1, <1>2, <2>1 DEF PostOrder
<1>15. Ranges'
  BY <1>1, <1>2, <1>5 DEF Ranges, iteration, results
<1>16. SearchInv'
  BY <1>1, <1>12, <1>13, <1>14 DEF DInv, SearchInv, iteration, results
<1>17. Sound' /\ pc' = "search"
  BY <1>1, <1>2, SameFunction
<1> QED BY <1>15, <1>16, <1>17 DEF DInv, IterationInv, FrontierInv

\* The search leaves a block, which gets its number.
LEMMA KeptByLeaveBlock ==
  ASSUME DInv, LeaveBlock
  PROVE  DInv'
<1> DEFINE n == Len(dfs)
           c == Last(dfs)[1]
           i == Last(dfs)[2]
           r == Len(reverse_post_order_)
<1>1. /\ pc = "search" /\ dfs # << >> /\ i > Len(succ[c])
      /\ post_order_id_' = [post_order_id_ EXCEPT ![c] = r]
      /\ reverse_post_order_' = Append(reverse_post_order_, c)
      /\ dfs' = Front(dfs)
      /\ UNCHANGED <<function, pc, visited, iteration, at, p, results>>
  BY DEF LeaveBlock
<1>2. Sound /\ Ranges /\ Path /\ Covered /\ PostOrder
  BY <1>1 DEF DInv, SearchInv
<1>3. /\ n \in Nat \ {0} /\ DOMAIN dfs = 1 .. n
      /\ Front(dfs) \in Seq(BB \X (Nat \ {0})) /\ Len(Front(dfs)) = n - 1
      /\ DOMAIN Front(dfs) = 1 .. n - 1
      /\ \A j \in 1 .. n - 1 : Front(dfs)[j] = dfs[j]
      /\ Last(dfs) = dfs[n] /\ Last(dfs) \in BB \X (Nat \ {0})
  BY <1>1, <1>2, FrontFacts DEF Path
<1>4. c \in BB /\ i \in Nat \ {0} /\ dfs[n][1] = c /\ dfs[n][2] = i /\ n \in DOMAIN dfs
  BY <1>3
<1>5. /\ reverse_post_order_' \in Seq(BB) /\ reverse_post_order_' # << >>
      /\ r \in Nat /\ Len(reverse_post_order_') = r + 1
      /\ DOMAIN reverse_post_order_ = 1 .. r /\ DOMAIN reverse_post_order_' = 1 .. r + 1
      /\ \A l \in 1 .. r : reverse_post_order_'[l] = reverse_post_order_[l]
      /\ reverse_post_order_'[r + 1] = c /\ Last(reverse_post_order_') = c
      /\ Finished' = Finished \cup {c}
  <2>1. reverse_post_order_ \in Seq(BB) /\ c \in BB
    BY <1>2, <1>4 DEF Ranges
  <2> HIDE DEF c
  <2> QED BY <1>1, <2>1, AppendFacts DEF Finished
<1> HIDE DEF c, i, n, r
<1>6. c \in Active /\ c \notin Finished /\ c \in visited
  BY <1>2, <1>4 DEF Active, Covered
<1>7. \A j \in 1 .. n - 1 : dfs'[j] = dfs[j] /\ j \in DOMAIN dfs /\ dfs[j][1] # c
  <2> TAKE j \in 1 .. n - 1
  <2>1. dfs'[j] = dfs[j] /\ j \in DOMAIN dfs /\ j # n
    BY <1>1, <1>3
  <2>2. dfs[j][1] # dfs[n][1]
    BY <1>2, <1>4, <2>1 DEF Path
  <2> QED BY <1>4, <2>1, <2>2
<1>8. DOMAIN dfs' = 1 .. n - 1
  BY <1>1, <1>3
<1>9. Active' = Active \ {c}
  <2>1. ASSUME NEW j \in DOMAIN dfs' PROVE dfs'[j][1] \in Active \ {c}
    <3>1. dfs'[j] = dfs[j] /\ j \in DOMAIN dfs /\ dfs[j][1] # c
      BY <1>7, <1>8, <2>1
    <3> QED BY <3>1 DEF Active
  <2>2. ASSUME NEW j \in DOMAIN dfs, dfs[j][1] # c PROVE dfs[j][1] \in Active'
    <3>1. j \in 1 .. n - 1
      BY <1>3, <1>4, <2>2
    <3>2. dfs'[j] = dfs[j] /\ j \in DOMAIN dfs'
      BY <1>7, <1>8, <3>1
    <3> QED BY <3>2 DEF Active
  <2> QED BY <2>1, <2>2 DEF Active
<1>10. ToSet(succ[c]) \subseteq visited
  <2>1. \A l \in 1 .. i - 1 : succ[c][l] \in visited
    BY <1>2, <1>4 DEF Covered
  <2>2. DOMAIN succ[c] = 1 .. Len(succ[c]) /\ Len(succ[c]) \in Nat
    BY <1>2, <1>4, Lists
  <2>3. \A l \in DOMAIN succ[c] : succ[c][l] \in visited
    BY <1>1, <1>4, <2>1, <2>2
  <2> QED BY <2>3 DEF ToSet
<1>11. Path'
  <2>1. dfs' \in Seq(BB \X (Nat \ {0}))
    BY <1>1, <1>3
  <2>2. dfs' # << >> => dfs'[1][1] = root
    <3> SUFFICES ASSUME dfs' # << >> PROVE dfs'[1][1] = root
      OBVIOUS
    <3>1. Len(dfs') # 0
      BY <2>1, EmptySeq
    <3>2. 1 \in 1 .. n - 1
      BY <1>1, <1>3, <3>1
    <3>3. dfs'[1] = dfs[1]
      BY <1>7, <3>2
    <3> QED BY <1>1, <1>2, <3>3 DEF Path
  <2>3. dfs' = << >> => Last(reverse_post_order_') = root
    <3> SUFFICES ASSUME dfs' = << >> PROVE c = root
      BY <1>5
    <3>1. n = 1
      BY <1>1, <1>3
    <3> QED BY <1>1, <1>2, <1>4, <3>1 DEF Path
  <2>4. \A j, l \in DOMAIN dfs' : dfs'[j][1] = dfs'[l][1] => j = l
    BY <1>2, <1>7, <1>8 DEF Path
  <2>5. ASSUME NEW j \in DOMAIN dfs', j # 1
        PROVE  dfs'[j][1] \in ToSet(succ'[dfs'[j - 1][1]])
    <3>1. j \in 1 .. n - 1 /\ j - 1 \in 1 .. n - 1
      BY <1>3, <1>8, <2>5
    <3>2. dfs'[j] = dfs[j] /\ dfs'[j - 1] = dfs[j - 1] /\ j \in DOMAIN dfs
      BY <1>7, <3>1
    <3>3. dfs[j][1] \in ToSet(succ[dfs[j - 1][1]])
      BY <1>2, <2>5, <3>2 DEF Path
    <3>4. succ' = succ
      BY <1>1 DEF function
    <3> QED BY <3>2, <3>3, <3>4
  <2> QED BY <1>5, <2>1, <2>2, <2>3, <2>4, <2>5 DEF Path
<1>12. Covered'
  <2>1. visited' = visited /\ succ' = succ /\ Reachable' = Reachable
    BY <1>1, SameFunction DEF function
  <2>2. visited' = Active' \cup Finished' /\ Active' \cap Finished' = {}
    BY <1>2, <1>5, <1>6, <1>9, <2>1 DEF Covered
  <2>3. \A b \in Finished' : ToSet(succ'[b]) \subseteq visited'
    BY <1>2, <1>5, <1>10, <2>1 DEF Covered
  <2>4. ASSUME NEW j \in DOMAIN dfs'
        PROVE  /\ dfs'[j][2] <= Len(succ'[dfs'[j][1]]) + 1
               /\ \A l \in 1 .. dfs'[j][2] - 1 : succ'[dfs'[j][1]][l] \in visited'
    <3>1. dfs'[j] = dfs[j] /\ j \in DOMAIN dfs
      BY <1>7, <1>8, <2>4
    <3> QED BY <1>2, <2>1, <3>1 DEF Covered
  <2> QED BY <1>2, <2>1, <2>2, <2>3, <2>4 DEF Covered
<1>13. IsInjective(reverse_post_order_')
  <2>1. \A l \in 1 .. r : reverse_post_order_[l] # c
    BY <1>5, <1>6 DEF Finished, ToSet
  <2>2. \A j, l \in 1 .. r : reverse_post_order_[j] = reverse_post_order_[l] => j = l
    BY <1>2, <1>5 DEF PostOrder, IsInjective
  <2> HIDE DEF r
  <2>3. \A j, l \in 1 .. r + 1 : reverse_post_order_'[j] = reverse_post_order_'[l] => j = l
    <3> SUFFICES ASSUME NEW j \in 1 .. r + 1, NEW l \in 1 .. r + 1,
                        reverse_post_order_'[j] = reverse_post_order_'[l]
                 PROVE  j = l
      OBVIOUS
    <3>1. (j = r + 1 \/ j \in 1 .. r) /\ (l = r + 1 \/ l \in 1 .. r)
      BY <1>5
    <3> QED BY <1>5, <2>1, <2>2, <3>1
  <2> QED BY <1>5, <2>3 DEF IsInjective
<1>14. PostOrder'
  <2>1. Edges' = Edges
    BY <1>1, SameFunction
  <2>2. ASSUME NEW l \in 1 .. r
        PROVE  /\ post_order_id_'[reverse_post_order_'[l]] = l - 1
               /\ reverse_post_order_'[l] # root =>
                    \/ \E a \in Active' : <<a, reverse_post_order_'[l]>> \in Edges
                    \/ \E j \in 1 .. r + 1 :
                         l < j /\ <<reverse_post_order_'[j], reverse_post_order_'[l]>> \in Edges
    <3> DEFINE x == reverse_post_order_[l]
    <3>1. reverse_post_order_'[l] = x /\ x # c /\ l \in DOMAIN reverse_post_order_
      BY <1>5, <1>6 DEF Finished, ToSet
    <3>2. x \in Pointer
      BY <1>2, <1>5, ElementOfSeq DEF Ranges, Pointer, r
    <3>3. post_order_id_'[x] = l - 1
      BY <1>1, <1>2, <3>1, <3>2 DEF PostOrder, Ranges
    <3>4. ASSUME x # root
          PROVE  \/ \E a \in Active' : <<a, x>> \in Edges
                 \/ \E j \in 1 .. r + 1 : l < j /\ <<reverse_post_order_'[j], x>> \in Edges
      <4>1. CASE \E a \in Active : <<a, x>> \in Edges
        <5>1. PICK a \in Active : <<a, x>> \in Edges
          BY <4>1
        <5>2. CASE a = c
          <6>1. r + 1 \in 1 .. r + 1 /\ l < r + 1
            BY <1>5
          <6> QED BY <1>5, <5>1, <5>2, <6>1
        <5> QED BY <1>9, <5>1, <5>2
      <4>2. CASE \E j \in 1 .. r : l < j /\ <<reverse_post_order_[j], x>> \in Edges
        <5>1. PICK j \in 1 .. r : l < j /\ <<reverse_post_order_[j], x>> \in Edges
          BY <4>2
        <5>2. reverse_post_order_'[j] = reverse_post_order_[j] /\ j \in 1 .. r + 1
          BY <1>5
        <5> QED BY <5>1, <5>2
      <4> QED BY <1>2, <1>5, <3>1, <3>4, <4>1, <4>2 DEF PostOrder
    <3> HIDE DEF x
    <3> QED BY <3>1, <3>3, <3>4
  <2>3. post_order_id_'[c] = r
    BY <1>1, <1>2, <1>4 DEF Ranges, Pointer
  <2>4. c # root => \E a \in Active' : <<a, c>> \in Edges
    <3> SUFFICES ASSUME c # root PROVE \E a \in Active' : <<a, c>> \in Edges
      OBVIOUS
    <3>1. n # 1
      BY <1>1, <1>2, <1>4 DEF Path
    <3>2. n - 1 \in 1 .. n - 1
      BY <1>3, <3>1
    <3>3. dfs'[n - 1] = dfs[n - 1] /\ n - 1 \in DOMAIN dfs' /\ n - 1 \in DOMAIN dfs
      BY <1>7, <1>8, <3>2
    <3>4. dfs[n - 1][1] \in Active'
      BY <3>3 DEF Active
    <3>5. c \in ToSet(succ[dfs[n - 1][1]])
      BY <1>2, <1>4, <3>1 DEF Path
    <3>6. dfs[n - 1][1] \in BB
      BY <1>2, <3>3, ElementOfSeq, <1>3 DEF Path, n
    <3>7. <<dfs[n - 1][1], c>> \in Edges
      BY <1>2, <3>5, <3>6, Graph
    <3> QED BY <3>4, <3>7
  <2>5. ASSUME NEW l \in DOMAIN reverse_post_order_'
        PROVE  /\ post_order_id_'[reverse_post_order_'[l]] = l - 1
               /\ reverse_post_order_'[l] # root =>
                    \/ \E a \in Active' : <<a, reverse_post_order_'[l]>> \in Edges'
                    \/ \E j \in DOMAIN reverse_post_order_' :
                         l < j /\ <<reverse_post_order_'[j], reverse_post_order_'[l]>> \in Edges'
    <3>1. CASE l \in 1 .. r
      BY <1>5, <2>1, <2>2, <3>1
    <3>2. CASE l = r + 1
      <4>1. reverse_post_order_'[l] = c /\ l - 1 = r
        BY <1>5, <3>2
      <4>2. post_order_id_'[reverse_post_order_'[l]] = l - 1
        BY <2>3, <4>1
      <4>3. \/ reverse_post_order_'[l] = root
            \/ \E a \in Active' : <<a, reverse_post_order_'[l]>> \in Edges'
        BY <2>1, <2>4, <4>1
      <4> QED BY <4>2, <4>3
    <3>3. l \in 1 .. r \/ l = r + 1
      BY <1>5, <2>5
    <3> QED BY <3>1, <3>2, <3>3
  <2> QED BY <1>13, <2>5 DEF PostOrder
<1>15. Ranges'
  <2>1. MaxBlock \in Nat \ {0}
    BY <1>2 DEF Sound
  <2>2. r + 1 \in 0 .. MaxBlock
    BY <1>5, <1>13, <2>1, Short
  <2>3. r \in 0 .. MaxBlock - 1
    BY <1>5, <2>1, <2>2
  <2>4. post_order_id_' \in [Pointer -> 0 .. MaxBlock - 1]
    BY <1>1, <1>2, <2>3 DEF Ranges
  <2> QED BY <1>1, <1>2, <1>5, <2>4 DEF Ranges, iteration, results
<1>16. SearchInv'
  BY <1>1, <1>11, <1>12, <1>14 DEF DInv, SearchInv, iteration, results
<1>17. Sound' /\ pc' = "search"
  BY <1>1, <1>2, SameFunction
<1> QED BY <1>15, <1>16, <1>17 DEF DInv, IterationInv, FrontierInv

\* The search is over and the order is reversed.
LEMMA KeptByReverseOrder ==
  ASSUME DInv, ReverseOrder
  PROVE  DInv'
<1> DEFINE s == reverse_post_order_
           n == Len(s)
           rpo == reverse_post_order_'
<1>1. /\ pc = "search" /\ dfs = << >>
      /\ rpo = Reverse(s)
      /\ pc' = "round"
      /\ idom_' = [b \in Pointer |-> IF b = root THEN root ELSE nullptr]
      /\ changed' = TRUE
      /\ UNCHANGED <<function, dfs, visited, post_order_id_, at, p, new_idom, b1, b2, results>>
  BY DEF ReverseOrder
<1>2. Sound /\ Ranges /\ Path /\ Covered /\ PostOrder
  BY <1>1 DEF DInv, SearchInv
<1>3. /\ s \in Seq(BB) /\ n \in Nat \ {0} /\ DOMAIN s = 1 .. n
      /\ \A i \in 1 .. n : s[i] \in BB
      /\ s[n] = root
  <2>1. s \in Seq(BB) /\ s # << >> /\ Last(s) = root
    BY <1>1, <1>2 DEF Ranges, Path
  <2> HIDE DEF s
  <2>2. n \in Nat \ {0} /\ DOMAIN s = 1 .. n /\ Last(s) = s[n]
    BY <2>1, FrontFacts
  <2>3. \A i \in 1 .. n : s[i] \in BB
    BY <2>1, ElementOfSeq
  <2> QED BY <2>1, <2>2, <2>3
<1>4. rpo = [i \in 1 .. n |-> s[(n - i) + 1]]
  BY <1>1 DEF Reverse
<1>5. Finished = Reachable
  <2>1. visited = Finished
    BY <1>1, <1>2 DEF Covered, Active
  <2>2. root \in Finished
    BY <1>3 DEF Finished, ToSet
  <2>3. \A a \in Finished, b \in Nodes : <<a, b>> \in Edges => b \in Finished
    BY <1>2, <2>1, Graph DEF Covered
  <2>4. IsFiniteSet(Nodes) /\ {root} \subseteq Finished
    BY <1>2, <2>2, Graph
  <2>5. Reachable \subseteq Finished
    BY <2>3, <2>4, ReachableLeast DEF Reachable
  <2> QED BY <1>2, <2>1, <2>5 DEF Covered
<1>6. \A i, j \in 1 .. n : s[i] = s[j] => i = j
  BY <1>2, <1>3 DEF PostOrder, IsInjective
<1>7. \A i \in 1 .. n : /\ post_order_id_[s[i]] = i - 1
                        /\ i # n => \E j \in 1 .. n : i < j /\ <<s[j], s[i]>> \in Edges
  <2> TAKE i \in 1 .. n
  <2>1. post_order_id_[s[i]] = i - 1
    BY <1>2, <1>3 DEF PostOrder
  <2>2. i # n => s[i] # root
    <3> HIDE DEF s, n
    <3>1. n \in 1 .. n
      BY <1>3
    <3> QED BY <1>3, <1>6, <3>1
  <2>3. Active = {}
    BY <1>1 DEF Active
  <2> QED BY <1>2, <1>3, <2>1, <2>2, <2>3 DEF PostOrder
<1>8. \A x : x \in ToSet(s) <=> \E i \in 1 .. n : x = s[i]
  BY <1>3 DEF ToSet
<1> HIDE DEF s, n, rpo
<1>9. /\ rpo \in Seq(BB) /\ Len(rpo) = n /\ DOMAIN rpo = 1 .. n /\ rpo # << >>
      /\ \A i \in 1 .. n : (n - i) + 1 \in 1 .. n /\ rpo[i] = s[(n - i) + 1]
  <2>1. \A i \in 1 .. n : (n - i) + 1 \in 1 .. n
    BY <1>3
  <2>2. rpo \in [1 .. n -> BB]
    BY <1>3, <1>4, <2>1
  <2>3. rpo \in Seq(BB) /\ Len(rpo) = n /\ DOMAIN rpo = 1 .. n
    BY <1>3, <2>2, IsASeq, LenProperties
  <2>4. rpo # << >>
    BY <1>3, <2>3, EmptySeq
  <2> QED BY <1>4, <2>1, <2>3, <2>4
<1>10. Numbered'
  <2>1. Reachable' = Reachable /\ Edges' = Edges /\ post_order_id_' = post_order_id_
    BY <1>1, SameFunction
  <2>2. \A i, j \in 1 .. n : rpo[i] = rpo[j] => i = j
    <3> TAKE i, j \in 1 .. n
    <3>1. s[(n - i) + 1] = s[(n - j) + 1] => (n - i) + 1 = (n - j) + 1
      BY <1>6, <1>9
    <3> QED BY <1>3, <1>9, <3>1
  <2>3. ToSet(rpo) = Reachable
    <3>1. \A i \in 1 .. n : rpo[i] \in ToSet(s)
      BY <1>8, <1>9
    <3>2. ASSUME NEW i \in 1 .. n PROVE \E j \in 1 .. n : s[i] = rpo[j]
      <4>1. (n - i) + 1 \in 1 .. n /\ (n - ((n - i) + 1)) + 1 = i
        BY <1>3
      <4> QED BY <1>9, <4>1
    <3>3. ToSet(rpo) = ToSet(s)
      <4>1. \A x : x \in ToSet(rpo) <=> \E i \in 1 .. n : x = rpo[i]
        BY <1>9 DEF ToSet
      <4>2. \A x \in ToSet(rpo) : x \in ToSet(s)
        BY <3>1, <4>1
      <4>3. \A x \in ToSet(s) : x \in ToSet(rpo)
        BY <1>8, <3>2, <4>1
      <4> QED BY <4>2, <4>3
    <3> QED BY <1>5, <3>3 DEF Finished, s
  <2>4. rpo[1] = root
    <3>1. 1 \in 1 .. n /\ (n - 1) + 1 = n
      BY <1>3
    <3> QED BY <1>3, <1>9, <3>1
  <2>5. ASSUME NEW i \in 1 .. n
        PROVE  /\ post_order_id_[rpo[i]] = n - i
               /\ i # 1 => \E j \in 1 .. n : j < i /\ <<rpo[j], rpo[i]>> \in Edges
    <3> DEFINE k == (n - i) + 1
    <3>1. k \in 1 .. n /\ rpo[i] = s[k] /\ k - 1 = n - i
      BY <1>3, <1>9
    <3>2. ASSUME i # 1 PROVE \E j \in 1 .. n : j < i /\ <<rpo[j], rpo[i]>> \in Edges
      <4>1. k # n
        BY <1>3, <3>2
      <4>2. PICK j \in 1 .. n : k < j /\ <<s[j], s[k]>> \in Edges
        BY <1>7, <3>1, <4>1
      <4> DEFINE l == (n - j) + 1
      <4>3. l \in 1 .. n /\ l < i /\ (n - l) + 1 = j
        BY <1>3, <4>2
      <4>4. rpo[l] = s[j]
        BY <1>9, <4>3
      <4> HIDE DEF l, k
      <4> QED BY <3>1, <4>2, <4>3, <4>4
    <3> HIDE DEF k
    <3> QED BY <1>7, <3>1, <3>2
  <2> QED BY <1>9, <2>1, <2>2, <2>3, <2>4, <2>5 DEF Numbered, IsInjective, rpo
<1>11. root \in BB /\ nullptr \notin BB /\ root \in Reachable
  BY <1>2, Graph
<1>12. Placed' = {root} /\ idom_'[root] = root /\ idom_'[nullptr] = nullptr
  BY <1>1, <1>11 DEF Placed, Pointer, BB
<1>13. Tree'
  <2>1. post_order_id_'[root] \in Nat /\ post_order_id_'[root] <= post_order_id_'[root]
    <3>1. root \in Pointer /\ MaxBlock \in Nat \ {0}
      BY <1>2, <1>11, Graph DEF Pointer
    <3>2. post_order_id_'[root] \in 0 .. MaxBlock - 1
      BY <1>1, <1>2, <3>1 DEF Ranges
    <3> QED BY <3>1, <3>2
  <2>2. Climbing(idom_', Placed', post_order_id_', root)
    BY <1>12, <2>1 DEF Climbing
  <2>3. Placed' \subseteq Reachable'
    BY <1>1, <1>11, <1>12, SameFunction
  <2> QED BY <1>12, <2>2, <2>3 DEF Tree
<1>14. Ranges'
  BY <1>1, <1>2, <1>9, <1>11 DEF Ranges, results, Pointer, rpo
<1>15. dom_frontier_' = [b \in Pointer |-> {}]
  BY <1>1 DEF DInv, SearchInv, results
<1> QED BY <1>1, <1>2, <1>10, <1>13, <1>14, <1>15, SameFunction
    DEF DInv, SearchInv, IterationInv, FrontierInv, BetweenRounds

-------------------------------------------------------------------------------
(* Chains *)

\* Chains and dominators depend on the function, the numbers and idom_ only.
LEMMA SameChains ==
  ASSUME UNCHANGED <<function, post_order_id_, idom_>>
  PROVE  /\ Tree' <=> Tree
         /\ Placed' = Placed /\ parent' = parent
         /\ \A x, y : /\ Above(x, y)' <=> Above(x, y)
                      /\ TreeAbove(x, y)' <=> TreeAbove(x, y)
                      /\ Doms(x, y)' <=> Doms(x, y)
                      /\ Arrives(x, y)' <=> Arrives(x, y)
         /\ \A b : Settled(b)' <=> Settled(b)
<1>1. /\ Nodes' = Nodes /\ Edges' = Edges /\ Reachable' = Reachable
      /\ idom_' = idom_ /\ post_order_id_' = post_order_id_
  BY SameFunction
<1>2. Placed' = Placed
  BY <1>1 DEF Placed
<1>3. parent' = parent
  BY <1>1 DEF parent
<1>4. \A x, y : Above(x, y)' <=> Above(x, y)
  BY <1>1, <1>2 DEF Above
<1>5. \A x, y : TreeAbove(x, y)' <=> TreeAbove(x, y)
  BY <1>1, <1>3 DEF TreeAbove
<1>6. \A x, y : Doms(x, y)' <=> Doms(x, y)
  BY <1>1 DEF Doms
<1>7. \A x, y : Arrives(x, y)' <=> Arrives(x, y)
  BY <1>1, <1>2 DEF Arrives
<1>8. \A b : Settled(b)' <=> Settled(b)
  BY <1>1, <1>2, <1>4, <1>7 DEF Settled
<1>9. Climbing(idom_, Placed, post_order_id_, root)'
        <=> Climbing(idom_, Placed, post_order_id_, root)
  BY <1>1, <1>2
<1>10. Tree' <=> Tree
  BY <1>1, <1>2, <1>4, <1>5, <1>6, <1>7, <1>9 DEF Tree
<1> QED BY <1>2, <1>3, <1>4, <1>5, <1>6, <1>7, <1>8, <1>10

\* Numbers count down from the root, in reverse post order.
LEMMA Numbers ==
  ASSUME Sound, Ranges, Numbered
  PROVE  LET rpo == reverse_post_order_ IN
         /\ Len(rpo) \in 1 .. MaxBlock /\ DOMAIN rpo = 1 .. Len(rpo)
         /\ \A i \in 1 .. Len(rpo) : rpo[i] \in Reachable /\ post_order_id_[rpo[i]] = Len(rpo) - i
         /\ \A b \in Reachable : \E i \in 1 .. Len(rpo) : b = rpo[i]
         /\ \A b \in Reachable : post_order_id_[b] \in Nat
         /\ \A b \in Reachable \ {root} : post_order_id_[b] < post_order_id_[root]
<1> DEFINE rpo == reverse_post_order_
           n == Len(rpo)
<1>1. rpo \in Seq(BB) /\ rpo # << >> /\ IsInjective(rpo) /\ MaxBlock \in Nat \ {0}
  BY DEF Sound, Ranges, Numbered
<1>2. n \in Nat \ {0} /\ DOMAIN rpo = 1 .. n
  BY <1>1, EmptySeq, LenProperties
<1>3. n \in 1 .. MaxBlock
  BY <1>1, <1>2, Short
<1>4. \A i \in 1 .. n : rpo[i] \in Reachable /\ post_order_id_[rpo[i]] = n - i
  BY <1>2 DEF Numbered, ToSet
<1>5. \A b \in Reachable : \E i \in 1 .. n : b = rpo[i]
  BY <1>2 DEF Numbered, ToSet
<1>6. ASSUME NEW b \in Reachable
      PROVE  /\ post_order_id_[b] \in Nat
             /\ b # root => post_order_id_[b] < post_order_id_[root]
  <2>1. PICK i \in 1 .. n : b = rpo[i]
    BY <1>5
  <2>2. post_order_id_[b] = n - i /\ n - i \in Nat
    BY <1>2, <1>4, <2>1
  <2>3. rpo[1] = root /\ 1 \in 1 .. n
    BY <1>2 DEF Numbered
  <2>4. post_order_id_[root] = n - 1
    BY <1>4, <2>3
  <2>5. b # root => i # 1
    BY <2>1, <2>3
  <2> QED BY <1>2, <2>2, <2>4, <2>5
<1> QED BY <1>2, <1>3, <1>4, <1>5, <1>6

\* parent leads along edges of the search, up to the root.
LEMMA Parents ==
  ASSUME Sound, Ranges, Numbered
  PROVE  /\ Climbing(parent, Reachable, post_order_id_, root)
         /\ \A b \in Reachable \ {root} :
              /\ parent[b] \in Reachable /\ <<parent[b], b>> \in Edges
              /\ post_order_id_[b] < post_order_id_[parent[b]]
<1> DEFINE rpo == reverse_post_order_
<1>1. ASSUME NEW b \in Reachable \ {root}
      PROVE  /\ parent[b] \in Reachable /\ <<parent[b], b>> \in Edges
             /\ post_order_id_[b] < post_order_id_[parent[b]]
  <2>1. /\ DOMAIN rpo = 1 .. Len(rpo) /\ Len(rpo) \in Nat
        /\ \A i \in 1 .. Len(rpo) : rpo[i] \in Reachable /\ post_order_id_[rpo[i]] = Len(rpo) - i
    BY Numbers
  <2>2. PICK i \in 1 .. Len(rpo) : b = rpo[i]
    BY Numbers
  <2>3. i # 1
    BY <2>2 DEF Numbered
  <2>4. PICK j \in 1 .. Len(rpo) : j < i /\ <<rpo[j], rpo[i]>> \in Edges
    BY <2>1, <2>3 DEF Numbered
  <2>5. /\ rpo[j] \in Reachable /\ <<rpo[j], b>> \in Edges
        /\ post_order_id_[b] < post_order_id_[rpo[j]]
    BY <2>1, <2>2, <2>4
  <2>6. parent[b] = CHOOSE c \in Reachable :
                      <<c, b>> \in Edges /\ post_order_id_[b] < post_order_id_[c]
    BY DEF parent
  <2> QED BY <2>5, <2>6
<1>2. root \in Reachable /\ parent[root] = root
  BY Graph DEF parent
<1>3. \A b \in Reachable : /\ post_order_id_[b] \in Nat
                           /\ b = root \/ post_order_id_[b] < post_order_id_[root]
  BY Numbers
<1>4. \A b \in Reachable : /\ parent[b] \in Reachable /\ post_order_id_[b] \in Nat
                           /\ post_order_id_[b] <= post_order_id_[root]
  <2> TAKE b \in Reachable
  <2>1. parent[b] \in Reachable
    BY <1>1, <1>2
  <2>2. post_order_id_[b] \in Nat /\ post_order_id_[root] \in Nat
    BY <1>2, <1>3
  <2>3. post_order_id_[b] <= post_order_id_[root]
    BY <1>3, <2>2
  <2> QED BY <2>1, <2>2, <2>3
<1> QED BY <1>1, <1>2, <1>4 DEF Climbing

\* Dominators of a block are over it, on the path of the search.
LEMMA DominatorsUp ==
  ASSUME Sound, Ranges, Numbered, NEW d, NEW n, Doms(d, n)
  PROVE  /\ d \in Reachable /\ n \in Reachable /\ TreeAbove(d, n)
         /\ post_order_id_[d] \in Nat /\ post_order_id_[n] \in Nat
         /\ d = n \/ post_order_id_[n] < post_order_id_[d]
<1>1. n \in DominatedBy(d, root, Nodes, Edges) /\ d \in Reachable
  BY DEF Doms
<1>2. n \in Reachable
  BY <1>1, DominatedDef DEF Reachable
<1>3. /\ Climbing(parent, Reachable, post_order_id_, root)
      /\ \A b \in Reachable \ {root} : <<parent[b], b>> \in Edges
  BY Parents
<1>4. IsFiniteSet(Nodes)
  BY Graph
<1>5. TreeAbove(d, n)
  BY <1>1, <1>3, <1>4, DominatorsOver DEF TreeAbove, Reachable
<1>6. /\ post_order_id_[d] \in Nat /\ post_order_id_[n] \in Nat
      /\ d = n \/ post_order_id_[n] < post_order_id_[d]
  BY <1>3, <1>5, OverRank DEF TreeAbove
<1> QED BY <1>1, <1>2, <1>5, <1>6

\* What dominates a block, itself apart, dominates its predecessors.
LEMMA DominatorsBack ==
  ASSUME Sound, NEW d, NEW n, Doms(d, n), NEW q \in Reachable, <<q, n>> \in Edges, n # d
  PROVE  Doms(d, q)
BY Graph, DominatedBack DEF Doms, Reachable

\* The chains of idom_ go along paths of the search.
LEMMA ChainsInTree ==
  ASSUME Sound, Ranges, Numbered, Tree, NEW x, NEW y, Above(x, y)
  PROVE  /\ TreeAbove(x, y)
         /\ x \in Placed /\ y \in Placed
         /\ post_order_id_[x] \in Nat /\ post_order_id_[y] \in Nat
         /\ x = y \/ post_order_id_[y] < post_order_id_[x]
<1>1. Climbing(idom_, Placed, post_order_id_, root) /\ Placed \subseteq Reachable
  BY DEF Tree
<1>2. /\ x \in Placed /\ y \in Placed
      /\ post_order_id_[x] \in Nat /\ post_order_id_[y] \in Nat
      /\ x = y \/ post_order_id_[y] < post_order_id_[x]
  BY <1>1, OverRank DEF Above
<1> DEFINE Q == {q \in Placed : TreeAbove(q, y)}
<1>3. y \in Q
  BY <1>1, <1>2, OverSelf DEF TreeAbove
<1>4. ASSUME NEW q \in Q PROVE idom_[q] \in Q
  <2>1. CASE q = root
    BY <1>1, <2>1 DEF Climbing
  <2>2. CASE q # root
    <3>1. TreeAbove(idom_[q], q) /\ idom_[q] \in Placed
      BY <1>1, <2>2 DEF Tree, Climbing
    <3> QED BY <3>1, OverTrans DEF TreeAbove
  <2> QED BY <2>1, <2>2
<1>5. x \in Q
  <2> HIDE DEF Q
  <2>1. Q \subseteq Placed
    BY DEF Q
  <2> QED BY <1>3, <1>4, <2>1 DEF Above, Over
<1> QED BY <1>2, <1>5

-------------------------------------------------------------------------------
(* The steps of the iteration that leave idom_ as it is *)

\* After the search, the list is numbered and idom_ is a tree.
LEMMA AfterSearch ==
  ASSUME DInv, pc # "search"
  PROVE  Sound /\ Ranges /\ Numbered /\ Tree /\ IterationInv /\ FrontierInv
BY DEF DInv

\* What is left to show of a step that leaves the function, the list and idom_.
LEMMA Steady ==
  ASSUME DInv, pc # "search", pc' # "search", UNCHANGED <<function, order, idom_>>,
         Ranges', IterationInv', FrontierInv'
  PROVE  DInv'
<1>1. Sound /\ Numbered /\ Tree
  BY AfterSearch
<1>2. Sound' /\ Nodes' = Nodes /\ Edges' = Edges /\ Reachable' = Reachable
  BY <1>1, SameFunction
<1>3. Numbered'
  BY <1>1, <1>2 DEF Numbered, order
<1>4. Tree'
  BY <1>1, SameChains DEF order
<1> QED BY <1>2, <1>3, <1>4 DEF DInv, SearchInv

\* The blocks that have had their turn are those numbered higher than the current one.
LEMMA TurnedByNumber ==
  ASSUME Sound, Ranges, Numbered, at \in 1 .. Len(reverse_post_order_)
  PROVE  /\ bb \in Reachable
         /\ Turned \subseteq Reachable
         /\ \A b \in Reachable : b \in Turned <=> post_order_id_[bb] < post_order_id_[b]
<1> DEFINE rpo == reverse_post_order_
           n == Len(rpo)
<1>1. /\ n \in Nat
      /\ \A i \in 1 .. n : rpo[i] \in Reachable /\ post_order_id_[rpo[i]] = n - i
      /\ \A b \in Reachable : \E i \in 1 .. n : b = rpo[i]
  BY Numbers
<1> HIDE DEF n
<1>2. bb \in Reachable /\ post_order_id_[bb] = n - at
  BY <1>1 DEF bb, n
<1>3. Turned \subseteq Reachable
  BY <1>1 DEF Turned, n
<1>4. ASSUME NEW i \in 1 .. at - 1
      PROVE  post_order_id_[bb] < post_order_id_[rpo[i]]
  <2>1. i \in 1 .. n /\ at \in 1 .. n
    BY <1>1 DEF n
  <2> QED BY <1>1, <1>2, <2>1
<1>5. ASSUME NEW b \in Reachable, post_order_id_[bb] < post_order_id_[b]
      PROVE  b \in Turned
  <2>1. PICK i \in 1 .. n : b = rpo[i]
    BY <1>1
  <2>2. n - at < n - i /\ at \in 1 .. n
    BY <1>1, <1>2, <1>5, <2>1 DEF n
  <2>3. i \in 1 .. at - 1
    BY <1>1, <2>2
  <2> QED BY <2>1, <2>3 DEF Turned
<1> QED BY <1>2, <1>3, <1>4, <1>5 DEF Turned

\* The current block and its predecessors.
LEMMA CurrentBlock ==
  ASSUME DInv, pc \in {"block", "preds", "intersect"},
         at <= Len(reverse_post_order_), bb # root
  PROVE  /\ at \in 1 .. Len(reverse_post_order_)
         /\ bb \in Reachable /\ bb \in BB /\ bb \notin Turned
         /\ Len(pre[bb]) \in 0 .. MaxBlock /\ DOMAIN pre[bb] = 1 .. Len(pre[bb])
         /\ parent[bb] \in Turned /\ Arrives(parent[bb], bb)
         /\ \A q : Arrives(q, bb) => \E i \in Known : pre[bb][i] = q
         /\ Known \subseteq 1 .. Len(pre[bb]) /\ Known # {} /\ First(Known) \in Known
         /\ \A i \in Known : /\ pre[bb][i] \in Placed /\ pre[bb][i] \in Reachable
                             /\ Arrives(pre[bb][i], bb)
<1>1. Sound /\ Ranges /\ Numbered /\ Tree /\ WithinRound
  BY AfterSearch DEF IterationInv
<1>2. at \in 1 .. Len(reverse_post_order_)
  <2>1. Len(reverse_post_order_) \in Nat
    BY <1>1, Numbers
  <2> QED BY <1>1, <2>1 DEF WithinRound
<1>3. bb \in Reachable /\ \A b \in Reachable : b \in Turned <=> post_order_id_[bb] < post_order_id_[b]
  BY <1>1, <1>2, TurnedByNumber
<1>4. bb \in BB /\ Reachable \subseteq BB
  BY <1>1, <1>3, Graph
<1>5. bb \notin Turned
  <2>1. post_order_id_[bb] \in Nat
    BY <1>1, <1>3, Numbers
  <2> QED BY <1>3, <2>1
<1>6. /\ parent[bb] \in Reachable /\ <<parent[bb], bb>> \in Edges
      /\ post_order_id_[bb] < post_order_id_[parent[bb]]
  BY <1>1, <1>3, Parents
<1>7. parent[bb] \in Turned
  BY <1>3, <1>6
<1>8. Arrives(parent[bb], bb)
  BY <1>1, <1>6, <1>7 DEF Arrives, WithinRound
<1>9. /\ Len(pre[bb]) \in 0 .. MaxBlock /\ DOMAIN pre[bb] = 1 .. Len(pre[bb])
      /\ \A i \in 1 .. Len(pre[bb]) : pre[bb][i] \in BB /\ <<pre[bb][i], bb>> \in Edges
  BY <1>1, <1>4, Lists
<1>10. ASSUME NEW q, Arrives(q, bb) PROVE \E i \in Known : pre[bb][i] = q
  <2>1. q \in ToSet(pre[bb]) /\ q \in Placed
    BY <1>1, <1>10, Graph DEF Arrives
  <2> QED BY <2>1 DEF ToSet, Known, Placed
<1>11. \A i \in Known : pre[bb][i] \in Placed /\ <<pre[bb][i], bb>> \in Edges
  BY <1>9 DEF Known, Placed
<1>12. Known \subseteq 1 .. Len(pre[bb])
  BY <1>9 DEF Known
<1>13. Known # {}
  BY <1>8, <1>10
<1>14. First(Known) \in Known
  <2>1. Known \subseteq Nat
    BY <1>9, <1>12
  <2>2. \E i \in Known : \A j \in Known : i <= j
    BY <1>13, <2>1, LeastNat
  <2> QED BY <2>2 DEF First
<1>15. Placed \subseteq Reachable
  BY <1>1 DEF Tree
<1> QED BY <1>2, <1>3, <1>4, <1>5, <1>7, <1>8, <1>9, <1>10, <1>11, <1>12, <1>13, <1>14, <1>15
    DEF Arrives

\* A round begins.
LEMMA KeptByRound ==
  ASSUME DInv, Round
  PROVE  DInv'
<1>1. /\ pc = "round" /\ at' = 1
      /\ changed => pc' = "block" /\ changed' = FALSE
      /\ ~ changed => pc' = "frontier" /\ changed' = changed
      /\ UNCHANGED <<function, order, p, idom_, new_idom, b1, b2, results>>
  BY DEF Round
<1>2. /\ Sound /\ Ranges /\ Numbered /\ Tree /\ BetweenRounds
      /\ dom_frontier_ = [b \in Pointer |-> {}]
  BY <1>1, AfterSearch DEF IterationInv
<1>3. MaxBlock \in Nat \ {0} /\ Len(reverse_post_order_) \in Nat
  BY <1>2, Numbers DEF Sound
<1>4. Ranges'
  <2>1. at' \in 1 .. MaxBlock + 1
    BY <1>1, <1>3
  <2>2. pc' \in {"block", "frontier"} /\ changed' \in BOOLEAN
    BY <1>1, <1>2 DEF Ranges
  <2> QED BY <1>1, <1>2, <2>1, <2>2 DEF Ranges, order, results
<1>5. /\ Placed' = Placed /\ Reachable' = Reachable
      /\ \A b : Settled(b)' <=> Settled(b)
  BY <1>1, SameChains, SameFunction DEF order
<1>6. Turned' = {}
  BY <1>1 DEF Turned
<1>7. IterationInv'
  <2>1. CASE changed
    <3>1. WithinRound'
      <4>1. at' \in 1 .. Len(reverse_post_order_') + 1
        BY <1>1, <1>3 DEF order
      <4> QED BY <1>6, <4>1 DEF WithinRound
    <3> QED BY <1>1, <1>2, <2>1, <3>1 DEF IterationInv, results
  <2>2. CASE ~ changed
    BY <1>1, <2>2 DEF IterationInv
  <2> QED BY <2>1, <2>2
<1>8. FrontierInv'
  <2>1. CASE changed
    BY <1>1, <2>1 DEF FrontierInv
  <2>2. CASE ~ changed
    <3>1. Complete'
      BY <1>2, <1>5, <2>2 DEF Complete, BetweenRounds
    <3>2. at' \in 1 .. Len(listed') + 1
      <4>1. Len(listed) \in Nat
        BY <1>2, LenProperties DEF Sound
      <4> QED BY <1>1, <4>1 DEF function
    <3>3. ASSUME NEW b \in Reachable', NEW j \in BB
          PROVE  j \in dom_frontier_'[b] <=> Walked(j, b)' \/ Walking(j, b)'
      <4>1. b \in Pointer
        BY <1>2, <1>5, <3>3, Graph DEF Pointer
      <4>2. dom_frontier_'[b] = {}
        BY <1>1, <1>2, <4>1 DEF results
      <4>3. ~ Walking(j, b)'
        BY <1>1, <2>2 DEF Walking
      <4>4. ~ Walked(j, b)'
        <5>1. DOMAIN listed = 1 .. Len(listed) /\ Len(listed) \in Nat
          BY <1>2, LenProperties DEF Sound
        <5>2. \A i \in DOMAIN listed' : ~ i < at'
          BY <1>1, <5>1 DEF function
        <5> QED BY <5>2 DEF Walked
      <4> QED BY <4>2, <4>3, <4>4
    <3> QED BY <1>1, <2>2, <3>1, <3>2, <3>3 DEF FrontierInv
  <2> QED BY <2>1, <2>2
<1>9. pc' # "search" /\ pc # "search"
  BY <1>1
<1> QED BY <1>1, <1>4, <1>7, <1>8, <1>9, Steady

\* A round ends: either another one begins, or every block has its immediate dominator.
LEMMA KeptByEndRound ==
  ASSUME DInv, EndRound
  PROVE  DInv'
<1>1. /\ pc = "block" /\ at > Len(reverse_post_order_) /\ pc' = "round"
      /\ UNCHANGED <<function, order, iteration, at, p, results>>
  BY DEF EndRound
<1>2. /\ Sound /\ Ranges /\ Numbered /\ Tree /\ WithinRound
      /\ dom_frontier_ = [b \in Pointer |-> {}]
  BY <1>1, AfterSearch DEF IterationInv
<1>3. Turned = Reachable
  <2>1. at - 1 = Len(reverse_post_order_)
    BY <1>1, <1>2, Numbers DEF WithinRound
  <2>2. /\ \A i \in 1 .. at - 1 : reverse_post_order_[i] \in Reachable
        /\ \A b \in Reachable : \E i \in 1 .. at - 1 : b = reverse_post_order_[i]
    BY <1>2, <2>1, Numbers
  <2> QED BY <2>2 DEF Turned
<1>4. /\ Placed' = Placed /\ Reachable' = Reachable
      /\ \A b : Settled(b)' <=> Settled(b)
  BY <1>1, SameChains, SameFunction DEF order, iteration
<1>5. BetweenRounds'
  BY <1>1, <1>2, <1>3, <1>4 DEF BetweenRounds, WithinRound, iteration
<1>6. IterationInv'
  BY <1>1, <1>2, <1>5 DEF IterationInv, results
<1>7. FrontierInv'
  BY <1>1 DEF FrontierInv
<1>8. Ranges'
  BY <1>1, <1>2 DEF Ranges, order, iteration, results
<1>9. pc' # "search" /\ pc # "search"
  BY <1>1
<1> QED BY <1>1, <1>6, <1>7, <1>8, <1>9, Steady DEF iteration

\* The entry keeps itself as its dominator.
LEMMA KeptBySkipRoot ==
  ASSUME DInv, SkipRoot
  PROVE  DInv'
<1>1. /\ pc = "block" /\ at <= Len(reverse_post_order_) /\ bb = root /\ at' = at + 1
      /\ UNCHANGED <<function, pc, order, iteration, p, results>>
  BY DEF SkipRoot
<1>2. /\ Sound /\ Ranges /\ Numbered /\ Tree /\ WithinRound
      /\ dom_frontier_ = [b \in Pointer |-> {}]
  BY <1>1, AfterSearch DEF IterationInv
<1>3. Len(reverse_post_order_) \in 1 .. MaxBlock /\ at \in 1 .. Len(reverse_post_order_)
  BY <1>1, <1>2, Numbers DEF WithinRound
<1>4. at = 1
  <2>1. reverse_post_order_[at] = reverse_post_order_[1]
    BY <1>1, <1>2 DEF Numbered, bb
  <2>2. 1 \in DOMAIN reverse_post_order_ /\ at \in DOMAIN reverse_post_order_
    BY <1>2, <1>3, Numbers
  <2> QED BY <1>2, <2>1, <2>2 DEF Numbered, IsInjective
<1>5. Turned' = {root}
  <2>1. at' - 1 = 1
    BY <1>1, <1>4
  <2>2. reverse_post_order_'[1] = root
    BY <1>1, <1>2 DEF Numbered, order
  <2> QED BY <2>1, <2>2 DEF Turned
<1>6. root \in Placed'
  BY <1>1, <1>2 DEF Tree, Climbing, Placed, iteration
<1>7. WithinRound'
  <2>1. at' \in 1 .. Len(reverse_post_order_') + 1
    BY <1>1, <1>3 DEF order
  <2>2. Turned' \ {root} = {}
    BY <1>5
  <2> QED BY <1>5, <1>6, <2>1, <2>2 DEF WithinRound
<1>8. IterationInv' /\ FrontierInv'
  BY <1>1, <1>2, <1>7 DEF IterationInv, FrontierInv, results
<1>9. Ranges'
  <2>1. at' \in 1 .. MaxBlock + 1
    <3>1. MaxBlock \in Nat
      BY <1>2 DEF Sound
    <3> QED BY <1>1, <1>3, <3>1
  <2> QED BY <1>1, <1>2, <2>1 DEF Ranges, order, iteration, results
<1>10. pc' # "search" /\ pc # "search"
  BY <1>1
<1> QED BY <1>1, <1>8, <1>9, <1>10, Steady DEF iteration

\* Within the turn of a block, the block and its predecessors stay the same.
LEMMA SameTurn ==
  ASSUME UNCHANGED <<function, order, idom_, changed, at>>
  PROVE  /\ bb' = bb /\ Known' = Known /\ Placed' = Placed /\ Reachable' = Reachable
         /\ pre' = pre /\ reverse_post_order_' = reverse_post_order_
         /\ post_order_id_' = post_order_id_ /\ at' = at
         /\ WithinRound' <=> WithinRound
         /\ \A x, y : (Above(x, y)' <=> Above(x, y)) /\ (Doms(x, y)' <=> Doms(x, y))
<1>1. /\ pre' = pre /\ reverse_post_order_' = reverse_post_order_ /\ at' = at
      /\ changed' = changed /\ idom_' = idom_ /\ post_order_id_' = post_order_id_
  BY DEF function, order
<1>2. bb' = bb
  BY <1>1 DEF bb
<1>3. Known' = Known
  BY <1>1, <1>2 DEF Known
<1>4. /\ Placed' = Placed /\ Reachable' = Reachable
      /\ \A x, y : /\ Above(x, y)' <=> Above(x, y)
                   /\ TreeAbove(x, y)' <=> TreeAbove(x, y)
                   /\ Doms(x, y)' <=> Doms(x, y)
      /\ \A b : Settled(b)' <=> Settled(b)
  BY SameChains, SameFunction DEF order
<1>5. Turned' = Turned
  BY <1>1 DEF Turned
<1>6. WithinRound' <=> WithinRound
  BY <1>1, <1>4, <1>5 DEF WithinRound
<1> QED BY <1>1, <1>2, <1>3, <1>4, <1>6

\* What is left to show of a step within the turn of a block.
LEMMA SteadyTurn ==
  ASSUME DInv, pc \in {"block", "preds", "intersect"}, pc' \in {"preds", "intersect"},
         UNCHANGED <<function, order, idom_, changed, at, results>>,
         Ranges', Meeting', pc' = "intersect" => Fingers'
  PROVE  DInv'
<1>1. WithinRound /\ dom_frontier_ = [b \in Pointer |-> {}]
  BY AfterSearch DEF IterationInv
<1>2. WithinRound'
  BY <1>1, SameTurn
<1>3. IterationInv'
  BY <1>1, <1>2 DEF IterationInv, results
<1>4. FrontierInv'
  BY DEF FrontierInv
<1>5. pc # "search" /\ pc' # "search"
  OBVIOUS
<1> QED BY <1>3, <1>4, <1>5, Steady

\* A strict dominator of the current block dominates its predecessors.
LEMMA DominatesPreds ==
  ASSUME DInv, pc \in {"block", "preds", "intersect"},
         at <= Len(reverse_post_order_), bb # root,
         NEW i \in Known, NEW d \in Reachable \ {bb}, Doms(d, bb)
  PROVE  Doms(d, pre[bb][i])
<1>1. Sound /\ pre[bb][i] \in Reachable /\ <<pre[bb][i], bb>> \in Edges
  BY AfterSearch, CurrentBlock DEF Arrives
<1> HIDE DEF bb
<1> QED BY <1>1, DominatorsBack

\* A predecessor with a dominator is chosen for the next block.
LEMMA KeptByChoosePred ==
  ASSUME DInv, ChoosePred
  PROVE  DInv'
<1>1. /\ pc = "block" /\ at <= Len(reverse_post_order_) /\ bb # root
      /\ Known # {} => pc' = "preds" /\ new_idom' = pre[bb][First(Known)]
      /\ p' = 1
      /\ UNCHANGED <<function, order, idom_, changed, b1, b2, at, results>>
  BY DEF ChoosePred
<1>2. Sound /\ Ranges /\ Tree
  BY <1>1, AfterSearch
<1>3. /\ Known # {} /\ First(Known) \in Known /\ Len(pre[bb]) \in Nat
      /\ Known \subseteq 1 .. Len(pre[bb])
      /\ pre[bb][First(Known)] \in Placed
  BY <1>1, CurrentBlock
<1> DEFINE q == pre[bb][First(Known)]
<1>4. pc' = "preds" /\ new_idom' = q
  BY <1>1, <1>3
<1>5. Ranges'
  <2>1. 1 \in 1 .. MaxBlock + 1
    BY <1>2 DEF Sound
  <2>2. q \in Pointer
    BY <1>3 DEF Placed, Pointer
  <2> QED BY <1>1, <1>2, <1>4, <2>1, <2>2 DEF Ranges, order, results
<1>6. /\ bb' = bb /\ Known' = Known /\ Placed' = Placed /\ Reachable' = Reachable
      /\ pre' = pre /\ reverse_post_order_' = reverse_post_order_ /\ at' = at
      /\ \A x, y : (Above(x, y)' <=> Above(x, y)) /\ (Doms(x, y)' <=> Doms(x, y))
  BY <1>1, SameTurn
<1>7. Taken' = {q}
  <2>1. \A i \in Known : ~ i < 1
    BY <1>3
  <2>2. Taken' = {pre[bb][i] : i \in {i \in Known : i < 1 \/ pre[bb][i] = q}}
    BY <1>1, <1>4, <1>6 DEF Taken
  <2>3. \A x \in Taken' : x = q
    BY <2>1, <2>2
  <2>4. q \in Taken'
    BY <1>3, <2>2
  <2> QED BY <2>3, <2>4
<1>8. Above(q, q)
  BY <1>3, OverSelf DEF Above
<1>9. \A d \in Reachable \ {bb} : Doms(d, bb) => Doms(d, q)
  BY <1>1, <1>3, DominatesPreds
<1> HIDE DEF q
<1>10. Meeting'
  <2>1. p' \in 1 .. Len(pre[bb]) + 1
    BY <1>1, <1>3
  <2> QED BY <1>1, <1>3, <1>4, <1>6, <1>7, <1>8, <1>9, <2>1 DEF Meeting, q
<1>11. UNCHANGED <<function, order, idom_, changed, at, results>> /\ pc' # "intersect"
  BY <1>1, <1>4
<1> QED BY <1>1, <1>4, <1>5, <1>10, <1>11, SteadyTurn

\* The next predecessor of the block is looked at.
LEMMA KeptByNextPred ==
  ASSUME DInv, NextPred
  PROVE  DInv'
<1> DEFINE q == pre[bb][p]
           f == pre[bb][First(Known)]
<1>1. /\ pc = "preds" /\ p <= Len(pre[bb]) /\ p' = p + 1
      /\ q # f /\ p \in Known => pc' = "intersect" /\ b1' = q /\ b2' = new_idom
      /\ ~ (q # f /\ p \in Known) => UNCHANGED <<pc, b1, b2>>
      /\ UNCHANGED <<function, order, idom_, changed, new_idom, at, results>>
  BY DEF NextPred
<1>2. Sound /\ Ranges /\ Tree /\ Meeting
  BY <1>1, AfterSearch DEF IterationInv
<1>3. /\ at <= Len(reverse_post_order_) /\ bb # root
      /\ p \in 1 .. Len(pre[bb]) /\ Len(pre[bb]) \in 0 .. MaxBlock
      /\ Known \subseteq 1 .. Len(pre[bb])
      /\ \A i \in Known : pre[bb][i] \in Placed
  <2>1. at <= Len(reverse_post_order_) /\ bb # root /\ p \in 1 .. Len(pre[bb]) + 1
    BY <1>2 DEF Meeting
  <2>2. /\ Len(pre[bb]) \in 0 .. MaxBlock /\ Known \subseteq 1 .. Len(pre[bb])
        /\ \A i \in Known : pre[bb][i] \in Placed
    BY <1>1, <2>1, CurrentBlock
  <2> QED BY <1>1, <2>1, <2>2
<1>4. /\ bb' = bb /\ Known' = Known /\ Placed' = Placed /\ Reachable' = Reachable
      /\ pre' = pre /\ reverse_post_order_' = reverse_post_order_ /\ at' = at
      /\ \A x, y : (Above(x, y)' <=> Above(x, y)) /\ (Doms(x, y)' <=> Doms(x, y))
  BY <1>1, SameTurn
<1>5. Taken = {pre[bb][i] : i \in {i \in Known : i < p \/ pre[bb][i] = f}}
  BY <1>1 DEF Taken
<1>6. Taken' = Taken
  <2>1. CASE q # f /\ p \in Known
    <3>1. p' - 1 = p /\ pc' = "intersect"
      BY <1>1, <1>3, <2>1
    <3> QED BY <1>4, <1>5, <3>1 DEF Taken
  <2>2. CASE ~ (q # f /\ p \in Known)
    <3>1. Taken' = {pre[bb][i] : i \in {i \in Known : i < p + 1 \/ pre[bb][i] = f}}
      BY <1>1, <1>4, <2>2 DEF Taken
    <3>2. \A i \in Known : (i < p + 1 \/ pre[bb][i] = f) <=> (i < p \/ pre[bb][i] = f)
      <4> TAKE i \in Known
      <4>1. i \in Nat /\ p \in Nat
        BY <1>3
      <4>2. i = p => pre[bb][i] = f
        BY <2>2
      <4> HIDE DEF f
      <4> QED BY <4>1, <4>2
    <3> HIDE DEF f
    <3> QED BY <1>5, <3>1, <3>2
  <2> QED BY <2>1, <2>2
<1>7. Meeting'
  <2>1. p' \in 1 .. Len(pre[bb]) + 1
    BY <1>1, <1>3
  <2>2. new_idom' = new_idom
    BY <1>1
  <2> QED BY <1>2, <1>4, <1>6, <2>1, <2>2 DEF Meeting
<1>8. pc' \in {"preds", "intersect"}
  BY <1>1
<1>9. ASSUME pc' = "intersect" PROVE Fingers'
  <2>1. q # f /\ p \in Known /\ b1' = q /\ b2' = new_idom /\ p' - 1 = p
    BY <1>1, <1>3, <1>9
  <2>2. Above(q, q) /\ Above(new_idom, new_idom)
    BY <1>2, <1>3, <2>1, OverSelf DEF Above, Meeting
  <2>3. \A d \in Reachable \ {bb} : Doms(d, bb) => Doms(d, q) /\ Doms(d, new_idom)
    BY <1>1, <1>2, <1>3, <2>1, DominatesPreds DEF Meeting
  <2>4. new_idom' = new_idom
    BY <1>1
  <2> QED BY <1>4, <2>1, <2>2, <2>3, <2>4 DEF Fingers
<1>10. Ranges'
  <2>1. p' \in 1 .. MaxBlock + 1
    <3>1. MaxBlock \in Nat
      BY <1>2 DEF Sound
    <3> QED BY <1>1, <1>3, <3>1
  <2>2. b1' \in Pointer /\ b2' \in Pointer
    <3>1. p \in Known => q \in Pointer
      BY <1>3 DEF Placed, Pointer
    <3> HIDE DEF q
    <3> QED BY <1>1, <1>2, <3>1 DEF Ranges
  <2> QED BY <1>1, <1>2, <1>8, <2>1, <2>2 DEF Ranges, order, results
<1>11. UNCHANGED <<function, order, idom_, changed, at, results>>
  BY <1>1
<1> QED BY <1>1, <1>7, <1>8, <1>9, <1>10, <1>11, SteadyTurn

\* The finger x that is lower than the other one, y, can climb: it has a dominator, which
\* is over what x was over, and under what x and y have in common.
LEMMA LowerFinger ==
  ASSUME Sound, Ranges, Numbered, Tree,
         NEW x \in Placed, NEW y \in Placed, post_order_id_[x] < post_order_id_[y]
  PROVE  /\ idom_[x] \in Placed /\ idom_[x] # nullptr
         /\ Above(idom_[x], x)
         /\ \A z : Above(z, x) /\ Above(z, y) => Above(z, idom_[x])
         /\ \A d : Doms(d, x) /\ Doms(d, y) => Doms(d, idom_[x])
<1>1. Climbing(idom_, Placed, post_order_id_, root) /\ Placed \subseteq Reachable
  BY DEF Tree
<1>2. /\ post_order_id_[x] \in Nat /\ post_order_id_[y] \in Nat /\ post_order_id_[root] \in Nat
      /\ post_order_id_[y] <= post_order_id_[root]
  BY <1>1 DEF Climbing
<1>3. x # root
  BY <1>2
<1>4. idom_[x] \in Placed /\ Above(idom_[x], x)
  BY <1>1, OverSelf DEF Above, Climbing
<1>5. ASSUME NEW z, Above(z, x), Above(z, y) PROVE Above(z, idom_[x])
  <2>1. z # x
    BY <1>2, <1>5, ChainsInTree
  <2> QED BY <1>4, <1>5, <2>1, OverNext DEF Above
<1>6. ASSUME NEW d, Doms(d, x), Doms(d, y) PROVE Doms(d, idom_[x])
  <2>1. d # x
    BY <1>2, <1>6, DominatorsUp
  <2>2. d \in Reachable \ {x}
    BY <1>6, <2>1 DEF Doms
  <2> QED BY <1>3, <1>6, <2>2 DEF Tree
<1> QED BY <1>4, <1>5, <1>6 DEF Placed

\* The finger with the smaller number climbs to its immediate dominator.
LEMMA KeptByClimb ==
  ASSUME DInv, NEW b \in BB, Climb(b)
  PROVE  DInv'
<1> DEFINE q == pre[bb][p - 1]
<1>1. /\ pc = "intersect"
      /\ \/ b = b1 /\ post_order_id_[b1] < post_order_id_[b2] /\ b1' = idom_[b1] /\ b2' = b2
         \/ b = b2 /\ post_order_id_[b2] < post_order_id_[b1] /\ b2' = idom_[b2] /\ b1' = b1
      /\ pc' = IF idom_[b] = nullptr THEN "aborted" ELSE pc
      /\ UNCHANGED <<function, order, idom_, changed, new_idom, at, p, results>>
  BY DEF Climb
<1>2. Sound /\ Ranges /\ Numbered /\ Tree /\ Meeting /\ Fingers
  BY <1>1, AfterSearch DEF IterationInv
<1>3. /\ Above(b1, q) /\ Above(b2, new_idom) /\ p - 1 \in Known
      /\ \A y \in Placed : Above(y, q) /\ Above(y, new_idom) => Above(y, b1) /\ Above(y, b2)
      /\ \A d \in Reachable \ {bb} : Doms(d, bb) => Doms(d, b1) /\ Doms(d, b2)
  BY <1>2 DEF Fingers
<1> HIDE DEF q
<1>4. b1 \in Placed /\ b2 \in Placed
  BY <1>2, <1>3, ChainsInTree
<1>5. /\ idom_[b] # nullptr /\ b1' \in Placed /\ b2' \in Placed
      /\ Above(b1', q) /\ Above(b2', new_idom)
      /\ \A y : Above(y, b1) /\ Above(y, b2) => Above(y, b1') /\ Above(y, b2')
      /\ \A d : Doms(d, b1) /\ Doms(d, b2) => Doms(d, b1') /\ Doms(d, b2')
  <2>1. CASE b = b1 /\ post_order_id_[b1] < post_order_id_[b2] /\ b1' = idom_[b1] /\ b2' = b2
    <3>1. /\ idom_[b1] \in Placed /\ idom_[b1] # nullptr /\ Above(idom_[b1], b1)
          /\ \A z : Above(z, b1) /\ Above(z, b2) => Above(z, idom_[b1])
          /\ \A d : Doms(d, b1) /\ Doms(d, b2) => Doms(d, idom_[b1])
      BY <1>2, <1>4, <2>1, LowerFinger
    <3>2. Above(idom_[b1], q)
      BY <1>3, <3>1, OverTrans DEF Above
    <3> QED BY <1>3, <1>4, <2>1, <3>1, <3>2
  <2>2. CASE b = b2 /\ post_order_id_[b2] < post_order_id_[b1] /\ b2' = idom_[b2] /\ b1' = b1
    <3>1. /\ idom_[b2] \in Placed /\ idom_[b2] # nullptr /\ Above(idom_[b2], b2)
          /\ \A z : Above(z, b2) /\ Above(z, b1) => Above(z, idom_[b2])
          /\ \A d : Doms(d, b2) /\ Doms(d, b1) => Doms(d, idom_[b2])
      BY <1>2, <1>4, <2>2, LowerFinger
    <3>2. Above(idom_[b2], new_idom)
      BY <1>3, <3>1, OverTrans DEF Above
    <3> QED BY <1>3, <1>4, <2>2, <3>1, <3>2
  <2> QED BY <1>1, <2>1, <2>2
<1>6. pc' = "intersect"
  BY <1>1, <1>5
<1>7. /\ bb' = bb /\ Known' = Known /\ Placed' = Placed /\ Reachable' = Reachable
      /\ pre' = pre /\ reverse_post_order_' = reverse_post_order_ /\ at' = at
      /\ \A x, y : (Above(x, y)' <=> Above(x, y)) /\ (Doms(x, y)' <=> Doms(x, y))
  BY <1>1, SameTurn
<1>8. p' = p /\ new_idom' = new_idom
  BY <1>1
<1>9. Meeting'
  <2>1. Taken' = Taken
    BY <1>1, <1>6, <1>7, <1>8 DEF Taken
  <2> QED BY <1>2, <1>7, <1>8, <2>1 DEF Meeting
<1>10. Fingers'
  <2> DEFINE c == b1'
             d == b2'
  <2>1. /\ \A y \in Placed : Above(y, q) /\ Above(y, new_idom) => Above(y, c) /\ Above(y, d)
        /\ \A e \in Reachable \ {bb} : Doms(e, bb) => Doms(e, c) /\ Doms(e, d)
    BY <1>3, <1>5
  <2>2. /\ Fingers' <=>
            /\ p' - 1 \in Known'
            /\ Above(b1, pre[bb][p - 1])' /\ Above(b2, new_idom)'
            /\ \A y \in Placed' : Above(y, pre[bb][p - 1])' /\ Above(y, new_idom)'
                                  => Above(y, b1)' /\ Above(y, b2)'
            /\ \A e \in Reachable' \ {bb'} : Doms(e, bb)' => Doms(e, b1)' /\ Doms(e, b2)'
    BY DEF Fingers
  <2>3. Above(b1, pre[bb][p - 1])' <=> Above(c, q)
    BY <1>1, <1>7, <1>8 DEF Above, q
  <2>4. Above(b2, new_idom)' <=> Above(d, new_idom)
    BY <1>1, <1>7, <1>8 DEF Above
  <2>5. ASSUME NEW y
        PROVE  /\ Above(y, pre[bb][p - 1])' <=> Above(y, q)
               /\ Above(y, new_idom)' <=> Above(y, new_idom)
               /\ Above(y, b1)' <=> Above(y, c)
               /\ Above(y, b2)' <=> Above(y, d)
    BY <1>1, <1>7, <1>8 DEF Above, q
  <2>6. ASSUME NEW e
        PROVE  /\ Doms(e, bb)' <=> Doms(e, bb)
               /\ Doms(e, b1)' <=> Doms(e, c)
               /\ Doms(e, b2)' <=> Doms(e, d)
    <3>1. Nodes' = Nodes /\ Edges' = Edges
      BY <1>1, SameFunction
    <3> QED BY <1>1, <1>7, <3>1 DEF Doms
  <2> HIDE DEF c, d
  <2>7. Above(c, q) /\ Above(d, new_idom)
    BY <1>5 DEF c, d
  <2>8. p' - 1 \in Known'
    BY <1>3, <1>7, <1>8
  <2> QED BY <1>7, <2>1, <2>2, <2>3, <2>4, <2>5, <2>6, <2>7, <2>8
<1>11. Ranges'
  <2>1. b1' \in Pointer /\ b2' \in Pointer
    BY <1>5 DEF Placed, Pointer
  <2> QED BY <1>1, <1>2, <1>6, <1>8, <2>1 DEF Ranges, order, results
<1>12. UNCHANGED <<function, order, idom_, changed, at, results>>
  BY <1>1
<1> QED BY <1>1, <1>6, <1>9, <1>10, <1>11, <1>12, SteadyTurn

\* The fingers have met.
LEMMA KeptByMet ==
  ASSUME DInv, Met
  PROVE  DInv'
<1> DEFINE q == pre[bb][p - 1]
<1>1. /\ pc = "intersect" /\ b1 = b2 /\ new_idom' = b1 /\ pc' = "preds"
      /\ UNCHANGED <<function, order, idom_, changed, b1, b2, at, p, results>>
  BY DEF Met
<1>2. Sound /\ Ranges /\ Numbered /\ Tree /\ Meeting /\ Fingers
  BY <1>1, AfterSearch DEF IterationInv
<1>3. /\ Above(b1, q) /\ Above(b1, new_idom) /\ p - 1 \in Known
      /\ \A y \in Placed : Above(y, q) /\ Above(y, new_idom) => Above(y, b1)
      /\ \A d \in Reachable \ {bb} : Doms(d, bb) => Doms(d, b1)
  BY <1>1, <1>2 DEF Fingers
<1>4. /\ at <= Len(reverse_post_order_) /\ bb # root
      /\ Known # {} /\ p \in 1 .. Len(pre[bb]) + 1
      /\ \A x \in Taken : Above(new_idom, x)
      /\ \A y \in Placed : (\A x \in Taken : Above(y, x)) => Above(y, new_idom)
  BY <1>2 DEF Meeting
<1> HIDE DEF q
<1>5. b1 \in Placed
  BY <1>2, <1>3, ChainsInTree
<1>6. /\ bb' = bb /\ Known' = Known /\ Placed' = Placed /\ Reachable' = Reachable
      /\ pre' = pre /\ reverse_post_order_' = reverse_post_order_ /\ at' = at
      /\ \A x, y : (Above(x, y)' <=> Above(x, y)) /\ (Doms(x, y)' <=> Doms(x, y))
  BY <1>1, SameTurn
<1>7. Taken' = Taken \cup {q}
  <2> DEFINE f == pre[bb][First(Known)]
  <2>1. Taken = {pre[bb][i] : i \in {i \in Known : i < p - 1 \/ pre[bb][i] = f}}
    BY <1>1 DEF Taken
  <2>2. Taken' = {pre[bb][i] : i \in {i \in Known : i < p \/ pre[bb][i] = f}}
    BY <1>1, <1>6 DEF Taken
  <2>3. Known \subseteq Nat /\ p \in Nat
    <3>1. Known \subseteq 1 .. Len(pre[bb]) /\ Len(pre[bb]) \in 0 .. MaxBlock
      BY <1>1, <1>4, CurrentBlock
    <3> QED BY <1>4, <3>1
  <2>4. \A i \in Known : i < p <=> i < p - 1 \/ i = p - 1
    BY <2>3
  <2> HIDE DEF f
  <2>5. \A x \in Taken' : x \in Taken \cup {q}
    BY <2>1, <2>2, <2>4 DEF q
  <2>6. \A x \in Taken : x \in Taken'
    BY <2>1, <2>2, <2>4
  <2>7. q \in Taken'
    BY <1>3, <2>2, <2>4 DEF q
  <2> QED BY <2>5, <2>6, <2>7
<1>8. Meeting'
  <2>1. \A x \in Taken : Above(b1, x)
    BY <1>3, <1>4, OverTrans DEF Above
  <2>2. \A x \in Taken' : Above(b1, x)
    BY <1>3, <1>7, <2>1
  <2>3. \A y \in Placed : (\A x \in Taken' : Above(y, x)) => Above(y, b1)
    BY <1>3, <1>4, <1>7
  <2>4. p' = p
    BY <1>1
  <2> HIDE DEF Taken
  <2> QED BY <1>1, <1>3, <1>4, <1>5, <1>6, <2>2, <2>3, <2>4 DEF Meeting
<1>9. Ranges'
  BY <1>1, <1>2 DEF Ranges, order, results
<1>10. UNCHANGED <<function, order, idom_, changed, at, results>> /\ pc' # "intersect"
  BY <1>1
<1> QED BY <1>1, <1>8, <1>9, <1>10, SteadyTurn

-------------------------------------------------------------------------------
(* The step that sets idom_ *)

\* When all predecessors of a block have been taken, new_idom is what they have in common:
\* it is over the predecessor on the path of the search, and over the dominator that the
\* block had before, if it had one.
LEMMA NewDominator ==
  ASSUME DInv, pc = "preds", p > Len(pre[bb])
  PROVE  /\ new_idom \in Placed /\ new_idom \in Turned
         /\ Above(new_idom, parent[bb]) /\ TreeAbove(new_idom, bb)
         /\ post_order_id_[bb] < post_order_id_[new_idom]
         /\ \A q : Arrives(q, bb) => Above(new_idom, q)
         /\ \A y \in Placed : (\A q \in Placed : Arrives(q, bb) => Above(y, q))
                                => Above(y, new_idom)
         /\ \A d \in Reachable \ {bb} : Doms(d, bb) => Doms(d, new_idom)
         /\ bb \in Placed => /\ Above(new_idom, idom_[bb])
                             /\ post_order_id_[idom_[bb]] <= post_order_id_[new_idom]
<1>1. Sound /\ Ranges /\ Numbered /\ Tree /\ WithinRound /\ Meeting
  BY AfterSearch DEF IterationInv
<1>2. at <= Len(reverse_post_order_) /\ bb # root
  BY <1>1 DEF Meeting
<1>3. /\ at \in 1 .. Len(reverse_post_order_) /\ bb \in Reachable
      /\ parent[bb] \in Turned /\ Arrives(parent[bb], bb)
      /\ \A q : Arrives(q, bb) => \E i \in Known : pre[bb][i] = q
      /\ Len(pre[bb]) \in 0 .. MaxBlock /\ Known \subseteq 1 .. Len(pre[bb])
      /\ \A i \in Known : pre[bb][i] \in Placed /\ Arrives(pre[bb][i], bb)
  BY <1>2, CurrentBlock
<1>4. \A b \in Reachable : b \in Turned <=> post_order_id_[bb] < post_order_id_[b]
  BY <1>1, <1>3, TurnedByNumber
<1>5. \A q : q \in Taken <=> Arrives(q, bb)
  <2> DEFINE f == pre[bb][First(Known)]
  <2>1. Taken = {pre[bb][i] : i \in {i \in Known : i < p \/ pre[bb][i] = f}}
    BY DEF Taken
  <2>2. \A i \in Known : i < p
    <3>1. p \in Nat
      BY <1>1, <1>3 DEF Meeting
    <3> QED BY <1>3, <3>1
  <2> HIDE DEF f
  <2> QED BY <1>3, <2>1, <2>2
<1>6. /\ new_idom \in Placed
      /\ \A q : Arrives(q, bb) => Above(new_idom, q)
      /\ \A y \in Placed : (\A q \in Placed : Arrives(q, bb) => Above(y, q)) => Above(y, new_idom)
      /\ \A d \in Reachable \ {bb} : Doms(d, bb) => Doms(d, new_idom)
  <2>1. \A q : Arrives(q, bb) => q \in Placed
    BY DEF Arrives
  <2> QED BY <1>1, <1>5, <2>1 DEF Meeting
<1>7. Above(new_idom, parent[bb])
  BY <1>3, <1>6
<1>8. /\ TreeAbove(new_idom, parent[bb])
      /\ post_order_id_[new_idom] \in Nat /\ post_order_id_[parent[bb]] \in Nat
      /\ post_order_id_[parent[bb]] <= post_order_id_[new_idom]
  BY <1>1, <1>7, ChainsInTree
<1>9. /\ TreeAbove(parent[bb], bb) /\ post_order_id_[bb] < post_order_id_[parent[bb]]
      /\ parent[bb] \in Reachable /\ post_order_id_[bb] \in Nat
  BY <1>1, <1>2, <1>3, Parents, Numbers, OverSelf DEF TreeAbove
<1>10. TreeAbove(new_idom, bb) /\ post_order_id_[bb] < post_order_id_[new_idom]
  BY <1>8, <1>9, OverTrans DEF TreeAbove
<1>11. new_idom \in Turned
  BY <1>1, <1>4, <1>6, <1>10 DEF Tree
<1>12. ASSUME bb \in Placed
       PROVE  /\ Above(new_idom, idom_[bb])
              /\ post_order_id_[idom_[bb]] <= post_order_id_[new_idom]
  <2> DEFINE old == idom_[bb]
  <2>1. /\ TreeAbove(old, bb)
        /\ \A y \in Placed : (\A q \in Placed : Arrives(q, bb) => Above(y, q))
                              => post_order_id_[old] <= post_order_id_[y]
    BY <1>1, <1>2, <1>12 DEF Tree
  <2>2. post_order_id_[old] <= post_order_id_[new_idom]
    BY <1>6, <2>1
  <2>3. old \in Placed /\ post_order_id_[bb] < post_order_id_[old]
    BY <1>1, <1>2, <1>12 DEF Tree, Climbing
  <2>4. old # bb
    BY <1>9, <2>3
  <2>5. TreeAbove(old, parent[bb])
    BY <1>9, <2>1, <2>4, OverNext DEF TreeAbove
  <2>6. old \in Turned
    BY <1>1, <1>4, <2>3 DEF Tree
  <2> HIDE DEF old
  <2>7. Above(new_idom, old)
    BY <1>1, <1>3, <1>6, <1>7, <2>2, <2>5, <2>6 DEF WithinRound
  <2> QED BY <2>2, <2>7 DEF old
<1> QED BY <1>6, <1>7, <1>10, <1>11, <1>12

\* Setting it moves the chain of the block, and of those below it, to nodes they went
\* through already; blocks that had their turn keep their chains.
LEMMA ChainsMoved ==
  ASSUME DInv, SetIdom
  PROVE  /\ Placed' = Placed \cup {bb}
         /\ Climbing(idom_, Placed, post_order_id_, root)'
         /\ \A x : \A y \in Placed : Above(x, y)' => Above(x, y)
         /\ \A x : \A y \in Turned : Above(x, y)' <=> Above(x, y)
<1> DEFINE c == bb
           new == new_idom
           f == idom_
           g == [f EXCEPT ![c] = new]
           D == Placed
           num == post_order_id_
<1>1. pc = "preds" /\ p > Len(pre[bb]) /\ idom_' = g /\ post_order_id_' = num
  BY DEF SetIdom, order
<1>2. /\ new \in D /\ new \in Turned /\ num[c] < num[new]
      /\ c \in D => Above(new, f[c])
  BY <1>1, NewDominator
<1>3. Sound /\ Ranges /\ Numbered /\ Tree /\ WithinRound /\ Meeting
  BY <1>1, AfterSearch DEF IterationInv
<1>4. /\ c \in BB /\ c \in Reachable /\ c # root /\ c \notin Turned
      /\ at \in 1 .. Len(reverse_post_order_)
  BY <1>1, <1>3, CurrentBlock DEF Meeting
<1>5. Climbing(f, D, num, root) /\ D \subseteq Reachable /\ Turned \subseteq D
  BY <1>3 DEF Tree, WithinRound
<1>6. f \in [Pointer -> Pointer] /\ c \in Pointer
  BY <1>3, <1>4 DEF Ranges, Pointer
<1> HIDE DEF c, new, num
<1>7. /\ g[c] = new /\ \A q \in D : q # c => g[q] = f[q]
  <2>1. D \subseteq Pointer
    BY DEF Placed, Pointer
  <2> QED BY <1>6, <2>1
<1>8. Placed' = D \cup {c}
  <2>1. \A b \in BB : g[b] = IF b = c THEN new ELSE f[b]
    BY <1>6 DEF Pointer
  <2>2. new # nullptr
    BY <1>2, <1>3, Graph DEF Placed
  <2> HIDE DEF g, f
  <2> QED BY <1>1, <1>4, <2>1, <2>2 DEF Placed, f
<1> HIDE DEF g, f, D
<1>9. Climbing(g, D \cup {c}, num, root)
  <2>1. root \in D \cup {c} /\ g[root] = root
    BY <1>4, <1>5, <1>7 DEF Climbing
  <2>2. num[c] \in Nat /\ num[c] <= num[root]
    <3>1. num[c] \in Nat /\ num[root] \in Nat /\ num[c] < num[root]
      <4>1. root \in Reachable
        BY <1>3, Graph
      <4>2. c \in Reachable \ {root}
        BY <1>4
      <4> QED BY <1>3, <4>1, <4>2, Numbers DEF num
    <3> QED BY <3>1
  <2>3. ASSUME NEW x \in D \cup {c}
        PROVE  /\ g[x] \in D \cup {c} /\ num[x] \in Nat /\ num[x] <= num[root]
               /\ x # root => num[x] < num[g[x]]
    <3>1. CASE x = c
      BY <1>2, <1>7, <2>2, <3>1
    <3>2. CASE x # c
      BY <1>5, <1>7, <3>2, <2>3 DEF Climbing
    <3> QED BY <3>1, <3>2
  <2> QED BY <2>1, <2>3 DEF Climbing
<1>10. ASSUME NEW x, NEW y \in D, Over(g, D \cup {c}, x, y)
       PROVE  Over(f, D, x, y)
  <2>1. CASE c \notin D
    <3>1. \A q \in D : f[q] \in D /\ g[q] = f[q]
      BY <1>5, <1>7, <2>1 DEF Climbing
    <3> QED BY <1>10, <3>1, OverKept
  <2>2. CASE c \in D
    <3>1. Over(f, D, f[c], c) /\ Over(f, D, new, f[c])
      BY <1>2, <2>2, OverSelf DEF Above, D, f
    <3>2. Over(f, D, g[c], c)
      BY <1>7, <3>1, OverTrans
    <3>3. ASSUME NEW q \in D PROVE Over(f, D, g[q], q)
      <4>1. CASE q = c
        BY <3>2, <4>1
      <4>2. CASE q # c
        BY <1>7, <4>2, OverSelf
      <4> QED BY <4>1, <4>2
    <3> QED BY <1>10, <3>3, OverMoved
  <2> QED BY <2>1, <2>2
<1>11. ASSUME NEW x, NEW y \in Turned
       PROVE  Over(f, D, x, y) <=> Over(g, D \cup {c}, x, y)
  <2>1. ASSUME NEW q \in Turned PROVE f[q] \in Turned /\ g[q] = f[q]
    <3>1. q \in D /\ q # c /\ q \in Reachable
      BY <1>4, <1>5
    <3>2. CASE q = root
      BY <1>5, <1>7, <3>1, <3>2 DEF Climbing
    <3>3. CASE q # root
      <4>1. num[q] < num[f[q]] /\ f[q] \in D /\ num[q] \in Nat /\ num[f[q]] \in Nat
        BY <1>5, <3>1, <3>3 DEF Climbing
      <4>2. num[c] < num[q]
        BY <1>3, <1>4, <2>1, <3>1, TurnedByNumber DEF num, c
      <4>3. num[c] \in Nat
        BY <1>3, <1>4, Numbers DEF num
      <4>4. num[c] < num[f[q]] /\ f[q] \in Reachable
        BY <1>5, <4>1, <4>2, <4>3
      <4>5. f[q] \in Turned
        BY <1>3, <1>4, <4>4, TurnedByNumber DEF num, c
      <4> QED BY <1>7, <3>1, <4>5
    <3> QED BY <3>2, <3>3
  <2>2. Turned \subseteq D /\ Turned \subseteq D \cup {c}
    BY <1>5
  <2> QED BY <2>1, <2>2, OverKept
<1>12. \A x, y : Above(x, y)' <=> Over(g, D \cup {c}, x, y)
  BY <1>1, <1>8 DEF Above
<1>13. \A x, y : Above(x, y) <=> Over(f, D, x, y)
  BY DEF Above, f, D
<1>14. Climbing(idom_, Placed, post_order_id_, root)'
  BY <1>1, <1>8, <1>9
<1> QED BY <1>8, <1>10, <1>11, <1>12, <1>13, <1>14 DEF c, D

\* The block gets the dominator that the fingers found.
LEMMA KeptBySetIdom ==
  ASSUME DInv, SetIdom
  PROVE  DInv'
<1> DEFINE c == bb
           new == new_idom
           num == post_order_id_
<1>1. /\ pc = "preds" /\ p > Len(pre[bb])
      /\ idom_' = [idom_ EXCEPT ![c] = new]
      /\ changed' = (changed \/ idom_[c] # new)
      /\ at' = at + 1 /\ pc' = "block"
      /\ UNCHANGED <<function, order, new_idom, b1, b2, p, results>>
  BY DEF SetIdom
<1>2. /\ Sound /\ Ranges /\ Numbered /\ Tree /\ WithinRound /\ Meeting
      /\ dom_frontier_ = [b \in Pointer |-> {}]
  BY <1>1, AfterSearch DEF IterationInv
<1>3. /\ c \in BB /\ c \in Reachable /\ c # root /\ c \notin Turned
      /\ at \in 1 .. Len(reverse_post_order_)
      /\ parent[c] \in Turned /\ Arrives(parent[c], c)
  BY <1>1, <1>2, CurrentBlock DEF Meeting
<1>4. /\ new \in Placed /\ new \in Turned
      /\ Above(new, parent[c]) /\ TreeAbove(new, c)
      /\ num[c] < num[new]
      /\ \A q : Arrives(q, c) => Above(new, q)
      /\ \A y \in Placed : (\A q \in Placed : Arrives(q, c) => Above(y, q)) => Above(y, new)
      /\ \A d \in Reachable \ {c} : Doms(d, c) => Doms(d, new)
  BY <1>1, NewDominator
<1>5. /\ Placed' = Placed \cup {c}
      /\ Climbing(idom_, Placed, post_order_id_, root)'
      /\ \A x : \A y \in Placed : Above(x, y)' => Above(x, y)
      /\ \A x : \A y \in Turned : Above(x, y)' <=> Above(x, y)
  BY ChainsMoved
<1>6. /\ Nodes' = Nodes /\ Edges' = Edges /\ Reachable' = Reachable /\ num' = num
      /\ reverse_post_order_' = reverse_post_order_ /\ Sound'
  BY <1>1, <1>2, SameFunction DEF order
<1>7. /\ parent' = parent
      /\ \A x, y : (TreeAbove(x, y)' <=> TreeAbove(x, y)) /\ (Doms(x, y)' <=> Doms(x, y))
  <2>1. parent' = parent
    BY <1>6 DEF parent
  <2> QED BY <1>6, <2>1 DEF TreeAbove, Doms
<1>8. /\ idom_ \in [Pointer -> Pointer] /\ c \in Pointer /\ c # nullptr
      /\ nullptr \in Pointer /\ new \in Pointer
  BY <1>2, <1>3, <1>4, Graph DEF Ranges, Pointer, Placed
<1> HIDE DEF c, new, num
<1>9. idom_'[c] = new /\ \A b \in Pointer : b # c => idom_'[b] = idom_[b]
  BY <1>1, <1>8
<1>10. Placed \subseteq BB /\ BB \subseteq Pointer
  BY DEF Placed, Pointer
<1>11. \A q, b : Arrives(q, b)' <=> q \in Placed \cup {c} /\ <<q, b>> \in Edges
  BY <1>5, <1>6 DEF Arrives
<1>12. \A q, b : Arrives(q, b) => Arrives(q, b)' /\ q \in Placed
  BY <1>11 DEF Arrives
<1>13. \A x, y : Above(x, y) => x \in Placed /\ y \in Placed
  BY <1>2, ChainsInTree
<1>14. Tree'
  <2>1. idom_'[nullptr] = nullptr
    BY <1>2, <1>8, <1>9 DEF Tree
  <2>2. Placed' \subseteq Reachable'
    BY <1>2, <1>3, <1>5, <1>6 DEF Tree
  <2>3. ASSUME NEW b \in Placed', b # root
        PROVE  /\ TreeAbove(idom_'[b], b)
               /\ \E q \in Placed' : Arrives(q, b)'
               /\ \A d \in Reachable \ {b} : Doms(d, b) => Doms(d, idom_'[b])
               /\ \A y \in Placed' : (\A q \in Placed' : Arrives(q, b)' => Above(y, q)')
                                      => num[idom_'[b]] <= num[y]
    <3>1. CASE b = c
      <4>1. \E q \in Placed' : Arrives(q, b)'
        BY <1>3, <1>5, <1>12, <3>1
      <4>2. ASSUME NEW y \in Placed', \A q \in Placed' : Arrives(q, b)' => Above(y, q)'
            PROVE  num[new] <= num[y]
        <5>1. \A q \in Placed : Arrives(q, c) => Above(y, q)
          BY <1>5, <1>12, <3>1, <4>2
        <5>2. y \in Placed
          BY <1>3, <1>12, <1>13, <5>1
        <5>3. Above(y, new)
          BY <1>4, <5>1, <5>2
        <5>4. num[y] \in Nat /\ num[new] \in Nat /\ (y = new \/ num[new] < num[y])
          BY <1>2, <5>3, ChainsInTree DEF num
        <5> QED BY <5>4
      <4> QED BY <1>4, <1>9, <3>1, <4>1, <4>2
    <3>2. CASE b # c
      <4>1. b \in Placed \ {root} /\ idom_'[b] = idom_[b]
        BY <1>5, <1>9, <1>10, <2>3, <3>2
      <4>2. PICK q0 \in Placed : Arrives(q0, b)
        BY <1>2, <4>1 DEF Tree
      <4>3. ASSUME NEW y \in Placed', \A q \in Placed' : Arrives(q, b)' => Above(y, q)'
            PROVE  num[idom_[b]] <= num[y]
        <5>1. \A q \in Placed : Arrives(q, b) => Above(y, q)
          BY <1>5, <1>12, <4>3
        <5>2. y \in Placed
          BY <1>13, <4>2, <5>1
        <5> QED BY <1>2, <4>1, <5>1, <5>2 DEF Tree, num
      <4>4. \E q \in Placed' : Arrives(q, b)'
        BY <1>5, <1>12, <4>2
      <4>5. /\ TreeAbove(idom_[b], b)
            /\ \A d \in Reachable \ {b} : Doms(d, b) => Doms(d, idom_[b])
        BY <1>2, <4>1 DEF Tree
      <4> QED BY <4>1, <4>3, <4>4, <4>5
    <3> QED BY <3>1, <3>2
  <2>4. ASSUME NEW b \in Placed', b # root
        PROVE  /\ TreeAbove(idom_[b], b)'
               /\ \A d \in Reachable' \ {b} : Doms(d, b)' => Doms(d, idom_[b])'
    <3>1. TreeAbove(idom_[b], b)' <=> TreeAbove(idom_'[b], b)
      BY <1>6, <1>7 DEF TreeAbove
    <3>2. \A d : Doms(d, idom_[b])' <=> Doms(d, idom_'[b])
      BY <1>6 DEF Doms
    <3> QED BY <1>6, <1>7, <2>3, <2>4, <3>1, <3>2
  <2> QED BY <1>5, <1>6, <2>1, <2>2, <2>3, <2>4 DEF Tree, num
<1>15. Turned' = Turned \cup {c}
  <2>1. at' - 1 = at /\ at \in Nat
    BY <1>1, <1>3
  <2>2. \A i : i \in 1 .. at <=> i \in 1 .. at - 1 \/ i = at
    BY <1>3
  <2>3. Turned' = {reverse_post_order_[i] : i \in 1 .. at}
    BY <1>6, <2>1 DEF Turned
  <2> QED BY <2>2, <2>3 DEF Turned, c, bb
<1>16. \A b \in Reachable : b \in Turned <=> num[c] < num[b]
  BY <1>2, <1>3, TurnedByNumber DEF c, num
<1>17. \A b \in Reachable : num[b] \in Nat
  BY <1>2, Numbers DEF num
<1>18. /\ Turned \subseteq Placed /\ Placed \subseteq Reachable
       /\ \A t \in Turned, u \in Turned, x \in Placed :
            TreeAbove(u, t) /\ Above(x, t) /\ num[u] <= num[x] => Above(x, u)
  BY <1>2 DEF WithinRound, Tree, num
<1>19. \A x, y : TreeAbove(x, y) =>
         /\ x \in Reachable /\ y \in Reachable
         /\ x = y \/ num[y] < num[x]
  <2>1. Climbing(parent, Reachable, num, root)
    BY <1>2, Parents DEF num
  <2> QED BY <2>1, OverRank DEF TreeAbove
<1>20. ASSUME NEW t \in Turned', NEW u \in Turned', NEW x \in Placed',
              TreeAbove(u, t), Above(x, t)', num[u] <= num[x]
       PROVE  Above(x, u)'
  <2>1. CASE t \in Turned
    <3>1. t \in Reachable /\ u \in Reachable /\ (u = t \/ num[t] < num[u]) /\ num[c] < num[t]
      BY <1>16, <1>18, <1>19, <1>20, <2>1
    <3>2. num[c] < num[u]
      BY <1>3, <1>17, <3>1
    <3>3. u \in Turned
      BY <1>16, <3>1, <3>2
    <3>4. Above(x, t)
      BY <1>5, <1>20, <2>1
    <3>5. x \in Placed
      BY <1>13, <3>4
    <3>6. Above(x, u)
      BY <1>18, <1>20, <2>1, <3>3, <3>4, <3>5
    <3> QED BY <1>5, <3>3, <3>6
  <2>2. CASE t = c /\ u = c
    BY <1>20, <2>2
  <2>3. CASE t = c /\ u # c
    <3>1. u \in Turned
      BY <1>15, <2>3
    <3>2. parent[c] \in Reachable /\ TreeAbove(u, c)
      BY <1>3, <1>18, <1>20, <2>3
    <3>3. TreeAbove(u, parent[c])
      BY <2>3, <3>2, OverNext DEF TreeAbove
    <3>4. x # c
      <4>1. num[c] < num[u] /\ num[c] \in Nat /\ num[u] \in Nat
        BY <1>3, <1>16, <1>17, <1>18, <3>1
      <4> QED BY <1>20, <4>1
    <3>5. Above(x, new)'
      <4>1. Over(idom_', Placed', x, c)
        BY <1>20, <2>3 DEF Above
      <4>2. idom_'[c] \in Placed'
        BY <1>4, <1>5, <1>9
      <4>3. Over(idom_', Placed', x, idom_'[c])
        BY <3>4, <4>1, <4>2, OverNext
      <4>4. Over(idom_', Placed', x, new)
        BY <1>9, <4>3
      <4>5. new' = new
        BY <1>1 DEF new
      <4> QED BY <4>4, <4>5 DEF Above
    <3>6. PICK m : m = new
      OBVIOUS
    <3>7. Above(x, m)'
      <4>1. new' = new
        BY <1>1 DEF new
      <4> QED BY <3>5, <3>6, <4>1 DEF Above
    <3>8. Above(x, m)
      BY <1>4, <1>5, <3>6, <3>7
    <3>9. Above(x, parent[c])
      BY <1>4, <3>6, <3>8, OverTrans DEF Above
    <3>10. x \in Placed
      BY <1>13, <3>9
    <3>11. Above(x, u)
      BY <1>3, <1>18, <1>20, <3>1, <3>3, <3>9, <3>10
    <3> QED BY <1>5, <3>1, <3>11
  <2> QED BY <1>15, <2>1, <2>2, <2>3
<1>21. ASSUME ~ changed', NEW b \in Turned', b # root
       PROVE  Settled(b)'
  <2>1. ~ changed /\ idom_[c] = new
    BY <1>1, <1>21
  <2>2. idom_' = idom_
    BY <1>1, <1>8, <2>1
  <2>3. Settled(b)' <=> Settled(b)
    <3>1. UNCHANGED <<function, post_order_id_, idom_>>
      BY <1>1, <2>2 DEF order
    <3> QED BY <3>1, SameChains
  <2>4. CASE b \in Turned
    BY <1>2, <1>21, <2>1, <2>3, <2>4 DEF WithinRound
  <2>5. CASE b = c
    BY <1>4, <2>1, <2>3, <2>5 DEF Settled
  <2> QED BY <1>15, <2>4, <2>5
<1>22. WithinRound'
  <2>1. at' \in 1 .. Len(reverse_post_order_') + 1
    <3>1. Len(reverse_post_order_) \in Nat
      BY <1>2, Numbers
    <3> QED BY <1>1, <1>3, <1>6, <3>1
  <2>2. Turned' \subseteq Placed'
    BY <1>5, <1>15, <1>18
  <2> QED BY <1>6, <1>7, <1>20, <1>21, <2>1, <2>2 DEF WithinRound, num
<1>23. IterationInv' /\ FrontierInv'
  BY <1>1, <1>2, <1>22 DEF IterationInv, FrontierInv, results
<1>24. Ranges'
  <2>1. at' \in 1 .. MaxBlock + 1
    <3>1. Len(reverse_post_order_) \in 1 .. MaxBlock /\ MaxBlock \in Nat
      BY <1>2, Numbers DEF Sound
    <3> QED BY <1>1, <1>3, <3>1
  <2>2. idom_' \in [Pointer -> Pointer]
    BY <1>1, <1>8
  <2>3. changed' \in BOOLEAN
    BY <1>1, <1>2 DEF Ranges
  <2> QED BY <1>1, <1>2, <2>1, <2>2, <2>3 DEF Ranges, order, results
<1>25. Numbered'
  BY <1>2, <1>6 DEF Numbered, num
<1> QED BY <1>1, <1>6, <1>14, <1>23, <1>24, <1>25 DEF DInv, SearchInv

-------------------------------------------------------------------------------
(* The steps after the rounds *)

\* When the rounds have ended, every block has its chain, and the dominator of a block is
\* over all its predecessors.
LEMMA AfterRounds ==
  ASSUME DInv, pc \in {"frontier", "walk", "done"}
  PROVE  /\ Sound /\ Ranges /\ Numbered /\ Tree /\ Complete
         /\ Placed = Reachable
         /\ DOMAIN listed = 1 .. Len(listed) /\ Len(listed) \in 0 .. MaxBlock
         /\ \A i \in 1 .. Len(listed) : listed[i] \in BB
         /\ at \in 1 .. Len(listed) + 1
<1>1. Sound /\ Ranges /\ Numbered /\ Tree /\ Complete /\ at \in 1 .. Len(listed) + 1
  BY AfterSearch DEF FrontierInv
<1>2. Placed = Reachable
  BY <1>1 DEF Tree, Complete
<1>3. listed \in Seq(BB) /\ IsInjective(listed) /\ MaxBlock \in Nat
  BY <1>1 DEF Sound
<1>4. Len(listed) \in 0 .. MaxBlock
  BY <1>3, Short
<1>5. DOMAIN listed = 1 .. Len(listed) /\ \A i \in 1 .. Len(listed) : listed[i] \in BB
  BY <1>3, ElementOfSeq, LenProperties
<1> QED BY <1>1, <1>2, <1>4, <1>5

\* The dominator of a join is over each reachable predecessor.
LEMMA OverPreds ==
  ASSUME Sound, Complete, Placed = Reachable,
         NEW j \in BB, NEW l \in DOMAIN pre[j], pre[j][l] \in Placed
  PROVE  j \in Reachable \ {root} /\ Above(idom_[j], pre[j][l])
<1>1. <<pre[j][l], j>> \in Edges
  BY Lists
<1>2. j \in Reachable \ {root}
  BY <1>1, Graph
<1> QED BY <1>1, <1>2 DEF Complete, Settled, Arrives

\* What a step after the rounds keeps.
LEMMA SteadyEnd ==
  ASSUME DInv, pc \in {"frontier", "walk"}, pc' \in {"frontier", "walk", "done"},
         UNCHANGED <<function, order, iteration>>
  PROVE  /\ Complete' /\ Placed' = Placed /\ Reachable' = Reachable
         /\ pre' = pre /\ listed' = listed /\ idom_' = idom_
         /\ \A x, y : Above(x, y)' <=> Above(x, y)
         /\ \A j, q : Passed(j, q)' = Passed(j, q)
<1>1. /\ Placed' = Placed /\ Reachable' = Reachable
      /\ \A x, y : Above(x, y)' <=> Above(x, y)
      /\ \A b : Settled(b)' <=> Settled(b)
  BY SameChains, SameFunction DEF order, iteration
<1>2. pre' = pre /\ listed' = listed /\ idom_' = idom_
  BY DEF function, iteration
<1>3. Complete'
  BY <1>1, AfterRounds DEF Complete
<1>4. \A j, q : Passed(j, q)' = Passed(j, q)
  <2> TAKE j, q
  <2>1. \A r : Above(r, idom_[j])' <=> Above(r, idom_[j])
    BY <1>1, <1>2 DEF Above
  <2> QED BY <1>1, <1>2, <2>1 DEF Passed
<1> QED BY <1>1, <1>2, <1>3, <1>4

\* Which invariants are left to show of such a step.
LEMMA EndKept ==
  ASSUME DInv, pc \in {"frontier", "walk"}, pc' \in {"frontier", "walk", "done"},
         UNCHANGED <<function, order, iteration>>, Ranges', FrontierInv'
  PROVE  DInv'
<1>1. IterationInv'
  BY DEF IterationInv
<1>2. pc # "search" /\ pc' # "search" /\ idom_' = idom_
  BY DEF iteration
<1> QED BY <1>1, <1>2, Steady

\* The next block with two predecessors is taken for its frontier.
LEMMA KeptByNextJoin ==
  ASSUME DInv, NextJoin
  PROVE  DInv'
<1> DEFINE j == listed[at]
<1>1. /\ pc = "frontier" /\ at <= Len(listed)
      /\ Len(pre[j]) >= 2 => pc' = "walk" /\ p' = 1 /\ runner' = pre[j][1] /\ at' = at
      /\ ~ Len(pre[j]) >= 2 => at' = at + 1 /\ UNCHANGED <<pc, p, runner>>
      /\ UNCHANGED <<function, order, iteration, dom_frontier_, dom_tree_succ_blocks_>>
  BY DEF NextJoin
<1>2. /\ Sound /\ Ranges /\ Numbered /\ Tree /\ Complete /\ Placed = Reachable
      /\ DOMAIN listed = 1 .. Len(listed) /\ Len(listed) \in 0 .. MaxBlock
      /\ at \in 1 .. Len(listed)
      /\ j \in BB
  BY <1>1, AfterRounds
<1>3. pc' \in {"frontier", "walk"}
  BY <1>1
<1>4. /\ Complete' /\ Placed' = Placed /\ Reachable' = Reachable
      /\ pre' = pre /\ listed' = listed /\ idom_' = idom_
      /\ \A x, y : Above(x, y)' <=> Above(x, y)
      /\ \A i, q : Passed(i, q)' = Passed(i, q)
  BY <1>1, <1>3, SteadyEnd
<1>5. /\ dom_frontier_' = dom_frontier_
      /\ \A b \in Reachable, i \in BB : i \in dom_frontier_[b] <=> Walked(i, b) \/ Walking(i, b)
  BY <1>1 DEF DInv, FrontierInv
<1>6. \A i, b : ~ Walking(i, b)
  BY <1>1 DEF Walking
<1>7. /\ DOMAIN pre[j] = 1 .. Len(pre[j]) /\ Len(pre[j]) \in 0 .. MaxBlock
      /\ \A l \in 1 .. Len(pre[j]) : pre[j][l] \in BB
  BY <1>2, Lists
<1>8. MaxBlock \in Nat
  BY <1>2 DEF Sound
<1>9. CASE Len(pre[j]) >= 2
  <2>1. pc' = "walk" /\ p' = 1 /\ runner' = pre[j][1] /\ at' = at
    BY <1>1, <1>9
  <2>2. 1 \in DOMAIN pre[j]
    BY <1>7, <1>9
  <2> DEFINE q == pre[j][1]
  <2>3. \A i, b : Walked(i, b)' <=> Walked(i, b)
    BY <1>4, <2>1 DEF Walked
  <2>4. \A i, b : ~ Walking(i, b)'
    <3> SUFFICES ASSUME NEW i, NEW b, Walking(i, b)' PROVE FALSE
      OBVIOUS
    <3>1. i = j
      BY <1>4, <2>1 DEF Walking
    <3>2. ~ \E l \in DOMAIN pre[j] : l < 1
      BY <1>7
    <3>3. Above(b, pre[i][p])' /\ ~ Above(b, runner)'
      BY <1>4, <2>1, <3>1, <3>2 DEF Walking
    <3> QED BY <1>4, <2>1, <3>1, <3>3 DEF Above
  <2>5. /\ q \in Placed => Above(q, q) /\ Above(idom_[j], q)
        /\ q \in Pointer
    <3>1. q \in Pointer
      BY <1>7, <2>2 DEF Pointer
    <3>2. q \in Placed => Above(q, q)
      BY OverSelf DEF Above
    <3>3. q \in Placed => Above(idom_[j], q)
      BY <1>2, <2>2, OverPreds
    <3> QED BY <3>1, <3>2, <3>3
  <2>6. /\ pre'[listed'[at']][p'] = q /\ listed'[at'] = j /\ runner' = q
        /\ idom_'[listed'[at']] = idom_[j]
    BY <1>4, <2>1
  <2>7. /\ Above(runner, pre[listed[at]][p])' <=> Above(q, q)
        /\ Above(idom_[listed[at]], runner)' <=> Above(idom_[j], q)
    BY <1>4, <2>6 DEF Above
  <2> HIDE DEF q
  <2>8. FrontierInv'
    <3>1. at' \in 1 .. Len(listed') + 1
      BY <1>2, <1>4, <2>1
    <3>2. \A b \in Reachable', i \in BB : i \in dom_frontier_'[b] <=> Walked(i, b)' \/ Walking(i, b)'
      BY <1>4, <1>5, <1>6, <2>3, <2>4
    <3>3. /\ at' <= Len(listed') /\ Len(pre'[listed'[at']]) >= 2
          /\ p' \in DOMAIN pre'[listed'[at']]
      BY <1>1, <1>4, <1>9, <2>1, <2>2
    <3>4. pre'[listed'[at']][p'] \in Placed' =>
            Above(runner, pre[listed[at]][p])' /\ Above(idom_[listed[at]], runner)'
      BY <1>4, <2>5, <2>6, <2>7
    <3>5. pre'[listed'[at']][p'] \notin Placed' => runner' \notin Placed'
      BY <2>6
    <3>6. pc' # "done"
      BY <2>1
    <3> QED BY <1>4, <3>1, <3>2, <3>3, <3>4, <3>5, <3>6 DEF FrontierInv
  <2>9. Ranges'
    <3>1. p' \in 1 .. MaxBlock + 1
      BY <1>8, <2>1
    <3> QED BY <1>1, <1>2, <2>1, <2>5, <2>6, <3>1 DEF Ranges, order, iteration
  <2> QED BY <1>1, <1>3, <2>8, <2>9, EndKept
<1>10. CASE ~ Len(pre[j]) >= 2
  <2>1. at' = at + 1 /\ UNCHANGED <<pc, p, runner>>
    BY <1>1, <1>10
  <2>2. \A i, b : Walked(i, b)' <=> Walked(i, b)
    <3> TAKE i, b
    <3>1. \A k \in DOMAIN listed : k < at + 1 <=> k < at \/ k = at
      BY <1>2
    <3>2. Walked(i, b)' <=>
            \E k \in DOMAIN listed : /\ k < at + 1 /\ listed[k] = i /\ Len(pre[i]) >= 2
                                     /\ \E l \in DOMAIN pre[i] : b \in Passed(i, pre[i][l])
      BY <1>4, <2>1 DEF Walked
    <3> QED BY <1>10, <3>1, <3>2 DEF Walked
  <2>3. \A i, b : ~ Walking(i, b)'
    BY <1>1, <2>1 DEF Walking
  <2>4. FrontierInv'
    <3>1. at' \in 1 .. Len(listed') + 1
      BY <1>2, <1>4, <1>8, <2>1
    <3>2. \A b \in Reachable', i \in BB : i \in dom_frontier_'[b] <=> Walked(i, b)' \/ Walking(i, b)'
      BY <1>4, <1>5, <1>6, <2>2, <2>3
    <3>3. pc' # "done" /\ pc' # "walk"
      BY <1>1, <2>1
    <3> QED BY <1>4, <3>1, <3>2, <3>3 DEF FrontierInv
  <2>5. Ranges'
    <3>1. at' \in 1 .. MaxBlock + 1
      BY <1>2, <1>8, <2>1
    <3> QED BY <1>1, <1>2, <2>1, <3>1 DEF Ranges, order, iteration
  <2> QED BY <1>1, <1>3, <2>4, <2>5, EndKept
<1> QED BY <1>9, <1>10

\* A walk up the dominators adds to one more frontier.
LEMMA KeptByWalk ==
  ASSUME DInv, Walk
  PROVE  DInv'
<1> DEFINE j == listed[at]
           q == pre[j][p]
           r == runner
           up == idom_[r]
<1>1. /\ pc = "walk" /\ pc' = "walk" /\ r # idom_[j]
      /\ dom_frontier_' = [dom_frontier_ EXCEPT ![r] = @ \cup {j}]
      /\ runner' = up /\ at' = at /\ p' = p
      /\ UNCHANGED <<function, order, iteration, dom_tree_succ_blocks_>>
  BY DEF Walk
<1>2. /\ Sound /\ Ranges /\ Numbered /\ Tree /\ Complete /\ Placed = Reachable
      /\ DOMAIN listed = 1 .. Len(listed)
      /\ at \in 1 .. Len(listed) + 1
      /\ \A i \in 1 .. Len(listed) : listed[i] \in BB
  BY <1>1, AfterRounds
<1>3. /\ at <= Len(listed) /\ Len(pre[j]) >= 2 /\ p \in DOMAIN pre[j]
      /\ q \in Placed => Above(r, q) /\ Above(idom_[j], r)
      /\ q \notin Placed => r \notin Placed
      /\ \A b \in Reachable, i \in BB : i \in dom_frontier_[b] <=> Walked(i, b) \/ Walking(i, b)
  BY <1>1 DEF DInv, FrontierInv
<1>4. /\ Complete' /\ Placed' = Placed /\ Reachable' = Reachable
      /\ pre' = pre /\ listed' = listed /\ idom_' = idom_
      /\ \A x, y : Above(x, y)' <=> Above(x, y)
      /\ \A i, b : Passed(i, b)' = Passed(i, b)
  BY <1>1, SteadyEnd
<1>5. j \in BB
  BY <1>2, <1>3
<1>6. /\ dom_frontier_ \in [Pointer -> SUBSET BB] /\ idom_ \in [Pointer -> Pointer]
      /\ r \in Pointer /\ up \in Pointer
      /\ Reachable \subseteq Pointer
  <2>1. Reachable \subseteq BB
    BY <1>2, Graph
  <2> QED BY <1>2, <2>1 DEF Ranges, Pointer
<1> HIDE DEF j, q, r, up
<1>7. \A b \in Reachable : dom_frontier_'[b] = IF b = r THEN dom_frontier_[b] \cup {j} ELSE dom_frontier_[b]
  BY <1>1, <1>6
<1>8. \A i, b : Walked(i, b)' <=> Walked(i, b)
  BY <1>1, <1>4 DEF Walked
<1>9. \A i, b : Walking(i, b) <=>
        /\ i = j
        /\ \/ \E l \in DOMAIN pre[j] : l < p /\ b \in Passed(j, pre[j][l])
           \/ Above(b, q) /\ ~ Above(b, r)
  BY <1>1 DEF Walking, j, q, r
<1>10. \A i, b : Walking(i, b)' <=>
         /\ i = j
         /\ \/ \E l \in DOMAIN pre[j] : l < p /\ b \in Passed(j, pre[j][l])
            \/ Above(b, q) /\ ~ Above(b, up)
  <2> TAKE i, b
  <2>1. Above(b, pre[i][p])' <=> Above(b, pre[i][p])
    BY <1>1, <1>4 DEF Above
  <2>2. Above(b, runner)' <=> Above(b, up)
    BY <1>1, <1>4 DEF Above
  <2>3. Walking(i, b)' <=>
          /\ pc' = "walk" /\ i = listed'[at']
          /\ \/ \E l \in DOMAIN pre'[i] : l < p' /\ b \in Passed(i, pre[i][l])'
             \/ Above(b, pre[i][p])' /\ ~ Above(b, runner)'
    BY DEF Walking
  <2>4. \A l : Passed(i, pre[i][l])' = Passed(i, pre[i][l])
    BY <1>4 DEF Passed, Above
  <2> QED BY <1>1, <1>4, <2>1, <2>2, <2>3, <2>4 DEF j, q
<1>11. /\ \A b \in Reachable : Above(b, q) /\ ~ Above(b, up)
                                <=> (Above(b, q) /\ ~ Above(b, r)) \/ b = r
       /\ q \in Placed => Above(up, q) /\ Above(idom_[j], up)
       /\ q \notin Placed => up \notin Placed
  <2>1. CASE q \in Placed
    <3>1. Above(r, q) /\ Above(idom_[j], r) /\ r \in Placed
      BY <1>2, <1>3, <2>1, ChainsInTree
    <3>2. Climbing(idom_, Placed, post_order_id_, root)
      BY <1>2 DEF Tree
    <3>3. r # root
      <4> SUFFICES ASSUME r = root PROVE FALSE
        OBVIOUS
      <4>1. /\ idom_[j] \in Placed /\ post_order_id_[idom_[j]] \in Nat
            /\ post_order_id_[root] \in Nat
            /\ post_order_id_[root] < post_order_id_[idom_[j]]
        BY <1>1, <1>2, <3>1, ChainsInTree
      <4>2. post_order_id_[idom_[j]] <= post_order_id_[root]
        BY <3>2, <4>1 DEF Climbing
      <4> QED BY <4>1, <4>2
    <3>4. /\ up \in Placed /\ post_order_id_[r] < post_order_id_[up]
          /\ post_order_id_[r] \in Nat /\ post_order_id_[up] \in Nat
      BY <3>1, <3>2, <3>3 DEF Climbing, up
    <3>5. Above(up, r)
      BY <3>1, OverSelf DEF Above, up
    <3>6. Above(up, q)
      BY <3>1, <3>5, OverTrans DEF Above
    <3>7. Above(idom_[j], up)
      BY <1>1, <3>1, <3>4, OverNext DEF Above, up
    <3>8. ~ Above(r, up)
      <4> SUFFICES ASSUME Above(r, up) PROVE FALSE
        OBVIOUS
      <4>1. r = up \/ post_order_id_[up] < post_order_id_[r]
        BY <1>2, ChainsInTree
      <4> QED BY <3>4, <4>1
    <3>9. ASSUME NEW b \in Reachable, b # r PROVE Above(b, up) <=> Above(b, r)
      <4>1. Above(b, up) => Above(b, r)
        BY <3>5, OverTrans DEF Above
      <4>2. Above(b, r) => Above(b, up)
        BY <3>4, <3>9, OverNext DEF Above, up
      <4> QED BY <4>1, <4>2
    <3> QED BY <2>1, <3>1, <3>6, <3>7, <3>8, <3>9
  <2>2. CASE q \notin Placed
    <3>1. \A b : ~ Above(b, q)
      BY <1>2, <2>2, ChainsInTree
    <3>2. r \notin Placed
      BY <1>3, <2>2
    <3>3. up = nullptr
      <4>1. CASE r = nullptr
        BY <1>2, <4>1 DEF Tree, up
      <4>2. CASE r \in BB
        BY <3>2, <4>2 DEF Placed, up
      <4> QED BY <1>6, <4>1, <4>2 DEF Pointer
    <3>4. up \notin Placed
      BY <1>2, <3>3, Graph DEF Placed
    <3> QED BY <1>2, <2>2, <3>1, <3>2, <3>4
  <2> QED BY <2>1, <2>2
<1>12. \A b \in Reachable, i \in BB : i \in dom_frontier_'[b] <=> Walked(i, b)' \/ Walking(i, b)'
  <2> TAKE b \in Reachable, i \in BB
  <2>1. i \in dom_frontier_[b] <=> Walked(i, b) \/ Walking(i, b)
    BY <1>3
  <2>2. i \in dom_frontier_'[b] <=> i \in dom_frontier_[b] \/ (b = r /\ i = j)
    BY <1>7
  <2>3. Walking(i, b)' <=> Walking(i, b) \/ (b = r /\ i = j)
    BY <1>9, <1>10, <1>11
  <2> QED BY <1>8, <2>1, <2>2, <2>3
<1>13. FrontierInv'
  <2>1. /\ pre'[listed'[at']][p'] = q /\ listed'[at'] = j
    BY <1>1, <1>4 DEF j, q
  <2>2. /\ Above(runner, pre[listed[at]][p])' <=> Above(up, q)
        /\ Above(idom_[listed[at]], runner)' <=> Above(idom_[j], up)
    BY <1>1, <1>4, <2>1 DEF Above
  <2>3. /\ at' \in 1 .. Len(listed') + 1 /\ at' <= Len(listed')
        /\ Len(pre'[listed'[at']]) >= 2 /\ p' \in DOMAIN pre'[listed'[at']]
    BY <1>1, <1>2, <1>3, <1>4 DEF j
  <2>4. /\ pre'[listed'[at']][p'] \in Placed' =>
             Above(runner, pre[listed[at]][p])' /\ Above(idom_[listed[at]], runner)'
        /\ pre'[listed'[at']][p'] \notin Placed' => runner' \notin Placed'
    BY <1>1, <1>4, <1>11, <2>1, <2>2
  <2> QED BY <1>1, <1>4, <1>12, <2>3, <2>4 DEF FrontierInv
<1>14. Ranges'
  <2>1. dom_frontier_' \in [Pointer -> SUBSET BB]
    BY <1>1, <1>5, <1>6
  <2> QED BY <1>1, <1>2, <1>6, <2>1 DEF Ranges, order, iteration
<1>15. pc' \in {"frontier", "walk", "done"} /\ pc \in {"frontier", "walk"}
  BY <1>1
<1> QED BY <1>1, <1>13, <1>14, <1>15, EndKept

\* A walk ends at the immediate dominator of the join.
LEMMA KeptByEndWalk ==
  ASSUME DInv, EndWalk
  PROVE  DInv'
<1> DEFINE j == listed[at]
           q == pre[j][p]
<1>1. /\ pc = "walk" /\ runner = idom_[j]
      /\ p < Len(pre[j]) => p' = p + 1 /\ runner' = pre[j][p + 1] /\ UNCHANGED <<pc, at>>
      /\ ~ p < Len(pre[j]) => pc' = "frontier" /\ at' = at + 1 /\ UNCHANGED <<p, runner>>
      /\ UNCHANGED <<function, order, iteration, dom_frontier_, dom_tree_succ_blocks_>>
  BY DEF EndWalk
<1>2. /\ Sound /\ Ranges /\ Numbered /\ Tree /\ Complete /\ Placed = Reachable
      /\ DOMAIN listed = 1 .. Len(listed) /\ Len(listed) \in 0 .. MaxBlock
      /\ at \in 1 .. Len(listed) + 1
      /\ \A i \in 1 .. Len(listed) : listed[i] \in BB
  BY <1>1, AfterRounds
<1>3. /\ at <= Len(listed) /\ Len(pre[j]) >= 2 /\ p \in DOMAIN pre[j]
      /\ \A b \in Reachable, i \in BB : i \in dom_frontier_[b] <=> Walked(i, b) \/ Walking(i, b)
  BY <1>1 DEF DInv, FrontierInv
<1>4. pc' \in {"frontier", "walk"}
  BY <1>1
<1>5. /\ Complete' /\ Placed' = Placed /\ Reachable' = Reachable
      /\ pre' = pre /\ listed' = listed /\ idom_' = idom_
      /\ \A x, y : Above(x, y)' <=> Above(x, y)
      /\ \A i, b : Passed(i, b)' = Passed(i, b)
  BY <1>1, <1>4, SteadyEnd
<1>6. j \in BB /\ at \in 1 .. Len(listed)
  BY <1>2, <1>3
<1>7. /\ DOMAIN pre[j] = 1 .. Len(pre[j]) /\ Len(pre[j]) \in 0 .. MaxBlock
      /\ \A l \in 1 .. Len(pre[j]) : pre[j][l] \in BB
  BY <1>2, <1>6, Lists
<1>8. MaxBlock \in Nat /\ p \in 1 .. Len(pre[j])
  BY <1>2, <1>3, <1>7 DEF Sound
<1>9. \A b : Above(b, q) /\ ~ Above(b, runner) <=> b \in Passed(j, q)
  BY <1>1, <1>2, ChainsInTree DEF Passed
<1>10. \A i, b : Walking(i, b) <=>
         i = j /\ \E l \in 1 .. Len(pre[j]) : l <= p /\ b \in Passed(j, pre[j][l])
  <2> TAKE i, b
  <2>1. Walking(i, b) <=>
          /\ i = j
          /\ \/ \E l \in 1 .. Len(pre[j]) : l < p /\ b \in Passed(j, pre[j][l])
             \/ b \in Passed(j, q)
    <3>1. Walking(i, b) <=>
            /\ i = j
            /\ \/ \E l \in DOMAIN pre[i] : l < p /\ b \in Passed(i, pre[i][l])
               \/ Above(b, pre[i][p]) /\ ~ Above(b, runner)
      BY <1>1 DEF Walking
    <3> HIDE DEF j
    <3> QED BY <1>7, <1>9, <3>1
  <2>2. \A l \in 1 .. Len(pre[j]) : l <= p <=> l < p \/ l = p
    BY <1>8
  <2> QED BY <1>8, <2>1, <2>2
<1> HIDE DEF j, q
<1>11. dom_frontier_' = dom_frontier_
  BY <1>1
<1>12. CASE p < Len(pre[j])
  <2>1. p' = p + 1 /\ runner' = pre[j][p + 1] /\ pc' = "walk" /\ at' = at
    BY <1>1, <1>12
  <2> DEFINE next == pre[j][p + 1]
  <2>2. p + 1 \in DOMAIN pre[j] /\ p + 1 \in 1 .. Len(pre[j])
    BY <1>7, <1>8, <1>12
  <2>3. \A i, b : Walked(i, b)' <=> Walked(i, b)
    BY <1>5, <2>1 DEF Walked
  <2>4. \A i, b : Walking(i, b)' <=> Walking(i, b)
    <3> TAKE i, b
    <3>1. Walking(i, b)' <=>
            /\ i = j
            /\ \/ \E l \in DOMAIN pre[j] : l < p + 1 /\ b \in Passed(j, pre[j][l])
               \/ Above(b, pre[j][p + 1]) /\ ~ Above(b, pre[j][p + 1])
      <4>1. Above(b, pre[i][p])' <=> Above(b, pre[i][p + 1])
        BY <1>5, <2>1 DEF Above
      <4>2. Above(b, runner)' <=> Above(b, pre[j][p + 1])
        BY <1>5, <2>1 DEF Above
      <4>3. Walking(i, b)' <=>
              /\ pc' = "walk" /\ i = listed'[at']
              /\ \/ \E l \in DOMAIN pre'[i] : l < p' /\ b \in Passed(i, pre[i][l])'
                 \/ Above(b, pre[i][p])' /\ ~ Above(b, runner)'
        BY DEF Walking
      <4>4. \A l : Passed(i, pre[i][l])' = Passed(i, pre[i][l])
        BY <1>5 DEF Passed, Above
      <4> QED BY <1>5, <2>1, <4>1, <4>2, <4>3, <4>4 DEF j
    <3>2. \A l \in 1 .. Len(pre[j]) : l < p + 1 <=> l <= p
      BY <1>8
    <3> QED BY <1>7, <1>10, <3>1, <3>2
  <2>5. /\ next \in Placed => Above(next, next) /\ Above(idom_[j], next)
        /\ next \in Pointer
    <3>1. next \in Pointer
      BY <1>7, <2>2 DEF Pointer
    <3>2. next \in Placed => Above(next, next)
      BY OverSelf DEF Above
    <3>3. next \in Placed => Above(idom_[j], next)
      BY <1>2, <1>6, <2>2, OverPreds
    <3> QED BY <3>1, <3>2, <3>3
  <2>6. /\ pre'[listed'[at']][p'] = next /\ listed'[at'] = j /\ runner' = next
    BY <1>5, <2>1 DEF j
  <2>7. /\ Above(runner, pre[listed[at]][p])' <=> Above(next, next)
        /\ Above(idom_[listed[at]], runner)' <=> Above(idom_[j], next)
    BY <1>5, <2>6 DEF Above
  <2> HIDE DEF next
  <2>8. FrontierInv'
    <3>1. /\ at' \in 1 .. Len(listed') + 1 /\ at' <= Len(listed')
          /\ Len(pre'[listed'[at']]) >= 2 /\ p' \in DOMAIN pre'[listed'[at']]
      BY <1>2, <1>3, <1>5, <2>1, <2>2 DEF j
    <3>2. \A b \in Reachable', i \in BB : i \in dom_frontier_'[b] <=> Walked(i, b)' \/ Walking(i, b)'
      BY <1>3, <1>5, <1>11, <2>3, <2>4
    <3>3. /\ pre'[listed'[at']][p'] \in Placed' =>
              Above(runner, pre[listed[at]][p])' /\ Above(idom_[listed[at]], runner)'
          /\ pre'[listed'[at']][p'] \notin Placed' => runner' \notin Placed'
      BY <1>5, <2>5, <2>6, <2>7
    <3> QED BY <1>5, <2>1, <3>1, <3>2, <3>3 DEF FrontierInv
  <2>9. Ranges'
    <3>1. p' \in 1 .. MaxBlock + 1
      BY <1>7, <1>8, <2>1, <2>2
    <3> QED BY <1>1, <1>2, <2>1, <2>5, <2>6, <3>1 DEF Ranges, order, iteration
  <2> QED BY <1>1, <1>4, <2>8, <2>9, EndKept
<1>13. CASE ~ p < Len(pre[j])
  <2>1. pc' = "frontier" /\ at' = at + 1 /\ UNCHANGED <<p, runner>>
    BY <1>1, <1>13
  <2>2. p = Len(pre[j])
    BY <1>7, <1>8, <1>13
  <2>3. \A i, b : Walked(i, b)' <=> Walked(i, b) \/ Walking(i, b)
    <3> TAKE i, b
    <3>1. \A k \in DOMAIN listed : k < at + 1 <=> k < at \/ k = at
      BY <1>2
    <3>2. Walked(i, b)' <=>
            \E k \in DOMAIN listed : /\ k < at + 1 /\ listed[k] = i /\ Len(pre[i]) >= 2
                                     /\ \E l \in DOMAIN pre[i] : b \in Passed(i, pre[i][l])
      BY <1>5, <2>1 DEF Walked
    <3>3. Walking(i, b) <=> i = j /\ \E l \in DOMAIN pre[j] : b \in Passed(j, pre[j][l])
      <4>1. \A l \in 1 .. Len(pre[j]) : l <= p
        BY <1>7, <2>2
      <4> QED BY <1>7, <1>10, <4>1
    <3>4. at \in DOMAIN listed /\ listed[at] = j /\ Len(pre[j]) >= 2
      BY <1>2, <1>3, <1>6 DEF j
    <3> QED BY <3>1, <3>2, <3>3, <3>4 DEF Walked
  <2>4. \A i, b : ~ Walking(i, b)'
    BY <2>1 DEF Walking
  <2>5. FrontierInv'
    <3>1. at' \in 1 .. Len(listed') + 1
      BY <1>2, <1>5, <1>6, <1>8, <2>1
    <3>2. \A b \in Reachable', i \in BB : i \in dom_frontier_'[b] <=> Walked(i, b)' \/ Walking(i, b)'
      BY <1>3, <1>5, <1>11, <2>3, <2>4
    <3> QED BY <1>5, <2>1, <3>1, <3>2 DEF FrontierInv
  <2>6. Ranges'
    <3>1. at' \in 1 .. MaxBlock + 1
      BY <1>2, <1>6, <1>8, <2>1
    <3> QED BY <1>1, <1>2, <2>1, <3>1 DEF Ranges, order, iteration
  <2> QED BY <1>1, <1>4, <2>5, <2>6, EndKept
<1> QED BY <1>12, <1>13

\* The tree is built from idom_.
LEMMA KeptByBuildTree ==
  ASSUME DInv, BuildTree
  PROVE  DInv'
<1>1. /\ pc = "frontier" /\ at > Len(listed) /\ pc' = "done"
      /\ dom_tree_succ_blocks_' = [b \in Pointer |-> {c \in Nodes : idom_[c] = b /\ c # b}]
      /\ UNCHANGED <<function, order, iteration, at, p, runner, dom_frontier_>>
  BY DEF BuildTree, Nodes
<1>2. /\ Sound /\ Ranges /\ Numbered /\ Tree /\ Complete /\ Len(listed) \in 0 .. MaxBlock
      /\ at \in 1 .. Len(listed) + 1
      /\ \A b \in Reachable, i \in BB : i \in dom_frontier_[b] <=> Walked(i, b) \/ Walking(i, b)
  BY <1>1, AfterRounds DEF DInv, FrontierInv
<1>3. /\ Complete' /\ Placed' = Placed /\ Reachable' = Reachable
      /\ pre' = pre /\ listed' = listed /\ idom_' = idom_
      /\ \A i, b : Passed(i, b)' = Passed(i, b)
  BY <1>1, SteadyEnd
<1>4. Nodes' = Nodes /\ Nodes \subseteq BB
  BY <1>1, <1>2, SameFunction, Graph
<1>5. at' = Len(listed') + 1
  <2>1. Len(listed) \in Nat
    BY <1>2
  <2> QED BY <1>1, <1>2, <1>3, <2>1
<1>6. \A i, b : (Walked(i, b)' <=> Walked(i, b)) /\ ~ Walking(i, b) /\ ~ Walking(i, b)'
  BY <1>1, <1>3 DEF Walked, Walking
<1>7. FrontierInv'
  <2>1. at' \in 1 .. Len(listed') + 1
    BY <1>1, <1>2, <1>3
  <2>2. \A b \in Reachable', i \in BB : i \in dom_frontier_'[b] <=> Walked(i, b)' \/ Walking(i, b)'
    BY <1>1, <1>2, <1>3, <1>6
  <2>3. dom_tree_succ_blocks_' = [b \in Pointer |-> {c \in Nodes' : idom_'[c] = b /\ c # b}]
    BY <1>1, <1>3, <1>4
  <2> QED BY <1>1, <1>3, <1>5, <2>1, <2>2, <2>3 DEF FrontierInv
<1>8. Ranges'
  BY <1>1, <1>2, <1>4 DEF Ranges, order, iteration
<1> QED BY <1>1, <1>7, <1>8, EndKept

-------------------------------------------------------------------------------
(* The invariant *)

\* The invariant holds when the pass is called.
LEMMA Started ==
  ASSUME Sound, Start
  PROVE  DInv
<1>1. /\ pc = "search" /\ dfs = <<<<root, 1>>>> /\ visited = {root}
      /\ reverse_post_order_ = << >> /\ post_order_id_ = [b \in Pointer |-> 0]
      /\ idom_ = [b \in Pointer |-> nullptr]
      /\ changed = FALSE /\ new_idom = nullptr /\ b1 = nullptr /\ b2 = nullptr
      /\ at = 1 /\ p = 1 /\ runner = nullptr
      /\ dom_frontier_ = [b \in Pointer |-> {}]
      /\ dom_tree_succ_blocks_ = [b \in Pointer |-> {}]
  BY DEF Start, StartSearch
<1>2. MaxBlock \in Nat \ {0} /\ root \in BB /\ root \in Reachable
  BY Graph
<1>3. /\ DOMAIN dfs = {1} /\ dfs[1] = <<root, 1>> /\ dfs # << >>
      /\ dfs \in Seq(BB \X (Nat \ {0}))
  <2>1. <<root, 1>> \in BB \X (Nat \ {0})
    BY <1>2
  <2> QED BY <1>1, <2>1
<1>4. dfs[1][1] = root /\ dfs[1][2] = 1
  BY <1>3
<1>5. /\ reverse_post_order_ \in Seq(BB) /\ DOMAIN reverse_post_order_ = {}
      /\ Finished = {}
  BY <1>1 DEF Finished, ToSet
<1>6. Active = {root}
  BY <1>3, <1>4 DEF Active
<1>7. Path
  BY <1>3, <1>4 DEF Path
<1>8. Covered
  <2>1. visited = Active \cup Finished /\ Active \cap Finished = {} /\ visited \subseteq Reachable
    BY <1>1, <1>2, <1>5, <1>6
  <2>2. \A b \in Finished : ToSet(succ[b]) \subseteq visited
    BY <1>5
  <2>3. Len(succ[root]) \in Nat
    BY <1>2, Lists
  <2>4. \A j \in DOMAIN dfs : /\ dfs[j][2] <= Len(succ[dfs[j][1]]) + 1
                             /\ \A i \in 1 .. dfs[j][2] - 1 : succ[dfs[j][1]][i] \in visited
    BY <1>3, <1>4, <2>3
  <2> QED BY <2>1, <2>2, <2>4 DEF Covered
<1>9. PostOrder
  BY <1>5 DEF PostOrder, IsInjective
<1>10. Ranges
  <2>1. 0 \in 0 .. MaxBlock - 1 /\ 1 \in 1 .. MaxBlock + 1
    BY <1>2
  <2>2. nullptr \in Pointer /\ {root} \subseteq BB
    BY <1>2 DEF Pointer
  <2> QED BY <1>1, <1>5, <2>1, <2>2 DEF Ranges
<1> QED BY <1>1, <1>7, <1>8, <1>9, <1>10 DEF DInv, SearchInv, IterationInv, FrontierInv

\* Every step of the pass keeps the invariant.
LEMMA KeptByNext ==
  ASSUME DInv, Next
  PROVE  DInv'
<1>1. CASE VisitSuccessor
  BY <1>1, KeptByVisitSuccessor
<1>2. CASE LeaveBlock
  BY <1>2, KeptByLeaveBlock
<1>3. CASE ReverseOrder
  BY <1>3, KeptByReverseOrder
<1>4. CASE Round
  BY <1>4, KeptByRound
<1>5. CASE EndRound
  BY <1>5, KeptByEndRound
<1>6. CASE SkipRoot
  BY <1>6, KeptBySkipRoot
<1>7. CASE ChoosePred
  BY <1>7, KeptByChoosePred
<1>8. CASE NextPred
  BY <1>8, KeptByNextPred
<1>9. ASSUME NEW b \in BB, Climb(b) PROVE DInv'
  BY <1>9, KeptByClimb
<1>10. CASE Met
  BY <1>10, KeptByMet
<1>11. CASE SetIdom
  BY <1>11, KeptBySetIdom
<1>12. CASE NextJoin
  BY <1>12, KeptByNextJoin
<1>13. CASE Walk
  BY <1>13, KeptByWalk
<1>14. CASE EndWalk
  BY <1>14, KeptByEndWalk
<1>15. CASE BuildTree
  BY <1>15, KeptByBuildTree
<1> QED BY <1>1, <1>2, <1>3, <1>4, <1>5, <1>6, <1>7, <1>8, <1>9, <1>10, <1>11, <1>12, <1>13,
           <1>14, <1>15 DEF Next

\* A step that leaves the variables alone keeps the invariant.
LEMMA KeptByStutter ==
  ASSUME DInv, UNCHANGED vars
  PROVE  DInv'
<1>1. UNCHANGED <<function, pc, order, iteration, at, p, results>>
  BY DEF vars
<1>2. Sound' /\ Nodes' = Nodes /\ Edges' = Edges /\ Reachable' = Reachable
  BY <1>1, SameFunction DEF DInv
<1>3. CASE pc = "search"
  <2>1. Sound /\ Ranges /\ Path /\ Covered /\ PostOrder
        /\ idom_ = [b \in Pointer |-> nullptr] /\ at = 1
        /\ dom_frontier_ = [b \in Pointer |-> {}]
    BY <1>3 DEF DInv, SearchInv
  <2>2. Active' = Active /\ Finished' = Finished
    BY <1>1 DEF Active, Finished, order
  <2>3. Path'
    BY <1>1, <2>1 DEF Path, order, function
  <2>4. Covered'
    BY <1>1, <1>2, <2>1, <2>2 DEF Covered, order, function
  <2>5. PostOrder'
    BY <1>1, <1>2, <2>1, <2>2 DEF PostOrder, order
  <2>6. Ranges'
    BY <1>1, <2>1 DEF Ranges, order, iteration, results
  <2>7. SearchInv'
    BY <1>1, <2>1, <2>3, <2>4, <2>5 DEF SearchInv, iteration, results
  <2> QED BY <1>1, <1>2, <1>3, <2>6, <2>7 DEF DInv, IterationInv, FrontierInv
<1>4. CASE pc # "search"
  <2>1. Sound /\ Ranges /\ Numbered /\ Tree /\ IterationInv /\ FrontierInv
    BY <1>4, AfterSearch
  <2>2. UNCHANGED <<function, order, idom_, changed, at>>
    BY <1>1 DEF iteration
  <2>3. Ranges'
    BY <1>1, <2>1 DEF Ranges, order, iteration, results
  <2>4. /\ Placed' = Placed
        /\ \A x, y : (Above(x, y)' <=> Above(x, y)) /\ (Doms(x, y)' <=> Doms(x, y))
        /\ \A b : Settled(b)' <=> Settled(b)
        /\ bb' = bb /\ Known' = Known /\ (WithinRound' <=> WithinRound)
    BY <2>2, SameTurn, SameChains DEF order
  <2>5. BetweenRounds' <=> BetweenRounds
    BY <1>2, <2>2, <2>4 DEF BetweenRounds
  <2>6. Taken' = Taken
    BY <1>1, <2>4 DEF Taken, function
  <2>7. /\ pre' = pre /\ listed' = listed /\ p' = p /\ at' = at /\ pc' = pc /\ runner' = runner
        /\ b1' = b1 /\ b2' = b2 /\ new_idom' = new_idom /\ idom_' = idom_
        /\ reverse_post_order_' = reverse_post_order_ /\ dom_frontier_' = dom_frontier_
        /\ dom_tree_succ_blocks_' = dom_tree_succ_blocks_
    BY <1>1 DEF function, order, iteration, results
  <2>8. Meeting' <=> Meeting
    BY <1>2, <2>4, <2>6, <2>7 DEF Meeting, Above, Doms
  <2>9. Fingers' <=> Fingers
    BY <1>2, <2>4, <2>7 DEF Fingers, Above, Doms
  <2>10. IterationInv'
    BY <2>1, <2>4, <2>5, <2>7, <2>8, <2>9 DEF IterationInv
  <2>11. Complete' <=> Complete
    BY <1>2, <2>4 DEF Complete
  <2>12. \A j, b : (Walked(j, b)' <=> Walked(j, b)) /\ (Walking(j, b)' <=> Walking(j, b))
    BY <2>4, <2>7 DEF Walked, Walking, Passed, Above
  <2>13. FrontierInv'
    BY <1>2, <2>1, <2>4, <2>7, <2>11, <2>12 DEF FrontierInv, Above
  <2>14. pc' # "search"
    BY <1>4, <2>7
  <2> QED BY <1>4, <2>2, <2>3, <2>10, <2>13, <2>14, Steady
<1> QED BY <1>3, <1>4

-------------------------------------------------------------------------------
(* What the invariant says of the results *)

\* The chains of idom_ are the dominators.
LEMMA ChainsAreDominators ==
  ASSUME DInv, pc \in {"frontier", "walk", "done"}
  PROVE  \A d, n : Doms(d, n) <=> Above(d, n)
<1>1. Sound /\ Ranges /\ Numbered /\ Tree /\ Complete /\ Placed = Reachable
  BY AfterRounds
<1>2. IsFiniteSet(Nodes) /\ \A a, b : <<a, b>> \in Edges => a \in Nodes /\ b \in Nodes
  BY <1>1, Graph
<1>3. Climbing(idom_, ReachableFrom({root}, Nodes, Edges), post_order_id_, root)
  BY <1>1 DEF Tree, Reachable
<1>4. \A a, b \in ReachableFrom({root}, Nodes, Edges) :
        <<a, b>> \in Edges /\ b # root
          => Over(idom_, ReachableFrom({root}, Nodes, Edges), idom_[b], a)
  <2>1. \A a, b \in Reachable : <<a, b>> \in Edges /\ b # root => Over(idom_, Reachable, idom_[b], a)
    BY <1>1 DEF Complete, Settled, Arrives, Above
  <2> QED BY <2>1 DEF Reachable
<1>5. \A d, b \in ReachableFrom({root}, Nodes, Edges) :
        /\ b # root /\ d # b /\ b \in DominatedBy(d, root, Nodes, Edges)
        => idom_[b] \in DominatedBy(d, root, Nodes, Edges)
  <2>1. \A d, b \in Reachable : b # root /\ d # b /\ Doms(d, b) => Doms(d, idom_[b])
    BY <1>1 DEF Tree
  <2> QED BY <2>1 DEF Reachable, Doms
<1>6. ASSUME NEW d \in Reachable, NEW n \in Reachable
      PROVE  n \in DominatedBy(d, root, Nodes, Edges) <=> Over(idom_, Reachable, d, n)
  BY <1>2, <1>3, <1>4, <1>5, <1>6, ChainsDominate DEF Reachable
<1>7. \A d, n : Doms(d, n) => d \in Reachable /\ n \in Reachable
  BY <1>1, DominatorsUp
<1>8. \A d, n : Above(d, n) => d \in Reachable /\ n \in Reachable
  BY <1>1, ChainsInTree
<1> QED BY <1>1, <1>6, <1>7, <1>8 DEF Doms, Above

\* Every variable stays in its range (TypeOK), and neither assert(pred) nor
\* assert(get_idom(b)) fails (NoAssertionFails).
LEMMA InRange ==
  ASSUME DInv
  PROVE  TypeOK /\ NoAssertionFails
<1>1. Ranges /\ Sound
  BY DEF DInv
<1>2. ToSet(reverse_post_order_) \subseteq BB
  <2>1. reverse_post_order_ \in Seq(BB)
    BY <1>1 DEF Ranges
  <2> QED BY <2>1, ElementOfSeq, LenProperties DEF ToSet
<1>3. p \in 1 .. 2 * MaxBlock + 1
  <2>1. MaxBlock \in Nat \ {0} /\ p \in 1 .. MaxBlock + 1
    BY <1>1 DEF Ranges, Sound
  <2> QED BY <2>1
<1> QED BY <1>1, <1>2, <1>3 DEF Ranges, TypeOK, NoAssertionFails

\* The list is a reverse post order of the reachable blocks (OrderFollowsEdges).
LEMMA OrderRight ==
  ASSUME DInv
  PROVE  OrderFollowsEdges
<1> SUFFICES ASSUME pc # "search" PROVE OrderFollowsEdges
  BY DEF OrderFollowsEdges
<1> DEFINE rpo == reverse_post_order_
<1>1. Sound /\ Ranges /\ Numbered
  BY AfterSearch
<1>2. DOMAIN rpo = 1 .. Len(rpo) /\ Len(rpo) \in Nat
  BY <1>1, Numbers
<1>3. ASSUME NEW i \in 2 .. Len(rpo)
      PROVE  \E j \in 1 .. i - 1 : <<rpo[j], rpo[i]>> \in Edges
  <2>1. i \in DOMAIN rpo /\ i # 1
    BY <1>2
  <2>2. PICK j \in DOMAIN rpo : j < i /\ <<rpo[j], rpo[i]>> \in Edges
    BY <1>1, <2>1 DEF Numbered
  <2>3. j \in 1 .. i - 1
    BY <1>2, <2>2
  <2> QED BY <2>2, <2>3
<1> QED BY <1>1, <1>3 DEF Numbered, OrderFollowsEdges

\* The pairs of Dominance.
LEMMA DominancePairs ==
  \A e : e \in Dominance(root, Nodes, Edges) <=> \E d, n : e = <<d, n>> /\ Doms(d, n)
BY DEF Dominance, Doms, Reachable

\* idom_ is the immediate dominator of the reachable blocks (IdomCorrect).
LEMMA IdomRight ==
  ASSUME DInv
  PROVE  IdomCorrect
<1> SUFFICES ASSUME pc \in {"frontier", "done"} PROVE IdomCorrect
  BY DEF IdomCorrect
<1>1. Sound /\ Ranges /\ Numbered /\ Tree /\ Complete /\ Placed = Reachable
  BY AfterRounds
<1>2. \A d, n : Doms(d, n) <=> Above(d, n)
  BY ChainsAreDominators
<1>3. Climbing(idom_, Placed, post_order_id_, root) /\ Nodes \subseteq BB /\ Reachable \subseteq Nodes
  BY <1>1, Graph DEF Tree
<1>4. \A d, n : <<d, n>> \in Dominance(root, Nodes, Edges) <=> Above(d, n)
  BY <1>2, DominancePairs
<1>6. \A b \in Reachable \ {root} :
        /\ Above(idom_[b], b) /\ idom_[b] \in Reachable /\ idom_[b] # b
        /\ \A c : Above(c, b) /\ c # b => Above(c, idom_[b])
  <2> TAKE b \in Reachable \ {root}
  <2>1. /\ idom_[b] \in Placed /\ post_order_id_[b] < post_order_id_[idom_[b]]
        /\ post_order_id_[b] \in Nat
    BY <1>1, <1>3 DEF Climbing
  <2>2. Above(idom_[b], b) /\ idom_[b] # b
    BY <1>1, <2>1, OverSelf DEF Above
  <2>3. \A c : Above(c, b) /\ c # b => Above(c, idom_[b])
    BY <2>1, OverNext DEF Above
  <2> QED BY <1>1, <2>1, <2>2, <2>3
<1> DEFINE P == IdomPairs(root, Nodes, Edges)
<1>7. \A e : e \in P <=> \E d, n : /\ e = <<d, n>> /\ Above(d, n) /\ d # n
                                  /\ \A c \in Nodes \ {n} : Above(c, n) => Above(c, d)
  <2> TAKE e
  <2>1. e \in P <=> /\ e \in Dominance(root, Nodes, Edges) /\ e[1] # e[2]
                   /\ \A c \in Nodes \ {e[2]} :
                        <<c, e[2]>> \in Dominance(root, Nodes, Edges)
                          => <<c, e[1]>> \in Dominance(root, Nodes, Edges)
    BY DEF IdomPairs
  <2>2. e \in P <=> /\ e \in Dominance(root, Nodes, Edges) /\ e[1] # e[2]
                   /\ \A c \in Nodes \ {e[2]} : Above(c, e[2]) => Above(c, e[1])
    BY <1>4, <2>1
  <2>3. e \in Dominance(root, Nodes, Edges) <=> \E d, n : e = <<d, n>> /\ Above(d, n)
    BY <1>2, DominancePairs
  <2>4. \A d, n : e = <<d, n>> => e[1] = d /\ e[2] = n
    OBVIOUS
  <2> HIDE DEF P
  <2> QED BY <2>2, <2>3, <2>4
<1> HIDE DEF P
<1>8. ASSUME NEW b \in Reachable \ {root} PROVE <<idom_[b], b>> \in P
  BY <1>6, <1>7, <1>8
<1>9. ASSUME NEW e \in P PROVE \E b \in Reachable \ {root} : e = <<idom_[b], b>>
  <2>1. PICK d, n : /\ e = <<d, n>> /\ Above(d, n) /\ d # n
                    /\ \A c \in Nodes \ {n} : Above(c, n) => Above(c, d)
    BY <1>7
  <2>2. /\ d \in Reachable /\ n \in Reachable
        /\ post_order_id_[n] < post_order_id_[d]
        /\ post_order_id_[n] \in Nat /\ post_order_id_[d] \in Nat
    BY <1>1, <2>1, ChainsInTree
  <2>3. n # root
    <3>1. post_order_id_[d] <= post_order_id_[root]
      BY <1>1, <1>3, <2>2 DEF Climbing
    <3> QED BY <2>2, <3>1
  <2>4. Above(idom_[n], n) /\ idom_[n] \in Nodes \ {n} /\ Above(d, idom_[n])
    BY <1>3, <1>6, <2>1, <2>2, <2>3
  <2>5. Above(idom_[n], d)
    BY <2>1, <2>4
  <2>6. d = idom_[n]
    <3>1. /\ d = idom_[n] \/ post_order_id_[idom_[n]] < post_order_id_[d]
          /\ d = idom_[n] \/ post_order_id_[d] < post_order_id_[idom_[n]]
          /\ post_order_id_[d] \in Nat /\ post_order_id_[idom_[n]] \in Nat
      BY <1>1, <2>4, <2>5, ChainsInTree
    <3> QED BY <3>1
  <2> QED BY <2>1, <2>2, <2>3, <2>6
<1>10. {<<idom_[b], b>> : b \in Reachable \ {root}} = P
  BY <1>8, <1>9
<1>11. idom_[root] = root
  BY <1>3 DEF Climbing
<1>12. \A b \in Nodes \ Reachable : idom_[b] = nullptr
  BY <1>1, <1>3 DEF Placed
<1> QED BY <1>10, <1>11, <1>12 DEF IdomCorrect, P

\* dom_frontier_ is the dominance frontier of the reachable blocks (FrontierCorrect).
LEMMA FrontierRight ==
  ASSUME DInv
  PROVE  FrontierCorrect
<1> SUFFICES ASSUME pc = "done", NEW b \in Reachable
             PROVE  dom_frontier_[b] = Frontier(b, root, Nodes, Edges)
  BY DEF FrontierCorrect
<1>1. /\ Sound /\ Ranges /\ Numbered /\ Tree /\ Complete /\ Placed = Reachable
      /\ DOMAIN listed = 1 .. Len(listed) /\ Len(listed) \in 0 .. MaxBlock
  BY AfterRounds
<1>2. /\ at = Len(listed) + 1
      /\ \A j \in BB : j \in dom_frontier_[b] <=> Walked(j, b) \/ Walking(j, b)
  BY DEF DInv, FrontierInv
<1>3. \A j : ~ Walking(j, b)
  BY DEF Walking
<1>4. \A d, n : Doms(d, n) <=> Above(d, n)
  BY ChainsAreDominators
<1>5. /\ Nodes \subseteq BB /\ Reachable \subseteq Nodes
      /\ \A q, j : <<q, j>> \in Edges => q \in Nodes /\ j \in Nodes /\ j # root /\ q \in ToSet(pre[j])
      /\ \A q \in Reachable : \A j : <<q, j>> \in Edges => j \in Reachable
  BY <1>1, Graph
<1>6. Climbing(idom_, Placed, post_order_id_, root)
  BY <1>1 DEF Tree
<1>7. \A x, y : Above(x, y) => /\ x \in Reachable /\ y \in Reachable
                               /\ post_order_id_[x] \in Nat /\ post_order_id_[y] \in Nat
                               /\ x = y \/ post_order_id_[y] < post_order_id_[x]
  BY <1>1, ChainsInTree
<1> DEFINE D == DominatedBy(b, root, Nodes, Edges)
           F == Frontier(b, root, Nodes, Edges)
<1>8. \A n : n \in D <=> Above(b, n)
  BY <1>4 DEF Doms
<1>9. \A j : j \in F <=> (j \notin D \/ j = b) /\ \E q \in D : <<q, j>> \in Edges
  <2> TAKE j
  <2>1. j \in F <=> (j \notin D \/ j = b) /\ \E e \in Edges : e[1] \in D /\ e[2] = j
    BY DEF Frontier
  <2>2. \A e \in Edges : e = <<e[1], e[2]>>
    BY DEF Edges
  <2>3. \A q : <<q, j>>[1] = q /\ <<q, j>>[2] = j
    OBVIOUS
  <2> HIDE DEF D, F
  <2>4. (\E e \in Edges : e[1] \in D /\ e[2] = j) <=> \E q \in D : <<q, j>> \in Edges
    <3>1. ASSUME NEW e \in Edges, e[1] \in D, e[2] = j PROVE \E q \in D : <<q, j>> \in Edges
      BY <2>2, <3>1
    <3>2. ASSUME NEW q \in D, <<q, j>> \in Edges PROVE \E e \in Edges : e[1] \in D /\ e[2] = j
      BY <2>3, <3>2
    <3> QED BY <3>1, <3>2
  <2> QED BY <2>1, <2>4
<1> HIDE DEF D, F
<1>10. ASSUME NEW j \in BB, Walked(j, b) PROVE j \in F
  <2>1. PICK l \in DOMAIN pre[j] : b \in Passed(j, pre[j][l])
    BY <1>10 DEF Walked
  <2> DEFINE q == pre[j][l]
  <2>2. Above(b, q) /\ ~ Above(b, idom_[j])
    BY <2>1 DEF Passed
  <2>3. q \in D /\ q \in Reachable
    BY <1>1, <1>8, <2>2, ChainsInTree
  <2>4. <<q, j>> \in Edges
    BY <1>1, Lists
  <2> HIDE DEF q
  <2>5. j \in Reachable /\ j # root
    BY <1>5, <2>3, <2>4
  <2>6. ASSUME Above(b, j), j # b PROVE FALSE
    <3>1. idom_[j] \in Placed
      BY <1>1, <1>6, <2>5 DEF Climbing
    <3>2. Above(b, idom_[j])
      BY <2>6, <3>1, OverNext DEF Above
    <3> QED BY <2>2, <3>2
  <2> QED BY <1>8, <1>9, <2>3, <2>4, <2>6
<1>11. ASSUME NEW j \in F PROVE j \in BB /\ Walked(j, b)
  <2>1. PICK q \in D : <<q, j>> \in Edges
    BY <1>9
  <2>2. j \notin D \/ j = b
    BY <1>9
  <2>3. Above(b, q) /\ q \in Reachable
    BY <1>1, <1>8, <2>1, ChainsInTree
  <2>4. j \in Reachable /\ j # root /\ j \in BB /\ j \in Nodes /\ q \in ToSet(pre[j])
    BY <1>5, <2>1, <2>3
  <2>5. /\ idom_[j] \in Placed /\ post_order_id_[j] < post_order_id_[idom_[j]]
        /\ post_order_id_[j] \in Nat /\ post_order_id_[idom_[j]] \in Nat
        /\ Above(idom_[j], j)
    BY <1>1, <1>6, <2>4, OverSelf DEF Climbing, Above
  <2>6. ~ Above(b, idom_[j])
    <3> SUFFICES ASSUME Above(b, idom_[j]) PROVE FALSE
      OBVIOUS
    <3>1. Above(b, j)
      BY <2>5, OverTrans DEF Above
    <3>2. j = b
      BY <1>8, <2>2, <3>1
    <3>3. j = idom_[j] \/ post_order_id_[idom_[j]] < post_order_id_[j]
      BY <1>7, <3>2
    <3> QED BY <2>5, <3>3
  <2>7. PICK l \in DOMAIN pre[j] : pre[j][l] = q
    BY <2>4 DEF ToSet
  <2>8. b \in Passed(j, pre[j][l])
    BY <1>1, <2>3, <2>6, <2>7 DEF Passed
  <2>9. Len(pre[j]) >= 2
    <3> SUFFICES ASSUME ~ Len(pre[j]) >= 2 PROVE FALSE
      OBVIOUS
    <3>1. DOMAIN pre[j] = 1 .. Len(pre[j]) /\ Len(pre[j]) \in Nat
      <4>1. Len(pre[j]) \in 0 .. MaxBlock /\ DOMAIN pre[j] = 1 .. Len(pre[j])
        BY <1>1, <2>4, Lists
      <4> QED BY <4>1
    <3>2. \A i \in DOMAIN pre[j] : i = l
      BY <2>7, <3>1
    <3>3. ASSUME NEW x, Arrives(x, j) PROVE x = q
      <4>1. x \in ToSet(pre[j])
        BY <1>5, <3>3 DEF Arrives
      <4> QED BY <2>7, <3>2, <4>1 DEF ToSet
    <3>4. Above(q, q) /\ q \in Placed
      BY <1>1, <2>3, OverSelf DEF Above
    <3>5. post_order_id_[idom_[j]] <= post_order_id_[q]
      <4>1. \A x \in Placed : Arrives(x, j) => Above(q, x)
        BY <3>3, <3>4
      <4>2. j \in Placed \ {root}
        BY <1>1, <2>4
      <4> QED BY <1>1, <3>4, <4>1, <4>2 DEF Tree
    <3>6. Above(idom_[j], q)
      BY <1>1, <2>1, <2>4, <3>4 DEF Complete, Settled, Arrives
    <3>7. idom_[j] = q
      <4>1. /\ idom_[j] = q \/ post_order_id_[q] < post_order_id_[idom_[j]]
            /\ post_order_id_[q] \in Nat
        BY <1>1, <3>6, ChainsInTree
      <4> QED BY <2>5, <3>5, <4>1
    <3> QED BY <2>3, <2>6, <3>7
  <2>10. PICK i \in DOMAIN listed : listed[i] = j
    BY <2>4 DEF Nodes, ToSet
  <2>11. i < at
    BY <1>1, <1>2
  <2> QED BY <2>4, <2>8, <2>9, <2>10, <2>11 DEF Walked
<1>12. dom_frontier_[b] \subseteq BB
  <2>1. b \in Pointer
    BY <1>5 DEF Pointer
  <2> QED BY <1>1, <2>1 DEF Ranges
<1>13. dom_frontier_[b] = F
  <2>1. ASSUME NEW j \in dom_frontier_[b] PROVE j \in F
    BY <1>2, <1>3, <1>10, <1>12
  <2>2. ASSUME NEW j \in F PROVE j \in dom_frontier_[b]
    BY <1>2, <1>11
  <2> QED BY <2>1, <2>2
<1> QED BY <1>13 DEF F

\* The tree has every reachable block, once (TreeCoversReachable).
LEMMA TreeRight ==
  ASSUME DInv
  PROVE  TreeCoversReachable
<1> SUFFICES ASSUME pc = "done" PROVE TreeCoversReachable
  BY DEF TreeCoversReachable
<1>1. Sound /\ Ranges /\ Numbered /\ Tree /\ Complete /\ Placed = Reachable
  BY AfterRounds
<1>2. dom_tree_succ_blocks_ = [b \in Pointer |-> {c \in Nodes : idom_[c] = b /\ c # b}]
  BY DEF DInv, FrontierInv
<1>3. /\ Climbing(idom_, Reachable, post_order_id_, root)
      /\ Nodes \subseteq BB /\ Reachable \subseteq Nodes /\ IsFiniteSet(Nodes)
      /\ root \in Reachable /\ nullptr \notin BB
  BY <1>1, Graph DEF Tree
<1> DEFINE down == {e \in BB \X BB : e[2] \in dom_tree_succ_blocks_[e[1]]}
           V == ReachableFrom({root}, Nodes, down)
<1>4. \A b, c : <<b, c>> \in down <=> c \in Reachable \ {root} /\ b = idom_[c]
  <2> TAKE b, c
  <2>1. <<b, c>> \in down <=> b \in BB /\ c \in BB /\ c \in dom_tree_succ_blocks_[b]
    OBVIOUS
  <2>2. b \in BB => dom_tree_succ_blocks_[b] = {x \in Nodes : idom_[x] = b /\ x # b}
    BY <1>2 DEF Pointer
  <2> HIDE DEF down
  <2>3. ASSUME <<b, c>> \in down PROVE c \in Reachable \ {root} /\ b = idom_[c]
    <3>1. b \in BB /\ c \in BB /\ c \in Nodes /\ idom_[c] = b /\ c # b
      BY <2>1, <2>2, <2>3
    <3>2. c \in Placed
      BY <1>3, <3>1 DEF Placed
    <3>3. c # root
      BY <1>3, <3>1 DEF Climbing
    <3> QED BY <1>1, <3>1, <3>2, <3>3
  <2>4. ASSUME c \in Reachable \ {root}, b = idom_[c] PROVE <<b, c>> \in down
    <3>1. /\ b \in Reachable /\ post_order_id_[c] < post_order_id_[b]
          /\ post_order_id_[c] \in Nat
      BY <1>3, <2>4 DEF Climbing
    <3>2. b # c
      BY <3>1
    <3>3. b \in BB /\ c \in BB /\ c \in Nodes
      BY <1>3, <2>4, <3>1
    <3> QED BY <2>1, <2>2, <2>4, <3>2, <3>3
  <2> QED BY <2>3, <2>4
<1>5. \A e \in down : e = <<e[1], e[2]>>
  OBVIOUS
<1> HIDE DEF down
<1>6. V = Reachable
  <2>1. V \subseteq Reachable
    <3>1. {root} \subseteq Reachable /\ \A m \in Reachable, n \in Nodes : <<m, n>> \in down => n \in Reachable
      BY <1>3, <1>4
    <3> QED BY <1>3, <3>1, ReachableLeast
  <2>2. root \in V /\ \A m \in V, n \in Nodes : <<m, n>> \in down => n \in V
    BY <1>3, ReachableClosed
  <2> DEFINE A == Reachable \ V
  <2>3. ASSUME NEW y \in A PROVE FALSE
    <3>1. ASSUME NEW q \in A PROVE q # root /\ idom_[q] \in A
      <4>1. q # root /\ q \in Reachable
        BY <2>2
      <4>2. idom_[q] \in Reachable /\ <<idom_[q], q>> \in down
        BY <1>3, <1>4, <4>1 DEF Climbing
      <4>3. q \in Nodes /\ q \notin V
        BY <1>3, <4>1
      <4>4. idom_[q] \notin V
        BY <2>2, <4>2, <4>3
      <4> QED BY <4>1, <4>2, <4>4
    <3>2. A \subseteq Reachable
      OBVIOUS
    <3> HIDE DEF A
    <3>3. Over(idom_, Reachable, nullptr, y)
      BY <1>3, <2>3, <3>1, <3>2, OverWithin
    <3>4. nullptr \in Reachable
      BY <1>3, <3>3, OverRank
    <3> QED BY <1>3, <3>4
  <2> QED BY <2>1, <2>3
<1>7. ASSUME NEW b \in Reachable
      PROVE  Cardinality({e \in down : e[2] = b}) = IF b = root THEN 0 ELSE 1
  <2>1. CASE b = root
    <3>1. \A e \in down : e[2] # root
      BY <1>4, <1>5
    <3>2. {e \in down : e[2] = b} = {}
      BY <2>1, <3>1
    <3> QED BY <2>1, <3>2, FS_EmptySet
  <2>2. CASE b # root
    <3>1. <<idom_[b], b>> \in down
      BY <1>4, <2>2
    <3>2. ASSUME NEW e \in down, e[2] = b PROVE e = <<idom_[b], b>>
      <4>1. e = <<e[1], b>> /\ <<e[1], b>> \in down
        BY <1>5, <3>2
      <4> QED BY <1>4, <4>1
    <3>3. <<idom_[b], b>>[2] = b
      OBVIOUS
    <3>4. {e \in down : e[2] = b} = {<<idom_[b], b>>}
      <4> DEFINE x == <<idom_[b], b>>
      <4>1. x \in down /\ x[2] = b /\ \A e \in down : e[2] = b => e = x
        BY <3>1, <3>2, <3>3
      <4> HIDE DEF x
      <4>2. {e \in down : e[2] = b} = {x}
        BY <4>1
      <4> QED BY <4>2 DEF x
    <3> QED BY <2>2, <3>4, FS_Singleton
  <2> QED BY <2>1, <2>2
<1> QED BY <1>6, <1>7 DEF TreeCoversReachable, down

\* The pass reads the function only.
LEMMA NextKeepsFunction == Next => UNCHANGED function
BY DEF Next, VisitSuccessor, LeaveBlock, ReverseOrder, Round, EndRound, SkipRoot, ChoosePred,
       NextPred, Climb, Met, SetIdom, NextJoin, Walk, EndWalk, BuildTree

\* No step replaces the dominator of a block by one that is numbered lower.
LEMMA Climbs ==
  ASSUME DInv, Next
  PROVE  \A b \in BB : idom_[b] # nullptr => post_order_id_[idom_'[b]] >= post_order_id_[idom_[b]]
<1>1. Sound /\ Ranges
  BY DEF DInv
<1>2. \A b \in BB : idom_[b] \in Pointer /\ post_order_id_[idom_[b]] \in Nat
  <2>1. MaxBlock \in Nat \ {0}
    BY <1>1 DEF Sound
  <2>2. \A x \in Pointer : post_order_id_[x] \in Nat
    BY <1>1, <2>1 DEF Ranges
  <2> QED BY <1>1, <2>2 DEF Ranges, Pointer
<1>3. CASE pc = "search"
  BY <1>3 DEF DInv, SearchInv, Pointer
<1>4. CASE SetIdom
  <2> TAKE b \in BB
  <2> SUFFICES ASSUME idom_[b] # nullptr
               PROVE  post_order_id_[idom_'[b]] >= post_order_id_[idom_[b]]
    OBVIOUS
  <2>1. pc = "preds" /\ p > Len(pre[bb]) /\ idom_' = [idom_ EXCEPT ![bb] = new_idom]
    BY <1>4 DEF SetIdom
  <2>2. CASE b = bb
    <3>1. bb \in Placed
      BY <2>2 DEF Placed
    <3>2. /\ post_order_id_[idom_[bb]] <= post_order_id_[new_idom]
          /\ Above(new_idom, idom_[bb])
      BY <2>1, <3>1, NewDominator
    <3>3. post_order_id_[new_idom] \in Nat /\ post_order_id_[idom_[bb]] \in Nat
      <4>1. Numbered /\ Tree
        BY <2>1, AfterSearch
      <4> QED BY <1>1, <3>2, <4>1, ChainsInTree
    <3>4. idom_'[bb] = new_idom
      BY <1>1, <2>1, <2>2 DEF Ranges, Pointer
    <3> QED BY <2>2, <3>2, <3>3, <3>4
  <2>3. CASE b # bb
    <3>1. idom_'[b] = idom_[b]
      BY <1>1, <2>1, <2>3 DEF Ranges, Pointer
    <3> QED BY <1>2, <3>1
  <2> QED BY <2>2, <2>3
<1>5. CASE pc # "search" /\ ~ SetIdom
  <2>1. idom_' = idom_
    BY <1>5 DEF Next, VisitSuccessor, LeaveBlock, ReverseOrder, Round, EndRound, SkipRoot,
                ChoosePred, NextPred, Climb, Met, NextJoin, Walk, EndWalk, BuildTree, iteration
  <2> QED BY <1>2, <2>1
<1> QED BY <1>3, <1>4, <1>5

-------------------------------------------------------------------------------
(* The pass as a whole *)

\* Whatever function the pass is given, in every step of a call of run(): every variable
\* stays in its range and no assertion fails; once the search has ended the list is a
\* reverse post order of the reachable blocks; once the rounds have ended idom_ holds the
\* immediate dominators; at the end dom_frontier_ holds the dominance frontiers, and
\* dom_tree_succ_blocks_ the tree that re_name walks.
THEOREM PassIsRight ==
  Sound /\ Start /\ [][Next]_vars
    => [](/\ TypeOK /\ NoAssertionFails /\ OrderFollowsEdges /\ IdomCorrect
          /\ FrontierCorrect /\ TreeCoversReachable)
<1>1. Sound /\ Start => DInv
  BY Started
<1>2. DInv /\ [Next]_vars => DInv'
  BY KeptByNext, KeptByStutter
<1>3. DInv => /\ TypeOK /\ NoAssertionFails /\ OrderFollowsEdges /\ IdomCorrect
              /\ FrontierCorrect /\ TreeCoversReachable
  BY InRange, OrderRight, IdomRight, FrontierRight, TreeRight
<1> QED BY <1>1, <1>2, <1>3, PTL
===============================================================================
