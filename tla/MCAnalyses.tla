------------------------------ MODULE MCAnalyses ------------------------------
(* Instances of Analyses for TLC: orders of sets, and all small graphs. *)
EXTENDS Analyses, SequencesExt, Cfg

Few == 4
FewBlocks == 1 .. Few

\* All orders of a set of the first blocks, one of a larger set.
OrderOfFew(S) == IF S \subseteq FewBlocks THEN S ELSE {CHOOSE x \in S : TRUE}

\* Successor lists: at most two different targets, neither the entry nor the block itself,
\* to which the builder makes no edges.
Targets == {<< >>} \cup {<<a>> : a \in 2 .. Few}
             \cup {s \in (2 .. Few) \X (2 .. Few) : s[1] # s[2]}

\* Predecessors of b in the order of the blocks, or in the opposite order.
Preds(b, lists) == SelectSeq([i \in FewBlocks |-> i], LAMBDA c : b \in ToSet(lists[c]))

Graph(lists, up) ==
  [listed |-> [i \in FewBlocks |-> i],
   succ |-> [b \in 1 .. MaxBlocks |-> IF b \in FewBlocks THEN lists[b] ELSE << >>],
   pre |-> [b \in 1 .. MaxBlocks |-> IF b \notin FewBlocks THEN << >>
                                     ELSE IF up THEN Preds(b, lists) ELSE Reverse(Preds(b, lists))]]

\* Every block is reached from the entry.
Connected(lists) ==
  ReachableFrom({1}, FewBlocks,
                {e \in FewBlocks \X FewBlocks : e[2] \in ToSet(lists[e[1]])})
    = FewBlocks

\* Blocks are numbered as they are first named: one graph of those that differ in numbers.
Numbered(lists) ==
  LET named == FlattenSeq(lists)
      First(b) == CHOOSE i \in DOMAIN named : /\ named[i] = b
                                             /\ \A j \in 1 .. i - 1 : named[j] # b
  IN  /\ 2 .. Few \subseteq ToSet(named)
      /\ \A a, b \in 2 .. Few : a < b => First(a) < First(b)

ConnectedGraphs ==
  {Graph(s, up) : s \in {s \in [FewBlocks -> Targets] :
                          /\ \A b \in DOMAIN s : b \notin ToSet(s[b])
                          /\ Numbered(s) /\ Connected(s)}, up \in BOOLEAN}
===============================================================================
