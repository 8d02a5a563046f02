---------------------------- MODULE MCLoopInvHoist -----------------------------
(* Instances of LoopInvHoist for TLC: functions with one loop, two in each other, or
   one after an if. *)
EXTENDS LoopInvHoist

\* Values: an argument, the phi of block b, two pure results, and that of a call.
x == <<"x", 0>>
P(b) == <<"p", b>>
V(b) == <<"v", b>>
W(b) == <<"w", b>>
O(b) == <<"o", b>>

\* 2: condition, 3: body, 4: after the loop.
OneLoop(bodies) ==
  {[succ |-> <<<<2>>, <<4, 3>>, <<2>>, << >>>>, pre |-> <<<< >>, <<1, 3>>, <<2>>, <<2>>>>,
    body |-> <<<<Other(O(1), <<x>>)>>, <<Phi(P(2), <<x, W(3)>>), Pure(V(2), <<y>>)>>, three,
               <<Other(O(4), <<P(2)>>)>>>>] : y \in {x, P(2)}, three \in bodies}

\* 2: condition, 3: body up to the inner loop, 4: its condition, 5: after it, 6: after
\* the outer loop, 7: inner body.
TwoLoops(args4, args5, bodies) ==
  {[succ |-> <<<<2>>, <<6, 3>>, <<4>>, <<5, 7>>, <<2>>, << >>, <<4>>>>,
    pre |-> <<<< >>, <<1, 5>>, <<2>>, <<3, 7>>, <<4>>, <<2>>, <<4>>>>,
    body |-> <<<<Other(O(1), <<x>>)>>,
               <<Phi(P(2), <<x, V(5)>>), Pure(V(2), <<P(2)>>)>>,
               <<Pure(V(3), <<y>>), Other(O(3), <<V(3)>>)>>,
               <<Phi(P(4), <<x, W(7)>>), Pure(V(4), <<z>>)>>,
               <<Pure(V(5), <<w>>)>>, << >>, seven>>] :
     y \in {x, P(2)}, z \in args4, w \in args5, seven \in bodies}

\* Two pure instructions, the second with an operand in the same block.
Two(b, args) ==
  {<<Pure(V(b), <<y, z>>), Pure(W(b), <<u, V(b)>>), Other(O(b), <<W(b)>>)>> :
     y \in args, z \in args, u \in args}

\* Operands come from the same block, from phis, or from outside of all loops; no block in
\* front of a loop begins with a phi.
LocalFunctions ==
  OneLoop(Two(3, {x, P(2)}))
    \cup TwoLoops({x, P(2), P(4)}, {x, P(2), P(4)}, Two(7, {x, P(2), P(4)}))

\* if ( ) a = 1; else a = 2; while ( ) { b = a * x; c = input() + x; d = x / x; }.
\* The block in front of the loop, 4, is the join of the if and begins with the phi of a;
\* the sum depends on a call in the loop; the division runs only if the body does.
JoinFunction ==
  [succ |-> <<<<3, 2>>, <<4>>, <<4>>, <<5>>, <<7, 6>>, <<5>>, << >>>>,
   pre |-> <<<< >>, <<1>>, <<1>>, <<2, 3>>, <<4, 6>>, <<5>>, <<5>>>>,
   body |-> <<<< >>, << >>, << >>, <<Phi(P(4), <<x, x>>)>>,
              <<Phi(P(5), <<x, V(6)>>), Other(O(5), <<P(5)>>)>>,
              <<Pure(V(4), <<P(4), x>>), Other(O(6), << >>), Pure(W(6), <<O(6), x>>),
                Division(V(6), <<x, x>>)>>,
              <<Other(O(7), <<P(4)>>)>>>>]
JoinFunctions == {JoinFunction}
===============================================================================
