------------------------------ MODULE MCMem2Reg -------------------------------
(* Instances of Mem2Reg for TLC: shapes of functions, and what their blocks do. *)
EXTENDS Names

\* What block b may do with the variables 1 and 2.
Bodies(b) ==
  LET l == Loaded(b, 1)
      m == Loaded(b, 2)
  IN  {<< >>,
       <<Store(1, Const(b))>>,
       <<Load(1, l), Use(l)>>,
       <<Load(2, l), Use(l)>>,
       <<Load(1, l), Store(2, l)>>,
       <<Load(1, l), Load(2, m), Store(1, m), Store(2, l), Use(l)>>}

\* The shapes are those the builder gives to if, while and their nestings; in each,
\* B are the bodies of the entry.
IfElse(B) == \* 1: if, 2: then, 3: else, 4: after
  {[succ |-> <<<<3, 2>>, <<4>>, <<4>>, << >>>>, body |-> <<e, x, y, z>>] :
     e \in B, x \in Bodies(2), y \in Bodies(3), z \in Bodies(4)}
Loop(B) == \* 2: condition, 3: body, 4: after
  {[succ |-> <<<<2>>, <<4, 3>>, <<2>>, << >>>>, body |-> <<e, x, y, z>>] :
     e \in B, x \in Bodies(2), y \in Bodies(3), z \in Bodies(4)}
LoopWithIf(B) == \* 2: condition, 3: if, 4: then, 5: after the if, 6: after
  {[succ |-> <<<<2>>, <<6, 3>>, <<5, 4>>, <<5>>, <<2>>, << >>>>,
    body |-> <<e, << >>, x, y, z, <<Load(1, Loaded(6, 1)), Use(Loaded(6, 1))>>>>] :
     e \in B, x \in Bodies(3), y \in Bodies(4), z \in Bodies(5)}
LoopInLoop(B) == \* 2, 3: conditions, 4: inner body, 5: after it, 6: after
  {[succ |-> <<<<2>>, <<6, 3>>, <<5, 4>>, <<3>>, <<2>>, << >>>>,
    body |-> <<e, << >>, x, y, z, <<Load(1, Loaded(6, 1)), Use(Loaded(6, 1))>>>>] :
     e \in B, x \in Bodies(3), y \in Bodies(4), z \in Bodies(5)}
ReturnInLoop(B) == \* 2: condition, 3: if, 4: returns, 5: goes on, 6: after
  {[succ |-> <<<<2>>, <<6, 3>>, <<5, 4>>, << >>, <<2>>, << >>>>,
    body |-> <<e, << >>, x, y, z, <<Load(2, Loaded(6, 1)), Use(Loaded(6, 1))>>>>] :
     e \in B, x \in Bodies(3), y \in Bodies(4), z \in Bodies(5)}
TwoIfs(B) == \* 2: returns, 3: second if, 4: then, 5: after
  {[succ |-> <<<<3, 2>>, << >>, <<5, 4>>, <<5>>, << >>>>, body |-> <<e, x, << >>, y, z>>] :
     e \in B, x \in Bodies(2), y \in Bodies(4), z \in Bodies(5)}

Shapes(B) == UNION {IfElse(B), Loop(B), LoopWithIf(B), LoopInLoop(B), ReturnInLoop(B), TwoIfs(B)}

\* Both variables are parameters, stored on entry.
Initialised == Shapes({<<Store(1, Const(10)), Store(2, Const(20))>>})

\* Local variables, stored where the program assigns them.
Locals == Shapes({<< >>})

Both == Initialised \cup Locals

\* if (..) { x = 2; return; } if (..) { x = 4; output(x); } return;
TwoBranches ==
  LET l == Loaded(4, 1)
  IN  {[succ |-> <<<<3, 2>>, << >>, <<5, 4>>, <<5>>, << >>>>,
        body |-> <<<< >>, <<Store(1, Const(2))>>, << >>,
                   <<Store(1, Const(4)), Load(1, l), Use(l)>>, << >>>>]}
===============================================================================
