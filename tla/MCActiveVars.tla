----------------------------- MODULE MCActiveVars -----------------------------
(* Instances of ActiveVars for TLC: shapes of functions in SSA form. *)
EXTENDS ActiveVars

\* Values: x, the function's argument, and vb or pb, defined in block b.

\* if: 1, then: 2, else: 3, after: 4, which takes one or two phis.
IfElse ==
  {[succ |-> <<<<3, 2>>, <<4>>, <<4>>, << >>>>,
    body |-> <<<<Def("v1", <<"x", "c">>), Use(<<"v1">>)>>,
               <<Def("v2", <<a>>)>>, <<Def("v3", <<"x">>)>>,
               <<Phi("p4", <<<<t, 2>>, <<e, 3>>>>), Phi("q4", <<<<u, 2>>, <<"c", 3>>>>),
                 Def("v4", <<"p4", y>>), Ret(<<z>>)>>>>] :
     a \in {"x", "v1"}, t \in {"x", "v1", "v2"}, e \in {"x", "v1", "v3", "c"},
     u \in {"x", "v1", "v2", "c"}, y \in {"x", "v1", "q4"}, z \in {"v4", "q4", "c"}}

\* while with an if in it: 2 is the condition, 4 is then, 5 closes the loop.
Loop ==
  {[succ |-> <<<<2>>, <<6, 3>>, <<5, 4>>, <<5>>, <<2>>, << >>>>,
    body |-> <<<<Def("v1", <<"x">>)>>,
               <<Phi("p2", <<<<i, 1>>, <<n, 5>>>>), Def("v2", <<"p2", "c">>), Use(<<"v2">>)>>,
               <<Use(<<y>>)>>, <<Def("v4", <<"p2">>)>>,
               <<Phi("p5", <<<<s, 3>>, <<t, 4>>>>)>>,
               <<Def("v6", <<z>>), Ret(<<r>>)>>>>] :
     i \in {"x", "v1", "c"}, n \in {"p5", "x", "v2", "p2"}, y \in {"x", "v2"},
     s \in {"p2", "v1", "v2"}, t \in {"v4", "v1", "p2"},
     z \in {"p2", "v1", "x"}, r \in {"v6", "v2"}}

SSAFunctions == IfElse \cup Loop
===============================================================================
