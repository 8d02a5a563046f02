-------------------------- MODULE MCConstPropagation --------------------------
(* Instances of ConstPropagation for TLC: expressions as the builder makes them. *)
EXTENDS ConstPropagation

\* Floats: halves from -2 to 2, as tuples, which stay in this range, and NaN.
SomeFloats == {<<h>> : h \in -4 .. 4} \cup {<< >>}
NotANumber == << >>
Clamp(h) == <<CHOOSE c \in -4 .. 4 : \A d \in -4 .. 4 : Abs(h - c) <= Abs(h - d)>>
Arithmetic(o, x, y) ==
  CASE x = << >> \/ y = << >> -> << >>
    [] o = "fadd" -> Clamp(x[1] + y[1])
    [] o = "fsub" -> Clamp(x[1] - y[1])
    [] o = "fmul" -> Clamp((x[1] * y[1]) \div 2)
    [] o = "fdiv" -> IF y[1] # 0 THEN Clamp(Quotient(2 * x[1], y[1]))
                     ELSE IF x[1] = 0 THEN << >> ELSE Clamp(9 * x[1])
Compares(o, x, y) ==
  IF << >> \in {x, y} THEN o = "ne"
  ELSE CASE o = "eq" -> x = y [] o = "ne" -> x # y
         [] o = "lt" -> x[1] < y[1] [] o = "le" -> x[1] <= y[1]
         [] o = "gt" -> x[1] > y[1] [] o = "ge" -> x[1] >= y[1]
Nearest(n) == Clamp(2 * n)
Cast(x) == IF x = << >> THEN 9 ELSE Quotient(x[1], 2)

Comparisons == {"eq", "ne", "lt", "le", "gt", "ge"}

\* x = call; 2 = x op c; 3 = 2 op c; 4 = 3 < 0; 5 = zext 4; 6 = 5 != 0; use 3, 5; br 6;
\* with constants or results in all places, and 2 in the same block, in one before or in
\* one listed after.
Numbers == {ConstantInt(n) : n \in {-4, -1, 0}}
Layouts == {<<<<1, 2, 3, 4, 5, 6, 7, 8>>>>, <<<<1, 2>>, <<3, 4, 5, 6, 7, 8>>>>,
            <<<<1>>, <<3, 4, 5, 6, 7, 8>>, <<2>>>>}
IntFunction(o2, a2, o3, a3, o4, layout) ==
  [blocks |-> layout,
   kind |-> <<"other", "binary", "binary", "cmp", "zext", "cmp", "void", "void">>,
   op |-> <<"ConstantInt", o2, o3, o4, "zext", "ne", "call", "br">>,
   args |-> <<<< >>, a2, a3, <<Result(3), ConstantInt(0)>>, <<Result(4)>>,
              <<Result(5), ConstantInt(0)>>, <<Result(3), Result(5)>>, <<Result(6)>>>>]
IntFunctions ==
  {IntFunction(o2, a2, o3, a3, o4, layout) :
     o2 \in {"add", "sub", "mul", "sdiv"}, o3 \in {"sub", "sdiv"},
     a2 \in (Numbers \cup {Result(1)}) \X Numbers,
     a3 \in ({Result(2)} \X (Numbers \cup {Result(1)})) \cup (Numbers \X {Result(2)}),
     o4 \in Comparisons, layout \in Layouts}

\* 2 = sitofp a; 3 = 2 op c; 4 = fptosi 3; 5 = 3 < c; 6 = zext 5; use 3, 4, 6.
FloatFunction(a2, o3, c, o5) ==
  [blocks |-> <<<<1, 2, 3, 4, 5, 6, 7>>>>,
   kind |-> <<"other", "sitofp", "binary", "fptosi", "fcmp", "zext", "void">>,
   op |-> <<"ConstantInt", "sitofp", o3, "fptosi", o5, "zext", "call">>,
   args |-> <<<< >>, <<a2>>, <<Result(2), c>>, <<Result(3)>>, <<Result(3), ConstantFP(<<1>>)>>,
              <<Result(5)>>, <<Result(3), Result(4), Result(6)>>>>]
FloatFunctions ==
  {FloatFunction(a2, o3, c, o5) :
     a2 \in Numbers \cup {Result(1)}, o3 \in {"fadd", "fsub", "fmul", "fdiv"},
     c \in {ConstantFP(<<h>>) : h \in {-3, 0, 1, 2}}, o5 \in Comparisons}

AllFunctions == IntFunctions \cup FloatFunctions
OneFunction == {IntFunction("add", <<ConstantInt(-1), ConstantInt(3)>>, "sub",
                            <<Result(2), ConstantInt(0)>>, "ne", <<<<1, 2, 3, 4, 5, 6, 7, 8>>>>)}
===============================================================================
