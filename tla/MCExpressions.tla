----------------------------- MODULE MCExpressions -----------------------------
(* Instances of Expressions for TLC: programs over a few names, as the parser builds them. *)
EXTENDS ExpressionsMeaning, ExpressionsCfg

\* Nodes of the grammar.
Leaf(x) == <<x>>
Integer(x) == <<"factor", <<"integer", <<x>>>>>>
Float(x) == <<"factor", <<"float", <<x>>>>>>
Var(x) == <<"var", <<x>>>>
Elem(x, e) == <<"var", <<x>>, <<"[">>, e, <<"]">>>>
Of(x) == <<"factor", x>>
Paren(e) == <<"factor", <<"(">>, e, <<")">>>>
TermF(f) == <<"term", f>>
Add(f) == <<"additive-expression", <<"term", f>>>>
Expr(f) == <<"expression", <<"simple-expression", Add(f)>>>>
Times(f, op, g) == <<"expression", <<"simple-expression", <<"additive-expression",
                     <<"term", <<"term", f>>, <<"mulop", <<op>>>>, g>>>>>>>>
Plus(f, op, g) == <<"expression", <<"simple-expression", <<"additive-expression",
                    Add(f), <<"addop", <<op>>>>, TermF(g)>>>>>>
Relation(f, op, g) == <<"expression", <<"simple-expression", Add(f), <<"relop", <<op>>>>, Add(g)>>>>
Set(v, e) == <<"expression", v, <<"=">>, e>>

RECURSIVE List(_, _)
List(nm, items) == IF Len(items) = 1 THEN <<nm, items[1]>>
                    ELSE <<nm, List(nm, Front(items)), <<",">>, Last(items)>>
RECURSIVE Chain(_, _)
Chain(nm, items) == IF items = << >> THEN <<nm, <<"epsilon">>>>
                     ELSE <<nm, Chain(nm, Front(items)), Last(items)>>
RECURSIVE Declarations(_)
Declarations(items) ==
  IF Len(items) = 1 THEN <<"declaration-list", <<"declaration", items[1]>>>>
  ELSE <<"declaration-list", Declarations(Front(items)), <<"declaration", Last(items)>>>>

CallOf(f, args) == Of(<<"call", <<f>>, <<"(">>,
                        <<"args", IF args = << >> THEN <<"epsilon">> ELSE List("arg-list", args)>>,
                        <<")">>>>)
Type(t) == <<"type-specifier", <<t>>>>
Decl(t, x) == <<"var-declaration", Type(t), <<x>>, <<";">>>>
DeclArray(t, x) == <<"var-declaration", Type(t), <<x>>, <<"[">>, <<"10">>, <<"]">>, <<";">>>>
Param(t, x) == <<"param", Type(t), <<x>>>>
ParamArray(t, x) == <<"param", Type(t), <<x>>, <<"[">>, <<"]">>>>
Do(e) == <<"statement", <<"expression-stmt", e, <<";">>>>>>
Empty == <<"statement", <<"expression-stmt", <<";">>>>>>
Return(e) == <<"statement", <<"return-stmt", <<"return">>, e, <<";">>>>>>
ReturnVoid == <<"statement", <<"return-stmt", <<"return">>, <<";">>>>>>
If(e, s) == <<"statement", <<"selection-stmt", <<"if">>, <<"(">>, e, <<")">>, s>>>>
IfElse(e, s, t) == <<"statement", <<"selection-stmt", <<"if">>, <<"(">>, e, <<")">>, s, <<"else">>, t>>>>
While(e, s) == <<"statement", <<"iteration-stmt", <<"while">>, <<"(">>, e, <<")">>, s>>>>
Block(decls, stmts) == <<"compound-stmt", <<"{">>, Chain("local-declarations", decls),
                         Chain("statement-list", stmts), <<"}">>>>
Within(block) == <<"statement", block>>
DeclareFun(t, f, params, block) ==
  <<"fun-declaration", Type(t), <<f>>, <<"(">>,
    <<"params", IF params = << >> THEN <<"void">> ELSE List("param-list", params)>>,
    <<")">>, block>>
Program(decls) == <<"program", Declarations(decls)>>

\* int v[]; float x; int h(float x, int b[]) { return b[x]; }
\* T main(void) { int i; float w[]; statement; return expression; }
Prelude == <<DeclArray("int", "v"), Decl("float", "x"),
             DeclareFun("int", "h", <<Param("float", "x"), ParamArray("int", "b")>>,
                        Block(<< >>, <<Return(Expr(Of(Elem("b", Expr(Of(Var("x")))))))>>))>>
Main(t, stmts) == Program(Append(Prelude, DeclareFun(t, "main", << >>,
                            Block(<<Decl("int", "i"), DeclArray("float", "w")>>, stmts))))

Simple == {Integer("1"), Float("0.5"), Of(Var("i")), Of(Var("x")), CallOf("input", << >>)}
Indices == {Expr(Of(Var("i"))), Expr(Of(Var("x"))), Set(Var("i"), Expr(Float("0.5")))}
Elements == {Elem(a, e) : a \in {"v", "w"}, e \in Indices}
Calls == {CallOf("h", <<Expr(f), Expr(Of(Var("v")))>>) : f \in Simple}
           \cup {CallOf("h", <<Set(Var("x"), Expr(Integer("1"))), Expr(Of(Var("v")))>>)}
Factors == Simple \cup {Of(e) : e \in Elements} \cup Calls
            \cup {Paren(Set(Elem("v", Expr(Of(Var("i")))), Expr(Of(Var("x")))))}
Returned == {Plus(f, "+", g) : f \in Simple, g \in Factors} \cup {Relation(f, "<=", g) : f \in Simple, g \in Factors}
             \cup {Times(f, "/", g) : f \in Simple, g \in Factors}
             \cup {Set(v, Expr(f)) : v \in {Var("i"), Var("x")} \cup Elements, f \in Factors}
Exprs == Returned \cup {Plus(f, "+", g) : f, g \in Factors}

Bodies == {Main("int", <<Do(e), Return(Expr(Of(Var("x"))))>>) : e \in Exprs}
           \cup {Main("float", <<Return(e)>>) : e \in Returned}

\* Names that are declared again inside, blocks after returns, and calls of main's siblings.
Inner(t, x, stmts) == Within(Block(<<Decl(t, x)>>, stmts))
One(x) == Do(Set(Var(x), Expr(Integer("1"))))
Steps(t) == {Empty, One("i"), IF t = "void" THEN ReturnVoid ELSE Return(Expr(Of(Var("i"))))}
NestedIn(t) ==
  {Main(t, <<one, Inner(u, y, <<One(y), Inner("float", z, <<One("i"), two>>), One(z)>>), three>>) :
     u \in {"int", "float"}, y, z \in {"i", "x"}, one, two, three \in Steps(t)}
Nested == UNION {NestedIn(t) : t \in {"int", "void", "float"}}

\* Branches and loops inside each other, with returns, checked indices and declarations
\* in them; of conditions, an int, a float and one that has a block of its own.
Tests == {Expr(Of(Var("i"))), Expr(Of(Var("x"))), Expr(Of(Elem("v", Expr(Of(Var("i"))))))}
Leaves == {Empty, One("i"), Return(Expr(Of(Var("i")))), Do(Expr(Of(Elem("w", Expr(Of(Var("x")))))))}
Branching(tests, s, t) ==
  UNION {{If(e, s), IfElse(e, s, t), While(e, s), Inner("int", "x", <<One("x"), While(e, s), t>>)} :
           e \in tests}
Flat == UNION {Branching(Tests, s, t) : s, t \in Leaves}
FewLeaves == {One("i"), Return(Expr(Of(Var("i"))))}
Few == UNION {Branching({Expr(Of(Var("i")))}, s, t) : s, t \in FewLeaves}
Deep == UNION {Branching({Expr(Of(Var("i")))}, s, t) : s, t \in Few \cup FewLeaves}
Branched == {Main("int", <<s, One("i")>>) : s \in Flat \cup Deep}
              \cup {Main("float", <<s, One("i")>>) : s \in Flat}

\* The last function has parameters.
WithParameters ==
  {Program(<<DeclareFun("void", "p", <<Param("int", "i"), ParamArray("float", "w")>>,
                        Block(<< >>, <<s, Do(Set(Elem("w", Expr(Of(Var("i")))), Expr(Integer("1"))))>>))>>) :
     s \in {If(Expr(Of(Var("i"))), ReturnVoid), While(Expr(Of(Var("i"))), One("i"))}}

AllPrograms == Bodies \cup Nested \cup Branched \cup WithParameters
OneProgram == {Main("int", <<Do(Set(Elem("v", Expr(CallOf("input", << >>))),
                                    Expr(CallOf("input", << >>))))>>)}
===============================================================================
