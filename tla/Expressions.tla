------------------------------ MODULE Expressions ------------------------------
(***************************************************************************)
(* From the syntax tree to LightIR: the AST (ast.cpp), and the visits of    *)
(* CminusfBuilder with names, types, conversions and blocks.               *)
(***************************************************************************)
EXTENDS Naturals, Sequences, SequencesExt, TLC

CONSTANT Programs    \* syntax trees: tuples of a name and the children

VARIABLES program, control, scope, tmp_val, require_lvalue, pre_enter_scope,
          functions    \* of the module; the last one is cur_fun
vars == <<program, control, scope, tmp_val, require_lvalue, pre_enter_scope, functions>>

-------------------------------------------------------------------------------
(* AST::transform_node_iter *)

name(n) == n[1]
children_num(n) == Len(n) - 1
child(n, i) == n[i + 2]
nullptr == [node |-> "nullptr"]
IsNull(n) == n.node = "nullptr"

\* The items of a list, which is a chain of nodes with `more` children to the left; the
\* first node holds an item, or nothing.
RECURSIVE Flattened(_, _, _)
Flattened(list, more, first) ==
  IF children_num(list) = more
  THEN Append(Flattened(child(list, 0), more, first), child(list, more - 1))
  ELSE IF first THEN <<child(list, 0)>> ELSE << >>

\* A node, with the types, names and operators as they are written; sizes of arrays are
\* left out.
RECURSIVE transform_node_iter(_)
Node(n, i) == transform_node_iter(child(n, i))
NodeIf(given, n, i) == IF given THEN Node(n, i) ELSE nullptr
Each(items) == [i \in DOMAIN items |-> transform_node_iter(items[i])]
Written(n, i) == name(child(child(n, i), 0))

Declaration(n) ==
  CASE name(n) = "program" ->
         [node |-> "program", declarations |-> Each(Flattened(child(n, 0), 2, TRUE))]
    [] name(n) = "declaration" -> Node(n, 0)
    [] name(n) = "var-declaration" ->
         [node |-> name(n), type |-> Written(n, 0), id |-> name(child(n, 1)),
          isarray |-> children_num(n) = 6]
    [] name(n) = "fun-declaration" ->
         LET params == child(child(n, 3), 0) IN
         [node |-> name(n), type |-> Written(n, 0), id |-> name(child(n, 1)),
          params |-> IF children_num(params) = 0 THEN << >> ELSE Each(Flattened(params, 3, TRUE)),
          compound_stmt |-> Node(n, 5)]
    [] name(n) = "param" ->
         [node |-> name(n), type |-> Written(n, 0), id |-> name(child(n, 1)),
          isarray |-> children_num(n) > 2]

Statement(n) ==
  CASE name(n) = "compound-stmt" ->
         [node |-> name(n), local_declarations |-> Each(Flattened(child(n, 1), 2, FALSE)),
          statement_list |-> Each(Flattened(child(n, 2), 2, FALSE))]
    [] name(n) = "statement" -> Node(n, 0)
    [] name(n) = "expression-stmt" ->
         [node |-> name(n), expression |-> NodeIf(children_num(n) = 2, n, 0)]
    [] name(n) = "return-stmt" ->
         [node |-> name(n), expression |-> NodeIf(children_num(n) = 3, n, 1)]
    [] name(n) = "selection-stmt" ->
         [node |-> name(n), expression |-> Node(n, 2), if_statement |-> Node(n, 4),
          else_statement |-> NodeIf(children_num(n) = 7, n, 6)]
    [] name(n) = "iteration-stmt" ->
         [node |-> name(n), expression |-> Node(n, 2), statement |-> Node(n, 4)]

Operation(n) ==
  CASE children_num(n) = 3 ->
         [node |-> name(n), left |-> Node(n, 0), op |-> Written(n, 1), right |-> Node(n, 2)]
    [] children_num(n) = 1 /\ name(n) = "simple-expression" ->
         [node |-> name(n), left |-> Node(n, 0), right |-> nullptr]
    [] children_num(n) = 1 /\ name(n) # "simple-expression" ->
         [node |-> name(n), left |-> nullptr, right |-> Node(n, 0)]

Factor(n) ==
  LET i == IF children_num(n) = 3 THEN 1 ELSE 0
      factor == child(n, i)
  IN  IF name(factor) \in {"expression", "var", "call"} THEN Node(n, i)
      ELSE [node |-> "num", type |-> name(factor), val |-> name(child(factor, 0))]

Expression(n) ==
  CASE name(n) = "expression" ->
         IF children_num(n) = 1 THEN Node(n, 0)
         ELSE [node |-> "assign", var |-> Node(n, 0), expression |-> Node(n, 2)]
    [] name(n) = "var" ->
         [node |-> "var", id |-> name(child(n, 0)),
          expression |-> NodeIf(children_num(n) = 4, n, 2)]
    [] name(n) \in {"simple-expression", "additive-expression", "term"} -> Operation(n)
    [] name(n) = "factor" -> Factor(n)
    [] name(n) = "call" ->
         LET args == child(child(n, 2), 0) IN
         [node |-> "call", id |-> name(child(n, 0)),
          args |-> IF name(args) = "arg-list" THEN Each(Flattened(args, 3, TRUE)) ELSE << >>]

transform_node_iter(n) ==
  CASE name(n) \in {"program", "declaration", "var-declaration", "fun-declaration", "param"} ->
         Declaration(n)
    [] name(n) \in {"compound-stmt", "statement", "expression-stmt", "return-stmt",
                    "selection-stmt", "iteration-stmt"} -> Statement(n)
    [] OTHER -> Expression(n)

-------------------------------------------------------------------------------
(* Types and values *)

VOID_T == <<"void">>
INT1_T == <<"i1">>
INT32_T == <<"i32">>
FLOAT_T == <<"float">>
LABEL_T == <<"label">>
Pointer(t) == <<"pointer", t>>
ArrayOf(t) == <<"array", t>>
ElementType(t) == t[2]
Fun(ret, params) == <<"function", ret, params>>
TypeNamed(t) == CASE t = "int" -> INT32_T [] t = "float" -> FLOAT_T [] t = "void" -> VOID_T
is_integer_type(t) == t \in {INT1_T, INT32_T}
is_float_type(t) == t = FLOAT_T
is_pointer_type(t) == t[1] = "pointer"

Value(t, what) == [type |-> t, is |-> what]
CONST_INT(n) == Value(INT32_T, <<"const", n>>)
CONST_FP(x) == Value(FLOAT_T, <<"const", x>>)

Label(b) == Value(LABEL_T, <<"block", b>>)

-------------------------------------------------------------------------------
(* IRBuilder.  A function f has its blocks, the number created so far, its instructions  *)
(* in the order of their creation, each with its block, and the insert point.            *)

Created(fun) == [fun |-> fun, created |-> 0, basic_blocks_ |-> << >>, code |-> << >>, BB_ |-> 0]
CreateBlocks(f, k) == [f EXCEPT !.created = @ + k,
                                !.basic_blocks_ = @ \o [i \in 1 .. k |-> f.created + i]]
At(f, b) == [f EXCEPT !.BB_ = b]
InstrsOf(f, b) == SelectSeq(f.code, LAMBDA i : i.in = b)
Terminated(f) ==
  LET instr_list_ == InstrsOf(f, f.BB_)
  IN  instr_list_ # << >> /\ Last(instr_list_).op \in {"ret", "br"}

\* f with one more instruction, and the value of the last one.
With(f, op, args, t) ==
  [f EXCEPT !.code = Append(@, [op |-> op, args |-> args, type |-> t, in |-> f.BB_])]
Res(f) == Value(Last(f.code).type, <<"%", Len(f.code)>>)

create_load(f, ptr) == With(f, "load", <<ptr>>, ElementType(ptr.type))
create_store(f, val, ptr) == With(f, "store", <<val, ptr>>, VOID_T)
create_br(f, b) == With(f, "br", <<Label(b)>>, VOID_T)
create_cond_br(f, cond, t, e) == With(f, "br", <<cond, Label(t), Label(e)>>, VOID_T)

\* get_element_type: with two indices, of the array pointed to.
create_gep(f, ptr, idxs) ==
  LET t == ElementType(ptr.type)
  IN  With(f, "getelementptr", <<ptr>> \o idxs,
           Pointer(IF t[1] = "array" /\ Len(idxs) = 2 THEN ElementType(t) ELSE t))

\* val converted: the function and the value.
sitofp(f, val) == LET g == With(f, "sitofp", <<val>>, FLOAT_T) IN [f |-> g, val |-> Res(g)]
fptosi(f, val) == LET g == With(f, "fptosi", <<val>>, INT32_T) IN [f |-> g, val |-> Res(g)]
Same(f, val) == [f |-> f, val |-> val]

\* Seeded fault: if the types differ, the right operand is converted.
promoteRight(f, l, r) ==
  LET rc == IF l.type # r.type THEN sitofp(f, r) ELSE Same(f, r)
  IN  [f |-> rc.f, l |-> l, r |-> rc.val,
       is_int |-> l.type = r.type /\ is_integer_type(l.type)]

\* If the types differ, the integer is converted.
promote(f, l, r) ==
  LET lc == IF l.type # r.type /\ is_integer_type(l.type) THEN sitofp(f, l) ELSE Same(f, l)
      rc == IF l.type # r.type /\ ~ is_integer_type(l.type) THEN sitofp(lc.f, r)
                                                            ELSE Same(lc.f, r)
  IN  [f |-> rc.f, l |-> lc.val, r |-> rc.val,
       is_int |-> l.type = r.type /\ is_integer_type(l.type)]

\* The default return, by the type of the function.
Zero(t) == CASE t = VOID_T -> << >> [] t = FLOAT_T -> <<CONST_FP("0.")>>
             [] t = INT32_T -> <<CONST_INT("0")>>
return_type(f) == f.fun.type[2]
DefaultReturn(f) == With(f, "ret", Zero(return_type(f)), VOID_T)

\* A condition: anything but zero.
NonZero(f, val) ==
  IF is_integer_type(val.type) THEN With(f, "icmp!=", <<val, CONST_INT("0")>>, INT1_T)
                               ELSE With(f, "fcmp!=", <<val, CONST_FP("0.")>>, INT1_T)

\* "if (get_insert_block()->get_terminator() == nullptr) create_br(b)"
BranchUnlessTerminated(f, b) == IF Terminated(f) THEN f ELSE create_br(f, b)

-------------------------------------------------------------------------------
(* Scope *)

Entered == Append(scope, << >>)
in_global == Len(scope) = 1

\* insert: a name that the scope has stays what it was.
Push(s, id, val) ==
  IF id \in DOMAIN Last(s) THEN s ELSE [s EXCEPT ![Len(s)] = (id :> val) @@ @]

\* Seeded fault: the outermost scope that has the name.
FindOutermost(id) ==
  scope[CHOOSE i \in DOMAIN scope : /\ id \in DOMAIN scope[i]
                                    /\ \A j \in 1 .. i - 1 : id \notin DOMAIN scope[j]][id]

\* The innermost scope that has the name (assert(var != nullptr): there is one).
Find(id) ==
  scope[CHOOSE i \in DOMAIN scope : /\ id \in DOMAIN scope[i]
                                    /\ \A j \in i + 1 .. Len(scope) : id \notin DOMAIN scope[j]][id]

\* input, output and neg_idx_except of the runtime library.
Builtins == ("input" :> Value(Fun(INT32_T, << >>), <<"@", "input">>))
            @@ ("output" :> Value(Fun(VOID_T, <<INT32_T>>), <<"@", "output">>))
            @@ ("outputFloat" :> Value(Fun(VOID_T, <<FLOAT_T>>), <<"@", "outputFloat">>))
            @@ ("neg_idx_except" :> Value(Fun(VOID_T, << >>), <<"@", "neg_idx_except">>))

-------------------------------------------------------------------------------
(* The visits.  control is what is left to do, the innermost visit first. *)

Accept(n) == [do |-> "accept", node |-> n]
AcceptAll(list) == [i \in DOMAIN list |-> Accept(list[i])]
Now == Head(control)
Visiting(kinds) == control # << >> /\ Now.do = "accept" /\ Now.node.node \in kinds
Resuming(step) == control # << >> /\ Now.do = step
Then(todo) == control' = todo \o Tail(control)
cur_fun == Last(functions)
Build(f) == functions' = [functions EXCEPT ![Len(functions)] = f]
names == <<program, scope, pre_enter_scope>>

VisitProgram ==
  /\ Visiting({"program"})
  /\ Then(AcceptAll(Now.node.declarations))
  /\ UNCHANGED <<names, tmp_val, require_lvalue, functions>>

VisitNum ==
  /\ Visiting({"num"})
  /\ tmp_val' = IF Now.node.type = "integer" THEN CONST_INT(Now.node.val)
                                             ELSE CONST_FP(Now.node.val)
  /\ Then(<< >>)
  /\ UNCHANGED <<names, require_lvalue, functions>>

VisitVarDeclaration ==
  /\ Visiting({"var-declaration"})
  /\ LET n == Now.node
         t == TypeNamed(n.type)
         allocated == Pointer(IF n.isarray THEN ArrayOf(t) ELSE t)
         withAlloca == With(cur_fun, "alloca", << >>, allocated)
     IN  IF in_global
         THEN /\ scope' = Push(scope, n.id, Value(allocated, <<"@", n.id>>))
              /\ UNCHANGED functions
         ELSE /\ Build(withAlloca)
              /\ scope' = Push(scope, n.id, Res(withAlloca))
  /\ Then(<< >>)
  /\ UNCHANGED <<program, pre_enter_scope, tmp_val, require_lvalue>>

\* The function is known in its own body; parameters are stored to variables of a scope
\* that the body does not enter again.
VisitFunDeclaration ==
  /\ Visiting({"fun-declaration"})
  /\ LET n == Now.node
         ParamType(p) == IF p.isarray THEN Pointer(TypeNamed(p.type)) ELSE TypeNamed(p.type)
         types == [i \in DOMAIN n.params |-> ParamType(n.params[i])]
         fun == Value(Fun(TypeNamed(n.type), types), <<"@", n.id>>)
         start == [scope |-> Append(Push(scope, n.id, fun), << >>),
                   f |-> At(CreateBlocks(Created(fun), 1), 1)]
         AddParam(s, i) ==
           LET f == With(s.f, "alloca", << >>, Pointer(types[i]))
           IN  [scope |-> Push(s.scope, n.params[i].id, Res(f)),
                f |-> create_store(f, Value(types[i], <<"arg", i>>), Res(f))]
         built == FoldLeft(AddParam, start, [i \in DOMAIN n.params |-> i])
     IN  /\ scope' = built.scope /\ functions' = Append(functions, built.f)
         /\ pre_enter_scope' = TRUE
         /\ Then(<<Accept(n.compound_stmt), [do |-> "end function"]>>)
  /\ UNCHANGED <<program, tmp_val, require_lvalue>>

EndFunDeclaration ==
  /\ Resuming("end function")
  /\ Build(IF Terminated(cur_fun) THEN cur_fun ELSE DefaultReturn(cur_fun))
  /\ scope' = Front(scope)
  /\ Then(<< >>)
  /\ UNCHANGED <<program, pre_enter_scope, tmp_val, require_lvalue>>

VisitCompoundStmt ==
  /\ Visiting({"compound-stmt"})
  /\ scope' = IF pre_enter_scope THEN scope ELSE Entered
  /\ pre_enter_scope' = FALSE
  /\ Then(Append(AcceptAll(Now.node.local_declarations),
                 [do |-> "statements", left |-> Now.node.statement_list, first |-> TRUE,
                  need_exit_scope |-> ~ pre_enter_scope]))
  /\ UNCHANGED <<program, tmp_val, require_lvalue, functions>>

\* From the second on, only if the block that the one before ended in has no terminator.
NextStatement ==
  /\ Resuming("statements") /\ Now.left # << >> /\ (Now.first \/ ~ Terminated(cur_fun))
  /\ Then(<<Accept(Head(Now.left)), [Now EXCEPT !.left = Tail(@), !.first = FALSE]>>)
  /\ UNCHANGED <<names, tmp_val, require_lvalue, functions>>

EndCompoundStmt ==
  /\ Resuming("statements") /\ (Now.left = << >> \/ (~ Now.first /\ Terminated(cur_fun)))
  /\ scope' = IF Now.need_exit_scope THEN Front(scope) ELSE scope
  /\ Then(<< >>)
  /\ UNCHANGED <<program, pre_enter_scope, tmp_val, require_lvalue, functions>>

VisitExpressionStmt ==
  /\ Visiting({"expression-stmt"})
  /\ Then((IF IsNull(Now.node.expression) THEN << >> ELSE <<Accept(Now.node.expression)>>)
          \o <<[do |-> "end expression"]>>)
  /\ UNCHANGED <<names, tmp_val, require_lvalue, functions>>

EndExpressionStmt ==
  /\ Resuming("end expression")
  /\ Then(<< >>)
  /\ UNCHANGED <<names, tmp_val, require_lvalue, functions>>

VisitSelectionStmt ==
  /\ Visiting({"selection-stmt"})
  /\ Then(<<Accept(Now.node.expression), [do |-> "if", node |-> Now.node]>>)
  /\ UNCHANGED <<names, tmp_val, require_lvalue, functions>>

\* Three blocks, also when there is no else.
BeginThen ==
  /\ Resuming("if")
  /\ LET trueBB == cur_fun.created + 1
         falseBB == cur_fun.created + 2
         contBB == cur_fun.created + 3
         tested == NonZero(CreateBlocks(cur_fun, 3), tmp_val)
         otherwise == IF IsNull(Now.node.else_statement) THEN contBB ELSE falseBB
     IN  /\ Build(At(create_cond_br(tested, Res(tested), trueBB, otherwise), trueBB))
         /\ Then(<<Accept(Now.node.if_statement),
                   [do |-> "then", falseBB |-> falseBB, contBB |-> contBB,
                    else_statement |-> Now.node.else_statement]>>)
  /\ UNCHANGED <<names, tmp_val, require_lvalue>>

\* Seeded fault: the false block is left in the function.
EndThenKeepingFalse ==
  /\ Resuming("then") /\ IsNull(Now.else_statement)
  /\ Build(At(BranchUnlessTerminated(cur_fun, Now.contBB), Now.contBB))
  /\ Then(<< >>)
  /\ UNCHANGED <<names, tmp_val, require_lvalue>>

\* erase_from_parent
EndThenWithoutElse ==
  /\ Resuming("then") /\ IsNull(Now.else_statement)
  /\ LET f == BranchUnlessTerminated(cur_fun, Now.contBB)
     IN  Build(At([f EXCEPT !.basic_blocks_ = RemoveFirst(@, Now.falseBB)], Now.contBB))
  /\ Then(<< >>)
  /\ UNCHANGED <<names, tmp_val, require_lvalue>>

EndThenBeginElse ==
  /\ Resuming("then") /\ ~ IsNull(Now.else_statement)
  /\ Build(At(BranchUnlessTerminated(cur_fun, Now.contBB), Now.falseBB))
  /\ Then(<<Accept(Now.else_statement), [do |-> "else", contBB |-> Now.contBB]>>)
  /\ UNCHANGED <<names, tmp_val, require_lvalue>>

EndElse ==
  /\ Resuming("else")
  /\ Build(At(BranchUnlessTerminated(cur_fun, Now.contBB), Now.contBB))
  /\ Then(<< >>)
  /\ UNCHANGED <<names, tmp_val, require_lvalue>>

VisitIterationStmt ==
  /\ Visiting({"iteration-stmt"})
  /\ LET exprBB == cur_fun.created + 1
     IN  /\ Build(At(BranchUnlessTerminated(CreateBlocks(cur_fun, 1), exprBB), exprBB))
         /\ Then(<<Accept(Now.node.expression),
                   [do |-> "while", exprBB |-> exprBB, statement |-> Now.node.statement]>>)
  /\ UNCHANGED <<names, tmp_val, require_lvalue>>

BeginBody ==
  /\ Resuming("while")
  /\ LET trueBB == cur_fun.created + 1
         contBB == cur_fun.created + 2
         tested == NonZero(CreateBlocks(cur_fun, 2), tmp_val)
     IN  /\ Build(At(create_cond_br(tested, Res(tested), trueBB, contBB), trueBB))
         /\ Then(<<Accept(Now.statement), [do |-> "body", exprBB |-> Now.exprBB, contBB |-> contBB]>>)
  /\ UNCHANGED <<names, tmp_val, require_lvalue>>

EndBody ==
  /\ Resuming("body")
  /\ Build(At(BranchUnlessTerminated(cur_fun, Now.exprBB), Now.contBB))
  /\ Then(<< >>)
  /\ UNCHANGED <<names, tmp_val, require_lvalue>>

VisitReturnStmt ==
  /\ Visiting({"return-stmt"})
  /\ IF IsNull(Now.node.expression)
     THEN Build(With(cur_fun, "ret", << >>, VOID_T)) /\ Then(<< >>)
     ELSE Then(<<Accept(Now.node.expression), [do |-> "return"]>>) /\ UNCHANGED functions
  /\ UNCHANGED <<names, tmp_val, require_lvalue>>

EndReturnStmt ==
  /\ Resuming("return")
  /\ LET wanted == return_type(cur_fun)
         v == CASE wanted = tmp_val.type -> Same(cur_fun, tmp_val)
                [] wanted # tmp_val.type /\ is_integer_type(wanted) -> fptosi(cur_fun, tmp_val)
                [] wanted # tmp_val.type /\ ~ is_integer_type(wanted) -> sitofp(cur_fun, tmp_val)
     IN  tmp_val' = v.val /\ Build(With(v.f, "ret", <<v.val>>, VOID_T))
  /\ Then(<< >>)
  /\ UNCHANGED <<names, require_lvalue>>

\* A variable: its address where an lvalue is required, else its value; an array becomes
\* a pointer to its first element.
VisitVar ==
  /\ Visiting({"var"}) /\ IsNull(Now.node.expression)
  /\ LET var == Find(Now.node.id)
         t == ElementType(var.type)
         read == IF t[1] # "array" THEN create_load(cur_fun, var)
                 ELSE create_gep(cur_fun, var, <<CONST_INT("0"), CONST_INT("0")>>)
     IN  IF require_lvalue THEN tmp_val' = var /\ UNCHANGED functions
         ELSE Build(read) /\ tmp_val' = Res(read)
  /\ require_lvalue' = FALSE
  /\ Then(<< >>)
  /\ UNCHANGED names

\* Seeded fault: require_lvalue stays set while the index is visited.
VisitElementKeepingLvalue ==
  /\ Visiting({"var"}) /\ ~ IsNull(Now.node.expression)
  /\ Then(<<Accept(Now.node.expression),
            [do |-> "element", var |-> Find(Now.node.id), should_return_lvalue |-> require_lvalue]>>)
  /\ UNCHANGED <<names, tmp_val, require_lvalue, functions>>

VisitElement ==
  /\ Visiting({"var"}) /\ ~ IsNull(Now.node.expression)
  /\ Then(<<Accept(Now.node.expression),
            [do |-> "element", var |-> Find(Now.node.id), should_return_lvalue |-> require_lvalue]>>)
  /\ require_lvalue' = FALSE
  /\ UNCHANGED <<names, tmp_val, functions>>

\* A negative index: neg_idx_except is called and the function returns.
CheckedIndex(f, val) ==
  LET exceptBB == f.created + 1
      contBB == f.created + 2
      is_neg == With(CreateBlocks(f, 2), "icmp<", <<val, CONST_INT("0")>>, INT1_T)
      branched == create_cond_br(is_neg, Res(is_neg), exceptBB, contBB)
      called == With(At(branched, exceptBB), "call", <<Find("neg_idx_except")>>, VOID_T)
  IN  At(DefaultReturn(called), contBB)

\* The index is converted and tested.  The array is a variable or a pointer parameter.
\* (\E gives a name to a value that is computed once.)
EndElement ==
  /\ Resuming("element")
  /\ \E idx \in {IF is_float_type(tmp_val.type) THEN fptosi(cur_fun, tmp_val)
                                              ELSE Same(cur_fun, tmp_val)} :
     \E checked \in {CheckedIndex(idx.f, idx.val)} :
       LET var == Now.var
           t == ElementType(var.type)
           base == create_load(checked, var)
           ptr == CASE is_integer_type(t) \/ is_float_type(t) -> create_gep(checked, var, <<idx.val>>)
                    [] is_pointer_type(t) -> create_gep(base, Res(base), <<idx.val>>)
                    [] t[1] = "array" -> create_gep(checked, var, <<CONST_INT("0"), idx.val>>)
           read == create_load(ptr, Res(ptr))
       IN  IF Now.should_return_lvalue
           THEN Build(ptr) /\ tmp_val' = Res(ptr) /\ require_lvalue' = FALSE
           ELSE Build(read) /\ tmp_val' = Res(read) /\ UNCHANGED require_lvalue
  /\ Then(<< >>)
  /\ UNCHANGED names

\* The right-hand side first; the address of the variable after it.
VisitAssignExpression ==
  /\ Visiting({"assign"})
  /\ Then(<<Accept(Now.node.expression), [do |-> "assign to", var |-> Now.node.var]>>)
  /\ UNCHANGED <<names, tmp_val, require_lvalue, functions>>

AssignTo ==
  /\ Resuming("assign to")
  /\ Then(<<Accept(Now.var), [do |-> "assign", expr_result |-> tmp_val]>>)
  /\ require_lvalue' = TRUE
  /\ UNCHANGED <<names, tmp_val, functions>>

EndAssignExpression ==
  /\ Resuming("assign")
  /\ LET result == Now.expr_result
         same == ElementType(tmp_val.type) = result.type
         v == CASE same -> Same(cur_fun, result)
                [] ~ same /\ result.type = INT32_T -> sitofp(cur_fun, result)
                [] ~ same /\ result.type # INT32_T -> fptosi(cur_fun, result)
     IN  Build(create_store(v.f, v.val, tmp_val)) /\ tmp_val' = v.val
  /\ Then(<< >>)
  /\ UNCHANGED <<names, require_lvalue>>

Operations == {"simple-expression", "additive-expression", "term"}

VisitOperand ==
  /\ Visiting(Operations) /\ (IsNull(Now.node.left) \/ IsNull(Now.node.right))
  /\ Then(<<Accept(IF IsNull(Now.node.left) THEN Now.node.right ELSE Now.node.left)>>)
  /\ UNCHANGED <<names, tmp_val, require_lvalue, functions>>

VisitOperation ==
  /\ Visiting(Operations) /\ ~ IsNull(Now.node.left) /\ ~ IsNull(Now.node.right)
  /\ Then(<<Accept(Now.node.left), [do |-> "right", node |-> Now.node]>>)
  /\ UNCHANGED <<names, tmp_val, require_lvalue, functions>>

VisitRight ==
  /\ Resuming("right")
  /\ Then(<<Accept(Now.node.right), [do |-> "operate", node |-> Now.node, l_val |-> tmp_val]>>)
  /\ UNCHANGED <<names, tmp_val, require_lvalue, functions>>

\* Integer or float instruction; a comparison gives an i1, which becomes an int.
EndOperation ==
  /\ Resuming("operate")
  /\ LET op == Now.node.op
         p == promote(cur_fun, Now.l_val, tmp_val)
         args == <<p.l, p.r>>
         cmp == With(p.f, (IF p.is_int THEN "icmp" ELSE "fcmp") \o op, args, INT1_T)
         compared == With(cmp, "zext", <<Res(cmp)>>, INT32_T)
         computed == IF p.is_int THEN With(p.f, op, args, INT32_T)
                                 ELSE With(p.f, "f" \o op, args, FLOAT_T)
     IN  Build(IF Now.node.node = "simple-expression" THEN compared ELSE computed)
  /\ tmp_val' = Res(cur_fun')
  /\ Then(<< >>)
  /\ UNCHANGED <<names, require_lvalue>>

\* fun is looked up before the arguments are visited.
VisitCall ==
  /\ Visiting({"call"})
  /\ Then(<<[do |-> "call", fun |-> Find(Now.node.id), left |-> Now.node.args, args |-> << >>]>>)
  /\ UNCHANGED <<names, tmp_val, require_lvalue, functions>>

VisitArg ==
  /\ Resuming("call") /\ Now.left # << >>
  /\ Then(<<Accept(Head(Now.left)), [Now EXCEPT !.do = "arg", !.left = Tail(@)]>>)
  /\ UNCHANGED <<names, tmp_val, require_lvalue, functions>>

EndArg ==
  /\ Resuming("arg")
  /\ LET wanted == Now.fun.type[3][Len(Now.args) + 1]
         same == is_pointer_type(tmp_val.type) \/ wanted = tmp_val.type
         v == CASE same -> Same(cur_fun, tmp_val)
                [] ~ same /\ is_integer_type(tmp_val.type) -> sitofp(cur_fun, tmp_val)
                [] ~ same /\ ~ is_integer_type(tmp_val.type) -> fptosi(cur_fun, tmp_val)
     IN  /\ Build(v.f) /\ tmp_val' = v.val
         /\ Then(<<[Now EXCEPT !.do = "call", !.args = Append(@, v.val)]>>)
  /\ UNCHANGED <<names, require_lvalue>>

EndCall ==
  /\ Resuming("call") /\ Now.left = << >>
  /\ Build(With(cur_fun, "call", <<Now.fun>> \o Now.args, Now.fun.type[2]))
  /\ tmp_val' = Res(cur_fun')
  /\ Then(<< >>)
  /\ UNCHANGED <<names, require_lvalue>>

Init == /\ program \in Programs
        /\ control = <<Accept(transform_node_iter(program))>>
        /\ scope = <<Builtins>> /\ tmp_val = CONST_INT("0") /\ require_lvalue = FALSE
        /\ pre_enter_scope = FALSE /\ functions = << >>

Next == \/ VisitProgram \/ VisitNum \/ VisitVarDeclaration
        \/ VisitFunDeclaration \/ EndFunDeclaration
        \/ VisitCompoundStmt \/ NextStatement \/ EndCompoundStmt \/ VisitExpressionStmt
        \/ EndExpressionStmt \/ VisitSelectionStmt \/ BeginThen \/ EndThenWithoutElse
        \/ EndThenBeginElse \/ EndElse \/ VisitIterationStmt \/ BeginBody \/ EndBody
        \/ VisitReturnStmt \/ EndReturnStmt \/ VisitVar \/ VisitElement \/ EndElement
        \/ VisitAssignExpression \/ AssignTo \/ EndAssignExpression
        \/ VisitOperand \/ VisitOperation \/ VisitRight \/ EndOperation
        \/ VisitCall \/ VisitArg \/ EndArg \/ EndCall

\* One recursive visit on one thread.
Spec == Init /\ [][Next]_vars /\ WF_vars(Next)
===============================================================================
