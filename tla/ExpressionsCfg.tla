---------------------------- MODULE ExpressionsCfg ----------------------------
(***************************************************************************)
(* Expressions implements CfgBuilder: forget what instructions compute,    *)
(* and the last function of the program is built in steps of CfgBuilder.   *)
(* Here the syntax tree is given; there it is chosen on the way.            *)
(***************************************************************************)
EXTENDS Expressions

CONSTANTS MaxBlocks, MaxDepth    \* bounds of CfgBuilder; no program of Programs meets them

\* Until the last function is visited, CfgBuilder is in its initial state.
LastDeclaration == child(Last(child(program, 0)), 0)
Started == functions # << >> /\ cur_fun.fun.is = <<"@", name(child(LastDeclaration, 1))>>

StatementKinds ==
  {"compound-stmt", "expression-stmt", "return-stmt", "selection-stmt", "iteration-stmt"}

\* The frame of CfgBuilder for one thing left to do, if it has one.  The body of the
\* function is not a statement of a compound; expressions and declarations have no frame.
FrameOf(todo) ==
  CASE todo.do = "accept" /\ todo.node.node \in StatementKinds /\ ~ pre_enter_scope ->
         <<[visit |-> "statement"]>>
    [] todo.do = "end function" -> <<[visit |-> "function", first |-> pre_enter_scope]>>
    [] todo.do = "statements" ->
         <<[visit |-> "compound", first |-> todo.first, own |-> todo.need_exit_scope]>>
    [] todo.do = "end expression" -> <<[visit |-> "expression"]>>
    [] todo.do = "return" -> <<[visit |-> "return"]>>
    [] todo.do = "if" -> <<[visit |-> "condition", else |-> ~ IsNull(todo.node.else_statement)]>>
    [] todo.do = "then" ->
         <<[visit |-> "then", falseBB |-> todo.falseBB, contBB |-> todo.contBB,
            else |-> ~ IsNull(todo.else_statement)]>>
    [] todo.do = "else" -> <<[visit |-> "else", contBB |-> todo.contBB]>>
    [] todo.do = "while" -> <<[visit |-> "loop condition", exprBB |-> todo.exprBB]>>
    [] todo.do = "body" -> <<[visit |-> "body", exprBB |-> todo.exprBB, contBB |-> todo.contBB]>>
    [] OTHER -> << >>

Frames == FlattenSeq(Reverse([i \in DOMAIN control |-> FrameOf(control[i])]))

\* An instruction without what it computes; of a run of ordinary ones, the first.
Targets(i) == LET labels == SelectSeq(i.args, LAMBDA v : v.type = LABEL_T)
              IN  [j \in DOMAIN labels |-> labels[j].is[2]]
Shape(i) == CASE i.op = "br" -> [op |-> "br", to |-> Targets(i)]
              [] i.op = "ret" -> [op |-> "ret", to |-> << >>]
              [] OTHER -> [op |-> "plain", to |-> << >>]
ShapesIn(b) ==
  LET is == InstrsOf(cur_fun, b)
      kept == SelectSeq([k \in DOMAIN is |-> k],
                        LAMBDA k : \/ k = 1 \/ is[k].op \in {"br", "ret"}
                                   \/ is[k - 1].op \in {"br", "ret"})
  IN  [k \in DOMAIN kept |-> Shape(is[kept[k]])]

Branches == SelectSeq(cur_fun.code, LAMBDA i : i.op = "br")
BranchesTo(b) == SelectSeq(Branches, LAMBDA i : b \in ToSet(Targets(i)))
BranchesIn(b) == SelectSeq(Branches, LAMBDA i : i.in = b)

Shapes == [b \in 1 .. MaxBlocks |-> ShapesIn(b)]
Predecessors == [b \in 1 .. MaxBlocks |-> LET br == BranchesTo(b)
                                          IN  [k \in DOMAIN br |-> br[k].in]]
Successors == [b \in 1 .. MaxBlocks |-> LET br == BranchesIn(b)
                                        IN  FlattenSeq([k \in DOMAIN br |-> Reverse(Targets(br[k]))])]

HasParams == children_num(child(child(LastDeclaration, 3), 0)) > 0
NoBlocks == [b \in 1 .. MaxBlocks |-> << >>]

B == INSTANCE CfgBuilder WITH
  created <- IF Started THEN cur_fun.created ELSE 1,
  listed <- IF Started THEN cur_fun.basic_blocks_ ELSE <<1>>,
  code <- IF Started THEN Shapes
          ELSE [NoBlocks EXCEPT ![1] = IF HasParams THEN <<[op |-> "plain", to |-> << >>]>> ELSE @],
  pre <- IF Started THEN Predecessors ELSE NoBlocks,
  succ <- IF Started THEN Successors ELSE NoBlocks,
  BB_ <- IF Started THEN cur_fun.BB_ ELSE 1,
  depth <- IF Started THEN Len(scope) ELSE 2,
  pre_enter_scope <- IF Started THEN pre_enter_scope ELSE TRUE,
  stack <- IF Started THEN Frames ELSE <<[visit |-> "function", first |-> TRUE]>>

\* The visitor with names, types and values, which is the code of CminusfBuilder in full,
\* lays out blocks, branches and scopes as CfgBuilder says, step by step: what is proved
\* there (NothingAfterTerminator, AllTerminated) holds of the functions built here.
ImplementsCfgBuilder == B!Spec
===============================================================================
