------------------------------ MODULE CfgBuilder ------------------------------
(***************************************************************************)
(* How CminusfBuilder turns the statements of one function into basic      *)
(* blocks.  The visitor's recursion is an explicit stack of frames, one    *)
(* for each visit that has not returned; the syntax tree is chosen as it   *)
(* is visited.  Of the instructions, only terminators are told apart.      *)
(***************************************************************************)
EXTENDS Naturals, Sequences, SequencesExt, Cfg

CONSTANTS MaxBlocks,  \* bound: blocks one function may create
          MaxDepth    \* bound: nesting of statements that hold others

ASSUME BoundsNat == MaxBlocks \in Nat \ {0} /\ MaxDepth \in Nat \ {0}

VARIABLES
  created,  \* blocks created so far are 1 .. created; 1 is the entry
  listed,   \* Function::basic_blocks_
  code,     \* instr_list_ of each block; a run of ordinary instructions is one
  pre,      \* pre_bbs_
  succ,     \* succ_bbs_
  BB_,      \* the insert point of the IRBuilder
  depth,    \* scopes that are open (the global one included)
  pre_enter_scope,  \* the function's scope also serves its outermost compound
  stack     \* frames of the visits in progress, innermost last

blocks == <<created, listed, code, pre, succ, BB_>>
vars == <<blocks, depth, pre_enter_scope, stack>>

Block == 1 .. MaxBlocks
Entry == 1

Plain == [op |-> "plain", to |-> << >>]
Ret == [op |-> "ret", to |-> << >>]
Br(b) == [op |-> "br", to |-> <<b>>]
CondBr(t, f) == [op |-> "br", to |-> <<t, f>>]

\* get_terminator: looks at the last instruction only.
Terminated(b) == code[b] # << >> /\ Last(code[b]).op \in {"ret", "br"}

\* The instructions is appended to block b.
Emitted(b, is) ==
  [code EXCEPT ![b] = IF @ # << >> /\ is # << >> /\ Last(@) = Plain /\ Head(is) = Plain
                      THEN @ \o Tail(is) ELSE @ \o is]

-------------------------------------------------------------------------------
(* Frames of the visits *)

Function(first) == [visit |-> "function", first |-> first]
Compound(first, own) == [visit |-> "compound", first |-> first, own |-> own]
Statement == [visit |-> "statement"]     \* a statement that is about to be visited
Expression == [visit |-> "expression"]
Returned == [visit |-> "return"]
Condition(else) == [visit |-> "condition", else |-> else]
Then(falseBB, contBB, else) ==
  [visit |-> "then", falseBB |-> falseBB, contBB |-> contBB, else |-> else]
Else(contBB) == [visit |-> "else", contBB |-> contBB]
LoopCondition(exprBB) == [visit |-> "loop condition", exprBB |-> exprBB]
Body(exprBB, contBB) == [visit |-> "body", exprBB |-> exprBB, contBB |-> contBB]

In(visits) == stack # << >> /\ Last(stack).visit \in visits
Top == Last(stack)
Return(frames) == stack' = Front(stack) \o frames

\* The blocks that the statement around an expression has yet to create.
Reserved == CASE Top.visit = "condition" -> 3
              [] Top.visit = "loop condition" -> 2
              [] OTHER -> 0

-------------------------------------------------------------------------------
(* Blocks and branches *)

\* BasicBlock::create, k times: the new blocks join the function's list.
CreateBlocks(k) ==
  /\ created + k <= MaxBlocks
  /\ created' = created + k
  /\ listed' = listed \o [i \in 1 .. k |-> created + i]

\* Seeded fault: a conditional branch is recorded at its true target only.
PreOfFirstTarget(b, to) ==
  [c \in Block |-> IF to # << >> /\ c = to[1] THEN Append(pre[c], b) ELSE pre[c]]

\* create_br and create_cond_br record the edges at both ends; a conditional
\* branch lists its false target before its true one.
SuccAfter(b, to) == [succ EXCEPT ![b] = @ \o Reverse(to)]
PreAfter(b, to) == [c \in Block |-> IF c \in ToSet(to) THEN Append(pre[c], b) ELSE pre[c]]

\* The insert point gets ordinary code and then a branch.
Branch(is, br) ==
  /\ code' = Emitted(BB_, Append(is, br))
  /\ succ' = SuccAfter(BB_, br.to)
  /\ pre' = PreAfter(BB_, br.to)

\* Seeded fault: the branch is created without looking for a terminator.
AlwaysBranch(b) == Branch(<< >>, Br(b))

\* "if (get_insert_block()->get_terminator() == nullptr) create_br(b)"
BranchUnlessTerminated(b) ==
  IF Terminated(BB_) THEN UNCHANGED <<code, pre, succ>> ELSE Branch(<< >>, Br(b))

-------------------------------------------------------------------------------
(* Statements *)

\* The statements of a compound: from the second on, only if the block has no terminator.
NextStatement ==
  /\ In({"compound"}) /\ (Top.first \/ ~ Terminated(BB_))
  /\ Return(<<Compound(FALSE, Top.own), Statement>>)
  /\ UNCHANGED <<blocks, depth, pre_enter_scope>>

\* visit(ASTCompoundStmt) up to its declarations: a scope of its own unless the function
\* has just opened one.
EnterCompound ==
  /\ pre_enter_scope' = FALSE
  /\ depth' = IF pre_enter_scope THEN depth ELSE depth + 1
  /\ UNCHANGED blocks

VisitFunctionBody ==
  /\ In({"function"}) /\ Top.first
  /\ Return(<<Function(FALSE), Compound(TRUE, ~ pre_enter_scope)>>)
  /\ EnterCompound

VisitCompound ==
  /\ Len(stack) < MaxDepth
  /\ In({"statement"})
  /\ Return(<<Compound(TRUE, ~ pre_enter_scope)>>)
  /\ EnterCompound

\* Ordinary code: the allocas of a compound's declarations, and what an expression computes.
Compute ==
  /\ In({"expression", "return", "condition", "loop condition"}) \/ (In({"compound"}) /\ Top.first)
  /\ code' = Emitted(BB_, <<Plain>>)
  /\ UNCHANGED <<created, listed, pre, succ, BB_, depth, pre_enter_scope, stack>>

\* Seeded fault: the scope is closed even when the function will close it again.
EndCompoundAlwaysClosing ==
  /\ In({"compound"})
  /\ Return(<< >>)
  /\ depth' = depth - 1
  /\ UNCHANGED <<blocks, pre_enter_scope>>

\* Seeded fault: leaving the loop over the statements by a return skips the exit.
EndCompoundEarly ==
  /\ In({"compound"})
  /\ Return(<< >>)
  /\ depth' = IF Top.own /\ ~ Terminated(BB_) THEN depth - 1 ELSE depth
  /\ UNCHANGED <<blocks, pre_enter_scope>>

\* The compound ends, at its end or right after a statement that terminated the
\* block; a scope of its own is closed.
EndCompound ==
  /\ In({"compound"})
  /\ Return(<< >>)
  /\ depth' = IF Top.own THEN depth - 1 ELSE depth
  /\ UNCHANGED <<blocks, pre_enter_scope>>

VisitExpressionStmt ==
  /\ In({"statement"})
  /\ Return(<<Expression>>)
  /\ UNCHANGED <<blocks, depth, pre_enter_scope>>

VisitReturn ==
  /\ In({"statement"})
  /\ Return(<<Returned>>)
  /\ UNCHANGED <<blocks, depth, pre_enter_scope>>

\* "return;" : create_void_ret.
VisitVoidReturn ==
  /\ In({"statement"})
  /\ Return(<< >>)
  /\ code' = Emitted(BB_, <<Ret>>)
  /\ UNCHANGED <<created, listed, pre, succ, BB_, depth, pre_enter_scope>>

VisitSelection(else) ==
  /\ created + 3 <= MaxBlocks /\ Len(stack) < MaxDepth
  /\ In({"statement"})
  /\ Return(<<Condition(else)>>)
  /\ UNCHANGED <<blocks, depth, pre_enter_scope>>

\* A loop gets the block of its condition first, entered from the current one.
VisitIteration ==
  LET exprBB == created + 1 IN
    /\ created + 3 <= MaxBlocks /\ Len(stack) < MaxDepth
    /\ In({"statement"})
    /\ Return(<<LoopCondition(exprBB)>>)
    /\ CreateBlocks(1)
    /\ BranchUnlessTerminated(exprBB)
    /\ BB_' = exprBB
    /\ UNCHANGED <<depth, pre_enter_scope>>

-------------------------------------------------------------------------------
(* Expressions *)

\* visit(ASTVar) with an index: the block ends in a test of the sign; one block
\* calls neg_idx_except and returns, the expression continues in the other.
IndexAccess ==
  LET exceptBB == created + 1
      contBB == created + 2
      tested == Emitted(BB_, <<Plain, CondBr(exceptBB, contBB)>>)
  IN  /\ In({"expression", "return", "condition", "loop condition"})
      /\ created + 2 + Reserved <= MaxBlocks
      /\ CreateBlocks(2)
      /\ code' = [tested EXCEPT ![exceptBB] = <<Plain, Ret>>, ![contBB] = <<Plain>>]
      /\ succ' = SuccAfter(BB_, <<exceptBB, contBB>>)
      /\ pre' = PreAfter(BB_, <<exceptBB, contBB>>)
      /\ BB_' = contBB
      /\ UNCHANGED <<depth, pre_enter_scope, stack>>

\* The expression of a statement is complete, or there was none (";").
EndExpression ==
  /\ In({"expression"})
  /\ Return(<< >>)
  /\ UNCHANGED <<blocks, depth, pre_enter_scope>>

\* The value may be converted first.
EndReturn(converted) ==
  /\ In({"return"})
  /\ code' = Emitted(BB_, IF converted THEN <<Plain, Ret>> ELSE <<Ret>>)
  /\ Return(<< >>)
  /\ UNCHANGED <<created, listed, pre, succ, BB_, depth, pre_enter_scope>>

\* After the condition of an if: three blocks, also when there is no else.
BeginThen ==
  LET trueBB == created + 1
      falseBB == created + 2
      contBB == created + 3
  IN  /\ In({"condition"})
      /\ CreateBlocks(3)
      /\ Branch(<<Plain>>, CondBr(trueBB, IF Top.else THEN falseBB ELSE contBB))
      /\ BB_' = trueBB
      /\ Return(<<Then(falseBB, contBB, Top.else), Statement>>)
      /\ UNCHANGED <<depth, pre_enter_scope>>

\* After the condition of a while.
BeginBody ==
  LET trueBB == created + 1
      contBB == created + 2
  IN  /\ In({"loop condition"})
      /\ CreateBlocks(2)
      /\ Branch(<<Plain>>, CondBr(trueBB, contBB))
      /\ BB_' = trueBB
      /\ Return(<<Body(Top.exprBB, contBB), Statement>>)
      /\ UNCHANGED <<depth, pre_enter_scope>>

-------------------------------------------------------------------------------
(* The ends of if, else, while and of the function *)

\* Function::remove: off the list (it is there once), and out of the lists of its neighbours.
EndThenWithoutElse ==
  LET falseBB == Top.falseBB
      others(s) == SelectSeq(s, LAMBDA b : b # falseBB)
      br == IF Terminated(BB_) THEN << >> ELSE <<Br(Top.contBB)>>
      to == IF Terminated(BB_) THEN << >> ELSE <<Top.contBB>>
  IN  /\ In({"then"}) /\ ~ Top.else
      /\ code' = Emitted(BB_, br)
      /\ listed' = RemoveFirst(listed, falseBB)
      /\ succ' = [b \in Block |-> IF b \in ToSet(PreAfter(BB_, to)[falseBB])
                                  THEN others(SuccAfter(BB_, to)[b])
                                  ELSE SuccAfter(BB_, to)[b]]
      /\ pre' = [b \in Block |-> IF b \in ToSet(SuccAfter(BB_, to)[falseBB])
                                 THEN others(PreAfter(BB_, to)[b])
                                 ELSE PreAfter(BB_, to)[b]]
      /\ BB_' = Top.contBB
      /\ Return(<< >>)
      /\ UNCHANGED <<created, depth, pre_enter_scope>>

EndThenBeginElse ==
  /\ In({"then"}) /\ Top.else
  /\ BranchUnlessTerminated(Top.contBB)
  /\ BB_' = Top.falseBB
  /\ Return(<<Else(Top.contBB), Statement>>)
  /\ UNCHANGED <<created, listed, depth, pre_enter_scope>>

EndElse ==
  /\ In({"else"})
  /\ BranchUnlessTerminated(Top.contBB)
  /\ BB_' = Top.contBB
  /\ Return(<< >>)
  /\ UNCHANGED <<created, listed, depth, pre_enter_scope>>

\* Seeded fault: the loop's blocks are members of the visitor, so that a visit in
\* its body overwrites them and the loop goes back to a block of that visit.
EndBodyOverwritten ==
  /\ In({"body"})
  /\ BranchUnlessTerminated(IF created > Top.contBB THEN Top.contBB + 1 ELSE Top.exprBB)
  /\ BB_' = Top.contBB
  /\ Return(<< >>)
  /\ UNCHANGED <<created, listed, depth, pre_enter_scope>>

EndBody ==
  /\ In({"body"})
  /\ BranchUnlessTerminated(Top.exprBB)
  /\ BB_' = Top.contBB
  /\ Return(<< >>)
  /\ UNCHANGED <<created, listed, depth, pre_enter_scope>>

\* Seeded fault: the default return only goes into blocks that have no code yet.
EndFunctionIfEmpty ==
  /\ In({"function"}) /\ ~ Top.first
  /\ code' = IF code[BB_] # << >> THEN code ELSE Emitted(BB_, <<Ret>>)
  /\ depth' = depth - 1
  /\ Return(<< >>)
  /\ UNCHANGED <<created, listed, pre, succ, BB_, pre_enter_scope>>

\* The end of visit(ASTFunDeclaration): a default return, and its scope closed.
EndFunction ==
  /\ In({"function"}) /\ ~ Top.first
  /\ code' = IF Terminated(BB_) THEN code ELSE Emitted(BB_, <<Ret>>)
  /\ depth' = depth - 1
  /\ Return(<< >>)
  /\ UNCHANGED <<created, listed, pre, succ, BB_, pre_enter_scope>>

-------------------------------------------------------------------------------

\* visit(ASTFunDeclaration) has created the entry block, opened the scope and
\* stored the parameters, if any.
Init == \E params \in BOOLEAN :
  /\ created = 1
  /\ listed = <<Entry>>
  /\ code = [b \in Block |-> IF b = Entry /\ params THEN <<Plain>> ELSE << >>]
  /\ pre = [b \in Block |-> << >>]
  /\ succ = [b \in Block |-> << >>]
  /\ BB_ = Entry
  /\ depth = 2
  /\ pre_enter_scope = TRUE
  /\ stack = <<Function(TRUE)>>

Next ==
  \/ \E yes \in BOOLEAN : VisitSelection(yes) \/ EndReturn(yes)
  \/ VisitFunctionBody \/ NextStatement \/ VisitCompound \/ Compute
  \/ VisitExpressionStmt \/ EndExpression \/ VisitReturn \/ VisitVoidReturn
  \/ VisitIteration \/ IndexAccess \/ BeginThen \/ BeginBody
  \/ EndCompound \/ EndThenWithoutElse \/ EndThenBeginElse \/ EndElse \/ EndBody
  \/ EndFunction

Spec == Init /\ [][Next]_vars

-------------------------------------------------------------------------------
(* Properties *)

Done == stack = << >>
Edges == {e \in Block \X Block : e[2] \in ToSet(succ[e[1]])}

\* Every variable stays in its range.
TypeOK ==
  /\ created \in Block /\ BB_ \in Block
  /\ \A i \in DOMAIN listed : listed[i] \in 1 .. created
  /\ \A b \in Block : /\ ToSet(pre[b]) \cup ToSet(succ[b]) \subseteq 1 .. created
                      /\ \A i \in DOMAIN code[b] : code[b][i].op \in {"plain", "br", "ret"}
  /\ depth \in 1 .. MaxDepth + 2
  /\ pre_enter_scope \in BOOLEAN
  /\ Len(stack) <= MaxDepth + 2

\* A block has one terminator at most, and nothing comes after it
\* (LightIR.md:169), whichever statements return and wherever arrays are indexed.
NothingAfterTerminator ==
  \A b \in Block : \A i \in DOMAIN code[b] :
    code[b][i].op \in {"br", "ret"} => i = Len(code[b])

\* pre_bbs_ and succ_bbs_ say the same, and what the terminator says: the passes
\* walk these lists, the printed program follows the branches.  A block erased from the
\* function is neither branched to nor left in a list.
EdgesAgree ==
  \A b \in Block :
    /\ succ[b] = IF Terminated(b) THEN Reverse(Last(code[b]).to) ELSE << >>
    /\ IsInjective(pre[b])
    /\ \A c \in Block : c \in ToSet(pre[b]) <=> b \in ToSet(succ[c])
    /\ b \in 1 .. created /\ b \notin ToSet(listed) => pre[b] = << >> /\ succ[b] = << >>

\* When the function is complete, every block of it is terminated: a join left
\* behind by two returning branches included.
AllTerminated == Done => \A i \in DOMAIN listed : Terminated(listed[i])

\* When the function is complete, only the global scope is open: returning out
\* of nested compounds leaves none behind.
ScopesClosed == Done => depth = 1 /\ ~ pre_enter_scope

\* Nothing branches to the entry block, the root of Dominators, and every cycle of a
\* complete function has a single entry (LoopSearch names it the base of the loop,
\* LoopInvHoist puts code in front of it).
LoopsHaveOneEntry == pre[Entry] = << >> /\ (Done => Reducible(Entry, 1 .. created, Edges))
===============================================================================
