-------------------------- MODULE ExpressionsMeaning --------------------------
(***************************************************************************)
(* What a program means, by the rules of the language (Documentations/     *)
(* common/cminusf.md), read off the syntax tree; and what the code of      *)
(* CminusfBuilder means.  A function has, for each outcome of its tests (of *)
(* conditions and of indices), a sequence of effects: stores, calls, tests, *)
(* a return.  Effects are on terms, in which a load says how many effects  *)
(* came before it.                                                         *)
(***************************************************************************)
EXTENDS Expressions

CONSTANT MaxTests    \* bound: tests followed in one execution of a function

Outcomes == [1 .. MaxTests -> BOOLEAN]

-------------------------------------------------------------------------------
(* Executions.  left are the outcomes of the tests to come. *)

Begun(outcomes) == [effects |-> << >>, left |-> outcomes]

\* The function has returned, or the outcomes are used up.
Ended(run) == run.effects # << >> /\ Last(run.effects)[1] \in {"ret", "more"}

Effect(run, e) == IF Ended(run) THEN run ELSE [run EXCEPT !.effects = Append(@, e)]

\* A test of a term; run afterwards says what came out.
Test(run, term) ==
  IF Ended(run) \/ run.left = << >> THEN Effect(run, <<"more">>)
  ELSE [effects |-> Append(run.effects, <<"test", term, Head(run.left)>>), left |-> Tail(run.left)]
Yes(run) == ~ Ended(run) /\ Last(run.effects)[3]

-------------------------------------------------------------------------------
(* The code *)

PositionsIn(f, b) == SelectSeq([k \in DOMAIN f.code |-> k], LAMBDA k : f.code[k].in = b)

\* The instructions at positions ks, of one block, and what comes after them.  terms: the
\* values of instructions so far; variables: the allocas executed so far.
RECURSIVE Execute(_, _, _, _, _)
Execute(f, ks, terms, variables, run) ==
  LET k == Head(ks)
      i == f.code[k]
      Term(v) == IF v.is[1] = "%" THEN terms[v.is[2]] ELSE v.is
      args == [j \in DOMAIN i.args |-> Term(i.args[j])]
      Goto(label, r) == Execute(f, PositionsIn(f, label[2]), terms, variables, r)
      Go(term, r) == Execute(f, Tail(ks), (k :> term) @@ terms, variables, r)
      tested == Test(run, args[1])
  IN  CASE ks = << >> -> Effect(run, <<"falls off the block">>)
        [] ks # << >> /\ i.op = "ret" -> Effect(run, <<"ret">> \o args)
        [] ks # << >> /\ i.op = "br" /\ Len(args) = 1 -> Goto(args[1], run)
        [] ks # << >> /\ i.op = "br" /\ Len(args) = 3 ->
             IF Ended(tested) THEN tested ELSE Goto(args[IF Yes(tested) THEN 2 ELSE 3], tested)
        [] ks # << >> /\ i.op \in {"store", "call"} ->
             LET done == Effect(run, <<i.op>> \o args)
             IN  Go(<<"result", Len(run.effects)>>, done)
        [] ks # << >> /\ i.op = "alloca" ->
             Execute(f, Tail(ks), (k :> <<"variable", variables + 1>>) @@ terms, variables + 1, run)
        [] ks # << >> /\ i.op = "load" ->
             Go(IF is_pointer_type(i.type) THEN <<"pointer", args[1]>>
                                           ELSE <<"load", args[1], Len(run.effects)>>, run)
        [] ks # << >> /\ i.op = "getelementptr" -> Go(<<"element", args[1], Last(args)>>, run)
        [] OTHER -> Go(<<i.op>> \o args, run)

\* The effects of the functions of the module, each entered in its first block.
EffectsOfCode(outcomes) ==
  [n \in DOMAIN functions |->
     LET f == functions[n]
     IN  Execute(f, PositionsIn(f, f.basic_blocks_[1]), << >>, 0, Begun(outcomes)).effects]

-------------------------------------------------------------------------------
(* Lists *)

\* The items of a list of the grammar, in the order of the text.
RECURSIVE Items(_)
Items(list) ==
  LET ItemsIn(c) == IF name(c) = name(list) THEN Items(c)
                ELSE IF name(c) \in {",", "epsilon"} THEN << >> ELSE <<c>>
  IN  FlattenSeq([i \in 1 .. children_num(list) |-> ItemsIn(list[i + 1])])

-------------------------------------------------------------------------------
(* The language: an expression has a term and a type, and leaves an execution *)

Result(term, type, run) == [term |-> term, type |-> type, run |-> run]
Const(type) == <<"const", IF type = "float" THEN "0." ELSE "0">>
DefaultOf(type) == IF type = "void" THEN << >> ELSE <<Const(type)>>

\* A value where another type is wanted.
Converted(v, type) == IF v.type \in {type, "array"} THEN v.term
                      ELSE IF type = "float" THEN <<"sitofp", v.term>> ELSE <<"fptosi", v.term>>

\* A negative index ends the function.
CheckIndex(run, at, returns) ==
  LET tested == Test(run, <<"icmp<", at, Const("int")>>)
  IN  IF Yes(tested) THEN Effect(Effect(tested, <<"call", <<"@", "neg_idx_except">>>>),
                                 <<"ret">> \o DefaultOf(returns))
      ELSE tested

\* env: for each name, a variable with its place, or a function; under "return", the type
\* that the function returns; under "address first", what an assignment evaluates first.
RECURSIVE Eval(_, _, _), Place(_, _, _), EvalArgs(_, _, _, _)
Place(n, env, run) ==
  LET entry == env[name(child(n, 0))]
      index == Eval(child(n, 2), env, run)
      at == Converted(index, "int")
      start == IF entry.kind = "parameter array" THEN <<"pointer", entry.place>> ELSE entry.place
  IN  IF children_num(n) = 1 THEN Result(entry.place, entry.type, run)
      ELSE Result(<<"element", start, at>>, entry.type, CheckIndex(index.run, at, env["return"]))

EvalArgs(items, types, env, run) ==
  IF items = << >> THEN [terms |-> << >>, run |-> run]
  ELSE LET v == Eval(Head(items), env, run)
           rest == EvalArgs(Tail(items), Tail(types), env, v.run)
       IN  [terms |-> <<Converted(v, Head(types))>> \o rest.terms, run |-> rest.run]

Assigned(n, env, run) ==
  LET First == IF env["address first"] THEN Place(child(n, 0), env, run)
                                       ELSE Eval(child(n, 2), env, run)
      address == IF env["address first"] THEN First ELSE Place(child(n, 0), env, First.run)
      value == IF env["address first"] THEN Eval(child(n, 2), env, First.run) ELSE First
      last == IF env["address first"] THEN value ELSE address
      stored == Converted(value, address.type)
  IN  Result(stored, address.type, Effect(last.run, <<"store", stored, address.term>>))

Eval(n, env, run) ==
  CASE name(n) \in {"integer", "float"} ->
         Result(<<"const", name(child(n, 0))>>, IF name(n) = "integer" THEN "int" ELSE "float", run)
    [] name(n) = "var" ->
         LET entry == env[name(child(n, 0))]
             place == Place(n, env, run)
         IN  IF children_num(n) = 1 /\ entry.kind = "array"
             THEN Result(<<"element", entry.place, Const("int")>>, "array", run)
             ELSE IF children_num(n) = 1 /\ entry.kind = "parameter array"
             THEN Result(<<"pointer", entry.place>>, "array", run)
             ELSE Result(<<"load", place.term, Len(place.run.effects)>>, place.type, place.run)
    [] name(n) = "call" ->
         LET f == env[name(child(n, 0))]
             args == EvalArgs(Items(child(child(n, 2), 0)), f.params, env, run)
         IN  Result(<<"result", Len(args.run.effects)>>, f.type,
                    Effect(args.run, <<"call", f.place>> \o args.terms))
    [] name(n) = "factor" -> Eval(child(n, IF children_num(n) = 3 THEN 1 ELSE 0), env, run)
    [] name(n) = "expression" /\ children_num(n) = 3 -> Assigned(n, env, run)
    [] name(n) # "factor" /\ children_num(n) = 1 -> Eval(child(n, 0), env, run)
    [] name(n) \in Operations /\ children_num(n) = 3 ->
         LET l == Eval(child(n, 0), env, run)
             r == Eval(child(n, 2), env, l.run)
             type == IF {l.type, r.type} = {"int"} THEN "int" ELSE "float"
             op == name(child(child(n, 1), 0))
             terms == <<Converted(l, type), Converted(r, type)>>
         IN  IF name(n) = "simple-expression"
             THEN Result(<<"zext", <<(IF type = "int" THEN "icmp" ELSE "fcmp") \o op>> \o terms>>,
                         "int", r.run)
             ELSE Result(<<(IF type = "int" THEN "" ELSE "f") \o op>> \o terms, type, r.run)

\* A condition holds if its value is not zero.
Condition(n, env, run) ==
  LET v == Eval(n, env, run)
  IN  Test(v.run, IF v.type = "int" THEN <<"icmp!=", v.term, Const("int")>>
                                    ELSE <<"fcmp!=", v.term, Const("float")>>)

-------------------------------------------------------------------------------
(* Declarations and statements, from a state s: the names, the number of variables that  *)
(* have been reached, and the execution                                                   *)

Variable(place, type, kind) == [place |-> place, type |-> type, kind |-> kind, params |-> << >>]
Function(id, type, params) ==
  [place |-> <<"@", id>>, type |-> type, kind |-> "function", params |-> params]
TypeWritten(n) == name(child(child(n, 0), 0))
IdWritten(n) == name(child(n, 1))

DeclareLocal(s, decl) ==
  [s EXCEPT !.locals = @ + 1,
            !.env = (IdWritten(decl) :> Variable(<<"variable", s.locals + 1>>, TypeWritten(decl),
                       IF children_num(decl) = 6 THEN "array" ELSE "scalar")) @@ @]

RECURSIVE Exec(_, _)
Exec(n, s) ==
  IF Ended(s.run) THEN s
  ELSE CASE name(n) = "statement" -> Exec(child(n, 0), s)
         [] name(n) = "expression-stmt" ->
              IF children_num(n) = 1 THEN s ELSE [s EXCEPT !.run = Eval(child(n, 0), s.env, @).run]
         [] name(n) = "return-stmt" ->
              LET v == Eval(child(n, 1), s.env, s.run) IN
              [s EXCEPT !.run = IF children_num(n) = 2 THEN Effect(@, <<"ret">>)
                                ELSE Effect(v.run, <<"ret", Converted(v, s.env["return"])>>)]
         [] name(n) = "selection-stmt" ->
              LET t == [s EXCEPT !.run = Condition(child(n, 2), s.env, @)] IN
              IF Yes(t.run) THEN Exec(child(n, 4), t)
              ELSE IF children_num(n) = 7 THEN Exec(child(n, 6), t) ELSE t
         [] name(n) = "iteration-stmt" ->
              LET t == [s EXCEPT !.run = Condition(child(n, 2), s.env, @)] IN
              IF Yes(t.run) THEN Exec(n, Exec(child(n, 4), t)) ELSE t
         [] name(n) = "compound-stmt" ->
              LET inside == FoldLeft(DeclareLocal, s, Items(child(n, 1)))
                  Step(t, statement) == Exec(statement, t)
              IN  [FoldLeft(Step, inside, Items(child(n, 2))) EXCEPT !.env = s.env]

ParamsOf(n) == Items(child(child(n, 3), 0))

\* A parameter is a local variable that starts with its argument.
DeclareParam(s, i, param) ==
  LET place == <<"variable", s.locals + 1>> IN
  [s EXCEPT !.locals = @ + 1,
            !.run = Effect(@, <<"store", <<"arg", i>>, place>>),
            !.env = (IdWritten(param) :> Variable(place, TypeWritten(param),
                       IF children_num(param) > 2 THEN "parameter array" ELSE "scalar")) @@ @]

EffectsOfFunction(n, env, outcomes) ==
  LET params == ParamsOf(n)
      WithParam(t, i) == DeclareParam(t, i, params[i])
      start == FoldLeft(WithParam, [env |-> env, locals |-> 0, run |-> Begun(outcomes)],
                        [i \in DOMAIN params |-> i])
  IN  Effect(Exec(child(n, 5), start).run, <<"ret">> \o DefaultOf(TypeWritten(n))).effects

\* m: the names so far, and the effects of the functions so far.
Declare(m, n, outcomes) ==
  LET id == IdWritten(n)
      type == TypeWritten(n)
      params == ParamsOf(n)
      known == (id :> Function(id, type, [i \in DOMAIN params |-> TypeWritten(params[i])])) @@ m.env
  IN  IF name(n) = "var-declaration"
      THEN [m EXCEPT !.env = (id :> Variable(<<"@", id>>, type,
                                IF children_num(n) = 6 THEN "array" ELSE "scalar")) @@ @]
      ELSE [env |-> known,
            effects |-> Append(m.effects,
                               EffectsOfFunction(n, ("return" :> type) @@ known, outcomes))]

Library == ("input" :> Function("input", "int", << >>))
           @@ ("output" :> Function("output", "void", <<"int">>))
           @@ ("outputFloat" :> Function("outputFloat", "void", <<"float">>))

EffectsOfProgram(outcomes, addressFirst) ==
  LET Step(m, decl) == Declare(m, child(decl, 0), outcomes)
  IN  FoldLeft(Step, [env |-> ("address first" :> addressFirst) @@ Library, effects |-> << >>],
               Items(child(program, 0))).effects

-------------------------------------------------------------------------------
(* Properties *)

Exits(todo) == todo.do = "end function" \/ (todo.do = "statements" /\ todo.need_exit_scope)

\* The variables between two visits fit together: an lvalue is only required of the
\* variable visited next, and every open scope but the global one has a visit that closes it.
TypeOK ==
  /\ require_lvalue => Visiting({"var"})
  /\ pre_enter_scope => Visiting({"compound-stmt"})
  /\ Len(scope) = 1 + Len(SelectSeq(control, Exits))
  /\ \A n \in DOMAIN functions : \A k \in DOMAIN functions[n].code :
       functions[n].code[k].in \in 1 .. functions[n].created

Arithmetic == {"+", "-", "*", "/"}
Relations == {"<=", "<", ">", ">=", "==", "!="}

\* Every instruction gets operands of the types that it is for, as its assertValid (which
\* is not called), the assertions in load, call and getelementptr, and LLVM ask for: no
\* conversion is forgotten on any way that a value takes.
WellTyped ==
  \A n \in DOMAIN functions : \A k \in DOMAIN functions[n].code :
    LET i == functions[n].code[k]
        types == [j \in DOMAIN i.args |-> i.args[j].type]
    IN  /\ i.op \in Arithmetic \cup {"icmp" \o o : o \in Relations} => types = <<INT32_T, INT32_T>>
        /\ i.op \in {"f" \o o : o \in Arithmetic} \cup {"fcmp" \o o : o \in Relations} =>
             types = <<FLOAT_T, FLOAT_T>>
        /\ i.op = "zext" => types = <<INT1_T>>
        /\ i.op = "sitofp" => types = <<INT32_T>>
        /\ i.op = "fptosi" => types = <<FLOAT_T>>
        /\ i.op = "load" => types = <<Pointer(i.type)>>
        /\ i.op = "store" => types[2] = Pointer(types[1])
        /\ i.op = "br" => types \in {<<LABEL_T>>, <<INT1_T, LABEL_T, LABEL_T>>}
        /\ i.op = "getelementptr" =>
             /\ \A j \in 2 .. Len(types) : types[j] = INT32_T
             /\ types[1] = IF Len(types) = 2 THEN i.type ELSE Pointer(ArrayOf(ElementType(i.type)))
        /\ i.op = "call" => types[1] = Fun(i.type, Tail(types))
        /\ i.op = "ret" => return_type(functions[n]) = IF types = << >> THEN VOID_T ELSE types[1]

\* Every program is translated, to code with the effects of the program in their order, on
\* the same values, whatever its tests of conditions and indices give: each name means the
\* innermost declaration, every conversion and every check is made once, operands and
\* branches are where they belong.  (The address of an assignment is computed after the
\* value, see AddressFirst.)
EndsWithMeaning ==
  <>(/\ control = << >>
     /\ \A outcomes \in Outcomes : EffectsOfCode(outcomes) = EffectsOfProgram(outcomes, FALSE))

\* "First find the address of var (for an array, evaluate the index), then evaluate the
\* expression on the right" (the semantics of assignment in cminusf.md).
AddressFirst ==
  control = << >> =>
    \A outcomes \in Outcomes : EffectsOfCode(outcomes) = EffectsOfProgram(outcomes, TRUE)
===============================================================================
