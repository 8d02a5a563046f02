--------------------------------- MODULE Names ---------------------------------
(***************************************************************************)
(* The names of arguments, blocks and instructions around the pass Mem2Reg:*)
(* cminusfc.cpp calls set_print_name when the builder is done, Mem2Reg     *)
(* then adds phis and takes loads away, and Function::print names what has *)
(* no name yet.  What is run after the pass is what was printed.           *)
(***************************************************************************)
EXTENDS Mem2RegMeaning

VARIABLES name_,     \* of the values that have one: the prefix and the number
          seq_cnt_,  \* of the function: how many names it has given
          printed    \* whether the function has been printed after the pass

naming == <<name_, seq_cnt_, printed>>

\* Parameters are what the entry stores; the name of the entry block is given by the
\* builder, and loads and phis are the instructions here that are not void.
Named(prefix, listed) == [k \in DOMAIN listed |-> [prefix |-> prefix, value |-> listed[k]]]
arguments_ ==
  LET is == fn.body[Entry]
      params == Selected(is, {k \in Is("store", is) : is[k].val[1] = "const"})
  IN  [k \in DOMAIN params |-> params[k].val]
Results(b) == LET results == Selected(code[b], Is("load", code[b]) \cup Is("phi", code[b]))
              IN  [k \in DOMAIN results |-> results[k].id]
ListedIn(b) ==
  Named("label", IF b = Entry THEN << >> ELSE <<<<"block", b>>>>) \o Named("op", Results(b))
Listed == Named("arg", arguments_) \o FlattenSeq([b \in Block |-> ListedIn(b)])

\* Seeded fault: every call of set_instr_name counts from zero.
NumberFromZero(k) == k - 1

\* seq.size() + seq_cnt_, for the k-th that is given a name in this call.
Number(k) == k - 1 + seq_cnt_

\* The loops of set_instr_name, over arguments, blocks and the instructions in them:
\* set_name leaves a value that has a name alone, and it is not counted.
set_instr_name ==
  \E all \in {Listed} : \E new \in {Selected(all, {k \in DOMAIN all : all[k].value \notin DOMAIN name_})} :
    /\ name_' = [v \in DOMAIN name_ \cup {new[k].value : k \in DOMAIN new} |->
                   LET n == CHOOSE n \in DOMAIN new : new[n].value = v
                   IN  IF v \in DOMAIN name_ THEN name_[v] ELSE <<new[n].prefix, Number(n)>>]
    /\ seq_cnt_' = seq_cnt_ + Len(new)

\* m->set_print_name(), before the first pass.
SetPrintName ==
  /\ name_ = << >> /\ seq_cnt_ = 0 /\ phase = "variable"
  /\ set_instr_name
  /\ UNCHANGED <<vars, run, printed>>

PrintFunction ==
  /\ phase = "done" /\ ~ printed
  /\ set_instr_name
  /\ printed' = TRUE
  /\ UNCHANGED <<vars, run>>

NamesInit == RunInit /\ name_ = << >> /\ seq_cnt_ = 0 /\ printed = FALSE
Compile == \/ SetPrintName \/ PrintFunction
           \/ seq_cnt_ > 0 /\ Next /\ UNCHANGED <<run, naming>>
NamesNext == \/ Compile
             \/ \E b \in Block : printed /\ RunBlock(b) /\ UNCHANGED naming

NamesSpec == NamesInit /\ [][NamesNext]_<<vars, run, naming>> /\ WF_<<vars, run, naming>>(Compile)

\* No name is given twice, not even that of an instruction that was deleted between the
\* two rounds of naming, and every value that the printed function mentions has one
\* (an instruction without a name is printed as "% = ...").
NamedApart ==
  /\ \A v, w \in DOMAIN name_ : name_[v] = name_[w] => v = w
  /\ printed => \A b \in Block : \A i \in Instrs(b) : \A v \in Operands(i) :
                  v[1] = "const" \/ v \in DOMAIN name_
===============================================================================
