---------------------------------- MODULE Expr ----------------------------------
(***************************************************************************)
(* The expression language of the rule, switch, set and loop nodes         *)
(* (include/aero/nodes/expr_rule_node.hpp): the recursive-descent parser,  *)
(* the postfix program it emits and the stack machine that evaluates it.   *)
(*                                                                         *)
(* A text is its sequence of tokens; what the scanner refuses (a malformed *)
(* number, an unterminated or empty name, a stray character) is a token of *)
(* kind "bad".  Values are symbolic: the machine builds the term it        *)
(* computes, so two programs with equal terms agree for every arithmetic   *)
(* and every value of the tags.                                            *)
(***************************************************************************)
EXTENDS Integers, Sequences, SequencesExt

CONSTANT MaxStack \* kMaxStack, the size of the value stack

ASSUME ExprAssumption == MaxStack \in Nat \ {0}

Token(kind, text) == [kind |-> kind, text |-> text]
Symbol(s) == Token("symbol", s)
End == Token("end", "")

\* The binary operators, loosest level first.
Operators ==
    <<{"||"}, {"&&"}, {"==", "!="}, {"<", ">", "<=", ">="}, {"+", "-"}, {"*", "/", "%"}>>
UnaryLevel == Len(Operators) + 1

UnaryFunctions ==
    {"abs", "floor", "ceil", "round", "sqrt", "sin", "cos", "tan",
     "asin", "acos", "atan", "ln", "log", "exp"}
BinaryFunctions == {"pow", "min", "max"}

Instr(op, arity, name) == [op |-> op, arity |-> arity, name |-> name]

Parsed(next, code) == [next |-> next, code |-> code]

(***************************************************************************)
(* parse_or .. parse_primary: a level is an operand of the next level and  *)
(* then, as often as one of its operators follows, that operator's right   *)
(* operand and instruction.  "rest" is the loop after the first operand.   *)
(* A parse is a set: what was read and emitted, or empty when it failed.   *)
(***************************************************************************)
Parse(text) ==
    LET At(i) == IF i <= Len(text) THEN text[i] ELSE End
        Is(i, s) == At(i) = Symbol(s)
        Expect(R, s) == {Parsed(r.next + 1, r.code) : r \in {q \in R : Is(q.next, s)}}
        Emit(R, op, arity) == {Parsed(r.next, Append(r.code, Instr(op, arity, ""))) : r \in R}
        Leaf(i, op) == {Parsed(i + 1, <<Instr(op, 0, At(i).text)>>)}
        parse[what \in {"level", "rest"}, l \in 1..UnaryLevel, i \in 1..(Len(text) + 1)] ==
            LET Then(R, next, level) ==
                    UNION {{Parsed(s.next, r.code \o s.code) : s \in parse[next, level, r.next]}
                             : r \in R}
                Argument == parse["level", 1, i + 2]
                Call(name) ==
                    CASE name \in UnaryFunctions -> Emit(Expect(Argument, ")"), name, 1)
                      [] name \in BinaryFunctions ->
                            Emit(Expect(Then(Expect(Argument, ","), "level", 1), ")"), name, 2)
                      [] OTHER -> {}
            IN CASE what = "rest" ->
                        IF At(i).kind = "symbol" /\ At(i).text \in Operators[l]
                        THEN Then(Emit(parse["level", l + 1, i + 1], At(i).text, 2), "rest", l)
                        ELSE {Parsed(i, << >>)}
                 [] what = "level" /\ l < UnaryLevel -> Then(parse["level", l + 1, i], "rest", l)
                 [] what = "level" /\ l = UnaryLevel ->
                        CASE Is(i, "!") -> Emit(parse["level", UnaryLevel, i + 1], "not", 1)
                          [] Is(i, "-") -> Emit(parse["level", UnaryLevel, i + 1], "neg", 1)
                          [] Is(i, "(") -> Expect(parse["level", 1, i + 1], ")")
                          [] At(i).kind = "string" -> Leaf(i, "tag")
                          [] At(i).kind = "number" -> Leaf(i, "num")
                          [] At(i) = Token("ident", "tag") ->
                                IF Is(i + 1, "(") /\ At(i + 2).kind = "string"
                                THEN Expect(Leaf(i + 2, "tag"), ")") ELSE {}
                          [] At(i).kind = "ident" /\ At(i).text # "tag" ->
                                IF Is(i + 1, "(") THEN Call(At(i).text) ELSE Leaf(i, "tag")
                          [] OTHER -> {}
    IN parse["level", 1, 1]

\* Depth of the value stack after an instruction, and the deepest reached.
PushDepth(d, in) ==
    LET now == d.now + 1 - in.arity
    IN [now |-> now, most |-> IF now > d.most THEN now ELSE d.most]

\* Parser::parse: a failure, or input left over, empties the program.
CompileExpr(text) ==
    LET whole == {r \in Parse(text) : r.next = Len(text) + 1}
        code == IF whole = {} THEN << >> ELSE (CHOOSE r \in whole : TRUE).code
    IN [ok |-> whole # {}, code |-> code,
        max_depth |-> FoldLeft(PushDepth, [now |-> 0, most |-> 0], code).most]

Term(op, name, args) == [op |-> op, name |-> name, args |-> args]
Zero == Term("num", "0", << >>)

\* One instruction: the operands leave the stack, their term is pushed.
Apply(stack, in) ==
    LET n == Len(stack) - in.arity
    IN Append(SubSeq(stack, 1, n), Term(in.op, in.name, SubSeq(stack, n + 1, Len(stack))))

\* Program::evaluate: a full stack ends the evaluation where it stands.
Evaluate(prog) ==
    LET Run(stack, in) == IF Len(stack) >= MaxStack THEN stack ELSE Apply(stack, in)
        stack == FoldLeft(Run, << >>, prog.code)
    IN IF stack = << >> THEN Zero ELSE Last(stack)

\* The truth values a term may have: a literal has one, a tag any.
Truths(term) ==
    IF term.op = "num" THEN {term # Zero} ELSE BOOLEAN
================================================================================
