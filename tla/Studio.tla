--------------------------------- MODULE Studio ---------------------------------
(***************************************************************************)
(* The studio's side of the expression language (studio/src/exprAst.ts):   *)
(* the tree the block editor holds and the text it saves for the runtime.  *)
(* A tree is a term of Expr.  The editor's own parser (exprAst.ts:114-306) *)
(* is not modelled: the text is read back by the runtime's, in Expr.       *)
(***************************************************************************)
EXTENDS Expr

IsBinary(tree) == \E l \in DOMAIN Operators : tree.op \in Operators[l]
Precedence(op) == CHOOSE l \in DOMAIN Operators : op \in Operators[l]

\* Mutant: a right operand of the same level goes without parentheses.
NeedsParensNever(child, parent, side) ==
    IsBinary(child) /\ Precedence(child.op) < Precedence(parent.op)

NeedsParensAsChild(child, parent, side) ==
    /\ IsBinary(child)
    /\ IF side = "left" THEN Precedence(child.op) < Precedence(parent.op)
       ELSE Precedence(child.op) <= Precedence(parent.op)

Parenthesized(text) == <<Symbol("(")>> \o text \o <<Symbol(")")>>

RECURSIVE SerializeExpr(_)
SerializeExpr(tree) ==
    LET Text(k) == SerializeExpr(tree.args[k])
        Child(k, side) ==
            IF NeedsParensAsChild(tree.args[k], tree, side) THEN Parenthesized(Text(k)) ELSE Text(k)
    IN CASE tree.op = "num" -> <<Token("number", tree.name)>>
         [] tree.op = "tag" ->
                <<Token("ident", "tag"), Symbol("("), Token("string", tree.name), Symbol(")")>>
         [] tree.op \in {"neg", "not"} ->
                <<Symbol(IF tree.op = "neg" THEN "-" ELSE "!")>>
                \o (IF IsBinary(tree.args[1]) THEN Parenthesized(Text(1)) ELSE Text(1))
         [] IsBinary(tree) -> Child(1, "left") \o <<Symbol(tree.op)>> \o Child(2, "right")
         [] OTHER ->
                <<Token("ident", tree.op)>>
                \o Parenthesized(IF Len(tree.args) = 1 THEN Text(1)
                                 ELSE Text(1) \o <<Symbol(",")>> \o Text(2))
================================================================================
