--------------------------------- MODULE MCFlow ---------------------------------
(***************************************************************************)
(* Applications for Flow: lists of nodes, each with every choice of edges  *)
(* out of a pool, in the pool's order and reversed; and one rule over      *)
(* every small tree the studio saves and every short text a user types.    *)
(***************************************************************************)
EXTENDS Flow, Studio

NoTree == Term("none", "", << >>)
Tag(name) == Term("tag", name, << >>)
Raw == Tag("raw")
Node(type) ==
    [id |-> NoId, type |-> type, tag |-> "x", config |-> Builtins[type].requires,
     text |-> SerializeExpr(Raw), value |-> Zero, tree |-> Raw]
Edge(from, port, to) == [from |-> from, port |-> port, to |-> to]

Graphs(types, pool) ==
    LET flow == [i \in DOMAIN types |-> Node(types[i])]
        Chosen(set) == SelectSeq(pool, LAMBDA e : e \in set)
    IN UNION {{[flow |-> flow, edges |-> Chosen(set)],
               [flow |-> flow, edges |-> Reverse(Chosen(set))]} : set \in SUBSET Range(pool)}

\* Two writers of a tag behind a switch, joined, bypassed or in a cycle.
Branches ==
    Graphs(<<"decode", "switch", "set", "set", "sum_output">>,
           <<Edge(1, "", 2), Edge(2, "true", 3), Edge(2, "false", 4), Edge(2, "", 4),
             Edge(3, "", 5), Edge(4, "", 5), Edge(4, "", 2), Edge(3, "", 4), Edge(1, "true", 3)>>)

\* A second switch between the two writers.
TwoSwitches ==
    Graphs(<<"json", "switch", "set", "switch", "set", "http">>,
           <<Edge(1, "", 2), Edge(2, "true", 3), Edge(2, "", 4), Edge(2, "false", 5),
             Edge(3, "", 6), Edge(5, "", 6)>>)

\* A loop, its edge between any of several nodes.
Loops ==
    Graphs(<<"modbus", "loop_start", "expr", "loop_back", "mes">>,
           <<Edge(1, "", 2), Edge(2, "", 3), Edge(3, "", 4), Edge(4, "", 5),
             Edge(4, "loop_back", 3), Edge(4, "loop_back", 2), Edge(5, "loop_back", 3),
             Edge(5, "loop_back", 5), Edge(3, "loop_back", 3), Edge(4, "other", 5)>>)

\* Flows without edges: some rejected for a writer, a field, an id or a kind.
Lists ==
    {[flow |-> flow, edges |-> << >>] : flow \in
        {<<Node("decode"), Node("crc"), Node("scale"), Node("sum_output")>>,
         <<Node("mes_order"), Node("set"), Node("set"), Node("http")>>,
         <<Node("modbus_bits"), Node("moving_average"), Node("minmax"), Node("sum_output")>>,
         <<Node("decode"), [Node("set") EXCEPT !.config = {"expr"}], Node("http")>>,
         <<Node("decode"), Node("sum_output"), Node("mes")>>,
         <<Node("decode"), Node("loop_start"), Node("mes")>>,
         <<Node("mean"), Node("http")>>, <<Node("decode")>>, << >>}}

\* Two nodes of one name, one by its position.
SameName ==
    {[flow |-> <<Node("decode"), [Node("crc") EXCEPT !.id = 3], Node("http")>>,
      edges |-> <<Edge(1, "", 3)>>]}

\* One rule over a text; the tree is what the user drew.
Rule(text, tree) ==
    [flow |-> <<Node("decode"), [Node("expr") EXCEPT !.text = text, !.tree = tree],
                Node("http")>>,
     edges |-> << >>]

\* Every operator of one level deep, and over those one more level.
Grown(trees) ==
    UNION {{Term(op, "", <<a, b>>) : a, b \in trees} :
              op \in {"||", "==", "<", "+", "-", "*", "pow"}}
    \cup {Term(op, "", <<a>>) : op \in {"neg", "not", "sqrt"}, a \in trees}
Shallow == {Raw, Term("num", "1", << >>)}
Inner ==
    Shallow \cup {t \in Grown(Shallow) : \A k \in DOMAIN t.args : k = 1 <=> t.args[k] = Raw}
Deep ==
    LET nest[n \in 0..MaxStack] ==
            IF n = 0 THEN Raw ELSE Term("-", "", <<Term("num", "1", << >>), nest[n - 1]>>)
    IN Range([n \in 1..MaxStack |-> nest[n]])
Drawn == {Rule(SerializeExpr(t), t) : t \in Inner \cup Grown(Inner) \cup Deep}

\* Every text of at most MaxText tokens.
MaxText == 4
Typed ==
    LET tokens == {Symbol(s) : s \in {"(", ")", "-"}}
                  \cup {Token("number", "0"), Token("ident", "raw"), Token("ident", "tag"),
                        Token("ident", "abs"), Token("string", "x"), Token("bad", "")}
    IN {Rule(text, NoTree) : text \in UNION {[1..n -> tokens] : n \in 0..MaxText}}

MCApps == Branches \cup TwoSwitches \cup Loops \cup Lists \cup SameName \cup Drawn \cup Typed

\* A rule the studio saved means at the edge the tree the user drew, and a
\* text typed by hand means what it means after the studio loaded and saved
\* it again (Parser and evaluate, serializeExpr), as long as its value stack
\* holds it.
ExpressionKept ==
    \A i \in Nodes(app) :
        LET prog == CompileExpr(app.flow[i].text)
            value == app.flow[i].value
            again == CompileExpr(SerializeExpr(value))
            drawn == app.flow[i].tree # NoTree
        IN /\ drawn => prog.ok
           /\ plan # << >> /\ prog.max_depth < MaxStack =>
                /\ again.ok /\ Evaluate(again) = value
                /\ drawn => value = app.flow[i].tree
================================================================================
