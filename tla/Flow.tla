---------------------------------- MODULE Flow ----------------------------------
(***************************************************************************)
(* The flow compiler (include/aero/runtime/flow_compiler.hpp), the flat    *)
(* program it emits (core/compiled_flow.hpp), the nodes and the actor that *)
(* runs a frame through it (core/edge_actor.hpp).                          *)
(*                                                                         *)
(* An application is its list of nodes and its list of edges.  A node's    *)
(* config is the set of its fields that are present and well formed, its   *)
(* text the expression in them (Expr).  Numbers are abstracted: what is    *)
(* not a literal has any truth value, so a loop may ask for another pass   *)
(* whenever it likes, and only the budget or the deadline set by           *)
(* loop_start end it.  Tags keep their name, how often the frame wrote     *)
(* them under a name the flow gives, and whether it wrote them otherwise:  *)
(* under a name found in the payload, or in place.  A graph is sorted one  *)
(* edge at a time.                                                         *)
(***************************************************************************)
EXTENDS Integers, Sequences, FiniteSets, SequencesExt, Expr

CONSTANTS
    Apps,          \* the applications that are compiled
    PayloadNames,  \* the names a payload may give: keys, registers, bits
    MaxIterations, \* max_iterations of every loop_start
    MaxFrames      \* bound: frames run

NodeFields == {"id", "type", "tag", "config", "text", "value", "tree"}

\* An Application as it is read: a field that is well formed has its value.
IsApplication(a) ==
    /\ DOMAIN a = {"flow", "edges"}
    /\ a.flow \in Seq(Range(a.flow)) /\ a.edges \in Seq(Range(a.edges))
    /\ \A i \in 1..Len(a.flow) :
            /\ DOMAIN a.flow[i] = NodeFields
            /\ "tag" \in a.flow[i].config => a.flow[i].tag # ""

ASSUME FlowAssumption ==
    /\ \A a \in Apps : IsApplication(a)
    /\ MaxIterations \in Nat \ {0}
    /\ MaxFrames \in Nat

VARIABLES
    app,       \* the application to compile
    stage,     \* compile_flow: "loaded", "sorting", "cycle" or "compiled"
    queue,     \* order_flow_graph: the nodes that became ready, in order
    visited,   \* qi: how many of them were visited
    out,       \* the edges of the last of those still to be used up
    remaining, \* the incoming edges of each node not used up yet
    plan,      \* the steps it compiled to, or << >> before and when rejected
    at,        \* execute(): the step to run, 0 when no frame is being run
    payload,   \* the frame's payload
    ctx,       \* ProcessingContext
    frames     \* frames_processed_

sortVars == <<queue, visited, out, remaining>>
frameVars == <<at, payload, ctx, frames>>
flowVars == <<app, stage, sortVars, plan, frameVars>>

NoLabel == ""
NoTarget == 0
NoId == 0

Descriptor(category, requires, writes) ==
    [category |-> category, requires |-> requires, writes |-> writes, terminal |-> FALSE]

\* The built-in node types: category, required config, statically known tag.
\* "tag" stands for the tag named in the node's config.
Builtins ==
    [decode |-> Descriptor("Source", {}, "raw"),
     modbus |-> Descriptor("Source", {}, ""),
     modbus_bits |-> Descriptor("Source", {}, ""),
     json |-> Descriptor("Source", {}, ""),
     mes_order |-> Descriptor("Source", {}, "order.qty"),
     scale |-> Descriptor("Transform", {"factor"}, ""),
     moving_average |-> Descriptor("Transform", {"window"}, ""),
     mean |-> Descriptor("Transform", {}, ""),
     minmax |-> Descriptor("Transform", {}, ""),
     sum |-> Descriptor("Transform", {}, ""),
     crc |-> Descriptor("Transform", {}, "crc16"),
     set |-> Descriptor("Transform", {"tag", "expr"}, "tag"),
     expr |-> Descriptor("Rule", {"expr"}, ""),
     switch |-> Descriptor("Rule", {"expr"}, ""),
     loop_start |->
        Descriptor("Rule", {"counter_tag", "start_expr", "max_iterations", "max_duration_ms"}, ""),
     loop_back |-> Descriptor("Rule", {"counter_tag", "end_expr"}, ""),
     mes |-> Descriptor("Output", {}, ""),
     http |-> Descriptor("Output", {}, ""),
     sum_output |-> [Descriptor("Output", {}, "") EXCEPT !.terminal = TRUE]]

(***************************************************************************)
(* load_application: a node without an id is called after its position.    *)
(***************************************************************************)
Named(a) ==
    [a EXCEPT !.flow = [i \in 1..Len(a.flow) |->
        IF a.flow[i].id = NoId THEN [a.flow[i] EXCEPT !.id = i] ELSE a.flow[i]]]

Nodes(a) == 1..Len(a.flow)
Edges(a) == 1..Len(a.edges)
Type(a, i) == a.flow[i].type
HasType(a, i, t) == Type(a, i) = t
Category(a, i) == Builtins[Type(a, i)].category

(***************************************************************************)
(* The compiler's checks.                                                  *)
(***************************************************************************)
ExprFields == {"expr", "start_expr", "end_expr"}

ValidateNodeConfig(node) ==
    LET requires == Builtins[node.type].requires IN
    /\ requires \subseteq node.config
    /\ requires \cap ExprFields # {} => CompileExpr(node.text).ok

StaticTagWrite(node) ==
    LET w == Builtins[node.type].writes IN IF w = "tag" THEN node.tag ELSE w

\* Mutant: one labelled writer is taken to exclude every other.
MutuallyExclusiveOneLabel(l, m) == (l # NoLabel \/ m # NoLabel) /\ l # m

MutuallyExclusive(l, m) == l # NoLabel /\ m # NoLabel /\ l # m

ValidateTagWriters(a, labels) ==
    \A i, j \in Nodes(a) :
        /\ i < j
        /\ StaticTagWrite(a.flow[i]) # ""
        /\ StaticTagWrite(a.flow[i]) = StaticTagWrite(a.flow[j])
        => MutuallyExclusive(labels[i], labels[j])

Index(a, id) == CHOOSE i \in Nodes(a) : a.flow[i].id = id /\ \A j \in Nodes(a) :
                                            a.flow[j].id = id => i <= j
From(a, p) == Index(a, a.edges[p].from)
To(a, p) == Index(a, a.edges[p].to)
Known(a, id) == \E i \in Nodes(a) : a.flow[i].id = id

ValidateTerminalPlacement(a) ==
    IF a.edges = << >>
    THEN \A i \in 1..(Len(a.flow) - 1) : ~Builtins[Type(a, i)].terminal
    ELSE \A p \in Edges(a) :
            Known(a, a.edges[p].from) => ~Builtins[Type(a, From(a, p))].terminal

\* An edge is its position in the list.
IsLoopEdge(a, p) == a.edges[p].port = "loop_back"
Forward(a) == {p \in Edges(a) : ~IsLoopEdge(a, p)}
LoopEdges(a) == {p \in Edges(a) : IsLoopEdge(a, p)}

\* The checks of order_flow_graph on the edges as they are read.
EdgesReadable(a) ==
    /\ \A i, j \in Nodes(a) : a.flow[i].id = a.flow[j].id => i = j
    /\ \A p \in Edges(a) : Known(a, a.edges[p].from) /\ Known(a, a.edges[p].to)
    /\ \A p, q \in LoopEdges(a) : p = q
    /\ \A p \in Forward(a) : a.edges[p].port \in {NoLabel, "true", "false"}
    /\ \A p, q \in Forward(a) :
            a.edges[p].port # NoLabel /\ a.edges[q].port # NoLabel => From(a, p) = From(a, q)

Outgoing(a, i) == {p \in Forward(a) : From(a, p) = i}
Incoming(a, i) == {p \in Forward(a) : To(a, p) = i}
Roots(a) == {i \in Nodes(a) : Incoming(a, i) = {}}

IncomingLabels(a, i) == {a.edges[p].port : p \in Incoming(a, i)}
Label(a, i) ==
    IF Incoming(a, i) = {} THEN NoLabel ELSE CHOOSE l \in IncomingLabels(a, i) : TRUE

\* The checks once the graph is sorted.
LabelsAccepted(a) ==
    /\ \A i \in Nodes(a) : \A l, m \in IncomingLabels(a, i) : l = m
    /\ \A i \in Nodes(a) : HasType(a, i, "loop_start") => Label(a, i) = NoLabel
    /\ ValidateTagWriters(a, [i \in Nodes(a) |-> Label(a, i)])

LinearAccepted(a) ==
    /\ \A i \in Nodes(a) : Type(a, i) \notin {"loop_start", "loop_back"}
    /\ ValidateTagWriters(a, [i \in Nodes(a) |-> NoLabel])

\* The checks before an order is looked for.
Buildable(a) ==
    /\ a.flow # << >>
    /\ \A i \in Nodes(a) : Type(a, i) \in DOMAIN Builtins /\ ValidateNodeConfig(a.flow[i])
    /\ \E i \in Nodes(a) : Category(a, i) = "Source"
    /\ \E i \in Nodes(a) : Category(a, i) = "Output"
    /\ ValidateTerminalPlacement(a)

Step(node, label, target) == [node |-> node, label |-> label, target |-> target]

\* The nodes are built with their programs, here the terms these compute.
Built(a) ==
    [a EXCEPT !.flow = [i \in Nodes(a) |->
        [a.flow[i] EXCEPT !.value = Evaluate(CompileExpr(a.flow[i].text))]]]

\* wire(): the steps in order; the loop edge's source gets the jump.
Wire(a, order) ==
    LET Position(i) == CHOOSE k \in 1..Len(order) : order[k] = i
        Jump(i) == IF \E p \in LoopEdges(a) : From(a, p) = i
                   THEN Position(To(a, CHOOSE p \in LoopEdges(a) : TRUE)) ELSE NoTarget
    IN [k \in 1..Len(order) |-> Step(order[k], Label(a, order[k]), Jump(order[k]))]

(***************************************************************************)
(* One frame.                                                              *)
(***************************************************************************)
Payloads == {"registers", "object", "other"}

EmptyContext ==
    [writes |-> << >>, others |-> {}, branch |-> NoLabel, loop_continue |-> FALSE,
     remaining |-> 0, timed |-> FALSE, failed |-> FALSE, failed_step |-> 0]

\* ProcessingContext::reset; the tags are a list of names written so far, and
\* the set of those written otherwise.
Reset(c) == EmptyContext

\* Two writes of a name are as many as more.
Write(c, t) ==
    IF Cardinality({i \in 1..Len(c.writes) : c.writes[i] = t}) >= 2 THEN c
    ELSE [c EXCEPT !.writes = Append(@, t)]

\* Tags named by the payload, or rewritten where they stand.
WriteOthers(c, names) == [c EXCEPT !.others = @ \cup names]

Result(r, c) == [result |-> r, ctx |-> c]
Continue(c) == Result("Continue", c)

\* The tag of a loop's nodes is their counter_tag.
LoopStart(node, c) ==
    [Write(c, node.tag) EXCEPT !.remaining = MaxIterations, !.timed = TRUE]

\* Mutant: the pass is not charged to the budget.
DecrementedNever(n) == n

Decremented(n) == IF n > 0 THEN n - 1 ELSE 0

LoopBack(node, c, wants, late) ==
    LET left == Decremented(c.remaining)
        counted == [Write(c, node.tag) EXCEPT !.remaining = left]
    IN IF wants /\ (left = 0 \/ (c.timed /\ late)) THEN Result("Error", counted)
       ELSE Continue([counted EXCEPT !.loop_continue = wants])

\* process() of each node type, with every outcome its input and its
\* expressions allow.  Numbers, events and staged outputs are left out; what a
\* source decodes from the payload is named by its bytes, not by the flow, and
\* may have the name of a tag of the flow.
Decoded(c) == {Continue(WriteOthers(c, names)) : names \in SUBSET PayloadNames}
DecodeProcess(node, c) == {Continue(Write(c, StaticTagWrite(node)))}
ModbusProcess(c) == IF payload = "other" THEN {Result("Error", c)} ELSE Decoded(c)
ModbusBitsProcess(c) == Decoded(c)
JsonProcess(c) == IF payload = "object" THEN Decoded(c) ELSE {Result("Error", c)}
MesOrderProcess(node, c) == {Continue(Write(c, StaticTagWrite(node)))}
ScaleProcess(c) == {Continue(WriteOthers(c, Range(c.writes)))}
MovingAverageProcess(c) == {Continue(c)}
AggregateProcess(c) == {Continue(c)}
CrcProcess(node, c) == {Continue(Write(c, StaticTagWrite(node)))}
SetProcess(node, c) == {Continue(Write(c, StaticTagWrite(node)))}
ExprProcess(node, c) ==
    {IF v THEN Result("Stop", c) ELSE Continue(c) : v \in Truths(node.value)}
SwitchProcess(node, c) ==
    {Continue([c EXCEPT !.branch = IF v THEN "true" ELSE "false"]) : v \in Truths(node.value)}
OutputProcess(c) == {Continue(c)}

Process(node, c) ==
    CASE node.type = "decode" -> DecodeProcess(node, c)
      [] node.type = "modbus" -> ModbusProcess(c)
      [] node.type = "modbus_bits" -> ModbusBitsProcess(c)
      [] node.type = "json" -> JsonProcess(c)
      [] node.type = "mes_order" -> MesOrderProcess(node, c)
      [] node.type = "scale" -> ScaleProcess(c)
      [] node.type = "moving_average" -> MovingAverageProcess(c)
      [] node.type \in {"mean", "minmax", "sum"} -> AggregateProcess(c)
      [] node.type = "crc" -> CrcProcess(node, c)
      [] node.type = "set" -> SetProcess(node, c)
      [] node.type = "expr" -> ExprProcess(node, c)
      [] node.type = "switch" -> SwitchProcess(node, c)
      [] node.type = "loop_start" -> {Continue(LoopStart(node, c))}
      [] node.type = "loop_back" -> {LoopBack(node, c, w, l) : w \in BOOLEAN, l \in BOOLEAN}
      [] OTHER -> OutputProcess(c)

(***************************************************************************)
(* The system.                                                             *)
(***************************************************************************)
FlowInit ==
    /\ \E a \in Apps : app = Named(a)
    /\ stage = "loaded" /\ plan = << >>
    /\ queue = << >> /\ visited = 0 /\ out = {} /\ remaining = << >>
    /\ at = 0 /\ payload = "other"
    /\ ctx = EmptyContext
    /\ frames = 0

\* compile_flow at deploy; a rejected application stays undeployed.  The order
\* of a flow without edges is that of its list.
CompileList ==
    /\ stage = "loaded" /\ Buildable(app) /\ app.edges = << >> /\ LinearAccepted(app)
    /\ app' = Built(app)
    /\ plan' = [k \in Nodes(app) |-> Step(k, NoLabel, NoTarget)]
    /\ stage' = "compiled"
    /\ UNCHANGED <<sortVars, frameVars>>

\* order_flow_graph: Kahn's algorithm starts at the one root.
BeginSort ==
    /\ stage = "loaded" /\ Buildable(app) /\ app.edges # << >> /\ EdgesReadable(app)
    /\ \E root \in Roots(app) :
        /\ Roots(app) = {root} /\ Category(app, root) = "Source"
        /\ queue' = <<root>>
    /\ visited' = 0 /\ out' = {}
    /\ remaining' = [i \in Nodes(app) |-> Cardinality(Incoming(app, i))]
    /\ app' = Built(app)
    /\ stage' = "sorting"
    /\ UNCHANGED <<plan, frameVars>>

\* The next node in the queue is visited.
VisitNode ==
    /\ stage = "sorting" /\ out = {} /\ visited < Len(queue)
    /\ visited' = visited + 1
    /\ out' = Outgoing(app, queue[visited'])
    /\ UNCHANGED <<app, stage, plan, queue, remaining, frameVars>>

\* Mutant: a node is ready at its first incoming edge.
ReadyAtFirstEdge(v) == remaining[v] = Cardinality(Incoming(app, v))

\* The edge about to be used is the last one into v.
Ready(v) == remaining[v] = 1

\* Its edges are used up in the order of the list; the last one into a node
\* makes that node ready.
UseEdge ==
    /\ stage = "sorting"
    /\ \E p \in out :
        LET v == To(app, p) IN
        /\ \A q \in out : p <= q
        /\ out' = out \ {p}
        /\ remaining' = [remaining EXCEPT ![v] = @ - 1]
        /\ queue' = IF Ready(v) THEN Append(queue, v) ELSE queue
    /\ UNCHANGED <<app, stage, plan, visited, frameVars>>

Sorted == stage = "sorting" /\ out = {} /\ visited = Len(queue)

\* "flow contains a cycle".
FindCycle ==
    /\ Sorted /\ Len(queue) # Len(app.flow)
    /\ stage' = "cycle"
    /\ UNCHANGED <<app, plan, sortVars, frameVars>>

CompileGraph ==
    /\ Sorted /\ Len(queue) = Len(app.flow) /\ LabelsAccepted(app)
    /\ plan' = Wire(app, queue)
    /\ stage' = "compiled"
    /\ UNCHANGED <<app, sortVars, frameVars>>

\* handle(ReceiveFrame), process_frame: the context is reset.
ReceiveFrame(p) ==
    /\ plan # << >> /\ at = 0 /\ frames < MaxFrames
    /\ payload' = p
    /\ ctx' = Reset(ctx)
    /\ at' = 1
    /\ UNCHANGED <<app, stage, sortVars, plan, frames>>

Skipped(step) == step.label # NoLabel /\ step.label # ctx.branch

SkipStep ==
    /\ at \in 1..Len(plan) /\ Skipped(plan[at])
    /\ at' = at + 1
    /\ UNCHANGED <<app, stage, sortVars, plan, payload, ctx, frames>>

\* One node runs; execute() then stops, fails, jumps or goes on.
RunStep ==
    /\ at \in 1..Len(plan) /\ ~Skipped(plan[at])
    /\ \E r \in Process(app.flow[plan[at].node], ctx) :
        LET jump == r.ctx.loop_continue /\ plan[at].target # NoTarget IN
        /\ at' = CASE r.result \in {"Stop", "Error"} -> Len(plan) + 1
                   [] r.result = "Continue" /\ jump -> plan[at].target
                   [] OTHER -> at + 1
        /\ ctx' = CASE r.result = "Error" -> [r.ctx EXCEPT !.failed = TRUE, !.failed_step = at]
                    [] r.result = "Continue" /\ jump -> [r.ctx EXCEPT !.loop_continue = FALSE]
                    [] OTHER -> r.ctx
    /\ UNCHANGED <<app, stage, sortVars, plan, payload, frames>>

\* commit() and publish().
Commit ==
    /\ at > Len(plan) /\ plan # << >>
    /\ at' = 0
    /\ frames' = frames + 1
    /\ UNCHANGED <<app, stage, sortVars, plan, payload, ctx>>

FlowNext ==
    \/ CompileList \/ BeginSort \/ VisitNode \/ UseEdge \/ FindCycle \/ CompileGraph
    \/ \E p \in Payloads : ReceiveFrame(p)
    \/ SkipStep
    \/ RunStep
    \/ Commit

\* The actor's executor runs a frame to its end.
FlowSpec == FlowInit /\ [][FlowNext]_flowVars /\ WF_flowVars(SkipStep \/ RunStep \/ Commit)

(***************************************************************************)
(* Properties.                                                             *)
(***************************************************************************)
Labels == {NoLabel, "true", "false"}

TagNames(a) == {"raw", "order.qty", "crc16"} \cup {a.flow[i].tag : i \in Nodes(a)}

\* Every step and node is one there is, and so is the step to run.
FlowTypeOK ==
    /\ IsApplication(app)
    /\ stage \in {"loaded", "sorting", "cycle", "compiled"}
    /\ queue \in Seq(Nodes(app)) /\ visited \in 0..Len(queue) /\ out \subseteq Forward(app)
    /\ stage # "loaded" /\ app.edges # << >> => remaining \in [Nodes(app) -> Nat]
    /\ plan \in Seq([node : Nodes(app), label : Labels, target : 0..Len(app.flow)])
    /\ at \in 0..Len(plan) + 1 /\ payload \in Payloads /\ frames \in Nat
    /\ ctx \in [writes : Seq(TagNames(app)), others : SUBSET (TagNames(app) \cup PayloadNames),
                branch : Labels, loop_continue : BOOLEAN, remaining : Nat,
                timed : BOOLEAN, failed : BOOLEAN, failed_step : Nat]

\* The compiled steps are every node once, each after all that feed it, and
\* the flow starts at its source (order_flow_graph's sort and root check); and
\* "flow contains a cycle" is said only of a graph whose nodes cannot be
\* numbered along its edges.
OrderSound ==
    /\ plan # << >> =>
        /\ Len(plan) = Len(app.flow)
        /\ {plan[k].node : k \in 1..Len(plan)} = Nodes(app)
        /\ app.edges # << >> =>
            /\ Category(app, plan[1].node) = "Source"
            /\ \A j, k \in 1..Len(plan) : \A p \in Forward(app) :
                  /\ app.flow[plan[j].node].id = app.edges[p].from
                  /\ app.flow[plan[k].node].id = app.edges[p].to
                  => j < k
    /\ stage = "cycle" =>
        ~\E rank \in [Nodes(app) -> Nodes(app)] : \A p \in Forward(app) :
            rank[From(app, p)] < rank[To(app, p)]

Switches == {i \in Nodes(app) : HasType(app, i, "switch")}
HasLoop == \E i \in Nodes(app) : Type(app, i) \in {"loop_start", "loop_back"}

\* In a flow without a loop and with at most one switch no two nodes that name
\* a tag in the flow (static_tag_write) write the same one in one frame
\* (validate_tag_writers).  It says nothing of the names a payload gives, which
\* flow_compiler.hpp:195-198 leaves out, nor of scale, which rewrites in place.
TagWrittenOnce ==
    plan # << >> /\ ~HasLoop /\ (\A i, j \in Switches : i = j) => IsInjective(ctx.writes)

\* The same, of every flow without a loop: flow_compiler.hpp:215-216 takes
\* two different labels to be the two branches of one switch.
LabelsExclude ==
    plan # << >> /\ ~HasLoop => IsInjective(ctx.writes)

\* What the compiler does not promise (flow_compiler.hpp:195-198): a name in the
\* payload is never one the flow writes as well.
PayloadNamesApart == plan # << >> => Range(ctx.writes) \cap ctx.others = {}

\* The loop edge repeats no loop_start.
LoopKeepsBudget ==
    \A k \in 1..Len(plan) : plan[k].target # NoTarget =>
        \A j \in plan[k].target..k : ~HasType(app, plan[j].node, "loop_start")

\* Every frame ends: a loop whose edge repeats no loop_start runs out of
\* its budget (loop_nodes.hpp, execute()).
EveryFrameEnds == (at # 0 /\ LoopKeepsBudget) ~> (at = 0)
================================================================================
