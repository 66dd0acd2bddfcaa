---------------------------- MODULE GraphValidate ----------------------------
(***************************************************************************)
(* TaskGraph::validate (ratchet-spec/src/schema.rs) as the search it is: a *)
(* depth-first walk with a visited set and a recursion stack, started from *)
(* every node that is not visited yet, followed by the check that edges    *)
(* name existing tasks.  The graph is one PlanParser built, or one read    *)
(* from a plan file.  The names every specification has are prefixed, as   *)
(* ModelProofs extends this module and two others.                         *)
(***************************************************************************)
EXTENDS TaskGraph

VARIABLES
    graph,      \* &self
    origin,     \* "parsed": from a plan response; "file": from plan.json
    root,       \* position of the node the outer loop has reached
    frames,     \* the has_cycle calls in progress, innermost last
    visited,    \* ids entered so far
    recStack,   \* ids on the current path
    verdict     \* "running", "ok", "cycle" or "dangling"

validateVars == <<graph, origin, root, frames, visited, recStack, verdict>>

Frame == [node : TaskIds, todo : SUBSET TaskIds]

ValidateTypeOK ==
    /\ graph \in Graphs
    /\ origin \in {"parsed", "file"}
    /\ root \in 1 .. MaxTasks + 1
    /\ frames \in Seq(Frame)
    /\ visited \in SUBSET TaskIds
    /\ recStack \in SUBSET TaskIds
    /\ verdict \in {"running", "ok", "cycle", "dangling"}

\* The targets of the edges that leave id, in whatever order the Vec has them.
Successors(id) == {t \in TaskIds : <<id, t>> \in graph.edges}

ValidateInit ==
    /\ \/ origin = "parsed" /\ graph \in ParsedPlans
       \/ origin = "file" /\ graph \in Graphs
    /\ root = 1
    /\ frames = <<>>
    /\ visited = {}
    /\ recStack = {}
    /\ verdict = "running"
-----------------------------------------------------------------------------
Top == frames[Len(frames)]

NodeLeft == root <= Len(graph.nodes)

\* Mutant: the recursion stack is forgotten.
EnterUntracked(id, below) ==
    /\ visited' = visited \cup {id}
    /\ UNCHANGED recStack
    /\ frames' = Append(below, [node |-> id, todo |-> Successors(id)])

\* has_cycle is entered on id.
Enter(id, below) ==
    /\ visited' = visited \cup {id}
    /\ recStack' = recStack \cup {id}
    /\ frames' = Append(below, [node |-> id, todo |-> Successors(id)])

\* Mutant: the outer loop does not advance past a visited node.
NextRootStuck ==
    /\ verdict = "running" /\ frames = <<>> /\ NodeLeft
    /\ graph.nodes[root] \notin visited
    /\ root' = root + 1
    /\ Enter(graph.nodes[root], <<>>)
    /\ UNCHANGED <<graph, origin, verdict>>

\* Mutant: the outer loop advances twice.
NextRootTwice ==
    /\ verdict = "running" /\ frames = <<>> /\ NodeLeft
    /\ root' = root + 2
    /\ IF graph.nodes[root] \in visited THEN UNCHANGED <<frames, visited, recStack>>
                                        ELSE Enter(graph.nodes[root], <<>>)
    /\ UNCHANGED <<graph, origin, verdict>>

\* The outer loop passes a node: a visited one is skipped.
NextRoot ==
    /\ verdict = "running" /\ frames = <<>> /\ NodeLeft
    /\ root' = root + 1
    /\ LET id == graph.nodes[root] IN
       IF id \in visited THEN UNCHANGED <<frames, visited, recStack>>
                         ELSE Enter(id, <<>>)
    /\ UNCHANGED <<graph, origin, verdict>>

\* The innermost call looks at one more of its edges.
FollowEdge ==
    /\ verdict = "running" /\ frames # <<>>
    /\ \E to \in Top.todo :
         LET rest == [frames EXCEPT ![Len(frames)].todo = @ \ {to}] IN
         IF to \notin visited
         THEN Enter(to, rest) /\ UNCHANGED verdict
         ELSE /\ frames' = rest
              /\ verdict' = IF to \in recStack THEN "cycle" ELSE "running"
              /\ UNCHANGED <<visited, recStack>>
    /\ UNCHANGED <<graph, origin, root>>

\* The innermost call has no edge left: it returns false.
Leave ==
    /\ verdict = "running" /\ frames # <<>> /\ Top.todo = {}
    /\ recStack' = recStack \ {Top.node}
    /\ frames' = SubSeq(frames, 1, Len(frames) - 1)
    /\ UNCHANGED <<graph, origin, root, visited, verdict>>

\* No cycle was found: the edges' endpoints are checked.
CheckReferences ==
    /\ verdict = "running" /\ frames = <<>> /\ ~ NodeLeft
    /\ verdict' = IF Dangling(graph) THEN "dangling" ELSE "ok"
    /\ UNCHANGED <<graph, origin, root, frames, visited, recStack>>

ValidateNext == NextRoot \/ FollowEdge \/ Leave \/ CheckReferences

\* A synchronous function: it runs until it returns.
ValidateSpec == ValidateInit /\ [][ValidateNext]_validateVars /\ WF_validateVars(ValidateNext)
-----------------------------------------------------------------------------
(***************************************************************************)
(* Properties.                                                             *)
(***************************************************************************)

\* The search accepts exactly the graphs that the declarative definition
\* accepts among those that name only existing tasks, and what it reports as
\* a cycle is one: a node reached twice over different branches (a diamond)
\* is not mistaken for a cycle, and no cycle is missed because one of its
\* nodes was visited from an earlier root.
VerdictIsCorrect ==
    /\ verdict = "ok" => Valid(graph)
    /\ verdict = "cycle" => Cyclic(graph.edges)
    /\ verdict = "dangling" => Dangling(graph)

\* The ids on the recursion stack are those of the calls in progress, each
\* reached from the one below it over an edge of the graph: what has_cycle
\* needs for "to is on the stack" to mean "to reaches the current node".
StackIsAPath ==
    verdict = "running" =>
        /\ recStack = {frames[i].node : i \in 1 .. Len(frames)}
        /\ \A i \in 1 .. Len(frames) - 1 :
              <<frames[i].node, frames[i + 1].node>> \in graph.edges

\* plan_parser.rs drops edges to unknown tasks "so validation passes
\* cleanly": a parsed plan is never refused for a dangling edge.
ParsedPlanNeverDangles == origin = "parsed" => verdict # "dangling"

\* At every step of the search, and so at its end.
SearchIsSound == StackIsAPath /\ VerdictIsCorrect /\ ParsedPlanNeverDangles

\* The walk ends on every graph, cyclic ones included.
ValidateReturns == <>(verdict # "running")
=============================================================================
