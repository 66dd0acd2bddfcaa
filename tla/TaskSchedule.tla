---------------------------- MODULE TaskSchedule -----------------------------
(***************************************************************************)
(* What executing a task graph promises, whatever the order and however    *)
(* many model calls a task takes: every task is done at most once, never   *)
(* before the tasks it depends on, and success means all of them are done. *)
(* TaskExecutor implements this specification.                             *)
(***************************************************************************)
EXTENDS TaskGraph

VARIABLES
    graph,      \* the accepted task graph
    done,       \* positions of the tasks that have a result
    status      \* "running", "ok" or "failed"

vars == <<graph, done, status>>

Init ==
    /\ graph \in {g \in Graphs : Valid(g)}
    /\ done = {}
    /\ status = "running"

Finish(i) ==
    /\ status = "running"
    /\ i \notin done
    /\ DependenciesOf(graph, graph.nodes[i]) \subseteq done
    /\ done' = done \cup {i}
    /\ UNCHANGED <<graph, status>>

Succeed ==
    /\ status = "running"
    /\ done = Nodes(graph)
    /\ status' = "ok"
    /\ UNCHANGED <<graph, done>>

Fail ==
    /\ status = "running"
    /\ status' = "failed"
    /\ UNCHANGED <<graph, done>>

Next == (\E i \in Nodes(graph) : Finish(i)) \/ Succeed \/ Fail

Spec == Init /\ [][Next]_vars
=============================================================================
