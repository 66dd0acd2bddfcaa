------------------------------ MODULE TaskGraph ------------------------------
(***************************************************************************)
(* The task graph of a plan (ratchet-spec/src/schema.rs, TaskGraph) and    *)
(* how a plan response becomes one (ratchet-core/src/plan_parser.rs).      *)
(*                                                                         *)
(* A graph is a record of                                                  *)
(*   nodes : a sequence of task ids -- a Vec, so an id may occur twice;    *)
(*   edges : a set of pairs <<from, to>>, "to depends on from".            *)
(* An id is a number: k stands for the id "T-k", which is also the id the  *)
(* parser gives to the k-th task when the model leaves its id blank.       *)
(***************************************************************************)
EXTENDS Naturals, Sequences, FiniteSets

CONSTANTS
    MaxTasks,   \* bound: the tasks a plan response lists
    TaskIds     \* the ids a plan response may use

Blank == 0      \* a task whose id is missing or white space

ASSUME TaskGraphAssumption ==
    /\ MaxTasks \in Nat \ {0}
    /\ TaskIds \subseteq Nat \ {Blank}
    /\ 1 .. MaxTasks \subseteq TaskIds
-----------------------------------------------------------------------------
Graph(n) == [nodes : [1 .. n -> TaskIds], edges : SUBSET (TaskIds \X TaskIds)]

\* Every graph a plan file on disk can hold: plan.json may be edited by hand.
Graphs == UNION {Graph(n) : n \in 0 .. MaxTasks}

Nodes(g) == DOMAIN g.nodes              \* positions in the nodes Vec
Ids(g)   == {g.nodes[i] : i \in Nodes(g)}

\* The positions whose task must be done before task id may start.
DependenciesOf(g, id) == {j \in Nodes(g) : <<g.nodes[j], id>> \in g.edges}

HasDuplicateIds(g) == \E i, j \in Nodes(g) : i # j /\ g.nodes[i] = g.nodes[j]
-----------------------------------------------------------------------------
(***************************************************************************)
(* What TaskGraph::validate promises, stated without its search: no cycle, *)
(* and no edge that names an unknown task.  A finite relation has a cycle  *)
(* iff in some non-empty set of ids each has a predecessor inside the set. *)
(***************************************************************************)
Cyclic(edges) ==
    \E S \in SUBSET TaskIds :
        /\ S # {}
        /\ \A x \in S : \E y \in S : <<y, x>> \in edges

Dangling(g) == \E e \in g.edges : ~ (e[1] \in Ids(g) /\ e[2] \in Ids(g))

Valid(g) == ~ Cyclic(g.edges) /\ ~ Dangling(g)
-----------------------------------------------------------------------------
(***************************************************************************)
(* PlanParser: the plan response lists raw tasks.                          *)
(***************************************************************************)
RawTask  == [id : TaskIds \cup {Blank}, dependsOn : SUBSET TaskIds]
RawPlans == UNION {[1 .. n -> RawTask] : n \in 0 .. MaxTasks}

NodeId(raw, i) == IF raw[i].id = Blank THEN i ELSE raw[i].id

SanitizeGraph(g) ==
    [g EXCEPT !.edges = {e \in @ : e[1] \in Ids(g) /\ e[2] \in Ids(g)}]

IntoPlan(raw) ==
    SanitizeGraph(
        [nodes |-> [i \in DOMAIN raw |-> NodeId(raw, i)],
         edges |-> UNION {{<<d, NodeId(raw, i)>> : d \in raw[i].dependsOn} :
                             i \in DOMAIN raw}])

\* No usable JSON: a chain with one task per acceptance criterion, or one task.
Fallback(criteria) ==
    LET n == IF criteria = 0 THEN 1 ELSE criteria
    IN  [nodes |-> [i \in 1 .. n |-> i],
         edges |-> {<<i, i + 1>> : i \in 1 .. n - 1}]

\* PlanParser::parse on every response.
ParsedPlans ==
    {IntoPlan(raw) : raw \in RawPlans}
        \cup {Fallback(n) : n \in 0 .. MaxTasks}
=============================================================================
