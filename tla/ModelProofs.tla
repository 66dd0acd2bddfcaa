---------------------------- MODULE ModelProofs -----------------------------
(***************************************************************************)
(* Theorems about what goes to a model and comes back from it.             *)
(*                                                                         *)
(* The plan.  generate_plan can go wrong in two places: the validation of  *)
(* the graph it parses, proved here for every graph over every set of task *)
(* ids, and the call of the model, for every finite set of providers,      *)
(* every policy and every number of attempts.  In TaskGraph::validate a    *)
(* visited id off the recursion stack is called finished.  It is the       *)
(* finished ids that carry the argument: every successor of a finished id  *)
(* is finished, so the id that finishes now has no predecessor among them  *)
(* and closes no cycle.                                                    *)
(*                                                                         *)
(* Sequences.  Induction over the naturals and over the sequences over a   *)
(* set follows from the theorems on finite sets, with the set of what      *)
(* satisfies a statement for the statement; by it FlattenSeq, and Joined   *)
(* of the wire, are typed and distribute over concatenation.               *)
(*                                                                         *)
(* The conversation.  The requests of both wires distribute over the       *)
(* messages, so a round of calls and results that pairs up on its own      *)
(* keeps the pairs of the whole.                                           *)
(*                                                                         *)
(* The streams.  What a stream adds up to is an induction over the blocks  *)
(* or the calls of the reply: the deltas so far match the calls so far, at *)
(* indices below the next one.                                             *)
(***************************************************************************)
EXTENDS GraphValidate, ModelCall, Conversation, FiniteSetTheorems, SequenceTheorems, TLAPS

Finished == visited \ recStack

\* The frames are a path without repetition, and recStack holds its ids.
FramesArePath ==
    /\ recStack = {frames[i].node : i \in 1 .. Len(frames)}
    /\ recStack \subseteq visited
    /\ \A i, j \in 1 .. Len(frames) : i # j => frames[i].node # frames[j].node
    /\ \A i \in 1 .. Len(frames) - 1 :
          <<frames[i].node, frames[i + 1].node>> \in graph.edges
    /\ \A i \in 1 .. Len(frames) : frames[i].todo \subseteq Successors(frames[i].node)

\* A successor that was looked at is finished, or is the call made for it.
LookedAtIsDone ==
    verdict = "running" =>
        \A i \in 1 .. Len(frames) :
            \A t \in Successors(frames[i].node) \ frames[i].todo :
                \/ t \in Finished
                \/ i < Len(frames) /\ t = frames[i + 1].node

FinishedIsClosed == \A x \in Finished : Successors(x) \subseteq Finished

\* Every non-empty set of finished ids has a member without predecessor in it.
FinishedIsAcyclic ==
    \A S \in SUBSET Finished :
        S # {} => \E x \in S : \A y \in S : <<y, x>> \notin graph.edges

RootsAreVisited == \A i \in 1 .. Len(graph.nodes) : i < root => graph.nodes[i] \in visited

ParsedIsClean == origin = "parsed" => ~ Dangling(graph)

SearchInv ==
    /\ ValidateTypeOK
    /\ FramesArePath
    /\ LookedAtIsDone
    /\ FinishedIsClosed
    /\ FinishedIsAcyclic
    /\ RootsAreVisited
    /\ ParsedIsClean
    /\ VerdictIsCorrect
-----------------------------------------------------------------------------
\* A graph of the model, field by field.
LEMMA GraphShape ==
    ASSUME NEW g \in Graphs
    PROVE  /\ g.nodes \in Seq(TaskIds)
           /\ Len(g.nodes) \in 0 .. MaxTasks
           /\ g.edges \subseteq TaskIds \X TaskIds
<1>1. PICK n \in 0 .. MaxTasks : g \in Graph(n)
  BY DEF Graphs
<1>2. g.nodes \in [1 .. n -> TaskIds] /\ g.edges \in SUBSET (TaskIds \X TaskIds)
  BY <1>1 DEF Graph
<1>3. n \in Nat
  BY TaskGraphAssumption
<1>4. g.nodes \in Seq(TaskIds) /\ Len(g.nodes) = n
  BY <1>2, <1>3
<1> QED BY <1>2, <1>4

\* sanitize_graph leaves the nodes alone and no edge to an unknown task.
LEMMA SanitizedIsClean ==
    ASSUME NEW ns, NEW es
    PROVE  LET g == SanitizeGraph([nodes |-> ns, edges |-> es])
           IN  g.nodes = ns /\ g.edges \subseteq es /\ ~ Dangling(g)
  BY DEF SanitizeGraph, Dangling, Ids, Nodes

\* What the parser builds is a graph of the model without dangling edges.
LEMMA ParsedShape ==
    ASSUME NEW g \in ParsedPlans
    PROVE  g \in Graphs /\ ~ Dangling(g)
<1>m. MaxTasks \in Nat \ {0} /\ 1 .. MaxTasks \subseteq TaskIds
  BY TaskGraphAssumption
<1>1. CASE \E raw \in RawPlans : g = IntoPlan(raw)
  <2>1. PICK raw \in RawPlans : g = IntoPlan(raw)
    BY <1>1
  <2>2. PICK n \in 0 .. MaxTasks : raw \in [1 .. n -> RawTask]
    BY <2>1 DEF RawPlans
  <2> DEFINE ns == [i \in DOMAIN raw |-> NodeId(raw, i)]
             es == UNION {{<<d, NodeId(raw, i)>> : d \in raw[i].dependsOn} : i \in DOMAIN raw}
  <2>3. \A i \in 1 .. n : /\ NodeId(raw, i) \in TaskIds
                          /\ raw[i].dependsOn \subseteq TaskIds
    BY <1>m, <2>2 DEF NodeId, RawTask
  <2>4. ns \in [1 .. n -> TaskIds]
    BY <2>2, <2>3
  <2>5. es \subseteq TaskIds \X TaskIds
    BY <2>2, <2>3
  <2>6. g = SanitizeGraph([nodes |-> ns, edges |-> es])
    BY <2>1 DEF IntoPlan
  <2> HIDE DEF ns, es
  <2>7. g.nodes = ns /\ g.edges \subseteq es /\ ~ Dangling(g)
    BY <2>6, SanitizedIsClean
  <2>8. g \in Graph(n)
    BY <2>4, <2>5, <2>6, <2>7 DEF Graph, SanitizeGraph
  <2> QED BY <2>7, <2>8 DEF Graphs
<1>2. CASE \E k \in 0 .. MaxTasks : g = Fallback(k)
  <2>1. PICK k \in 0 .. MaxTasks : g = Fallback(k)
    BY <1>2
  <2> DEFINE n == IF k = 0 THEN 1 ELSE k
  <2>2. n \in 1 .. MaxTasks /\ n \in 0 .. MaxTasks
    BY <1>m
  <2>3. g = [nodes |-> [i \in 1 .. n |-> i], edges |-> {<<i, i + 1>> : i \in 1 .. n - 1}]
    BY <2>1 DEF Fallback
  <2> HIDE DEF n
  <2>4. \A i \in 1 .. n : i \in TaskIds
    BY <1>m, <2>2
  <2>5. \A i \in 1 .. n - 1 : i \in 1 .. n /\ i + 1 \in 1 .. n
    BY <1>m, <2>2
  <2>6. g \in Graph(n)
    BY <2>3, <2>4, <2>5 DEF Graph
  <2>7. Ids(g) = 1 .. n
    BY <2>3 DEF Ids, Nodes
  <2>8. ~ Dangling(g)
    <3>1. \A e \in g.edges : \E i \in 1 .. n - 1 : e = <<i, i + 1>>
      BY <2>3
    <3>2. \A e \in g.edges : e[1] \in Ids(g) /\ e[2] \in Ids(g)
      BY <3>1, <2>5, <2>7
    <3> QED BY <3>2 DEF Dangling
  <2> QED BY <2>2, <2>6, <2>8 DEF Graphs
<1> QED BY <1>1, <1>2 DEF ParsedPlans

\* The initial states.
LEMMA SearchInit == ValidateInit => SearchInv
<1> SUFFICES ASSUME ValidateInit PROVE SearchInv
  OBVIOUS
<1>1. graph \in Graphs /\ ParsedIsClean
  BY ParsedShape DEF ValidateInit, ParsedIsClean
<1>2. ValidateTypeOK
  BY <1>1, TaskGraphAssumption DEF ValidateInit, ValidateTypeOK
<1>3. Len(frames) = 0
  BY DEF ValidateInit
<1>4. FramesArePath /\ LookedAtIsDone
  BY <1>3 DEF ValidateInit, FramesArePath, LookedAtIsDone
<1>5. FinishedIsClosed /\ FinishedIsAcyclic /\ RootsAreVisited
  BY <1>1, GraphShape DEF ValidateInit, FinishedIsClosed, FinishedIsAcyclic, Finished, RootsAreVisited
<1> QED BY <1>1, <1>2, <1>4, <1>5 DEF SearchInv, VerdictIsCorrect, ValidateInit
-----------------------------------------------------------------------------
\* A call of has_cycle on an id not visited yet puts it on top of the path.
LEMMA EnterKeeps ==
    ASSUME SearchInv, verdict = "running", verdict' = verdict, graph' = graph,
           NEW id \in TaskIds, id \notin visited,
           NEW below \in Seq(Frame), Len(below) = Len(frames),
           \A i \in 1 .. Len(frames) :
              /\ below[i].node = frames[i].node
              /\ below[i].todo \subseteq Successors(below[i].node)
              /\ \A t \in Successors(below[i].node) \ below[i].todo :
                    \/ t \in Finished
                    \/ i < Len(frames) /\ t = frames[i + 1].node
                    \/ i = Len(frames) /\ t = id,
           Len(frames) > 0 => <<frames[Len(frames)].node, id>> \in graph.edges,
           Enter(id, below)
    PROVE  /\ frames' \in Seq(Frame)
           /\ visited' \in SUBSET TaskIds /\ recStack' \in SUBSET TaskIds
           /\ visited \subseteq visited' /\ id \in visited'
           /\ FramesArePath'
           /\ LookedAtIsDone'
           /\ FinishedIsClosed'
           /\ FinishedIsAcyclic'
<1> DEFINE top == [node |-> id, todo |-> Successors(id)]
           n == Len(frames)
<1>t. n \in Nat /\ visited \in SUBSET TaskIds /\ recStack \in SUBSET TaskIds
  BY DEF SearchInv, ValidateTypeOK
<1>1. top \in Frame
  BY DEF Frame, Successors
<1>2. frames' = Append(below, top) /\ visited' = visited \cup {id} /\ recStack' = recStack \cup {id}
  BY DEF Enter
<1>s. \A x : Successors(x)' = Successors(x)
  BY DEF Successors
<1> HIDE DEF top
<1>3. frames' \in Seq(Frame) /\ Len(frames') = n + 1
  BY <1>1, <1>2
<1>4. /\ \A i \in 1 .. n : frames'[i] = below[i]
      /\ frames'[n + 1] = top /\ top.node = id /\ top.todo = Successors(id)
  BY <1>1, <1>2, <1>t DEF top
<1>n. \A i \in 1 .. n : frames'[i].node = frames[i].node
  BY <1>4
<1>5. recStack \subseteq visited /\ recStack = {frames[i].node : i \in 1 .. n}
  BY DEF SearchInv, FramesArePath
<1>p. /\ \A i, j \in 1 .. n : i # j => frames[i].node # frames[j].node
      /\ \A i \in 1 .. n - 1 : <<frames[i].node, frames[i + 1].node>> \in graph.edges
  BY DEF SearchInv, FramesArePath
<1>6. Finished' = Finished
  BY <1>2, <1>5 DEF Finished
<1>7. FramesArePath'
  <2>1. recStack' = {frames'[i].node : i \in 1 .. n + 1}
    <3> HIDE DEF n
    <3>1. \A x \in recStack : \E i \in 1 .. n : x = frames'[i].node
      BY <1>n, <1>5
    <3>2. \A i \in 1 .. n : frames'[i].node \in recStack
      BY <1>n, <1>5
    <3>3. frames'[n + 1].node = id
      BY <1>4
    <3>4. n + 1 \in 1 .. n + 1 /\ 1 .. n \subseteq 1 .. n + 1
      BY <1>t
    <3>5. recStack' \subseteq {frames'[i].node : i \in 1 .. n + 1}
      BY <3>1, <3>3, <3>4, <1>2
    <3>6. \A i \in 1 .. n + 1 : frames'[i].node \in recStack'
      <4> SUFFICES ASSUME NEW i \in 1 .. n + 1 PROVE frames'[i].node \in recStack'
        OBVIOUS
      <4>1. i \in 1 .. n \/ i = n + 1
        BY <1>t
      <4> QED BY <4>1, <3>2, <3>3, <1>2
    <3> QED BY <3>5, <3>6
  <2>2. \A i \in 1 .. n : frames[i].node \in visited
    BY <1>5
  <2>3. \A i, j \in 1 .. n + 1 : i # j => frames'[i].node # frames'[j].node
    <3> SUFFICES ASSUME NEW i \in 1 .. n + 1, NEW j \in 1 .. n + 1, i # j
                 PROVE  frames'[i].node # frames'[j].node
      OBVIOUS
    <3>1. CASE i \in 1 .. n /\ j \in 1 .. n
      BY <3>1, <1>n, <1>p
    <3>2. CASE i = n + 1 /\ j \in 1 .. n
      BY <3>2, <1>n, <1>4, <2>2
    <3>3. CASE i \in 1 .. n /\ j = n + 1
      BY <3>3, <1>n, <1>4, <2>2
    <3>4. i \in 1 .. n \/ i = n + 1
      BY <1>t
    <3>5. j \in 1 .. n \/ j = n + 1
      BY <1>t
    <3> QED BY <3>1, <3>2, <3>3, <3>4, <3>5
  <2>4. \A i \in 1 .. n : <<frames'[i].node, frames'[i + 1].node>> \in graph.edges
    <3> SUFFICES ASSUME NEW i \in 1 .. n PROVE <<frames'[i].node, frames'[i + 1].node>> \in graph.edges
      OBVIOUS
    <3>1. CASE i = n
      BY <3>1, <1>n, <1>4
    <3>2. CASE i # n
      <4>1. i \in 1 .. n - 1 /\ i + 1 \in 1 .. n
        BY <3>2, <1>t
      <4> QED BY <4>1, <1>n, <1>p
    <3> QED BY <3>1, <3>2
  <2>5. \A i \in 1 .. n + 1 : frames'[i].todo \subseteq Successors(frames'[i].node)
    BY <1>4, <1>t
  <2>6. Len(frames') = n + 1 /\ Len(frames') - 1 = n
    BY <1>3, <1>t
  <2>7. recStack' \subseteq visited'
    BY <1>2, <1>5
  <2> HIDE DEF n
  <2> QED BY <1>s, <2>1, <2>3, <2>4, <2>5, <2>6, <2>7 DEF FramesArePath
<1>8. LookedAtIsDone'
  <2> SUFFICES ASSUME NEW i \in 1 .. n + 1,
                      NEW t \in Successors(frames'[i].node) \ frames'[i].todo
               PROVE  t \in Finished \/ (i < n + 1 /\ t = frames'[i + 1].node)
    BY <1>3, <1>6, <1>s DEF LookedAtIsDone
  <2>1. CASE i = n + 1
    BY <2>1, <1>4
  <2>2. CASE i # n + 1
    <3>1. i \in 1 .. n /\ i < n + 1
      BY <2>2, <1>t
    <3>2. t \in Successors(below[i].node) \ below[i].todo
      BY <3>1, <1>4
    <3>3. CASE i = n
      BY <3>1, <3>2, <3>3, <1>4
    <3>4. CASE i # n
      <4>1. i < n /\ i + 1 \in 1 .. n
        BY <3>1, <3>4, <1>t
      <4> QED BY <4>1, <3>1, <3>2, <3>4, <1>n
    <3> QED BY <3>3, <3>4
  <2> QED BY <2>1, <2>2
<1>9. FinishedIsClosed' /\ FinishedIsAcyclic'
  BY <1>6, <1>s DEF SearchInv, FinishedIsClosed, FinishedIsAcyclic
<1> QED BY <1>2, <1>3, <1>7, <1>8, <1>9, <1>t
-----------------------------------------------------------------------------
\* The outer loop passes a node.
LEMMA NextRootKeeps == ASSUME SearchInv, NextRoot PROVE SearchInv'
<1> DEFINE id == graph.nodes[root]
<1>1. /\ verdict = "running" /\ frames = <<>> /\ root <= Len(graph.nodes)
      /\ root' = root + 1 /\ UNCHANGED <<graph, origin, verdict>>
      /\ IF id \in visited THEN UNCHANGED <<frames, visited, recStack>> ELSE Enter(id, <<>>)
  BY DEF NextRoot, NodeLeft
<1>t. ValidateTypeOK /\ graph.nodes \in Seq(TaskIds) /\ Len(graph.nodes) \in 0 .. MaxTasks
  BY GraphShape DEF SearchInv, ValidateTypeOK
<1>m. MaxTasks \in Nat /\ Len(graph.nodes) \in Nat /\ root \in Nat
  BY <1>t, TaskGraphAssumption DEF ValidateTypeOK
<1>2. root \in 1 .. Len(graph.nodes) /\ root' \in 1 .. MaxTasks + 1
  BY <1>1, <1>t, <1>m DEF ValidateTypeOK
<1>3. id \in TaskIds
  BY <1>2, <1>t
<1> HIDE DEF id
<1>4. CASE id \in visited
  <2>1. UNCHANGED <<graph, origin, verdict, frames, visited, recStack>>
    BY <1>1, <1>4
  <2>2. ValidateTypeOK'
    BY <2>1, <1>2, <1>t DEF ValidateTypeOK
  <2>3. RootsAreVisited'
    BY <2>1, <1>1, <1>2, <1>4, <1>m DEF SearchInv, RootsAreVisited, id
  <2> QED BY <2>1, <2>2, <2>3
          DEF SearchInv, FramesArePath, LookedAtIsDone, FinishedIsClosed, FinishedIsAcyclic,
              Finished, ParsedIsClean, VerdictIsCorrect, Successors
<1>5. CASE id \notin visited
  <2>1. Enter(id, <<>>)
    BY <1>1, <1>5
  <2>2. Len(frames) = 0 /\ <<>> \in Seq(Frame) /\ Len(<<>>) = 0
    BY <1>1
  <2>e. /\ graph' = graph /\ verdict' = verdict /\ Len(<<>>) = Len(frames)
        /\ ~ Len(frames) > 0 /\ \A i : i \notin 1 .. Len(frames)
    BY <2>2, <1>1
  <2>3. /\ frames' \in Seq(Frame)
        /\ visited' \in SUBSET TaskIds /\ recStack' \in SUBSET TaskIds
        /\ visited \subseteq visited' /\ id \in visited'
        /\ FramesArePath' /\ LookedAtIsDone' /\ FinishedIsClosed' /\ FinishedIsAcyclic'
    BY <2>1, <2>2, <2>e, <1>1, <1>3, <1>5, EnterKeeps
  <2>4. ValidateTypeOK'
    BY <2>3, <1>1, <1>2, <1>t DEF ValidateTypeOK
  <2>5. RootsAreVisited'
    BY <2>3, <1>1, <1>2, <1>m DEF SearchInv, RootsAreVisited, id
  <2> QED BY <2>3, <2>4, <2>5, <1>1 DEF SearchInv, ParsedIsClean, VerdictIsCorrect
<1> QED BY <1>4, <1>5

\* The frames after the innermost call took the edge to `to`.
WithoutEdge(s, to) == [s EXCEPT ![Len(s)].todo = @ \ {to}]

\* Taking an edge from the innermost frame changes nothing else.
LEMMA TakeEdge ==
    ASSUME NEW s \in Seq(Frame), Len(s) > 0, NEW to, NEW r, r = WithoutEdge(s, to)
    PROVE  /\ r \in Seq(Frame) /\ Len(r) = Len(s)
           /\ \A i \in 1 .. Len(s) : r[i].node = s[i].node
           /\ \A i \in 1 .. Len(s) : i # Len(s) => r[i].todo = s[i].todo
           /\ r[Len(s)].todo = s[Len(s)].todo \ {to}
<1>1. Len(s) \in Nat /\ Len(s) \in 1 .. Len(s) /\ s[Len(s)] \in Frame
  OBVIOUS
<1>2. PICK f : f = [s[Len(s)] EXCEPT !.todo = @ \ {to}]
  OBVIOUS
<1>3. f \in Frame /\ f.node = s[Len(s)].node /\ f.todo = s[Len(s)].todo \ {to}
  BY <1>1, <1>2 DEF Frame
<1>4. r = [s EXCEPT ![Len(s)] = f]
  BY <1>2 DEF WithoutEdge
<1>5. r \in Seq(Frame) /\ Len(r) = Len(s)
  <2>1. s \in [1 .. Len(s) -> Frame]
    OBVIOUS
  <2>2. r \in [1 .. Len(s) -> Frame]
    BY <2>1, <1>3, <1>4
  <2> QED BY <2>2, <1>1
<1>6. r[Len(s)] = f /\ \A i \in 1 .. Len(s) : i # Len(s) => r[i] = s[i]
  BY <1>1, <1>4
<1> QED BY <1>3, <1>5, <1>6

\* The innermost call looks at an edge: it enters the target, finds it on the
\* path, which is then a cycle, or finds it finished.
LEMMA FollowEdgeKeeps == ASSUME SearchInv, FollowEdge PROVE SearchInv'
<1>n. PICK n : n = Len(frames)
  OBVIOUS
<1>t. ValidateTypeOK /\ n \in Nat /\ n > 0 /\ n \in 1 .. n
  BY <1>n DEF SearchInv, ValidateTypeOK, FollowEdge
<1>e. PICK to \in frames[n].todo :
        IF to \notin visited
        THEN Enter(to, WithoutEdge(frames, to)) /\ UNCHANGED verdict
        ELSE /\ frames' = WithoutEdge(frames, to)
             /\ verdict' = IF to \in recStack THEN "cycle" ELSE "running"
             /\ UNCHANGED <<visited, recStack>>
  BY <1>n DEF FollowEdge, Top, WithoutEdge
<1>r. PICK rest : rest = WithoutEdge(frames, to)
  OBVIOUS
<1>1. IF to \notin visited
      THEN Enter(to, rest) /\ UNCHANGED verdict
      ELSE /\ frames' = rest
           /\ verdict' = IF to \in recStack THEN "cycle" ELSE "running"
           /\ UNCHANGED <<visited, recStack>>
  BY <1>e, <1>r
<1>2. verdict = "running" /\ graph' = graph /\ origin' = origin /\ root' = root
  BY DEF FollowEdge
<1>3. \A i \in 1 .. n : frames[i] \in Frame /\ frames[i].todo \subseteq Successors(frames[i].node)
  BY <1>n, <1>t DEF SearchInv, ValidateTypeOK, FramesArePath
<1>4. to \in Successors(frames[n].node) /\ to \in TaskIds /\ <<frames[n].node, to>> \in graph.edges
  BY <1>e, <1>3, <1>t DEF Successors
<1>5. /\ rest \in Seq(Frame) /\ Len(rest) = n
      /\ \A i \in 1 .. n : rest[i].node = frames[i].node
      /\ \A i \in 1 .. n : i # n => rest[i].todo = frames[i].todo
      /\ rest[n].todo = frames[n].todo \ {to}
  <2>1. frames \in Seq(Frame) /\ Len(frames) > 0
    BY <1>n, <1>t DEF ValidateTypeOK
  <2>2. /\ rest \in Seq(Frame) /\ Len(rest) = Len(frames)
        /\ \A i \in 1 .. Len(frames) : rest[i].node = frames[i].node
        /\ \A i \in 1 .. Len(frames) : i # Len(frames) => rest[i].todo = frames[i].todo
        /\ rest[Len(frames)].todo = frames[Len(frames)].todo \ {to}
    BY <2>1, <1>r, TakeEdge
  <2> QED BY <2>2, <1>n
<1>6. \A i \in 1 .. n :
        /\ rest[i].todo \subseteq Successors(rest[i].node)
        /\ \A t \in Successors(rest[i].node) \ rest[i].todo :
              \/ t \in Finished
              \/ i < n /\ t = frames[i + 1].node
              \/ i = n /\ t = to
  BY <1>n, <1>2, <1>3, <1>5, <1>t DEF SearchInv, LookedAtIsDone
<1>7. CASE to \notin visited
  <2>1. Enter(to, rest) /\ verdict' = verdict
    BY <1>1, <1>7
  <2>2. \A i \in 1 .. Len(frames) :
              /\ rest[i].node = frames[i].node
              /\ rest[i].todo \subseteq Successors(rest[i].node)
              /\ \A t \in Successors(rest[i].node) \ rest[i].todo :
                    \/ t \in Finished
                    \/ i < Len(frames) /\ t = frames[i + 1].node
                    \/ i = Len(frames) /\ t = to
    BY <1>n, <1>5, <1>6
  <2>3. /\ frames' \in Seq(Frame)
        /\ visited' \in SUBSET TaskIds /\ recStack' \in SUBSET TaskIds
        /\ visited \subseteq visited'
        /\ FramesArePath' /\ LookedAtIsDone' /\ FinishedIsClosed' /\ FinishedIsAcyclic'
    BY <2>1, <2>2, <1>n, <1>2, <1>4, <1>5, <1>7, EnterKeeps
  <2>4. ValidateTypeOK'
    BY <2>1, <2>3, <1>2, <1>t DEF ValidateTypeOK
  <2> QED BY <2>1, <2>3, <2>4, <1>2
          DEF SearchInv, RootsAreVisited, ParsedIsClean, VerdictIsCorrect
<1>8. CASE to \in visited
  <2>1. /\ frames' = rest /\ visited' = visited /\ recStack' = recStack
        /\ verdict' = IF to \in recStack THEN "cycle" ELSE "running"
    BY <1>1, <1>8
  <2>s. \A x : Successors(x)' = Successors(x)
    BY <1>2 DEF Successors
  <2>f. Finished' = Finished
    BY <2>1 DEF Finished
  <2>2. ValidateTypeOK'
    BY <2>1, <1>2, <1>5, <1>t DEF ValidateTypeOK
  <2>3. /\ recStack = {frames[i].node : i \in 1 .. n} /\ recStack \subseteq visited
        /\ \A i, j \in 1 .. n : i # j => frames[i].node # frames[j].node
        /\ \A i \in 1 .. n - 1 : <<frames[i].node, frames[i + 1].node>> \in graph.edges
    BY <1>n DEF SearchInv, FramesArePath
  <2>4. FramesArePath'
    <3>1. \A i \in 1 .. n - 1 : <<rest[i].node, rest[i + 1].node>> \in graph.edges
      <4> SUFFICES ASSUME NEW i \in 1 .. n - 1
                   PROVE  <<rest[i].node, rest[i + 1].node>> \in graph.edges
        OBVIOUS
      <4>1. i \in 1 .. n /\ i + 1 \in 1 .. n
        BY <1>t
      <4> QED BY <4>1, <2>3, <1>5
    <3>2. recStack = {rest[i].node : i \in 1 .. n}
      BY <2>3, <1>5
    <3>3. \A i, j \in 1 .. n : i # j => rest[i].node # rest[j].node
      BY <2>3, <1>5
    <3>4. \A i \in 1 .. n : rest[i].todo \subseteq Successors(rest[i].node)
      BY <1>6
    <3> QED BY <3>1, <3>2, <3>3, <3>4, <2>1, <2>3, <2>s, <1>2, <1>5 DEF FramesArePath
  <2>5. LookedAtIsDone'
    <3> SUFFICES ASSUME verdict' = "running", NEW i \in 1 .. n,
                        NEW t \in Successors(rest[i].node) \ rest[i].todo
                 PROVE  t \in Finished \/ (i < n /\ t = rest[i + 1].node)
      BY <2>1, <2>s, <2>f, <1>5 DEF LookedAtIsDone
    <3>1. to \in Finished
      BY <2>1, <1>8 DEF Finished
    <3>2. i < n => i + 1 \in 1 .. n
      BY <1>t
    <3> QED BY <3>1, <3>2, <1>5, <1>6
  <2>6. FinishedIsClosed' /\ FinishedIsAcyclic' /\ RootsAreVisited' /\ ParsedIsClean'
    BY <2>1, <2>s, <2>f, <1>2
    DEF SearchInv, FinishedIsClosed, FinishedIsAcyclic, RootsAreVisited, ParsedIsClean
  <2>7. to \in recStack => Cyclic(graph.edges)
    <3> SUFFICES ASSUME to \in recStack PROVE Cyclic(graph.edges)
      OBVIOUS
    <3>1. PICK k \in 1 .. n : to = frames[k].node
      BY <2>3
    <3> DEFINE S == {frames[i].node : i \in k .. n}
    <3>2. \A i \in k .. n : i \in 1 .. n /\ frames[i].node \in TaskIds
      BY <1>3, <1>t DEF Frame
    <3>3. S \in SUBSET TaskIds /\ S # {} /\ frames[n].node \in S
      BY <3>2, <1>t
    <3>4. \A x \in S : \E y \in S : <<y, x>> \in graph.edges
      <4> SUFFICES ASSUME NEW i \in k .. n
                   PROVE  \E y \in S : <<y, frames[i].node>> \in graph.edges
        OBVIOUS
      <4>1. CASE i = k
        BY <4>1, <3>1, <3>3, <1>4
      <4>2. CASE i # k
        <5>1. i - 1 \in k .. n /\ i - 1 \in 1 .. n - 1 /\ (i - 1) + 1 = i
          BY <4>2, <1>t
        <5>2. <<frames[i - 1].node, frames[i].node>> \in graph.edges
          BY <5>1, <2>3
        <5> QED BY <5>1, <5>2
      <4> QED BY <4>1, <4>2
    <3> HIDE DEF S
    <3> QED BY <3>3, <3>4 DEF Cyclic
  <2>8. VerdictIsCorrect'
    BY <2>1, <2>7, <1>2 DEF VerdictIsCorrect
  <2> QED BY <2>2, <2>4, <2>5, <2>6, <2>8 DEF SearchInv
<1> QED BY <1>7, <1>8
-----------------------------------------------------------------------------
\* The innermost call returns: its id is finished, and no finished id precedes it.
LEMMA LeaveKeeps == ASSUME SearchInv, Leave PROVE SearchInv'
<1>n. PICK n : n = Len(frames)
  OBVIOUS
<1>t. ValidateTypeOK /\ n \in Nat /\ n > 0 /\ n \in 1 .. n /\ n - 1 \in Nat
  BY <1>n DEF SearchInv, ValidateTypeOK, Leave
<1>v. PICK v : v = frames[n].node
  OBVIOUS
<1>1. /\ verdict = "running" /\ frames[n].todo = {}
      /\ recStack' = recStack \ {v} /\ frames' = SubSeq(frames, 1, n - 1)
      /\ graph' = graph /\ origin' = origin /\ root' = root
      /\ visited' = visited /\ verdict' = verdict
  BY <1>n, <1>v DEF Leave, Top
<1>2. /\ frames' \in Seq(Frame) /\ Len(frames') = n - 1
      /\ \A i \in 1 .. n - 1 : frames'[i] = frames[i]
  BY <1>1, <1>n, <1>t DEF ValidateTypeOK
<1>s. \A x : Successors(x)' = Successors(x)
  BY <1>1 DEF Successors
<1>3. /\ recStack = {frames[i].node : i \in 1 .. n} /\ recStack \subseteq visited
      /\ \A i, j \in 1 .. n : i # j => frames[i].node # frames[j].node
      /\ \A i \in 1 .. n - 1 : <<frames[i].node, frames[i + 1].node>> \in graph.edges
      /\ \A i \in 1 .. n : frames[i].todo \subseteq Successors(frames[i].node)
  BY <1>n DEF SearchInv, FramesArePath
<1>4. v \in recStack /\ v \in visited /\ v \notin Finished /\ v \in TaskIds
  BY <1>3, <1>t, <1>v DEF Finished, ValidateTypeOK
<1>5. Finished' = Finished \cup {v}
  BY <1>1, <1>4 DEF Finished
<1>l. \A i \in 1 .. n : \A t \in Successors(frames[i].node) \ frames[i].todo :
           t \in Finished \/ (i < n /\ t = frames[i + 1].node)
  BY <1>n, <1>1 DEF SearchInv, LookedAtIsDone
<1>6. Successors(v) \subseteq Finished
  BY <1>l, <1>t, <1>v, <1>1
<1>7. ValidateTypeOK'
  BY <1>1, <1>2, <1>t DEF ValidateTypeOK
<1>i. \A i \in 1 .. n - 1 : i \in 1 .. n /\ i # n
  BY <1>t
<1>8. FramesArePath'
  <2>1. recStack' = {frames'[i].node : i \in 1 .. n - 1}
    <3>1. \A x \in recStack : x # v => \E i \in 1 .. n - 1 : x = frames[i].node
      <4> SUFFICES ASSUME NEW i \in 1 .. n, frames[i].node # v
                   PROVE  i \in 1 .. n - 1
        BY <1>3
      <4> QED BY <1>t, <1>v
    <3>2. \A i \in 1 .. n - 1 : frames[i].node \in recStack /\ frames[i].node # v
      BY <1>3, <1>i, <1>t, <1>v
    <3> QED BY <3>1, <3>2, <1>1, <1>2
  <2>2. \A i, j \in 1 .. n - 1 : i # j => frames'[i].node # frames'[j].node
    BY <1>2, <1>3, <1>i
  <2>3. \A i \in 1 .. (n - 1) - 1 : <<frames'[i].node, frames'[i + 1].node>> \in graph.edges
    <3> SUFFICES ASSUME NEW i \in 1 .. (n - 1) - 1
                 PROVE  <<frames'[i].node, frames'[i + 1].node>> \in graph.edges
      OBVIOUS
    <3>1. i \in 1 .. n - 1 /\ i + 1 \in 1 .. n - 1
      BY <1>t
    <3> QED BY <3>1, <1>2, <1>3
  <2>4. \A i \in 1 .. n - 1 : frames'[i].todo \subseteq Successors(frames'[i].node)
    BY <1>2, <1>3, <1>i
  <2>5. recStack' \subseteq visited'
    BY <1>1, <1>3
  <2> QED BY <2>1, <2>2, <2>3, <2>4, <2>5, <1>1, <1>2, <1>s DEF FramesArePath
<1>9. LookedAtIsDone'
  <2> SUFFICES ASSUME NEW i \in 1 .. n - 1,
                      NEW t \in Successors(frames'[i].node) \ frames'[i].todo
               PROVE  t \in Finished \cup {v} \/ (i < n - 1 /\ t = frames'[i + 1].node)
    BY <1>2, <1>5, <1>s DEF LookedAtIsDone
  <2>1. t \in Finished \/ t = frames[i + 1].node
    BY <1>2, <1>i, <1>l
  <2>2. CASE i + 1 = n
    BY <2>1, <2>2, <1>v
  <2>3. CASE i + 1 # n
    <3>1. i < n - 1 /\ i + 1 \in 1 .. n - 1
      BY <2>3, <1>t
    <3> QED BY <3>1, <2>1, <1>2
  <2> QED BY <2>2, <2>3
<1>10. FinishedIsClosed'
  BY <1>5, <1>6, <1>s DEF SearchInv, FinishedIsClosed
<1>11. FinishedIsAcyclic'
  <2> SUFFICES ASSUME NEW S \in SUBSET (Finished \cup {v}), S # {}
               PROVE  \E x \in S : \A y \in S : <<y, x>> \notin graph.edges
    BY <1>1, <1>5 DEF FinishedIsAcyclic
  <2>1. CASE v \notin S
    BY <2>1 DEF SearchInv, FinishedIsAcyclic
  <2>2. CASE v \in S
    <3>1. \A y \in Finished : <<y, v>> \notin graph.edges
      BY <1>4 DEF SearchInv, FinishedIsClosed, Successors
    <3>2. <<v, v>> \notin graph.edges
      BY <1>4, <1>6 DEF Successors
    <3> QED BY <2>2, <3>1, <3>2
  <2> QED BY <2>1, <2>2
<1>12. RootsAreVisited' /\ ParsedIsClean' /\ VerdictIsCorrect'
  BY <1>1 DEF SearchInv, RootsAreVisited, ParsedIsClean, VerdictIsCorrect
<1> QED BY <1>7, <1>8, <1>9, <1>10, <1>11, <1>12 DEF SearchInv

\* All ids are finished at the end of the outer loop, so the graph has no cycle
\* among them, and an edge outside them is dangling.
LEMMA CheckReferencesKeeps == ASSUME SearchInv, CheckReferences PROVE SearchInv'
<1>1. /\ verdict = "running" /\ frames = <<>> /\ ~ root <= Len(graph.nodes)
      /\ verdict' = IF Dangling(graph) THEN "dangling" ELSE "ok"
      /\ UNCHANGED <<graph, origin, root, frames, visited, recStack>>
  BY DEF CheckReferences, NodeLeft
<1>t. ValidateTypeOK /\ graph \in Graphs /\ root \in Nat
  BY TaskGraphAssumption DEF SearchInv, ValidateTypeOK
<1>g. /\ graph.nodes \in Seq(TaskIds) /\ Len(graph.nodes) \in Nat
      /\ graph.edges \subseteq TaskIds \X TaskIds
  BY <1>t, GraphShape, TaskGraphAssumption
<1>2. recStack = {}
  <2>1. Len(frames) = 0
    BY <1>1
  <2> QED BY <2>1 DEF SearchInv, FramesArePath
<1>3. Ids(graph) \subseteq Finished
  <2>1. \A i \in 1 .. Len(graph.nodes) : i < root
    BY <1>1, <1>t, <1>g
  <2>2. \A i \in 1 .. Len(graph.nodes) : graph.nodes[i] \in visited
    BY <2>1 DEF SearchInv, RootsAreVisited
  <2>3. DOMAIN graph.nodes = 1 .. Len(graph.nodes)
    BY <1>g
  <2> QED BY <2>2, <2>3, <1>2 DEF Finished, Ids, Nodes
<1>4. ~ Dangling(graph) => ~ Cyclic(graph.edges)
  <2> SUFFICES ASSUME ~ Dangling(graph), NEW S \in SUBSET TaskIds, S # {},
                      \A x \in S : \E y \in S : <<y, x>> \in graph.edges
               PROVE  FALSE
    BY DEF Cyclic
  <2>1. \A x, y : <<y, x>> \in graph.edges => x \in Ids(graph)
    BY DEF Dangling
  <2>2. S \in SUBSET Finished
    BY <2>1, <1>3
  <2> QED BY <2>2 DEF SearchInv, FinishedIsAcyclic
<1>5. VerdictIsCorrect'
  BY <1>1, <1>4 DEF VerdictIsCorrect, Valid
<1>6. ValidateTypeOK'
  BY <1>1, <1>t DEF ValidateTypeOK
<1> QED BY <1>1, <1>5, <1>6
        DEF SearchInv, FramesArePath, LookedAtIsDone, FinishedIsClosed, FinishedIsAcyclic,
            Finished, RootsAreVisited, ParsedIsClean, Successors

\* Every step preserves the invariant.
LEMMA SearchStep == SearchInv /\ [ValidateNext]_validateVars => SearchInv'
<1> SUFFICES ASSUME SearchInv, [ValidateNext]_validateVars PROVE SearchInv'
  OBVIOUS
<1>1. CASE NextRoot
  BY <1>1, NextRootKeeps
<1>2. CASE FollowEdge
  BY <1>2, FollowEdgeKeeps
<1>3. CASE Leave
  BY <1>3, LeaveKeeps
<1>4. CASE CheckReferences
  BY <1>4, CheckReferencesKeeps
<1>5. CASE UNCHANGED validateVars
  BY <1>5 DEF validateVars, SearchInv, ValidateTypeOK, FramesArePath, LookedAtIsDone, FinishedIsClosed,
      FinishedIsAcyclic, Finished, RootsAreVisited, ParsedIsClean, VerdictIsCorrect, Successors
<1> QED BY <1>1, <1>2, <1>3, <1>4, <1>5 DEF ValidateNext
-----------------------------------------------------------------------------
\* What the depth-first search knows of the graph, in every reachable state.
THEOREM SearchCorrect == ValidateSpec => []SearchInv
  BY SearchInit, SearchStep, PTL DEF ValidateSpec

\* The variables keep their types.
THEOREM GraphValidateTypes == ValidateSpec => []ValidateTypeOK
<1>1. SearchInv => ValidateTypeOK
  BY DEF SearchInv
<1> QED BY <1>1, SearchCorrect, PTL

\* validate accepts no cyclic graph and no graph with a dangling edge, calls
\* cyclic only what is, and refuses no parsed plan for a dangling edge.
THEOREM ValidateIsSound == ValidateSpec => []SearchIsSound
<1>1. SearchInv => StackIsAPath
  BY DEF SearchInv, FramesArePath, StackIsAPath
<1>2. SearchInv => ParsedPlanNeverDangles
  BY DEF SearchInv, ParsedIsClean, VerdictIsCorrect, ParsedPlanNeverDangles
<1>3. SearchInv => SearchIsSound
  BY <1>1, <1>2 DEF SearchInv, SearchIsSound
<1> QED BY <1>3, SearchCorrect, PTL
-----------------------------------------------------------------------------
USE ModelCallAssumption
-----------------------------------------------------------------------------
(***************************************************************************)
(* Routes.                                                                 *)
(***************************************************************************)
\* s names every member of S, and none twice.
Enumerates(s, S) ==
    /\ s \in Seq(S)
    /\ \A i, j \in DOMAIN s : i # j => s[i] # s[j]
    /\ \A x \in S : \E i \in DOMAIN s : s[i] = x

LEMMA Enumeration ==
    ASSUME NEW S, IsFiniteSet(S), NEW s \in SetToSeqs(S)
    PROVE  Enumerates(s, S)
<1> DEFINE n == Cardinality(S)
<1>1. n \in Nat
    BY FS_CardinalityType
<1>2. /\ s \in [1 .. n -> S]
      /\ \A i, j \in 1 .. n : i # j => s[i] # s[j]
    BY DEF SetToSeqs
<1>3. s \in Seq(S) /\ DOMAIN s = 1 .. n
    BY <1>1, <1>2
<1>4. s \in Injection(1 .. n, S)
    BY <1>2 DEF Injection, IsInjective
<1>5. Cardinality(1 .. n) = n
    BY <1>1, FS_Interval
<1>6. s \in Surjection(1 .. n, S)
    BY <1>4, <1>5, FS_Injection
<1>7. \A x \in S : \E i \in 1 .. n : s[i] = x
    BY <1>6 DEF Surjection
<1> QED
    BY <1>2, <1>3, <1>7 DEF Enumerates

\* Of two members of r, the first is in A, or the parts or their places in b
\* are in order.
InParts(r, A, B, C, b) ==
    \A k, l \in DOMAIN r : k < l =>
        \/ r[k] \in A
        \/ r[k] \in B /\ r[l] \in C
        \/ r[k] \in C /\ r[l] \in C
        \/ \E i, j \in DOMAIN b : i < j /\ b[i] = r[k] /\ b[j] = r[l]

\* Three enumerations of parts that are disjoint, one after the other.
LEMMA Concatenation ==
    ASSUME NEW A, NEW B, NEW C, A \cap B = {}, A \cap C = {}, B \cap C = {},
           NEW h, NEW b, NEW t, NEW r, r = h \o b \o t,
           Enumerates(h, A), Enumerates(b, B), Enumerates(t, C)
    PROVE  Enumerates(r, A \cup B \cup C) /\ InParts(r, A, B, C, b)
<1> DEFINE U == A \cup B \cup C
<1>1. /\ h \in Seq(A) /\ b \in Seq(B) /\ t \in Seq(C)
      /\ h \in Seq(U) /\ b \in Seq(U) /\ t \in Seq(U)
    BY DEF Enumerates
<1>2. Len(h) \in Nat /\ Len(b) \in Nat /\ Len(t) \in Nat
    BY <1>1
<1>3. r \in Seq(U) /\ Len(r) = Len(h) + Len(b) + Len(t)
    BY <1>1
<1>4. \A k \in DOMAIN r :
         \/ k \in 1 .. Len(h) /\ r[k] = h[k]
         \/ k - Len(h) \in 1 .. Len(b) /\ r[k] = b[k - Len(h)]
         \/ k - Len(h) - Len(b) \in 1 .. Len(t) /\ r[k] = t[k - Len(h) - Len(b)]
    BY <1>1, <1>3
<1>5. /\ \A i \in DOMAIN h : i \in DOMAIN r /\ r[i] = h[i]
      /\ \A i \in DOMAIN b : Len(h) + i \in DOMAIN r /\ r[Len(h) + i] = b[i]
      /\ \A i \in DOMAIN t : Len(h) + Len(b) + i \in DOMAIN r /\ r[Len(h) + Len(b) + i] = t[i]
    BY <1>1, <1>3
<1>6. /\ DOMAIN h = 1 .. Len(h) /\ DOMAIN b = 1 .. Len(b) /\ DOMAIN t = 1 .. Len(t)
      /\ DOMAIN r = 1 .. Len(r)
      /\ \A i \in DOMAIN h : h[i] \in A
      /\ \A i \in DOMAIN b : b[i] \in B
      /\ \A i \in DOMAIN t : t[i] \in C
    BY <1>1, <1>3
<1> HIDE DEF U
<1>7. \A k, l \in DOMAIN r : k # l => r[k] # r[l]
  <2>1. TAKE k, l \in DOMAIN r
  <2>2. HAVE k # l
  <2>3. /\ \A i, j \in DOMAIN h : i # j => h[i] # h[j]
        /\ \A i, j \in DOMAIN b : i # j => b[i] # b[j]
        /\ \A i, j \in DOMAIN t : i # j => t[i] # t[j]
      BY DEF Enumerates
  <2>4. k \in Int /\ l \in Int
      BY <1>6, <1>2
  <2>5. \/ k \in DOMAIN h /\ r[k] = h[k] /\ r[k] \in A
        \/ k - Len(h) \in DOMAIN b /\ r[k] = b[k - Len(h)] /\ r[k] \in B
        \/ k - Len(h) - Len(b) \in DOMAIN t /\ r[k] = t[k - Len(h) - Len(b)] /\ r[k] \in C
      BY <1>4, <1>6
  <2>6. \/ l \in DOMAIN h /\ r[l] = h[l] /\ r[l] \in A
        \/ l - Len(h) \in DOMAIN b /\ r[l] = b[l - Len(h)] /\ r[l] \in B
        \/ l - Len(h) - Len(b) \in DOMAIN t /\ r[l] = t[l - Len(h) - Len(b)] /\ r[l] \in C
      BY <1>4, <1>6
  <2>7. k - Len(h) # l - Len(h) /\ k - Len(h) - Len(b) # l - Len(h) - Len(b)
      BY <1>2, <2>2, <2>4
  <2> QED
      BY <2>2, <2>3, <2>5, <2>6, <2>7
<1>8. \A x \in U : \E k \in DOMAIN r : r[k] = x
  <2>1. ASSUME NEW x \in A PROVE \E k \in DOMAIN r : r[k] = x
    <3>1. PICK i \in DOMAIN h : h[i] = x
        BY DEF Enumerates
    <3> QED
        BY <1>5, <3>1
  <2>2. ASSUME NEW x \in B PROVE \E k \in DOMAIN r : r[k] = x
    <3>1. PICK i \in DOMAIN b : b[i] = x
        BY DEF Enumerates
    <3> QED
        BY <1>5, <3>1
  <2>3. ASSUME NEW x \in C PROVE \E k \in DOMAIN r : r[k] = x
    <3>1. PICK i \in DOMAIN t : t[i] = x
        BY DEF Enumerates
    <3> QED
        BY <1>5, <3>1
  <2> QED
      BY <2>1, <2>2, <2>3 DEF U
<1>9. ASSUME NEW k \in DOMAIN r, NEW l \in DOMAIN r, k < l
      PROVE  \/ r[k] \in A
             \/ r[k] \in B /\ r[l] \in C
             \/ r[k] \in C /\ r[l] \in C
             \/ \E i, j \in DOMAIN b : i < j /\ b[i] = r[k] /\ b[j] = r[l]
  <2>1. k \in Int /\ l \in Int
      BY <1>6, <1>2
  <2>2. CASE k \in 1 .. Len(h) /\ r[k] = h[k]
      BY <1>6, <2>2
  <2>3. CASE k - Len(h) \in 1 .. Len(b) /\ r[k] = b[k - Len(h)]
    <3>1. CASE l - Len(h) \in 1 .. Len(b) /\ r[l] = b[l - Len(h)]
      <4>1. k - Len(h) < l - Len(h)
          BY <1>2, <1>9, <2>1
      <4> QED
          BY <1>6, <2>3, <3>1, <4>1
    <3>2. CASE l - Len(h) - Len(b) \in 1 .. Len(t) /\ r[l] = t[l - Len(h) - Len(b)]
        BY <1>6, <2>3, <3>2
    <3>3. l \notin 1 .. Len(h)
        BY <1>2, <1>9, <2>1, <2>3
    <3> QED
        BY <1>4, <3>1, <3>2, <3>3
  <2>4. CASE k - Len(h) - Len(b) \in 1 .. Len(t) /\ r[k] = t[k - Len(h) - Len(b)]
    <3>1. l \notin 1 .. Len(h) /\ l - Len(h) \notin 1 .. Len(b)
        BY <1>2, <1>9, <2>1, <2>4
    <3> QED
        BY <1>4, <1>6, <2>4, <3>1
  <2> QED
      BY <1>4, <2>2, <2>3, <2>4
<1>10. Enumerates(r, U)
    BY <1>3, <1>7, <1>8 DEF Enumerates, U
<1> QED
    BY <1>9, <1>10 DEF U, InParts

\* Better as the route for a name sees it.
Precedes(name, p, q) ==
    /\ q # name
    /\ \/ p = name
       \/ p \in capable /\ q \notin capable
       \/ p \in Pool /\ q \in Pool /\ place[p] < place[q]

\* A route names every provider once, and never a better one after a worse.
LEMMA RouteShape ==
    ASSUME capable \in SUBSET Providers, place \in [Providers -> {1, 2}],
           NEW name, NEW route \in RouteAll(name)
    PROVE  /\ Enumerates(route, Providers)
           /\ \A k, l \in DOMAIN route : k < l => ~ Precedes(name, route[l], route[k])
<1> DEFINE A == Explicit(name)
           B == Fitting(name)
           C == LastResort(name)
<1>1. PICK h \in SetToSeqs(A), b \in Ranked(B), t \in SetToSeqs(C) : route = h \o b \o t
    BY DEF RouteAll
<1> USE DEF Explicit, Fitting, LastResort
<1>2. Pool \subseteq Providers /\ (capable # {} => Pool = capable) /\ (capable = {} => Pool = Providers)
    BY DEF Pool
<1>3. A \subseteq Providers /\ B \subseteq Providers /\ C \subseteq Providers
    BY <1>2 DEF A, B, C
<1>4. IsFiniteSet(A) /\ IsFiniteSet(B) /\ IsFiniteSet(C)
    BY <1>3, FS_Subset
<1>5. b \in SetToSeqs(B) /\ \A i, j \in DOMAIN b : i < j => place[b[i]] <= place[b[j]]
    BY DEF Ranked
<1>6. Enumerates(h, A) /\ Enumerates(b, B) /\ Enumerates(t, C)
    BY <1>4, <1>5, Enumeration
<1>7. A \cap B = {} /\ A \cap C = {} /\ B \cap C = {} /\ A \cup B \cup C = Providers
    BY <1>2 DEF A, B, C
<1> HIDE DEF A, B, C, Explicit, Fitting, LastResort
<1>8. Enumerates(route, Providers) /\ InParts(route, A, B, C, b)
  <2>1. Enumerates(route, A \cup B \cup C) /\ InParts(route, A, B, C, b)
      BY ONLY <1>1, <1>6, <1>7, Concatenation
  <2>2. A \cup B \cup C = Providers
      BY ONLY <1>7
  <2> QED
      BY ONLY <2>1, <2>2
<1>9. ASSUME NEW k \in DOMAIN route, NEW l \in DOMAIN route, k < l
      PROVE  ~ Precedes(name, route[l], route[k])
  <2>1. CASE route[k] \in A
      BY <2>1 DEF A, Explicit, Precedes
  <2>2. CASE route[k] \in B \cup C /\ route[l] \in C
      BY <1>2, <2>2 DEF A, B, C, Explicit, Fitting, LastResort, Precedes
  <2>3. CASE \E i, j \in DOMAIN b : i < j /\ b[i] = route[k] /\ b[j] = route[l]
    <3>1. route[k] \in B /\ route[l] \in B /\ place[route[k]] <= place[route[l]]
        BY <1>5, <1>6, <2>3 DEF Enumerates
    <3>2. place[route[k]] \in {1, 2} /\ place[route[l]] \in {1, 2}
        BY <1>3, <3>1
    <3> QED
        BY <1>2, <3>1, <3>2 DEF A, B, Explicit, Fitting, Precedes
  <2> QED
      BY <1>8, <1>9, <2>1, <2>2, <2>3 DEF InParts
<1> QED
    BY <1>8, <1>9
-----------------------------------------------------------------------------
(***************************************************************************)
(* The call.  Candidates before the one being asked have given up, those   *)
(* after it have not been asked.                                           *)
(***************************************************************************)
Routed ==
    \E h \in SetToSeqs(Explicit(preferred)), b \in Ranked(Fitting(preferred)),
       t \in SetToSeqs(LastResort(preferred)) : candidates = Candidates(h \o b \o t)

TurnInv ==
    /\ at \in DOMAIN candidates
    /\ \A k \in DOMAIN candidates : k < at => GaveUp(candidates[k])
    /\ \A p \in Providers :
         (\A k \in 1 .. at : candidates[k] # p) => asked[p] = 0 /\ p \notin refused

CallInv ==
    /\ TypeOK
    /\ phase = "route" => failures = 0 /\ asked = [p \in Providers |-> 0] /\ refused = {}
    /\ phase # "route" => Routed /\ TurnInv
    /\ phase = "asking" =>
         Asked \notin refused /\ asked[Asked] = failures /\ failures < Budget
    /\ phase = "failed" => at = Len(candidates) /\ GaveUp(Asked)

LEMMA BudgetShape ==
    ASSUME TypeOK
    PROVE  /\ Budget \in Nat /\ Budget >= 1 /\ Attempts \in Nat
           /\ \A n \in Nat : n < Budget =>
                 /\ n + 1 < Attempts => n + 1 < Budget
                 /\ ~ (n + 1 < Attempts) => n + 1 = Budget
BY DEF TypeOK, Budget, Attempts

\* The candidates are distinct; the executor's are all providers.
LEMMA CandidateShape ==
    ASSUME TypeOK, NEW name, NEW route \in RouteAll(name)
    PROVE  /\ Candidates(route) \in Seq(Providers)
           /\ Len(Candidates(route)) >= 1
           /\ \A k, l \in DOMAIN Candidates(route) :
                 k # l => Candidates(route)[k] # Candidates(route)[l]
           /\ \A k \in DOMAIN Candidates(route) :
                 k \in DOMAIN route /\ Candidates(route)[k] = route[k]
           /\ caller = "executor" => Candidates(route) = route
           /\ caller # "executor" => Len(Candidates(route)) = 1
<1>1. Enumerates(route, Providers)
    BY RouteShape DEF TypeOK
<1>2. route \in Seq(Providers) /\ Len(route) >= 1
  <2>1. PICK p \in Providers : TRUE
      OBVIOUS
  <2>2. PICK i \in DOMAIN route : route[i] = p
      BY <1>1 DEF Enumerates
  <2> QED
      BY <1>1, <2>2 DEF Enumerates
<1>3. route[1] \in Providers
    BY <1>2
<1> QED
    BY <1>1, <1>2, <1>3 DEF Candidates, Enumerates

LEMMA RouteOfCall ==
    ASSUME Routed PROVE \E route \in RouteAll(preferred) : candidates = Candidates(route)
<1>1. PICK h \in SetToSeqs(Explicit(preferred)), b \in Ranked(Fitting(preferred)),
           t \in SetToSeqs(LastResort(preferred)) : candidates = Candidates(h \o b \o t)
    BY DEF Routed
<1>2. h \o b \o t \in RouteAll(preferred)
    BY DEF RouteAll
<1> QED
    BY <1>1, <1>2

LEMMA CandidatesDistinct ==
    ASSUME TypeOK, Routed
    PROVE  \A k, l \in DOMAIN candidates : k # l => candidates[k] # candidates[l]
BY CandidateShape, RouteOfCall

LEMMA InitCall == Init => CallInv
BY BudgetShape DEF Init, CallInv, TypeOK

\* Routes depend on nothing that changes during a call.
LEMMA RoutedLater ==
    ASSUME UNCHANGED <<caller, capable, place>>,
           NEW route \in RouteAll(preferred'), candidates' = Candidates(route)
    PROVE  Routed'
<1>1. Pool' = Pool /\ place' = place /\ caller' = caller
    BY DEF Pool
<1>2. PICK h \in SetToSeqs(Explicit(preferred')), b \in Ranked(Fitting(preferred')),
             t \in SetToSeqs(LastResort(preferred')) : route = h \o b \o t
    BY DEF RouteAll
<1>3. /\ Explicit(preferred)' = Explicit(preferred')
        /\ Fitting(preferred)' = Fitting(preferred')
        /\ LastResort(preferred)' = LastResort(preferred')
    BY <1>1 DEF Explicit, Fitting, LastResort
<1>4. /\ h \in SetToSeqs(Explicit(preferred))'
      /\ b \in Ranked(Fitting(preferred))'
      /\ t \in SetToSeqs(LastResort(preferred))'
  <2>1. /\ SetToSeqs(Explicit(preferred))' = SetToSeqs(Explicit(preferred'))
        /\ SetToSeqs(Fitting(preferred))' = SetToSeqs(Fitting(preferred'))
        /\ SetToSeqs(LastResort(preferred))' = SetToSeqs(LastResort(preferred'))
      BY <1>3 DEF SetToSeqs
  <2> QED
      BY <1>1, <2>1 DEF Ranked
<1>5. candidates' = Candidates(h \o b \o t)'
    BY <1>1, <1>2 DEF Candidates
<1> QED
    BY <1>4, <1>5 DEF Routed

LEMMA StepRoute ==
    ASSUME CallInv, Route PROVE CallInv'
<1>1. /\ phase = "route" /\ phase' = "asking" /\ at' = 1
      /\ UNCHANGED <<caller, capable, place, maxAttempts, failures, asked, refused>>
    BY DEF Route, inputs, history
<1>2. PICK route \in RouteAll(preferred') : candidates' = Candidates(route)
    BY DEF Route
<1>3. preferred' \in Providers \cup {Unknown, NoName}
  <2>1. PICK names \in [DOMAIN Settings -> Providers \cup {Unknown, NoName}] :
           preferred' = Strongest(names)
      BY DEF Route
  <2> DEFINE present == {k \in DOMAIN names : names[k] # NoName}
  <2>2. CASE present = {}
      BY <2>1, <2>2 DEF Strongest
  <2>3. CASE present # {}
    <3>1. DOMAIN Settings \in {1 .. 3, 1 .. 4}
        BY DEF Settings
    <3>2. \E k \in present : \A l \in present : k <= l
        BY <2>3, <3>1
    <3>3. (CHOOSE k \in present : \A l \in present : k <= l) \in present
        BY ONLY <3>2
    <3> QED
        BY <2>1, <2>3, <3>3 DEF Strongest
  <2> QED
      BY <2>2, <2>3
<1>4. candidates' \in Seq(Providers) /\ Len(candidates') >= 1
    BY <1>2, CandidateShape DEF CallInv
<1>5. TypeOK'
    BY <1>1, <1>3, <1>4 DEF CallInv, TypeOK
<1>6. Routed'
    BY <1>1, <1>2, RoutedLater
<1>7. /\ failures = 0 /\ Budget' \in Nat /\ Budget' >= 1
      /\ asked = [p \in Providers |-> 0] /\ refused = {}
    BY <1>1, BudgetShape DEF CallInv, Budget, Attempts
<1>8. at' \in DOMAIN candidates' /\ Asked' \in Providers
    BY <1>1, <1>4 DEF Asked
<1>9. asked'[Asked'] = 0 /\ Asked' \notin refused'
    BY <1>1, <1>7, <1>8
<1>10. TurnInv'
    BY <1>1, <1>4, <1>7, <1>8 DEF TurnInv
<1> QED
    BY ONLY <1>1, <1>5, <1>6, <1>7, <1>9, <1>10 DEF CallInv

\* The candidate being asked is asked once more.
AskedOnce ==
    /\ phase = "asking"
    /\ asked' = [asked EXCEPT ![Asked] = @ + 1]
    /\ refused' \in {refused, refused \cup {Asked}}
    /\ UNCHANGED <<caller, capable, place, maxAttempts, preferred, candidates>>

LEMMA AskedOnceKeeps ==
    ASSUME CallInv, AskedOnce
    PROVE  /\ asked' \in [Providers -> Nat] /\ refused' \subseteq Providers
           /\ Routed' /\ Budget' = Budget /\ Attempts' = Attempts
           /\ Asked \in Providers /\ Asked = candidates[at] /\ asked'[Asked] = failures + 1
           /\ \A k \in DOMAIN candidates : k < at =>
                 candidates[k] \in refused' \/ asked'[candidates[k]] = Budget
           /\ \A p \in Providers :
                 (\A k \in 1 .. at : candidates[k] # p) => asked'[p] = 0 /\ p \notin refused'
<1>1. /\ candidates \in Seq(Providers) /\ at \in DOMAIN candidates
      /\ asked \in [Providers -> Nat] /\ refused \subseteq Providers
      /\ Routed /\ TurnInv /\ asked[Asked] = failures
    BY DEF CallInv, AskedOnce, TypeOK, TurnInv
<1>2. Asked \in Providers /\ Asked = candidates[at]
    BY <1>1 DEF Asked
<1>3. /\ asked' \in [Providers -> Nat] /\ refused' \subseteq Providers
      /\ asked'[Asked] = failures + 1
      /\ \A p \in Providers : p # Asked => asked'[p] = asked[p] /\ (p \in refused' <=> p \in refused)
      /\ refused \subseteq refused'
    BY <1>1, <1>2 DEF AskedOnce
<1>4. \A k \in DOMAIN candidates : candidates[k] \in Providers /\ (k # at => candidates[k] # Asked)
    BY <1>1, <1>2, CandidatesDistinct DEF CallInv
<1>5. \A k \in DOMAIN candidates : k < at =>
         candidates[k] \in refused' \/ asked'[candidates[k]] = Budget
    BY <1>1, <1>3, <1>4 DEF TurnInv, GaveUp
<1>6. \A p \in Providers :
         (\A k \in 1 .. at : candidates[k] # p) => asked'[p] = 0 /\ p \notin refused'
  <2>1. at \in 1 .. at
      BY <1>1
  <2> QED
      BY <1>1, <1>2, <1>3, <2>1 DEF TurnInv
<1>7. Routed'
    BY <1>1, RoutedLater, RouteOfCall DEF AskedOnce
<1>8. Attempts' = Attempts
    BY DEF Attempts, AskedOnce
<1>9. Budget' = Budget
    BY <1>8 DEF Budget
<1> QED
    BY <1>2, <1>3, <1>5, <1>6, <1>7, <1>8, <1>9

\* It gives up: the next has its turn, or the call has failed.
LEMMA HandOffKeeps ==
    ASSUME CallInv, AskedOnce, HandOff,
           Asked \in refused' \/ asked'[Asked] = Budget
    PROVE  CallInv'
<1> USE AskedOnceKeeps
<1>1. /\ candidates \in Seq(Providers) /\ at \in 1 .. Len(candidates) /\ Len(candidates) \in Nat
      /\ UNCHANGED <<caller, capable, place, maxAttempts, preferred, candidates>>
      /\ phase = "asking" /\ failures \in Nat
    BY DEF CallInv, TypeOK, AskedOnce
<1>2. CASE HasNext
  <2>1. at' = at + 1 /\ failures' = 0 /\ phase' = "asking" /\ at' \in DOMAIN candidates
      BY <1>1, <1>2 DEF HandOff, HasNext
  <2>2. TypeOK'
    <3>1. TypeOK /\ asked' \in [Providers -> Nat] /\ refused' \subseteq Providers /\ at' \in Nat
        BY <1>1, <2>1 DEF CallInv
    <3> QED
        BY ONLY <1>1, <2>1, <3>1 DEF TypeOK
  <2>3. \A k \in DOMAIN candidates : k < at' =>
           candidates[k] \in refused' \/ asked'[candidates[k]] = Budget
      BY <1>1, <2>1
  <2>4. \A p \in Providers :
           (\A k \in 1 .. at' : candidates[k] # p) => asked'[p] = 0 /\ p \notin refused'
      BY <1>1, <2>1
  <2>5. TurnInv'
      BY <1>1, <2>1, <2>3, <2>4 DEF TurnInv, GaveUp
  <2>6. /\ Asked' \in Providers /\ Asked' = candidates[at']
        /\ \A k \in 1 .. at : candidates[k] # Asked'
    <3>1. Asked' = candidates[at'] /\ Asked' \in Providers
        BY <1>1, <2>1 DEF Asked
    <3>2. \A k, l \in DOMAIN candidates : k # l => candidates[k] # candidates[l]
        BY CandidatesDistinct, <1>1 DEF CallInv
    <3>3. \A k \in 1 .. at : k \in DOMAIN candidates /\ k # at'
        BY <1>1, <2>1
    <3> QED
        BY <2>1, <3>1, <3>2, <3>3
  <2>7. asked'[Asked'] = 0 /\ Asked' \notin refused'
      BY <2>6
  <2>8. Budget' \in Nat /\ Budget' >= 1
      BY BudgetShape DEF CallInv
  <2>9. Routed'
      OBVIOUS
  <2> QED
      BY ONLY <2>1, <2>2, <2>5, <2>7, <2>8, <2>9 DEF CallInv
<1>3. CASE ~ HasNext
  <2>1. at' = at /\ failures' = failures /\ phase' = "failed" /\ at = Len(candidates)
      BY <1>1, <1>3 DEF HandOff, HasNext
  <2>2. TypeOK'
      BY <1>1, <2>1 DEF CallInv, TypeOK
  <2>3. TurnInv'
      BY <1>1, <2>1 DEF TurnInv, GaveUp
  <2>4. GaveUp(Asked)'
    <3>1. Asked' = Asked
        BY <1>1, <2>1 DEF Asked
    <3> QED
        BY <3>1 DEF GaveUp
  <2> QED
      BY <1>1, <2>1, <2>2, <2>3, <2>4 DEF CallInv
<1> QED
    BY <1>2, <1>3

\* It is asked again, or has answered.
LEMMA StayKeeps ==
    ASSUME CallInv, AskedOnce, refused' = refused, at' = at,
           \/ phase' = "asking" /\ failures' = failures + 1 /\ failures + 1 < Budget
           \/ phase' = "answered" /\ failures' = failures
    PROVE  CallInv'
<1> USE AskedOnceKeeps
<1>1. /\ UNCHANGED <<caller, capable, place, maxAttempts, preferred, candidates>>
      /\ phase = "asking" /\ failures \in Nat /\ at \in DOMAIN candidates
    BY DEF CallInv, TypeOK, AskedOnce
<1>2. TypeOK'
    BY <1>1 DEF CallInv, TypeOK
<1>3. TurnInv'
    BY <1>1 DEF TurnInv, GaveUp
<1>4. Asked' = Asked /\ Asked \notin refused
    BY <1>1 DEF Asked, CallInv
<1> QED
    BY <1>1, <1>2, <1>3, <1>4 DEF CallInv

LEMMA StepCall == CallInv /\ [Next]_vars => CallInv'
<1> SUFFICES ASSUME CallInv, [Next]_vars PROVE CallInv'
    OBVIOUS
<1>1. CASE UNCHANGED vars
  <2>1. UNCHANGED <<caller, capable, place, maxAttempts, phase, preferred, candidates, at,
                    failures, asked, refused>>
      BY <1>1 DEF vars, inputs, history
  <2>2. TypeOK' /\ Asked' = Asked /\ Attempts' = Attempts
      BY <2>1 DEF CallInv, TypeOK, Asked, Attempts
  <2>3. Budget' = Budget
      BY <2>2 DEF Budget
  <2>4. Routed => Routed'
      BY <2>1, RoutedLater, RouteOfCall
  <2>5. TurnInv => TurnInv'
      BY <2>1, <2>3 DEF TurnInv, GaveUp
  <2> QED
      BY <2>1, <2>2, <2>3, <2>4, <2>5 DEF CallInv, GaveUp
<1>2. CASE Route
    BY <1>2, StepRoute
<1>3. CASE Answer
    BY <1>3, StayKeeps DEF Answer, Count, AskedOnce, inputs
<1>4. CASE TransientError
  <2>1. AskedOnce /\ refused' = refused /\ phase = "asking"
      BY <1>4 DEF TransientError, Count, AskedOnce, inputs
  <2>2. failures \in Nat /\ failures < Budget
      BY <2>1 DEF CallInv, TypeOK
  <2>3. CASE Retry
    <3>1. failures + 1 < Budget
        BY <2>2, <2>3, BudgetShape DEF CallInv, Retry
    <3> QED
        BY <1>4, <2>1, <2>3, <3>1, StayKeeps DEF TransientError
  <2>4. CASE ~ Retry
    <3>1. failures + 1 = Budget
        BY <2>2, <2>4, BudgetShape DEF CallInv, Retry
    <3> QED
        BY <1>4, <2>1, <2>4, <3>1, AskedOnceKeeps, HandOffKeeps DEF TransientError
  <2> QED
      BY <2>3, <2>4
<1>5. CASE PermanentError
    BY <1>5, HandOffKeeps DEF PermanentError, Count, AskedOnce, inputs
<1> QED
    BY <1>1, <1>2, <1>3, <1>4, <1>5 DEF Next

\* Candidates are asked in turn, each until it answers or gives up.
THEOREM CallCorrect == Spec => []CallInv
BY InitCall, StepCall, PTL DEF Spec

\* Better providers go first, and the executor's call fails only when every
\* configured provider has given up.
THEOREM CandidatesTakeTurns == Spec => []CandidatesInTurn
<1>1. CallInv => CandidatesInTurn
  <2> SUFFICES ASSUME CallInv PROVE CandidatesInTurn
      OBVIOUS
  <2>1. CASE phase = "route"
      BY <2>1 DEF CallInv, CandidatesInTurn, BetterFirst, FailureIsExhaustive
  <2>2. CASE phase # "route"
    <3>1. PICK route \in RouteAll(preferred) : candidates = Candidates(route)
        BY <2>2, RouteOfCall DEF CallInv
    <3>2. /\ Enumerates(route, Providers)
          /\ \A k, l \in DOMAIN route : k < l => ~ Better(route[l], route[k])
      <4>1. \A p, q : Better(p, q) <=> Precedes(preferred, p, q)
          BY DEF Better, Precedes
      <4> QED
          BY <4>1, RouteShape DEF CallInv, TypeOK
    <3>3. /\ candidates \in Seq(Providers) /\ at \in 1 .. Len(candidates)
          /\ Len(candidates) \in Nat
          /\ \A k \in DOMAIN candidates : k \in DOMAIN route /\ candidates[k] = route[k]
          /\ caller = "executor" => candidates = route
          /\ caller # "executor" => Len(candidates) = 1
        BY <2>2, <3>1, CandidateShape DEF CallInv, TypeOK, TurnInv
    <3>4. /\ \A k \in DOMAIN candidates : k < at => GaveUp(candidates[k])
          /\ \A p \in Providers : asked[p] > 0 => \E k \in 1 .. at : candidates[k] = p
        BY <2>2 DEF CallInv, TurnInv, TypeOK
    <3>5. BetterFirst
      <4> SUFFICES ASSUME NEW p \in Providers, NEW q \in Providers, asked[q] > 0, Better(p, q)
                   PROVE  GaveUp(p)
          BY DEF BetterFirst
      <4>1. PICK k \in 1 .. at : candidates[k] = q
          BY <3>4
      <4>2. PICK l \in DOMAIN route : route[l] = p
          BY <3>2 DEF Enumerates
      <4>3. k \in DOMAIN candidates /\ k \in DOMAIN route /\ route[k] = q
          BY <3>3, <4>1
      <4>4. DOMAIN route \subseteq Nat
          BY <3>2 DEF Enumerates
      <4>5. ~ (k < l)
          BY <3>2, <4>2, <4>3
      <4>6. k # l
        <5>1. ~ Better(p, p)
            BY DEF Better, CallInv, TypeOK
        <5> QED
            BY <4>2, <4>3, <5>1
      <4>7. l < k /\ l \in Nat /\ k \in Nat /\ l >= 1
          BY <3>2, <4>3, <4>4, <4>5, <4>6 DEF Enumerates
      <4>8. l < at /\ l \in DOMAIN candidates
          BY <3>3, <4>1, <4>7
      <4> QED
          BY <3>3, <3>4, <4>2, <4>8
    <3>6. FailureIsExhaustive
      <4> SUFFICES ASSUME phase = "failed", caller = "executor", NEW p \in Providers
                   PROVE  GaveUp(p)
          BY DEF FailureIsExhaustive
      <4>1. at = Len(candidates) /\ GaveUp(candidates[at])
          BY DEF CallInv, Asked
      <4>2. PICK l \in DOMAIN candidates : candidates[l] = p
          BY <3>2, <3>3 DEF Enumerates
      <4>3. l < at \/ l = at
          BY <3>3, <4>1, <4>2
      <4> QED
          BY <3>4, <4>1, <4>2, <4>3
    <3> QED
        BY <3>5, <3>6 DEF CandidatesInTurn
  <2> QED
      BY <2>1, <2>2
<1> QED
    BY <1>1, CallCorrect, PTL

\* No provider is asked after a permanent error, and none more often than the
\* policy allows.
THEOREM NothingBurnt == Spec => NothingIsBurnt
<1>1. CallInv /\ [Next]_vars =>
         [\A p \in Providers : asked'[p] # asked[p] => p \notin refused /\ asked'[p] <= Budget]_asked
  <2> SUFFICES ASSUME CallInv, Next, NEW p \in Providers, asked'[p] # asked[p]
               PROVE  p \notin refused /\ asked'[p] <= Budget
      BY DEF vars, history
  <2>1. AskedOnce
      BY DEF Next, Route, Answer, TransientError, PermanentError, Count, AskedOnce, inputs, history
  <2>2. p = Asked
      BY <2>1 DEF AskedOnce, CallInv, TypeOK
  <2>3. asked'[p] = failures + 1 /\ failures \in Nat /\ failures < Budget /\ Asked \notin refused
      BY <2>1, <2>2, AskedOnceKeeps DEF CallInv, TypeOK, AskedOnce
  <2>4. Budget \in Nat
      BY BudgetShape DEF CallInv
  <2> QED
      BY <2>2, <2>3, <2>4
<1> QED
    BY <1>1, CallCorrect, PTL DEF Spec, NothingIsBurnt
-----------------------------------------------------------------------------
\* Induction over the naturals, from the finiteness of their intervals: the least
\* id outside T would make an injection of a finite set into a smaller one.
LEMMA NatSetInduction ==
    ASSUME NEW T \in SUBSET Nat, 0 \in T, \A n \in T : n + 1 \in T
    PROVE  T = Nat
<1> SUFFICES ASSUME NEW n \in Nat, n \notin T PROVE FALSE
  OBVIOUS
<1> DEFINE A == (0 .. n) \ T
           f == [k \in A |-> k - 1]
<1>1. IsFiniteSet(A)
  <2>1. IsFiniteSet(0 .. n)
    BY FS_Interval
  <2> QED BY <2>1, FS_Subset
<1>2. \A k \in A : k - 1 \in A \ {n}
  <2> SUFFICES ASSUME NEW k \in A PROVE k - 1 \in A \ {n}
    OBVIOUS
  <2>1. k # 0 /\ k - 1 \in 0 .. n
    OBVIOUS
  <2>2. k - 1 \in T => (k - 1) + 1 \in T
    OBVIOUS
  <2>3. k - 1 \notin T
    BY <2>1, <2>2
  <2> QED BY <2>1, <2>3
<1>3. n \in A
  OBVIOUS
<1> HIDE DEF A
<1>4. \A k \in A : k \in Int
  BY DEF A
<1>5. f \in Injection(A, A \ {n})
  BY <1>2, <1>4 DEF Injection, IsInjective
<1>6. IsFiniteSet(A \ {n}) /\ Cardinality(A \ {n}) = Cardinality(A) - 1
  BY <1>1, <1>3, FS_RemoveElement
<1>7. Cardinality(A) <= Cardinality(A \ {n})
  BY <1>5, <1>6, FS_Injection
<1>8. Cardinality(A) \in Nat
  BY <1>1, FS_CardinalityType
<1> QED BY <1>6, <1>7, <1>8

\* FlattenSeq: the partial results.
Flattens(f, ss, n) == f = [i \in 1 .. n |-> IF i = 1 THEN ss[i] ELSE f[i - 1] \o ss[i]]

\* The first partial result is the first sequence.
LEMMA FlattensFirst ==
    ASSUME NEW f, NEW ss, NEW n \in Nat, n # 0, Flattens(f, ss, n)
    PROVE  f[1] = ss[1]
<1>1. f = [i \in 1 .. n |-> IF i = 1 THEN ss[i] ELSE f[i - 1] \o ss[i]]
  BY DEF Flattens
<1>2. 1 \in 1 .. n
  OBVIOUS
<1> QED BY <1>1, <1>2

\* The next partial result has the next sequence at its end.
LEMMA FlattensNext ==
    ASSUME NEW f, NEW ss, NEW n \in Nat, NEW i \in Nat, i # 0, i < n, Flattens(f, ss, n)
    PROVE  f[i + 1] = f[i] \o ss[i + 1]
<1>1. f = [j \in 1 .. n |-> IF j = 1 THEN ss[j] ELSE f[j - 1] \o ss[j]]
  BY DEF Flattens
<1>2. i + 1 \in 1 .. n /\ i + 1 # 1 /\ (i + 1) - 1 = i
  OBVIOUS
<1>3. f[i + 1] = IF i + 1 = 1 THEN ss[i + 1] ELSE f[(i + 1) - 1] \o ss[i + 1]
  BY <1>1, <1>2
<1> QED BY <1>2, <1>3

\* The partial results FlattenSeq chooses exist.
LEMMA FlattensExists ==
    ASSUME NEW ss, NEW n \in Nat
    PROVE  \E f : Flattens(f, ss, n)
<1> DEFINE T == {m \in Nat : \E f : Flattens(f, ss, m)}
<1>1. 0 \in T
  <2>1. Flattens([i \in 1 .. 0 |-> 0], ss, 0)
    BY DEF Flattens
  <2> QED BY <2>1
<1>2. ASSUME NEW m \in T PROVE m + 1 \in T
  <2>1. PICK f : Flattens(f, ss, m)
    OBVIOUS
  <2>0. m \in Nat
    OBVIOUS
  <2>2. PICK g : g = [i \in 1 .. m + 1 |-> IF i = 1 THEN ss[i] ELSE f[i - 1] \o ss[i]]
    OBVIOUS
  <2> HIDE DEF T
  <2>3. ASSUME NEW i \in 1 .. m PROVE g[i] = f[i]
    <3>1. i \in 1 .. m + 1 /\ i \in Nat
      BY <2>0, <2>3
    <3>2. g[i] = IF i = 1 THEN ss[i] ELSE f[i - 1] \o ss[i]
      BY <2>2, <3>1
    <3>3. f[i] = IF i = 1 THEN ss[i] ELSE f[i - 1] \o ss[i]
      BY <2>1, <2>3 DEF Flattens
    <3> QED BY <3>2, <3>3
  <2>4. ASSUME NEW i \in 1 .. m + 1
        PROVE  (IF i = 1 THEN ss[i] ELSE f[i - 1] \o ss[i])
                 = (IF i = 1 THEN ss[i] ELSE g[i - 1] \o ss[i])
    <3>1. CASE i = 1
      BY <3>1
    <3>2. CASE i # 1
      <4>1. i - 1 \in 1 .. m
        BY <2>0, <2>4, <3>2
      <4>2. g[i - 1] = f[i - 1]
        BY <2>3, <4>1
      <4> QED BY <4>2
    <3> QED BY <3>1, <3>2
  <2>5. Flattens(g, ss, m + 1)
    BY <2>2, <2>4 DEF Flattens
  <2>6. m + 1 \in Nat
    BY <2>0
  <2> QED BY <2>5, <2>6 DEF T
<1> HIDE DEF T
<1>3. T = Nat
  BY <1>1, <1>2, NatSetInduction DEF T
<1> QED BY <1>3 DEF T

\* Sequences that start alike have the same partial results.
LEMMA FlattensAgree ==
    ASSUME NEW ss, NEW tt, NEW m \in Nat, NEW n \in Nat, NEW f, NEW g,
           Flattens(f, ss, m), Flattens(g, tt, n), m # 0, m <= n, \A i \in 1 .. m : ss[i] = tt[i]
    PROVE  f[m] = g[m]
<1> DEFINE T == {k \in Nat : k \in 1 .. m => f[k] = g[k]}
<1>1. 0 \in T
  OBVIOUS
<1>2. ASSUME NEW k \in T PROVE k + 1 \in T
  <2>1. CASE k + 1 \in 1 .. m /\ k = 0
    <3>1. m # 0 /\ n # 0 /\ 1 \in 1 .. m
      BY <2>1
    <3>2. f[1] = ss[1]
      BY <3>1, FlattensFirst
    <3>3. g[1] = tt[1]
      BY <3>1, FlattensFirst
    <3> QED BY <2>1, <3>1, <3>2, <3>3
  <2>2. CASE k + 1 \in 1 .. m /\ k # 0
    <3>1. f[k] = g[k] /\ ss[k + 1] = tt[k + 1] /\ k \in Nat /\ k < m /\ k < n
      <4>1. k \in Nat /\ (k \in 1 .. m => f[k] = g[k])
        OBVIOUS
      <4> HIDE DEF T
      <4>2. k \in 1 .. m /\ k < m /\ k < n
        BY <2>2, <4>1
      <4>3. ss[k + 1] = tt[k + 1]
        BY <2>2
      <4> QED BY <4>1, <4>2, <4>3
    <3> HIDE DEF T
    <3>2. f[k + 1] = f[k] \o ss[k + 1]
      BY <2>2, <3>1, FlattensNext
    <3>3. g[k + 1] = g[k] \o tt[k + 1]
      BY <2>2, <3>1, FlattensNext
    <3>4. k + 1 \in Nat /\ f[k + 1] = g[k + 1]
      BY <3>1, <3>2, <3>3
    <3> QED BY <3>4 DEF T
  <2> QED BY <2>1, <2>2
<1> HIDE DEF T
<1>3. T = Nat
  BY <1>1, <1>2, NatSetInduction DEF T
<1> QED BY <1>3 DEF T

\* FlattenSeq is the last partial result.
LEMMA FlattenSeqIs ==
    ASSUME NEW ss, Len(ss) \in Nat \ {0}
    PROVE  \E f : Flattens(f, ss, Len(ss)) /\ FlattenSeq(ss) = f[Len(ss)]
<1> DEFINE f == CHOOSE f : f = [i \in 1 .. Len(ss) |-> IF i = 1 THEN ss[i] ELSE f[i - 1] \o ss[i]]
<1>1. \E g : g = [i \in 1 .. Len(ss) |-> IF i = 1 THEN ss[i] ELSE g[i - 1] \o ss[i]]
  BY FlattensExists DEF Flattens
<1>2. f = [i \in 1 .. Len(ss) |-> IF i = 1 THEN ss[i] ELSE f[i - 1] \o ss[i]]
  BY <1>1
<1>3. FlattenSeq(ss) = f[Len(ss)]
  BY DEF FlattenSeq
<1> HIDE DEF f
<1>4. Flattens(f, ss, Len(ss))
  BY <1>2 DEF Flattens
<1> QED BY <1>3, <1>4

\* Nothing flattens to nothing.
LEMMA FlattenNone == ASSUME NEW ss, Len(ss) = 0 PROVE FlattenSeq(ss) = ss
BY DEF FlattenSeq

\* Induction over the sequences over S.
LEMMA SequenceInduction ==
    ASSUME NEW S, NEW T \in SUBSET Seq(S), <<>> \in T,
           \A s \in T, e \in S : Append(s, e) \in T
    PROVE  T = Seq(S)
<1> DEFINE N == {n \in Nat : \A s \in Seq(S) : Len(s) = n => s \in T}
<1>1. 0 \in N
  BY EmptySeq
<1>2. ASSUME NEW n \in N PROVE n + 1 \in N
  <2> SUFFICES ASSUME NEW s \in Seq(S), Len(s) = n + 1 PROVE s \in T
    OBVIOUS
  <2>1. n \in Nat
    OBVIOUS
  <2> DEFINE r == [i \in 1 .. n |-> s[i]]
  <2>2. r \in Seq(S) /\ Len(r) = n /\ s[n + 1] \in S
    BY <2>1
  <2>3. Append(r, s[n + 1]) = s
    BY <2>1
  <2>4. r \in T
    BY <2>2
  <2> QED BY <2>2, <2>3, <2>4
<1> HIDE DEF N
<1>3. N = Nat
  BY <1>1, <1>2, NatSetInduction DEF N
<1>4. ASSUME NEW s \in Seq(S) PROVE s \in T
  <2>1. Len(s) \in N
    BY <1>3
  <2> QED BY <2>1 DEF N
<1> QED BY <1>4

\* One more sequence comes at the end.
LEMMA FlattenAppend ==
    ASSUME NEW X, NEW ss \in Seq(X), NEW S, NEW s \in Seq(S)
    PROVE  FlattenSeq(Append(ss, s)) = FlattenSeq(ss) \o s
<1> DEFINE tt == Append(ss, s)
<1>0. PICK n \in Nat : n = Len(ss)
  OBVIOUS
<1>1. PICK m \in Nat : m = n + 1
  OBVIOUS
<1>2. Len(tt) = m /\ tt[m] = s /\ \A i \in 1 .. n : tt[i] = ss[i]
  BY <1>0, <1>1
<1> HIDE DEF tt
<1>3. PICK g : Flattens(g, tt, m) /\ FlattenSeq(tt) = g[m]
  BY <1>1, <1>2, FlattenSeqIs
<1>4. CASE n = 0
  <2>1. g[1] = tt[1] /\ m = 1
    BY <1>1, <1>3, <1>4, FlattensFirst
  <2>2. ss = <<>> /\ FlattenSeq(ss) = <<>>
    BY <1>0, <1>4, EmptySeq, FlattenNone
  <2>3. <<>> \o s = s
    OBVIOUS
  <2> QED BY <1>2, <1>3, <2>1, <2>2, <2>3 DEF tt
<1>5. CASE n # 0
  <2>1. PICK f : Flattens(f, ss, n) /\ FlattenSeq(ss) = f[n]
    BY <1>0, <1>5, FlattenSeqIs
  <2>2. n <= m /\ n \in 1 .. n /\ n < m
    BY <1>1, <1>5
  <2>3. f[n] = g[n]
    <3>1. Flattens(f, ss, n)
      BY <2>1
    <3>2. Flattens(g, tt, m)
      BY <1>3
    <3>3. \A i \in 1 .. n : ss[i] = tt[i]
      BY <1>2
    <3>4. n <= m
      BY <2>2
    <3> QED BY <1>5, <3>1, <3>2, <3>3, <3>4, FlattensAgree
  <2>4. g[n + 1] = g[n] \o tt[n + 1]
    BY <1>3, <1>5, <2>2, FlattensNext
  <2> QED BY <1>1, <1>2, <1>3, <2>1, <2>2, <2>3, <2>4 DEF tt
<1> QED BY <1>4, <1>5

\* Sequences over S flatten to a sequence over S.
LEMMA FlattenType ==
    ASSUME NEW S, NEW ss \in Seq(Seq(S))
    PROVE  FlattenSeq(ss) \in Seq(S)
<1> DEFINE T == {s \in Seq(Seq(S)) : FlattenSeq(s) \in Seq(S)}
<1>1. <<>> \in T
  BY FlattenNone, EmptySeq
<1>2. ASSUME NEW s \in T, NEW e \in Seq(S) PROVE Append(s, e) \in T
  <2>0. s \in Seq(Seq(S)) /\ FlattenSeq(s) \in Seq(S)
    OBVIOUS
  <2> HIDE DEF T
  <2>1. FlattenSeq(Append(s, e)) = FlattenSeq(s) \o e
    BY <2>0, FlattenAppend
  <2>2. Append(s, e) \in Seq(Seq(S)) /\ FlattenSeq(s) \o e \in Seq(S)
    BY <2>0
  <2> QED BY <2>1, <2>2 DEF T
<1> HIDE DEF T
<1>3. T \in SUBSET Seq(Seq(S))
  BY DEF T
<1>4. T = Seq(Seq(S))
  BY <1>1, <1>2, <1>3, SequenceInduction
<1> QED BY <1>4 DEF T

\* Flattening distributes over concatenation.
LEMMA FlattenConcat ==
    ASSUME NEW S, NEW ss \in Seq(Seq(S)), NEW tt \in Seq(Seq(S))
    PROVE  FlattenSeq(ss \o tt) = FlattenSeq(ss) \o FlattenSeq(tt)
<1> DEFINE T == {t \in Seq(Seq(S)) : FlattenSeq(ss \o t) = FlattenSeq(ss) \o FlattenSeq(t)}
<1>0. FlattenSeq(ss) \in Seq(S)
  BY FlattenType
<1>1. <<>> \in T
  <2>1. ss \o <<>> = ss /\ <<>> \in Seq(Seq(S))
    OBVIOUS
  <2>2. FlattenSeq(<<>>) = <<>> /\ FlattenSeq(ss) \o <<>> = FlattenSeq(ss)
    BY <1>0, FlattenNone
  <2> QED BY <2>1, <2>2
<1>2. ASSUME NEW t \in T, NEW e \in Seq(S) PROVE Append(t, e) \in T
  <2>0. t \in Seq(Seq(S)) /\ FlattenSeq(ss \o t) = FlattenSeq(ss) \o FlattenSeq(t)
    OBVIOUS
  <2> HIDE DEF T
  <2>1. ss \o Append(t, e) = Append(ss \o t, e) /\ ss \o t \in Seq(Seq(S))
    BY <2>0
  <2>2. FlattenSeq(Append(t, e)) = FlattenSeq(t) \o e
    BY <2>0, FlattenAppend
  <2>3. FlattenSeq(Append(ss \o t, e)) = FlattenSeq(ss \o t) \o e
    BY <2>1, FlattenAppend
  <2>4. (FlattenSeq(ss) \o FlattenSeq(t)) \o e = FlattenSeq(ss) \o (FlattenSeq(t) \o e)
    <3>1. PICK x, y : x = FlattenSeq(ss) /\ y = FlattenSeq(t)
      OBVIOUS
    <3>2. x \in Seq(S) /\ y \in Seq(S)
      BY <1>0, <2>0, <3>1, FlattenType
    <3>3. (x \o y) \o e = x \o (y \o e)
      BY <3>2
    <3> QED BY <3>1, <3>3
  <2>5. Append(t, e) \in Seq(Seq(S))
    BY <2>0
  <2> QED BY <2>0, <2>1, <2>2, <2>3, <2>4, <2>5 DEF T
<1> HIDE DEF T
<1>3. T \in SUBSET Seq(Seq(S))
  BY DEF T
<1>4. T = Seq(Seq(S))
  BY <1>1, <1>2, <1>3, SequenceInduction
<1> QED BY <1>4 DEF T

\* What has one element each, or none.
LEMMA FlattenSingletons ==
    ASSUME NEW S, NEW q \in Seq(S)
    PROVE  FlattenSeq([i \in DOMAIN q |-> <<q[i]>>]) = q
<1> DEFINE T == {s \in Seq(S) : FlattenSeq([i \in DOMAIN s |-> <<s[i]>>]) = s}
<1>1. <<>> \in T
  <2>1. [i \in DOMAIN <<>> |-> <<(<<>>)[i]>>] = <<>> /\ <<>> \in Seq(S)
    OBVIOUS
  <2> QED BY <2>1, FlattenNone
<1>2. ASSUME NEW s \in T, NEW e \in S PROVE Append(s, e) \in T
  <2>0. s \in Seq(S) /\ FlattenSeq([i \in DOMAIN s |-> <<s[i]>>]) = s
    OBVIOUS
  <2> DEFINE r == Append(s, e)
             ss == [i \in DOMAIN s |-> <<s[i]>>]
             rr == [i \in DOMAIN r |-> <<r[i]>>]
  <2> HIDE DEF T
  <2>1. ss \in Seq(Seq(S)) /\ <<e>> \in Seq(S)
    <3>1. \A i \in 1 .. Len(s) : <<s[i]>> \in Seq(S)
      BY <2>0
    <3>2. ss = [i \in 1 .. Len(s) |-> <<s[i]>>] /\ Len(s) \in Nat
      BY <2>0
    <3> QED BY <3>1, <3>2
  <2>2. rr = Append(ss, <<e>>)
    BY <2>0, <2>1
  <2> HIDE DEF ss, rr
  <2>3. FlattenSeq(rr) = FlattenSeq(ss) \o <<e>>
    BY <2>1, <2>2, FlattenAppend
  <2>4. s \o <<e>> = r /\ r \in Seq(S)
    BY <2>0
  <2>5. FlattenSeq(rr) = r
    BY <2>0, <2>3, <2>4 DEF ss
  <2> QED BY <2>4, <2>5 DEF T, rr, r
<1> HIDE DEF T
<1>3. T \in SUBSET Seq(S)
  BY DEF T
<1>4. T = Seq(S)
  BY <1>1, <1>2, <1>3, SequenceInduction
<1> QED BY <1>4 DEF T

LEMMA FlattenEmpties ==
    ASSUME NEW ss \in Seq({<<>>})
    PROVE  FlattenSeq(ss) = <<>>
<1>1. ss \in Seq(Seq({}))
  <2>1. \A e \in {<<>>} : e \in Seq({})
    OBVIOUS
  <2> QED BY <2>1, SeqMonotonic
<1>2. FlattenSeq(ss) \in Seq({})
  BY <1>1, FlattenType
<1> QED BY <1>2, EmptySeq

\* One sequence flattens to itself.
LEMMA FlattenOne ==
    ASSUME NEW S, NEW s \in Seq(S)
    PROVE  FlattenSeq(<<s>>) = s
<1>1. <<>> \in Seq({}) /\ Append(<<>>, s) = <<s>>
  OBVIOUS
<1>2. FlattenSeq(Append(<<>>, s)) = FlattenSeq(<<>>) \o s
  BY <1>1, FlattenAppend
<1>3. FlattenSeq(<<>>) = <<>> /\ <<>> \o s = s
  BY FlattenNone
<1> QED BY <1>1, <1>2, <1>3

\* A sequence is the concatenation of two when it is so element by element.
LEMMA ConcatIs ==
    ASSUME NEW S, NEW a \in Seq(S), NEW b \in Seq(S), NEW c \in Seq(S), Len(c) = Len(a) + Len(b),
           \A i \in 1 .. Len(a) : c[i] = a[i],
           \A i \in 1 .. Len(b) : c[Len(a) + i] = b[i]
    PROVE  c = a \o b
<1>1. a \o b \in Seq(S) /\ Len(a \o b) = Len(c)
  OBVIOUS
<1>2. \A i \in 1 .. Len(c) : c[i] = (a \o b)[i]
  <2> TAKE i \in 1 .. Len(c)
  <2>1. CASE i <= Len(a)
    BY <2>1
  <2>2. CASE i > Len(a)
    <3>1. i - Len(a) \in 1 .. Len(b) /\ i = Len(a) + (i - Len(a))
      BY <2>2
    <3>2. (a \o b)[i] = b[i - Len(a)]
      BY <2>2
    <3> QED BY <3>1, <3>2
  <2> QED BY <2>1, <2>2
<1> QED BY <1>1, <1>2, SeqEqual

\* A function on 1 .. n is a sequence of length n.
LEMMA SequenceOf ==
    ASSUME NEW S, NEW n \in Nat, NEW f \in [1 .. n -> S]
    PROVE  f \in Seq(S) /\ Len(f) = n
OBVIOUS
-----------------------------------------------------------------------------
\* Joined of the wire, with a function for its operator.
ImageOf(f, s)  == [k \in DOMAIN s |-> f[s[k]]]
JoinedBy(f, s) == FlattenSeq(ImageOf(f, s))
Maps(f, X, Y)  == f \in [X -> Y]
Yields(f, X, S) == Maps(f, X, Seq(S))

\* The images of the elements of a sequence.
LEMMA ImagesType ==
    ASSUME NEW X, NEW Y, NEW f, Maps(f, X, Y), NEW s \in Seq(X)
    PROVE  ImageOf(f, s) \in Seq(Y) /\ Len(ImageOf(f, s)) = Len(s)
<1> DEFINE a == [k \in DOMAIN s |-> f[s[k]]]
<1>1. Len(s) \in Nat /\ DOMAIN s = 1 .. Len(s)
  BY LenProperties
<1>2. \A k \in 1 .. Len(s) : s[k] \in X
  BY ElementOfSeq
<1>3. a \in [1 .. Len(s) -> Y]
  BY <1>1, <1>2 DEF Maps
<1> HIDE DEF a
<1>4. a \in Seq(Y) /\ Len(a) = Len(s)
  BY <1>1, <1>3, SequenceOf
<1> QED BY <1>4 DEF a, ImageOf

LEMMA ImageAt ==
    ASSUME NEW f, NEW s, NEW k \in DOMAIN s
    PROVE  ImageOf(f, s)[k] = f[s[k]]
BY DEF ImageOf

\* What is joined is a sequence of the elements the images hold.
LEMMA JoinedByType ==
    ASSUME NEW X, NEW S, NEW f, Yields(f, X, S), NEW s \in Seq(X)
    PROVE  JoinedBy(f, s) \in Seq(S)
<1>1. ImageOf(f, s) \in Seq(Seq(S))
  BY ImagesType DEF Yields
<1> QED BY <1>1, FlattenType DEF JoinedBy

\* Joining nothing, two sequences after one another, one element, and one more.
LEMMA JoinedByNone ==
    ASSUME NEW f
    PROVE  JoinedBy(f, <<>>) = <<>>
<1>1. [k \in DOMAIN <<>> |-> f[(<<>>)[k]]] = <<>>
  OBVIOUS
<1>2. Len(<<>>) = 0
  OBVIOUS
<1> QED BY <1>1, <1>2, FlattenNone DEF JoinedBy, ImageOf

LEMMA JoinedByConcat ==
    ASSUME NEW X, NEW S, NEW f, Yields(f, X, S), NEW s \in Seq(X), NEW t \in Seq(X)
    PROVE  JoinedBy(f, s \o t) = JoinedBy(f, s) \o JoinedBy(f, t)
<1>0. PICK u, Y : u = s \o t /\ Y = Seq(S)
  OBVIOUS
<1>1. /\ u \in Seq(X) /\ Len(u) = Len(s) + Len(t)
      /\ \A i \in 1 .. Len(s) : u[i] = s[i]
      /\ \A i \in 1 .. Len(t) : u[Len(s) + i] = t[i]
  BY <1>0, ConcatProperties
<1>2. /\ Len(s) \in Nat /\ DOMAIN s = 1 .. Len(s) /\ Len(t) \in Nat /\ DOMAIN t = 1 .. Len(t)
      /\ DOMAIN u = 1 .. Len(s) + Len(t)
  BY <1>1, LenProperties
<1>3. PICK a, b, c : a = ImageOf(f, s) /\ b = ImageOf(f, t) /\ c = ImageOf(f, u)
  OBVIOUS
<1>4. Maps(f, X, Y)
  BY <1>0 DEF Yields
<1>5. \A v \in Seq(X) : ImageOf(f, v) \in Seq(Y) /\ Len(ImageOf(f, v)) = Len(v)
  BY <1>4, ImagesType
<1>6. /\ a \in Seq(Y) /\ b \in Seq(Y) /\ c \in Seq(Y)
      /\ Len(a) = Len(s) /\ Len(b) = Len(t) /\ Len(c) = Len(s) + Len(t)
  BY <1>1, <1>3, <1>5
<1>7. \A i \in 1 .. Len(s) : c[i] = a[i]
  <2> TAKE i \in 1 .. Len(s)
  <2>1. i \in DOMAIN s /\ i \in DOMAIN u /\ u[i] = s[i]
    BY <1>1, <1>2
  <2> QED BY <1>3, <2>1, ImageAt
<1>8. \A i \in 1 .. Len(t) : c[Len(s) + i] = b[i]
  <2> TAKE i \in 1 .. Len(t)
  <2>1. PICK j : j = Len(s) + i
    OBVIOUS
  <2>2. i \in DOMAIN t /\ j \in DOMAIN u /\ u[j] = t[i]
    BY <1>1, <1>2, <2>1
  <2>3. c[j] = b[i]
    BY <1>3, <2>2, ImageAt
  <2> QED BY <2>1, <2>3
<1>9. c = a \o b
  <2>1. Len(c) = Len(a) + Len(b)
    BY <1>6
  <2>2. \A i \in 1 .. Len(a) : c[i] = a[i]
    BY <1>6, <1>7
  <2>3. \A i \in 1 .. Len(b) : c[Len(a) + i] = b[i]
    BY <1>6, <1>8
  <2>4. a \in Seq(Y) /\ b \in Seq(Y) /\ c \in Seq(Y)
    BY <1>6
  <2> QED BY <2>1, <2>2, <2>3, <2>4, ConcatIs
<1>10. FlattenSeq(c) = FlattenSeq(a) \o FlattenSeq(b)
  BY <1>0, <1>6, <1>9, FlattenConcat
<1> QED BY <1>0, <1>3, <1>10 DEF JoinedBy

LEMMA JoinedByOne ==
    ASSUME NEW X, NEW S, NEW f, Yields(f, X, S), NEW e \in X
    PROVE  JoinedBy(f, <<e>>) = f[e]
<1>1. f[e] \in Seq(S)
  BY DEF Yields, Maps
<1>2. [k \in DOMAIN <<e>> |-> f[<<e>>[k]]] = <<f[e]>>
  OBVIOUS
<1> QED BY <1>1, <1>2, FlattenOne DEF JoinedBy, ImageOf

LEMMA JoinedByAppend ==
    ASSUME NEW X, NEW S, NEW f, Yields(f, X, S), NEW s \in Seq(X), NEW e \in X
    PROVE  JoinedBy(f, Append(s, e)) = JoinedBy(f, s) \o f[e]
<1>0. PICK t : t = <<e>>
  OBVIOUS
<1>1. Append(s, e) = s \o t
  BY <1>0, AppendIsConcat
<1>2. t \in Seq(X)
  BY <1>0
<1>3. JoinedBy(f, s \o t) = JoinedBy(f, s) \o JoinedBy(f, t)
  BY <1>2, JoinedByConcat
<1>4. JoinedBy(f, t) = f[e]
  BY <1>0, JoinedByOne
<1> QED BY <1>1, <1>3, <1>4

\* What has empty images joins to nothing.
LEMMA JoinedByEmpty ==
    ASSUME NEW X, NEW f, Maps(f, X, {<<>>}), NEW s \in Seq(X)
    PROVE  JoinedBy(f, s) = <<>>
<1>1. ImageOf(f, s) \in Seq({<<>>})
  BY ImagesType
<1> QED BY <1>1, FlattenEmpties DEF JoinedBy

\* Joining what was joined.
LEMMA JoinedByTwice ==
    ASSUME NEW X, NEW Y, NEW S, NEW g, Yields(g, X, Y), NEW f, Yields(f, Y, S), NEW s \in Seq(X),
           NEW h, Yields(h, X, S), \A x \in X : h[x] = JoinedBy(f, g[x])
    PROVE  JoinedBy(f, JoinedBy(g, s)) = JoinedBy(h, s)
<1> DEFINE T == {t \in Seq(X) : JoinedBy(f, JoinedBy(g, t)) = JoinedBy(h, t)}
<1>1. /\ T \in SUBSET Seq(X)
      /\ \A t \in Seq(X) : t \in T <=> JoinedBy(f, JoinedBy(g, t)) = JoinedBy(h, t)
  OBVIOUS
<1> HIDE DEF T
<1>2. <<>> \in T
  <2>1. <<>> \in Seq(X)
    OBVIOUS
  <2> QED BY <1>1, <2>1, JoinedByNone
<1>3. \A t \in T, e \in X : Append(t, e) \in T
  <2> TAKE t \in T, e \in X
  <2>1. t \in Seq(X) /\ JoinedBy(f, JoinedBy(g, t)) = JoinedBy(h, t)
    BY <1>1
  <2>2. JoinedBy(g, Append(t, e)) = JoinedBy(g, t) \o g[e]
    BY <2>1, JoinedByAppend
  <2>3. PICK p, q : p = JoinedBy(g, t) /\ q = g[e]
    OBVIOUS
  <2>4. p \in Seq(Y) /\ q \in Seq(Y)
    BY <2>1, <2>3, JoinedByType DEF Yields, Maps
  <2>5. JoinedBy(f, p \o q) = JoinedBy(f, p) \o JoinedBy(f, q)
    BY <2>4, JoinedByConcat
  <2>6. JoinedBy(h, Append(t, e)) = JoinedBy(h, t) \o h[e]
    BY <2>1, JoinedByAppend
  <2>7. Append(t, e) \in Seq(X)
    BY <2>1
  <2> QED BY <1>1, <2>1, <2>2, <2>3, <2>5, <2>6, <2>7
<1>4. T = Seq(X)
  BY <1>1, <1>2, <1>3, SequenceInduction
<1> QED BY <1>1, <1>4
-----------------------------------------------------------------------------
\* The text of a reply, and the calls in it.
LEMMA TextOfBlocks ==
    ASSUME NEW blocks \in Seq(ReplyBlocks)
    PROVE  /\ [k \in DOMAIN blocks |-> TextIn(blocks[k])] \in Seq(Seq(Words))
           /\ Joined(blocks, TextIn) \in Seq(Words)
<1> DEFINE ss == [k \in DOMAIN blocks |-> TextIn(blocks[k])]
<1>1. \A k \in 1 .. Len(blocks) : TextIn(blocks[k]) \in Seq(Words)
  <2> TAKE k \in 1 .. Len(blocks)
  <2>1. blocks[k] \in ReplyBlocks
    OBVIOUS
  <2> QED BY <2>1 DEF ReplyBlocks, TextIn
<1>2. ss \in Seq(Seq(Words))
  BY <1>1
<1> HIDE DEF ss
<1>3. FlattenSeq(ss) \in Seq(Words)
  BY <1>2, FlattenType
<1> QED BY <1>2, <1>3 DEF Joined, ss

LEMMA CallsOfBlocks ==
    ASSUME NEW blocks \in Seq(ReplyBlocks)
    PROVE  /\ [k \in DOMAIN blocks |-> CallsIn(blocks[k])] \in Seq(Seq(Calls))
           /\ Joined(blocks, CallsIn) \in Seq(Calls)
<1> DEFINE ss == [k \in DOMAIN blocks |-> CallsIn(blocks[k])]
<1>1. \A k \in 1 .. Len(blocks) : CallsIn(blocks[k]) \in Seq(Calls)
  <2> TAKE k \in 1 .. Len(blocks)
  <2>1. blocks[k] \in ReplyBlocks
    OBVIOUS
  <2> QED BY <2>1 DEF ReplyBlocks, CallsIn
<1>2. ss \in Seq(Seq(Calls))
  BY <1>1
<1> HIDE DEF ss
<1>3. FlattenSeq(ss) \in Seq(Calls)
  BY <1>2, FlattenType
<1> QED BY <1>2, <1>3 DEF Joined, ss

\* The calls in two parts of a reply.
LEMMA CallsOfBoth ==
    ASSUME NEW s \in Seq(ReplyBlocks), NEW t \in Seq(ReplyBlocks)
    PROVE  Joined(s \o t, CallsIn) = Joined(s, CallsIn) \o Joined(t, CallsIn)
<1> DEFINE a == [k \in DOMAIN s |-> CallsIn(s[k])]
           b == [k \in DOMAIN t |-> CallsIn(t[k])]
           c == [k \in DOMAIN (s \o t) |-> CallsIn((s \o t)[k])]
<1>1. s \o t \in Seq(ReplyBlocks) /\ Len(s \o t) = Len(s) + Len(t)
  OBVIOUS
<1>2. a \in Seq(Seq(Calls)) /\ b \in Seq(Seq(Calls)) /\ c \in Seq(Seq(Calls))
  BY <1>1, CallsOfBlocks
<1>3. Len(a) = Len(s) /\ Len(b) = Len(t) /\ Len(c) = Len(s) + Len(t)
  BY <1>1
<1>4. \A i \in 1 .. Len(s) : c[i] = a[i]
  BY <1>1
<1>5. \A i \in 1 .. Len(t) : c[Len(s) + i] = b[i]
  BY <1>1
<1> HIDE DEF a, b, c
<1>6. c = a \o b
  <2>1. Len(c) = Len(a) + Len(b)
    BY <1>3
  <2>2. \A i \in 1 .. Len(a) : c[i] = a[i]
    BY <1>3, <1>4
  <2>3. \A i \in 1 .. Len(b) : c[Len(a) + i] = b[i]
    BY <1>3, <1>5
  <2> QED BY <1>2, <2>1, <2>2, <2>3, ConcatIs
<1>7. FlattenSeq(c) = FlattenSeq(a) \o FlattenSeq(b)
  BY <1>2, <1>6, FlattenConcat
<1> QED BY <1>7 DEF Joined, a, b, c

\* A block of text holds no call; blocks of tool use hold theirs.
LEMMA CallsInText ==
    ASSUME NEW t \in Seq(Words)
    PROVE  LET block == Unless(t = <<>>, <<TextBlock(t)>>)
           IN  block \in Seq(ReplyBlocks) /\ Joined(block, CallsIn) = <<>>
<1>1. TextBlock(t) \in ReplyBlocks /\ CallsIn(TextBlock(t)) = <<>>
  BY DEF TextBlock, ReplyBlocks, CallsIn
<1>2. CASE t = <<>>
  <2>1. Joined(<<>>, CallsIn) = <<>>
    <3>1. [k \in DOMAIN <<>> |-> CallsIn((<<>>)[k])] = <<>>
      OBVIOUS
    <3> QED BY <3>1, FlattenNone DEF Joined
  <2> QED BY <1>2, <2>1 DEF Unless
<1>3. CASE t # <<>>
  <2> DEFINE b == TextBlock(t)
  <2> HIDE DEF b
  <2>1. <<b>> \in Seq(ReplyBlocks)
    BY <1>1 DEF b
  <2>2. [k \in DOMAIN <<b>> |-> CallsIn(<<b>>[k])] = << <<>> >>
    BY <1>1 DEF b
  <2>3. Joined(<<b>>, CallsIn) = <<>>
    BY <2>2, FlattenOne, EmptySeq DEF Joined
  <2> QED BY <1>3, <2>1, <2>3 DEF Unless, b
<1> QED BY <1>2, <1>3

LEMMA CallsInUses ==
    ASSUME NEW calls \in Seq(Calls)
    PROVE  LET blocks == [i \in DOMAIN calls |-> ToolUse(calls[i])]
           IN  blocks \in Seq(ReplyBlocks) /\ Joined(blocks, CallsIn) = calls
<1> DEFINE blocks == [i \in DOMAIN calls |-> ToolUse(calls[i])]
<1>1. \A i \in DOMAIN calls :
         ToolUse(calls[i]) \in ReplyBlocks /\ CallsIn(ToolUse(calls[i])) = <<calls[i]>>
  BY DEF ToolUse, ReplyBlocks, CallsIn
<1>2. blocks \in Seq(ReplyBlocks)
  BY <1>1
<1>3. [k \in DOMAIN blocks |-> CallsIn(blocks[k])] = [i \in DOMAIN calls |-> <<calls[i]>>]
  BY <1>1
<1>4. FlattenSeq([i \in DOMAIN calls |-> <<calls[i]>>]) = calls
  BY FlattenSingletons
<1> QED BY <1>2, <1>3, <1>4 DEF Joined

Numbered(tools, last, i) ==
    [id |-> <<"native", ids + i>>, tool |-> tools[i],
     args |-> IF i = Len(tools) THEN last ELSE Arguments]

\* A reply of the server holds one call for each tool, its ids counted on.
LEMMA ReplyType ==
    ASSUME ids \in Nat,
           NEW before \in Seq(Words), NEW tools \in Seq(Tools), NEW last \in Seq(Words),
           NEW after \in Seq(Words)
    PROVE  /\ Reply(before, tools, last, after) \in Seq(ReplyBlocks)
           /\ Joined(Reply(before, tools, last, after), CallsIn)
                = [i \in DOMAIN tools |->
                     Numbered(tools, last, i)]
<1> DEFINE p == Unless(before = <<>>, <<TextBlock(before)>>)
           calls == [i \in DOMAIN tools |->
                       Numbered(tools, last, i)]
           q == [i \in DOMAIN calls |-> ToolUse(calls[i])]
           r == Unless(after = <<>>, <<TextBlock(after)>>)
<1>1. calls \in Seq(Calls)
  <2>1. Arguments \in Seq(Words)
    BY DEF Arguments, Words
  <2>2. \A i \in 1 .. Len(tools) :
           Numbered(tools, last, i) \in Calls
    <3> TAKE i \in 1 .. Len(tools)
    <3>1. tools[i] \in Tools /\ ids + i \in Nat
      OBVIOUS
    <3>2. <<"native", ids + i>> \in CallIds
      BY <3>1 DEF CallIds
    <3> QED BY <2>1, <3>1, <3>2 DEF Calls, Numbered
  <2>3. Len(tools) \in Nat /\ calls \in [1 .. Len(tools) -> Calls]
    BY <2>2
  <2> HIDE DEF calls
  <2> QED BY <2>3, SequenceOf
<1>2. /\ p \in Seq(ReplyBlocks) /\ Joined(p, CallsIn) = <<>>
      /\ r \in Seq(ReplyBlocks) /\ Joined(r, CallsIn) = <<>>
  BY CallsInText
<1>3. q = [i \in DOMAIN tools |->
             ToolUse(Numbered(tools, last, i))]
  OBVIOUS
<1>4. Reply(before, tools, last, after) = (p \o q) \o r
  BY <1>3 DEF Reply, Numbered
<1> HIDE DEF p, calls, r
<1>5. q \in Seq(ReplyBlocks) /\ Joined(q, CallsIn) = calls
  BY <1>1, CallsInUses
<1> HIDE DEF q
<1>6. p \o q \in Seq(ReplyBlocks) /\ (p \o q) \o r \in Seq(ReplyBlocks)
  BY <1>2, <1>5
<1>7. Joined((p \o q) \o r, CallsIn)
        = (Joined(p, CallsIn) \o Joined(q, CallsIn)) \o Joined(r, CallsIn)
  <2>1. PICK x : x = p \o q
    OBVIOUS
  <2>2. x \in Seq(ReplyBlocks) /\ Joined(x, CallsIn) = Joined(p, CallsIn) \o Joined(q, CallsIn)
    BY <1>2, <1>5, <1>6, <2>1, CallsOfBoth
  <2>3. Joined(x \o r, CallsIn) = Joined(x, CallsIn) \o Joined(r, CallsIn)
    BY <1>2, <2>2, CallsOfBoth
  <2> QED BY <2>1, <2>2, <2>3
<1>8. (<<>> \o calls) \o <<>> = calls
  BY <1>1
<1> QED BY <1>2, <1>4, <1>5, <1>6, <1>7, <1>8 DEF calls

\* Ids that are numbered differ.
LEMMA NumberedIds ==
    ASSUME NEW kind \in {"native", "recovered", "call"}, NEW d \in Int, NEW calls, NEW n \in Nat,
           DOMAIN calls = 1 .. n, \A i \in 1 .. n : calls[i].id = <<kind, i + d>>
    PROVE  IsInjective(IdsOf(calls))
<1>1. \A i, j \in 1 .. n : calls[i].id = calls[j].id => i = j
  <2> TAKE i, j \in 1 .. n
  <2>1. <<kind, i + d>> = <<kind, j + d>> => i = j
    OBVIOUS
  <2> QED BY <2>1
<1> QED BY <1>1 DEF IsInjective, IdsOf

\* No id occurs twice in a reply,
LEMMA ReplyIds ==
    ASSUME ids \in Nat, ConversationAssumption, NEW blocks \in Replies
    PROVE  blocks \in Seq(ReplyBlocks) /\ IsInjective(IdsOf(Joined(blocks, CallsIn)))
<1>1. PICK b \in {<<>>, <<"prose">>}, t \in BoundedSeq(Tools, MaxCalls),
              l \in LastArguments, a \in Endings :
        blocks = Reply(b, t, l, a)
  BY DEF Replies
<1>2. b \in Seq(Words)
  <2>1. "prose" \in Words
    BY DEF Words
  <2>2. <<>> \in Seq(Words) /\ <<"prose">> \in Seq(Words)
    BY <2>1
  <2> QED BY <2>2
<1>3. a \in Seq(Words)
  <2>1. "prose" \in Words /\ "json" \in Words /\ "json_call" \in Words
    BY DEF Words
  <2>2. /\ <<>> \in Seq(Words) /\ <<"prose">> \in Seq(Words)
        /\ <<"json", "json_call">> \in Seq(Words) /\ <<"json_call", "json_call">> \in Seq(Words)
    BY <2>1
  <2> QED BY <2>2 DEF Endings
<1>4. t \in Seq(Tools)
  BY ConversationAssumption DEF BoundedSeq, SeqOf, ConversationAssumption
<1>l. l \in Seq(Words)
  <2>1. "object" \in Words /\ "rest" \in Words /\ "broken" \in Words
    BY DEF Words
  <2>2. <<>> \in Seq(Words) /\ Arguments \in Seq(Words) /\ <<"object", "broken">> \in Seq(Words)
    BY <2>1 DEF Arguments
  <2> QED BY <2>2 DEF LastArguments
<1> DEFINE calls == [i \in DOMAIN t |-> Numbered(t, l, i)]
<1>5. blocks \in Seq(ReplyBlocks) /\ Joined(blocks, CallsIn) = calls
  BY <1>1, <1>2, <1>3, <1>4, <1>l, ReplyType
<1>6. IsInjective(IdsOf(calls))
  <2>1. DOMAIN calls = 1 .. Len(t) /\ Len(t) \in Nat /\ ids \in Int
    BY <1>4
  <2>2. \A i \in 1 .. Len(t) : calls[i].id = <<"native", i + ids>>
    BY <1>4 DEF Numbered
  <2> HIDE DEF calls
  <2> QED BY <2>1, <2>2, NumberedIds
<1> QED BY <1>5, <1>6

\* nor in the response an adapter makes of it,
LEMMA ReceivedType ==
    ASSUME NEW adapter \in Adapters, NEW c \in Calls, NEW i \in Nat \ {0}
    PROVE  /\ Received(adapter, c, i) \in Calls
           /\ Received(adapter, c, i).id = IF adapter = "ollama" THEN OllamaId(i) ELSE c.id
<1>1. c.args \in Seq(Words) /\ Null \in Seq(Words)
  <2>1. "null" \in Words
    BY DEF Words
  <2> QED BY <2>1 DEF Calls, Null
<1>2. PICK d : d = Decoded(c.args)
  OBVIOUS
<1>3. d \in Seq(Words)
  BY <1>1, <1>2 DEF Decoded
<1>4. PICK o : o = OllamaId(i)
  OBVIOUS
<1>5. o \in CallIds
  BY <1>4 DEF OllamaId, CallIds
<1>6. CASE adapter = "openai"
  <2>1. Received(adapter, c, i) = [c EXCEPT !.args = d]
    BY <1>2, <1>6 DEF Received
  <2> QED BY <1>3, <1>6, <2>1 DEF Calls
<1>7. CASE adapter = "anthropic"
  <2>1. Received(adapter, c, i) = c
    BY <1>7 DEF Received
  <2> QED BY <1>7, <2>1
<1>8. CASE adapter = "ollama"
  <2>1. Received(adapter, c, i) = [c EXCEPT !.id = o]
    BY <1>4, <1>8 DEF Received
  <2> QED BY <1>4, <1>5, <1>8, <2>1 DEF Calls
<1> QED BY <1>6, <1>7, <1>8 DEF Adapters

LEMMA ResponseType ==
    ASSUME NEW adapter \in Adapters, NEW blocks \in Seq(ReplyBlocks),
           IsInjective(IdsOf(Joined(blocks, CallsIn)))
    PROVE  /\ Response(adapter, blocks).text \in Seq(Words)
           /\ Response(adapter, blocks).calls \in Seq(Calls)
           /\ IsInjective(IdsOf(Response(adapter, blocks).calls))
<1> DEFINE calls == Joined(blocks, CallsIn)
           received == [i \in DOMAIN calls |-> Received(adapter, calls[i], i)]
<1>1. calls \in Seq(Calls) /\ Joined(blocks, TextIn) \in Seq(Words)
  BY TextOfBlocks, CallsOfBlocks
<1>2. /\ Response(adapter, blocks).text = Joined(blocks, TextIn)
      /\ Response(adapter, blocks).calls = received
  BY DEF Response
<1> HIDE DEF calls
<1>d. DOMAIN calls = 1 .. Len(calls) /\ Len(calls) \in Nat
  BY <1>1
<1>3. \A i \in 1 .. Len(calls) :
         /\ received[i] \in Calls
         /\ received[i].id = IF adapter = "ollama" THEN OllamaId(i) ELSE calls[i].id
  <2> TAKE i \in 1 .. Len(calls)
  <2>1. calls[i] \in Calls /\ i \in Nat \ {0} /\ received[i] = Received(adapter, calls[i], i)
    BY <1>1, <1>d
  <2> HIDE DEF received
  <2>2. /\ Received(adapter, calls[i], i) \in Calls
        /\ Received(adapter, calls[i], i).id
             = IF adapter = "ollama" THEN OllamaId(i) ELSE calls[i].id
    BY <2>1, ReceivedType
  <2> QED BY <2>1, <2>2
<1>4. received \in Seq(Calls)
  <2>1. received \in [1 .. Len(calls) -> Calls]
    BY <1>d, <1>3
  <2> HIDE DEF received
  <2> QED BY <1>d, <2>1, SequenceOf
<1>5. DOMAIN received = 1 .. Len(calls)
  BY <1>d
<1> HIDE DEF received
<1>6. IsInjective(IdsOf(received))
  <2>1. CASE adapter = "ollama"
    <3>1. \A i \in 1 .. Len(calls) : received[i].id = <<"call", i + (-1)>>
      <4> TAKE i \in 1 .. Len(calls)
      <4>1. i - 1 = i + (-1)
        BY <1>d
      <4> QED BY <1>3, <2>1, <4>1 DEF OllamaId
    <3>2. -1 \in Int
      OBVIOUS
    <3> QED BY <1>d, <1>5, <3>1, <3>2, NumberedIds
  <2>2. CASE adapter # "ollama"
    <3>1. \A i \in 1 .. Len(calls) : received[i].id = calls[i].id
      BY <1>3, <2>2
    <3>2. IdsOf(received) = IdsOf(calls)
      BY <1>d, <1>5, <3>1 DEF IdsOf
    <3>3. IsInjective(IdsOf(calls))
      BY DEF calls
    <3> QED BY <3>2, <3>3
  <2> QED BY <2>1, <2>2
<1> QED BY <1>1, <1>2, <1>4, <1>6

\* nor among the calls recovered from a text.
LEMMA RecoveredType ==
    ASSUME ConversationAssumption, NEW text \in Seq(Words)
    PROVE  Recovered(text) \in Seq(Calls) /\ IsInjective(IdsOf(Recovered(text)))
<1> DEFINE ss == [k \in DOMAIN text |-> IF text[k] = "json_call" THEN <<text[k]>> ELSE <<>>]
           found == FlattenSeq(ss)
           tool == CHOOSE x \in Tools : TRUE
           calls == [i \in DOMAIN found |->
                       [id |-> <<"recovered", i - 1>>, tool |-> tool, args |-> Arguments]]
<1>1. Recovered(text) = calls
  BY DEF Recovered, Joined
<1>2. ss \in Seq(Seq(Words))
  <2>1. \A k \in 1 .. Len(text) :
           (IF text[k] = "json_call" THEN <<text[k]>> ELSE <<>>) \in Seq(Words)
    OBVIOUS
  <2>2. Len(text) \in Nat /\ ss \in [1 .. Len(text) -> Seq(Words)]
    BY <2>1
  <2> HIDE DEF ss
  <2> QED BY <2>2, SequenceOf
<1> HIDE DEF ss
<1>3. found \in Seq(Words)
  BY <1>2, FlattenType
<1> HIDE DEF found
<1>4. tool \in Tools
  BY ConversationAssumption DEF ConversationAssumption
<1> HIDE DEF tool
<1>5. calls \in Seq(Calls)
  <2>1. Arguments \in Seq(Words)
    BY DEF Arguments, Words
  <2>2. \A i \in 1 .. Len(found) :
           [id |-> <<"recovered", i - 1>>, tool |-> tool, args |-> Arguments] \in Calls
    <3> TAKE i \in 1 .. Len(found)
    <3>1. i - 1 \in Nat
      BY <1>3
    <3>2. <<"recovered", i - 1>> \in CallIds
      BY <3>1 DEF CallIds
    <3> QED BY <1>4, <2>1, <3>2 DEF Calls
  <2>3. Len(found) \in Nat /\ calls \in [1 .. Len(found) -> Calls]
    BY <1>3, <2>2
  <2> HIDE DEF calls
  <2> QED BY <2>3, SequenceOf
<1>6. IsInjective(IdsOf(calls))
  <2>1. DOMAIN calls = 1 .. Len(found) /\ Len(found) \in Nat /\ -1 \in Int
    BY <1>3
  <2>2. \A i \in 1 .. Len(found) : calls[i].id = <<"recovered", i + (-1)>>
    BY <1>3
  <2> HIDE DEF calls
  <2> QED BY <2>1, <2>2, NumberedIds
<1> QED BY <1>1, <1>5, <1>6
-----------------------------------------------------------------------------
\* The messages an OpenAI request is made of.
Roles == {"system", "user", "assistant", "tool"}

OpenAiWire ==
    [role : Roles, text : Seq(Words) \cup Seq(Nat), calls : Seq(Calls),
     answers : CallIds \cup {<<>>}]

\* The OpenAI wire messages of one message, and of one message more.
LEMMA OpenAiMessageType ==
    ASSUME NEW m \in Messages
    PROVE  OpenAiMessages(m) \in Seq(OpenAiWire)
<1>1. /\ m.role \in Roles /\ m.text \in Seq(Words) /\ m.calls \in Seq(Calls)
      /\ m.results \in Seq([id : CallIds, text : Seq(Nat)])
  BY DEF Messages, Roles
<1>2. CASE m.role = "tool" /\ m.results # <<>>
  <2> DEFINE WireResult(k) == [role |-> "tool", text |-> m.results[k].text, calls |-> <<>>,
                               answers |-> m.results[k].id]
             rs == [k \in DOMAIN m.results |-> WireResult(k)]
  <2>1. \A k \in 1 .. Len(m.results) : WireResult(k) \in OpenAiWire
    <3> TAKE k \in 1 .. Len(m.results)
    <3>1. m.results[k] \in [id : CallIds, text : Seq(Nat)]
      <4>1. m.results \in Seq([id : CallIds, text : Seq(Nat)])
        BY <1>1
      <4> QED BY <4>1, ElementOfSeq
    <3>2. m.results[k].id \in CallIds /\ m.results[k].text \in Seq(Nat)
      BY <3>1
    <3>3. <<>> \in Seq(Calls) /\ "tool" \in Roles
      BY DEF Roles
    <3> QED BY <3>2, <3>3 DEF OpenAiWire
  <2> HIDE DEF WireResult
  <2>2. Len(m.results) \in Nat /\ rs \in [1 .. Len(m.results) -> OpenAiWire]
    BY <1>1, <2>1
  <2> HIDE DEF rs
  <2>3. rs \in Seq(OpenAiWire)
    BY <2>2, SequenceOf
  <2> QED BY <1>2, <2>3 DEF OpenAiMessages, rs, WireResult
<1>3. CASE ~ (m.role = "tool" /\ m.results # <<>>)
  <2>1. [role |-> m.role, text |-> m.text, calls |-> m.calls, answers |-> <<>>] \in OpenAiWire
    BY <1>1 DEF OpenAiWire
  <2> QED BY <1>3, <2>1 DEF OpenAiMessages
<1> QED BY <1>2, <1>3

LEMMA OpenAiAppend ==
    ASSUME NEW ms \in Seq(Messages), NEW m \in Messages
    PROVE  OpenAiRequest(Append(ms, m)) = OpenAiRequest(ms) \o OpenAiMessages(m)
<1> DEFINE a == [k \in DOMAIN ms |-> OpenAiMessages(ms[k])]
           b == [k \in DOMAIN Append(ms, m) |-> OpenAiMessages(Append(ms, m)[k])]
<1>1. OpenAiMessages(m) \in Seq(OpenAiWire)
  BY OpenAiMessageType
<1>2. a \in Seq(Seq(OpenAiWire))
  <2>1. \A k \in 1 .. Len(ms) : OpenAiMessages(ms[k]) \in Seq(OpenAiWire)
    <3> TAKE k \in 1 .. Len(ms)
    <3>1. ms[k] \in Messages
      BY ElementOfSeq
    <3> QED BY <3>1, OpenAiMessageType
  <2>2. Len(ms) \in Nat /\ a \in [1 .. Len(ms) -> Seq(OpenAiWire)]
    BY <2>1
  <2> QED BY <2>2, SequenceOf
<1>3. b = Append(a, OpenAiMessages(m))
  BY <1>1, <1>2
<1> HIDE DEF a, b
<1>4. FlattenSeq(b) = FlattenSeq(a) \o OpenAiMessages(m)
  BY <1>1, <1>2, <1>3, FlattenAppend
<1> QED BY <1>4 DEF OpenAiRequest, Joined, a, b

\* Two lists of wire messages, each with its calls answered, one after the other.
LEMMA OpenAiPairsConcat ==
    ASSUME NEW s \in Seq(OpenAiWire), NEW t \in Seq(OpenAiWire),
           OpenAiPairs(s), OpenAiPairs(t)
    PROVE  OpenAiPairs(s \o t)
<1> DEFINE u == s \o t
<1>1. PICK n \in Nat, p \in Nat : n = Len(s) /\ p = Len(t)
  OBVIOUS
<1>2. /\ u \in Seq(OpenAiWire) /\ DOMAIN u = 1 .. n + p /\ DOMAIN s = 1 .. n /\ DOMAIN t = 1 .. p
      /\ \A i \in 1 .. n : u[i] = s[i]
      /\ \A i \in 1 .. p : u[n + i] = t[i]
  BY <1>1
<1> HIDE DEF u
<1>3. ASSUME NEW k \in 1 .. n + p, u[k].calls # <<>>, NEW i \in DOMAIN u[k].calls
      PROVE  k + i \in DOMAIN u /\ u[k + i].answers = u[k].calls[i].id
  <2>1. CASE k <= n
    <3>1. k \in 1 .. n /\ u[k] = s[k]
      BY <1>2, <2>1
    <3>2. k + i \in DOMAIN s /\ s[k + i].answers = s[k].calls[i].id
      BY <1>2, <1>3, <3>1 DEF OpenAiPairs
    <3> QED BY <1>2, <3>1, <3>2
  <2>2. CASE k > n
    <3>1. PICK j \in 1 .. p : k = n + j
      <4>1. k - n \in 1 .. p /\ k = n + (k - n)
        BY <2>2
      <4> QED BY <4>1
    <3>2. u[k] = t[j]
      BY <1>2, <3>1
    <3>3. j + i \in DOMAIN t /\ t[j + i].answers = t[j].calls[i].id
      <4>1. j \in DOMAIN t /\ t[j].calls # <<>> /\ i \in DOMAIN t[j].calls
        BY <1>2, <1>3, <3>2
      <4> QED BY <4>1 DEF OpenAiPairs
    <3>4. i \in Nat
      <4>1. t[j] \in OpenAiWire
        BY <1>2, ElementOfSeq
      <4>2. t[j].calls \in Seq(Calls)
        BY <4>1 DEF OpenAiWire
      <4> QED BY <1>3, <3>2, <4>2
    <3>5. k + i = n + (j + i)
      BY <3>1, <3>4
    <3> QED BY <1>2, <3>2, <3>3, <3>5
  <2> QED BY <2>1, <2>2
<1>4. ASSUME NEW k \in 1 .. n + p, u[k].role = "tool"
      PROVE  \E j \in 1 .. k - 1 :
                k - j \in DOMAIN u[j].calls /\ u[k].answers = u[j].calls[k - j].id
  <2>1. CASE k <= n
    <3>1. k \in 1 .. n /\ u[k] = s[k]
      BY <1>2, <2>1
    <3>2. PICK j \in 1 .. k - 1 : k - j \in DOMAIN s[j].calls /\ s[k].answers = s[j].calls[k - j].id
      BY <1>2, <1>4, <3>1 DEF OpenAiPairs
    <3>3. j \in 1 .. n /\ u[j] = s[j]
      BY <1>2, <3>1
    <3> QED BY <3>1, <3>2, <3>3
  <2>2. CASE k > n
    <3>1. PICK h \in 1 .. p : k = n + h
      <4>1. k - n \in 1 .. p /\ k = n + (k - n)
        BY <2>2
      <4> QED BY <4>1
    <3>2. u[k] = t[h]
      BY <1>2, <3>1
    <3>3. PICK j \in 1 .. h - 1 : h - j \in DOMAIN t[j].calls /\ t[h].answers = t[j].calls[h - j].id
      BY <1>2, <1>4, <3>2 DEF OpenAiPairs
    <3>4. n + j \in 1 .. k - 1 /\ k - (n + j) = h - j /\ j \in 1 .. p
      <4>1. j \in Nat /\ h \in Nat /\ j >= 1 /\ j <= h - 1 /\ h <= p
        OBVIOUS
      <4> QED BY <3>1, <4>1
    <3>5. u[n + j] = t[j]
      BY <1>2, <3>4
    <3> QED BY <3>2, <3>3, <3>4, <3>5
  <2> QED BY <2>1, <2>2
<1> QED BY <1>2, <1>3, <1>4 DEF OpenAiPairs, u
-----------------------------------------------------------------------------
\* The two messages one round of calls adds to the conversation.
LEMMA ExchangeShape ==
    ASSUME executed \in Nat, NEW text \in Seq(Words), NEW calls \in Seq(Calls), calls # <<>>
    PROVE  /\ Assistant(text, calls)
                = [role |-> "assistant", text |-> text, calls |-> calls, results |-> <<>>]
           /\ ToolMessage(Executed(calls))
                = [role |-> "tool", text |-> <<>>, calls |-> <<>>, results |-> Executed(calls)]
           /\ Assistant(text, calls) \in Messages /\ ToolMessage(Executed(calls)) \in Messages
           /\ Executed(calls) \in Seq([id : CallIds, text : Seq(Nat)])
           /\ Len(Executed(calls)) = Len(calls) /\ Executed(calls) # <<>>
           /\ \A i \in 1 .. Len(calls) :
                Executed(calls)[i].id = calls[i].id /\ Executed(calls)[i].text = <<executed + i>>
<1> DEFINE Done(i) == [id |-> calls[i].id, text |-> <<executed + i>>]
           rs == [i \in DOMAIN calls |-> Done(i)]
<1>1. Executed(calls) = rs
  BY DEF Executed
<1>2. \A i \in 1 .. Len(calls) : Done(i) \in [id : CallIds, text : Seq(Nat)]
  <2> TAKE i \in 1 .. Len(calls)
  <2>1. calls[i] \in Calls /\ executed + i \in Nat
    BY ElementOfSeq
  <2>2. calls[i].id \in CallIds /\ <<executed + i>> \in Seq(Nat)
    BY <2>1 DEF Calls
  <2> QED BY <2>2
<1>3. \A i \in 1 .. Len(calls) : Done(i).id = calls[i].id /\ Done(i).text = <<executed + i>>
  OBVIOUS
<1> HIDE DEF Done
<1>4. Len(calls) \in Nat /\ rs \in [1 .. Len(calls) -> [id : CallIds, text : Seq(Nat)]]
        /\ \A i \in 1 .. Len(calls) : rs[i] = Done(i)
  BY <1>2
<1> HIDE DEF rs
<1>5. rs \in Seq([id : CallIds, text : Seq(Nat)]) /\ Len(rs) = Len(calls)
  BY <1>4, SequenceOf
<1>6. Len(calls) # 0
  BY EmptySeq
<1>7. rs # <<>>
  BY <1>5, <1>6
<1>8. /\ Assistant(text, calls)
           = [role |-> "assistant", text |-> text, calls |-> calls, results |-> <<>>]
      /\ ToolMessage(rs) = [role |-> "tool", text |-> <<>>, calls |-> <<>>, results |-> rs]
  BY DEF Assistant, ToolMessage, Say
<1>9. Assistant(text, calls) \in Messages
  BY <1>8 DEF Messages
<1>10. ToolMessage(rs) \in Messages
  BY <1>5, <1>8 DEF Messages
<1> QED BY <1>1, <1>3, <1>4, <1>5, <1>7, <1>8, <1>9, <1>10

\* A message without calls leaves none unanswered; a round of calls answers its own.
LEMMA OpenAiPlain ==
    ASSUME NEW m \in Messages, m.role # "tool", m.calls = <<>>
    PROVE  OpenAiPairs(OpenAiMessages(m))
<1> DEFINE w == [role |-> m.role, text |-> m.text, calls |-> <<>>, answers |-> <<>>]
<1>1. OpenAiMessages(m) = <<w>>
  BY DEF OpenAiMessages
<1>2. w.calls = <<>> /\ w.role # "tool"
  OBVIOUS
<1> HIDE DEF w
<1>3. DOMAIN <<w>> = {1} /\ <<w>>[1] = w
  OBVIOUS
<1> QED BY <1>1, <1>2, <1>3 DEF OpenAiPairs

LEMMA OpenAiExchange ==
    ASSUME executed \in Nat, NEW text \in Seq(Words), NEW calls \in Seq(Calls), calls # <<>>
    PROVE  OpenAiPairs(OpenAiMessages(Assistant(text, calls))
                         \o OpenAiMessages(ToolMessage(Executed(calls))))
<1> DEFINE w  == [role |-> "assistant", text |-> text, calls |-> calls, answers |-> <<>>]
           rs == OpenAiMessages(ToolMessage(Executed(calls)))
           u == <<w>> \o rs
           n == Len(calls)
<1>1. OpenAiMessages(Assistant(text, calls)) = <<w>>
  BY ExchangeShape DEF OpenAiMessages
<1>2. w \in OpenAiWire
  BY DEF OpenAiWire, Roles
<1>3. w.calls = calls /\ w.role # "tool"
  OBVIOUS
<1>4. rs \in Seq(OpenAiWire)
  BY ExchangeShape, OpenAiMessageType
<1>5. rs = [k \in DOMAIN Executed(calls) |->
              [role |-> "tool", text |-> Executed(calls)[k].text, calls |-> <<>>,
               answers |-> Executed(calls)[k].id]]
  <2>1. PICK m : m = ToolMessage(Executed(calls))
    OBVIOUS
  <2>2. m.role = "tool" /\ m.results = Executed(calls) /\ m.results # <<>>
    BY <2>1, ExchangeShape
  <2> QED BY <2>1, <2>2 DEF OpenAiMessages
<1>6. Len(Executed(calls)) = n /\ n \in Nat /\ DOMAIN Executed(calls) = 1 .. n
  BY ExchangeShape, LenProperties
<1>7. DOMAIN rs = 1 .. n
  BY <1>5, <1>6
<1>8. \A i \in 1 .. n : Executed(calls)[i].id = calls[i].id
  BY ExchangeShape
<1>9. \A i \in 1 .. n : rs[i].calls = <<>> /\ rs[i].answers = calls[i].id
  BY <1>5, <1>6, <1>8
<1> HIDE DEF w, rs
<1>10. /\ u \in Seq(OpenAiWire) /\ DOMAIN u = 1 .. n + 1 /\ u[1] = w
       /\ \A i \in 1 .. n : u[1 + i] = rs[i]
  <2>1. Len(rs) = n
    BY <1>4, <1>7
  <2> HIDE DEF n
  <2> QED BY <1>2, <1>4, <1>6, <2>1
<1> HIDE DEF u
<1>11. ASSUME NEW k \in DOMAIN u, u[k].calls # <<>>, NEW i \in DOMAIN u[k].calls
       PROVE  k + i \in DOMAIN u /\ u[k + i].answers = u[k].calls[i].id
  <2>1. k = 1
    <3> SUFFICES ASSUME k # 1 PROVE FALSE
      OBVIOUS
    <3>1. k - 1 \in 1 .. n /\ k = 1 + (k - 1)
      BY <1>6, <1>10
    <3> QED BY <1>9, <1>10, <1>11, <3>1
  <2>2. i \in 1 .. n
    BY <1>3, <1>10, <1>11, <2>1
  <2> QED BY <1>3, <1>6, <1>9, <1>10, <2>1, <2>2
<1>12. ASSUME NEW k \in DOMAIN u, u[k].role = "tool"
       PROVE  \E j \in 1 .. k - 1 :
                 k - j \in DOMAIN u[j].calls /\ u[k].answers = u[j].calls[k - j].id
  <2>1. k # 1
    BY <1>3, <1>10, <1>12
  <2>2. k - 1 \in 1 .. n /\ k = 1 + (k - 1) /\ 1 \in 1 .. k - 1
    BY <1>6, <1>10, <2>1
  <2>3. k - 1 \in DOMAIN u[1].calls /\ u[k].answers = u[1].calls[k - 1].id
    BY <1>3, <1>9, <1>10, <2>2
  <2> QED BY <2>2, <2>3
<1> QED BY <1>1, <1>11, <1>12 DEF OpenAiPairs, u, rs

WireBlocks ==
    [type : {"text"}, text : Seq(Words)] \cup [type : {"tool_use"}, call : Calls]
      \cup [type : {"tool_result"}, id : CallIds, text : Seq(Nat)]

AnthropicWire == [role : Roles, blocks : Seq(WireBlocks)]

\* The Anthropic turns of one message, and of one message more.
LEMMA BlocksType ==
    ASSUME NEW m \in Messages
    PROVE  Blocks(m) \in Seq(WireBlocks)
<1>1. /\ m.role \in Roles /\ m.text \in Seq(Words) /\ m.calls \in Seq(Calls)
  BY DEF Messages, Roles
<1>2. m.results \in Seq([id : CallIds, text : Seq(Nat)])
  BY DEF Messages
<1>3. <<TextBlock(m.text)>> \in Seq(WireBlocks) /\ <<>> \in Seq(WireBlocks)
  BY <1>1 DEF TextBlock, WireBlocks
<1>4. Unless(m.text = <<>>, <<TextBlock(m.text)>>) \in Seq(WireBlocks)
  BY <1>3 DEF Unless
<1>5. [k \in DOMAIN m.calls |-> ToolUse(m.calls[k])] \in Seq(WireBlocks)
  <2>1. \A k \in 1 .. Len(m.calls) : ToolUse(m.calls[k]) \in WireBlocks
    <3> TAKE k \in 1 .. Len(m.calls)
    <3>1. m.calls[k] \in Calls
      BY <1>1, ElementOfSeq
    <3> QED BY <3>1 DEF ToolUse, WireBlocks
  <2>2. Len(m.calls) \in Nat
          /\ [k \in DOMAIN m.calls |-> ToolUse(m.calls[k])] \in [1 .. Len(m.calls) -> WireBlocks]
    BY <1>1, <2>1
  <2> QED BY <2>2, SequenceOf
<1>6. [k \in DOMAIN m.results |-> ToolResult(m.results[k])] \in Seq(WireBlocks)
  <2>1. \A k \in 1 .. Len(m.results) : ToolResult(m.results[k]) \in WireBlocks
    <3> TAKE k \in 1 .. Len(m.results)
    <3>1. m.results[k] \in [id : CallIds, text : Seq(Nat)]
      BY <1>2, ElementOfSeq
    <3>2. m.results[k].id \in CallIds /\ m.results[k].text \in Seq(Nat)
      BY <3>1
    <3> QED BY <3>2 DEF ToolResult, WireBlocks
  <2>2. Len(m.results) \in Nat
          /\ [k \in DOMAIN m.results |-> ToolResult(m.results[k])]
               \in [1 .. Len(m.results) -> WireBlocks]
    BY <1>2, <2>1
  <2> QED BY <2>2, SequenceOf
<1>7. CASE m.role = "assistant"
  BY <1>4, <1>5, <1>7, ConcatProperties DEF Blocks
<1>8. CASE m.role = "tool"
  BY <1>4, <1>6, <1>8 DEF Blocks
<1>9. CASE m.role \in {"user", "system"}
  BY <1>3, <1>9 DEF Blocks
<1> QED BY <1>1, <1>7, <1>8, <1>9 DEF Roles

LEMMA TurnsType ==
    ASSUME NEW m \in Messages
    PROVE  Turns(m) \in Seq(AnthropicWire)
<1> DEFINE turn == [role |-> IF m.role = "tool" THEN "user" ELSE m.role, blocks |-> Blocks(m)]
<1>1. turn \in AnthropicWire
  BY BlocksType DEF Messages, Roles, AnthropicWire
<1> HIDE DEF turn
<1>2. <<turn>> \in Seq(AnthropicWire) /\ <<>> \in Seq(AnthropicWire)
  BY <1>1
<1>3. Turns(m) = IF Blocks(m) = <<>> THEN <<>> ELSE <<turn>>
  BY DEF Turns, Unless, turn
<1> QED BY <1>2, <1>3

LEMMA AnthropicAppend ==
    ASSUME NEW ms \in Seq(Messages), NEW m \in Messages
    PROVE  AnthropicRequest(Append(ms, m)).messages = AnthropicRequest(ms).messages \o Turns(m)
<1> DEFINE a == [k \in DOMAIN ms |-> Turns(ms[k])]
           b == [k \in DOMAIN Append(ms, m) |-> Turns(Append(ms, m)[k])]
<1>1. Turns(m) \in Seq(AnthropicWire)
  BY TurnsType
<1>2. a \in Seq(Seq(AnthropicWire))
  <2>1. \A k \in 1 .. Len(ms) : Turns(ms[k]) \in Seq(AnthropicWire)
    <3> TAKE k \in 1 .. Len(ms)
    <3>1. ms[k] \in Messages
      BY ElementOfSeq
    <3> QED BY <3>1, TurnsType
  <2>2. Len(ms) \in Nat /\ a \in [1 .. Len(ms) -> Seq(AnthropicWire)]
    BY <2>1
  <2> QED BY <2>2, SequenceOf
<1>3. b = Append(a, Turns(m))
  BY <1>1, <1>2
<1> HIDE DEF a, b
<1>4. FlattenSeq(b) = FlattenSeq(a) \o Turns(m)
  BY <1>1, <1>2, <1>3, FlattenAppend
<1> QED BY <1>4 DEF AnthropicRequest, Joined, a, b

\* Two lists of turns, each with its tool uses answered, one after the other.
LEMMA AnthropicPairsConcat ==
    ASSUME NEW s \in Seq(AnthropicWire), NEW t \in Seq(AnthropicWire),
           AnthropicPairs(s), AnthropicPairs(t)
    PROVE  AnthropicPairs(s \o t)
<1> DEFINE u == s \o t
<1>1. PICK n \in Nat, p \in Nat : n = Len(s) /\ p = Len(t)
  OBVIOUS
<1>2. /\ DOMAIN u = 1 .. n + p /\ DOMAIN s = 1 .. n /\ DOMAIN t = 1 .. p
      /\ \A i \in 1 .. n : u[i] = s[i]
      /\ \A i \in 1 .. p : u[n + i] = t[i]
  BY <1>1
<1> HIDE DEF u
<1>3. ASSUME NEW k \in 1 .. n + p, UseIds(u[k]) # <<>>
      PROVE  k + 1 \in DOMAIN u /\ ResultIds(u[k + 1]) = UseIds(u[k])
  <2>1. CASE k <= n
    <3>1. k \in 1 .. n /\ u[k] = s[k]
      BY <1>2, <2>1
    <3>2. k + 1 \in DOMAIN s /\ ResultIds(s[k + 1]) = UseIds(s[k])
      BY <1>2, <1>3, <3>1 DEF AnthropicPairs
    <3>3. k + 1 \in 1 .. n /\ k + 1 \in 1 .. n + p
      BY <1>2, <3>2
    <3> QED BY <1>2, <3>1, <3>2, <3>3
  <2>2. CASE k > n
    <3>1. PICK j \in 1 .. p : k = n + j
      <4>1. k - n \in 1 .. p /\ k = n + (k - n)
        BY <2>2
      <4> QED BY <4>1
    <3>2. u[k] = t[j]
      BY <1>2, <3>1
    <3>3. j + 1 \in DOMAIN t /\ ResultIds(t[j + 1]) = UseIds(t[j])
      BY <1>2, <1>3, <3>2 DEF AnthropicPairs
    <3>4. k + 1 = n + (j + 1) /\ j + 1 \in 1 .. p
      BY <1>2, <3>1, <3>3
    <3> QED BY <1>2, <3>2, <3>3, <3>4
  <2> QED BY <2>1, <2>2
<1>4. ASSUME NEW k \in 1 .. n + p, ResultIds(u[k]) # <<>>
      PROVE  k > 1 /\ ResultIds(u[k]) = UseIds(u[k - 1])
  <2>1. CASE k <= n
    <3>1. k \in 1 .. n /\ u[k] = s[k]
      BY <1>2, <2>1
    <3>2. k > 1 /\ ResultIds(s[k]) = UseIds(s[k - 1])
      BY <1>2, <1>4, <3>1 DEF AnthropicPairs
    <3>3. k - 1 \in 1 .. n
      BY <3>1, <3>2
    <3> QED BY <1>2, <3>1, <3>2, <3>3
  <2>2. CASE k > n
    <3>1. PICK j \in 1 .. p : k = n + j
      <4>1. k - n \in 1 .. p /\ k = n + (k - n)
        BY <2>2
      <4> QED BY <4>1
    <3>2. u[k] = t[j]
      BY <1>2, <3>1
    <3>3. j > 1 /\ ResultIds(t[j]) = UseIds(t[j - 1])
      BY <1>2, <1>4, <3>2 DEF AnthropicPairs
    <3>4. k > 1 /\ k - 1 = n + (j - 1) /\ j - 1 \in 1 .. p
      BY <3>1, <3>3
    <3> QED BY <1>2, <3>2, <3>3, <3>4
  <2> QED BY <2>1, <2>2
<1> QED BY <1>2, <1>3, <1>4 DEF AnthropicPairs, u

\* The ids a block uses or answers, if it does.
UseId(b)    == IF b.type = "tool_use" THEN <<b.call.id>> ELSE <<>>
ResultId(b) == IF b.type = "tool_result" THEN <<b.id>> ELSE <<>>

\* A turn without blocks of tool use has no ids to answer; likewise for results.
LEMMA NoUses ==
    ASSUME NEW turn, turn.blocks \in Seq(WireBlocks),
           \A k \in DOMAIN turn.blocks : turn.blocks[k].type # "tool_use"
    PROVE  UseIds(turn) = <<>>
<1> DEFINE blocks == turn.blocks
           a == [k \in DOMAIN blocks |-> UseId(blocks[k])]
<1>1. Len(blocks) \in Nat /\ a \in [1 .. Len(blocks) -> {<<>>}]
  BY DEF UseId
<1>2. UseIds(turn) = FlattenSeq(a)
  BY DEF UseIds, Joined, UseId
<1> HIDE DEF a
<1>3. a \in Seq({<<>>})
  BY <1>1, SequenceOf
<1> QED BY <1>2, <1>3, FlattenEmpties

LEMMA NoResults ==
    ASSUME NEW turn, turn.blocks \in Seq(WireBlocks),
           \A k \in DOMAIN turn.blocks : turn.blocks[k].type # "tool_result"
    PROVE  ResultIds(turn) = <<>>
<1> DEFINE blocks == turn.blocks
           a == [k \in DOMAIN blocks |-> ResultId(blocks[k])]
<1>1. Len(blocks) \in Nat /\ a \in [1 .. Len(blocks) -> {<<>>}]
  BY DEF ResultId
<1>2. ResultIds(turn) = FlattenSeq(a)
  BY DEF ResultIds, Joined, ResultId
<1> HIDE DEF a
<1>3. a \in Seq({<<>>})
  BY <1>1, SequenceOf
<1> QED BY <1>2, <1>3, FlattenEmpties

\* A message without calls leaves no tool use unanswered.
LEMMA AnthropicPlain ==
    ASSUME NEW m \in Messages, m.role \in {"system", "user"}
    PROVE  AnthropicPairs(Turns(m))
<1>1. CASE m.role = "system"
  <2>1. Turns(m) = <<>>
    BY <1>1 DEF Turns, Unless, Blocks
  <2> QED BY <2>1 DEF AnthropicPairs
<1>2. CASE m.role = "user"
  <2> DEFINE turn == [role |-> "user", blocks |-> <<TextBlock(m.text)>>]
  <2>1. Blocks(m) = <<TextBlock(m.text)>>
    BY <1>2 DEF Blocks
  <2>2. <<TextBlock(m.text)>> # <<>>
    OBVIOUS
  <2>3. Turns(m) = <<turn>>
    BY <1>2, <2>1, <2>2 DEF Turns, Unless
  <2>4. /\ turn.blocks \in Seq(WireBlocks)
        /\ \A k \in DOMAIN turn.blocks : turn.blocks[k].type = "text"
    BY DEF TextBlock, Messages, WireBlocks
  <2> HIDE DEF turn
  <2>5. UseIds(turn) = <<>> /\ ResultIds(turn) = <<>>
    BY <2>4, NoUses, NoResults
  <2>6. DOMAIN <<turn>> = {1} /\ <<turn>>[1] = turn
    OBVIOUS
  <2> QED BY <2>3, <2>5, <2>6 DEF AnthropicPairs
<1> QED BY <1>1, <1>2

\* The ids of the tool uses, block by block.
LEMMA UseIdsType ==
    ASSUME NEW blocks \in Seq(WireBlocks)
    PROVE  /\ [k \in DOMAIN blocks |-> UseId(blocks[k])] \in Seq(Seq(CallIds))
           /\ Len([k \in DOMAIN blocks |-> UseId(blocks[k])]) = Len(blocks)
<1> DEFINE a == [k \in DOMAIN blocks |-> UseId(blocks[k])]
<1>1. \A k \in 1 .. Len(blocks) : UseId(blocks[k]) \in Seq(CallIds)
  <2> TAKE k \in 1 .. Len(blocks)
  <2>1. blocks[k] \in WireBlocks
    BY ElementOfSeq
  <2> QED BY <2>1 DEF WireBlocks, UseId, Calls
<1>2. Len(blocks) \in Nat /\ a \in [1 .. Len(blocks) -> Seq(CallIds)]
  BY <1>1
<1> HIDE DEF a
<1>3. a \in Seq(Seq(CallIds)) /\ Len(a) = Len(blocks)
  BY <1>2, SequenceOf
<1> QED BY <1>3 DEF a

\* A round of calls is two turns: one that uses its tools, one that answers them all.
LEMMA AssistantTurn ==
    ASSUME executed \in Nat, NEW text \in Seq(Words), NEW calls \in Seq(Calls), calls # <<>>
    PROVE  \E turn \in AnthropicWire :
              /\ Turns(Assistant(text, calls)) = <<turn>>
              /\ UseIds(turn) = IdsOf(calls) /\ ResultIds(turn) = <<>>
<1> DEFINE p == Unless(text = <<>>, <<TextBlock(text)>>)
           q == [k \in DOMAIN calls |-> ToolUse(calls[k])]
           turn == [role |-> "assistant", blocks |-> p \o q]
<1>1. PICK m \in Messages : /\ m = Assistant(text, calls)
                            /\ m.role = "assistant" /\ m.text = text /\ m.calls = calls
  BY ExchangeShape
<1>2. Blocks(m) = p \o q
  BY <1>1 DEF Blocks
<1>3. p \in Seq(WireBlocks) /\ \A k \in 1 .. Len(p) : p[k].type = "text"
  <2>1. TextBlock(text) \in WireBlocks /\ TextBlock(text).type = "text"
    BY DEF TextBlock, WireBlocks
  <2>2. CASE text = <<>>
    <3>1. p = <<>>
      BY <2>2 DEF Unless
    <3>2. <<>> \in Seq(WireBlocks) /\ Len(<<>>) = 0
      OBVIOUS
    <3> HIDE DEF p
    <3> QED BY <3>1, <3>2
  <2>3. CASE text # <<>>
    <3>1. p = <<TextBlock(text)>>
      BY <2>3 DEF Unless
    <3> HIDE DEF p, TextBlock
    <3> QED BY <2>1, <3>1
  <2> QED BY <2>2, <2>3
<1>4. /\ q \in Seq(WireBlocks) /\ Len(q) = Len(calls)
      /\ \A k \in 1 .. Len(calls) : q[k].type = "tool_use" /\ UseId(q[k]) = <<calls[k].id>>
  <2>1. \A k \in 1 .. Len(calls) :
           /\ ToolUse(calls[k]) \in WireBlocks /\ ToolUse(calls[k]).type = "tool_use"
           /\ UseId(ToolUse(calls[k])) = <<calls[k].id>>
    <3> TAKE k \in 1 .. Len(calls)
    <3>1. calls[k] \in Calls
      BY ElementOfSeq
    <3> QED BY <3>1 DEF ToolUse, WireBlocks, UseId
  <2>2. Len(calls) \in Nat /\ q \in [1 .. Len(calls) -> WireBlocks]
    BY <2>1
  <2>3. \A k \in 1 .. Len(calls) : q[k] = ToolUse(calls[k])
    OBVIOUS
  <2> HIDE DEF q
  <2>4. q \in Seq(WireBlocks) /\ Len(q) = Len(calls)
    BY <2>2, SequenceOf
  <2> QED BY <2>1, <2>3, <2>4
<1> HIDE DEF p, q
<1>5. /\ p \o q \in Seq(WireBlocks) /\ Len(p \o q) = Len(p) + Len(q)
      /\ \A k \in 1 .. Len(p) : (p \o q)[k] = p[k]
      /\ \A k \in 1 .. Len(q) : (p \o q)[Len(p) + k] = q[k]
  <2>1. p \in Seq(WireBlocks) /\ q \in Seq(WireBlocks)
    BY <1>3, <1>4
  <2> QED BY <2>1
<1>6. p \o q # <<>>
  <2>1. Len(calls) # 0 /\ Len(calls) \in Nat /\ Len(p) \in Nat
    BY <1>3, EmptySeq
  <2>2. Len(p \o q) # 0
    BY <1>4, <1>5, <2>1
  <2> QED BY <2>2
<1>7. Turns(m) = <<turn>>
  BY <1>1, <1>2, <1>6 DEF Turns, Unless
<1>8. turn \in AnthropicWire /\ turn.blocks = p \o q
  BY <1>5 DEF AnthropicWire, Roles
<1> HIDE DEF turn
<1>9. ResultIds(turn) = <<>>
  <2>1. \A k \in 1 .. Len(p \o q) : (p \o q)[k].type # "tool_result"
    <3> TAKE k \in 1 .. Len(p \o q)
    <3>0. Len(p) \in Nat /\ Len(q) \in Nat
      BY <1>3, <1>4
    <3>1. CASE k <= Len(p)
      <4>1. k \in 1 .. Len(p)
        BY <3>0, <3>1
      <4> QED BY <1>3, <1>5, <4>1
    <3>2. CASE k > Len(p)
      <4>1. k - Len(p) \in 1 .. Len(q) /\ k = Len(p) + (k - Len(p))
        BY <1>5, <3>0, <3>2
      <4> QED BY <1>4, <1>5, <4>1
    <3> QED BY <3>0, <3>1, <3>2
  <2>2. DOMAIN turn.blocks = 1 .. Len(p \o q)
    BY <1>5, <1>8
  <2> QED BY <1>5, <1>8, <2>1, <2>2, NoResults
<1>10. UseIds(turn) = IdsOf(calls)
  <2> DEFINE a == [k \in DOMAIN p |-> UseId(p[k])]
             b == [k \in DOMAIN q |-> UseId(q[k])]
             c == [k \in DOMAIN (p \o q) |-> UseId((p \o q)[k])]
  <2>1. UseIds(turn) = FlattenSeq(c)
    BY <1>8 DEF UseIds, Joined, UseId
  <2>2. Len(p) \in Nat /\ a \in [1 .. Len(p) -> {<<>>}]
    BY <1>3 DEF UseId
  <2>3. b = [k \in DOMAIN IdsOf(calls) |-> <<IdsOf(calls)[k]>>]
    BY <1>4 DEF IdsOf
  <2>4. IdsOf(calls) \in Seq(CallIds)
    <3>1. \A k \in 1 .. Len(calls) : calls[k].id \in CallIds
      <4> TAKE k \in 1 .. Len(calls)
      <4>1. calls[k] \in Calls
        BY ElementOfSeq
      <4> QED BY <4>1 DEF Calls
    <3>2. Len(calls) \in Nat /\ IdsOf(calls) \in [1 .. Len(calls) -> CallIds]
      BY <3>1 DEF IdsOf
    <3> QED BY <3>2, SequenceOf
  <2>5. FlattenSeq(b) = IdsOf(calls)
    BY <2>3, <2>4, FlattenSingletons
  <2>6. /\ a \in Seq(Seq(CallIds)) /\ b \in Seq(Seq(CallIds)) /\ c \in Seq(Seq(CallIds))
        /\ Len(a) = Len(p) /\ Len(b) = Len(q) /\ Len(c) = Len(p \o q)
    BY <1>3, <1>4, <1>5, UseIdsType
  <2>7. \A k \in 1 .. Len(p) : c[k] = a[k]
    BY <1>3, <1>4, <1>5
  <2>8. \A k \in 1 .. Len(q) : c[Len(p) + k] = b[k]
    BY <1>3, <1>4, <1>5
  <2> HIDE DEF a, b, c
  <2>9. a \in Seq({<<>>})
    BY <2>2, SequenceOf
  <2>10. c = a \o b
    <3>1. Len(c) = Len(a) + Len(b)
      BY <1>5, <2>6
    <3>2. \A k \in 1 .. Len(a) : c[k] = a[k]
      BY <2>6, <2>7
    <3>3. \A k \in 1 .. Len(b) : c[Len(a) + k] = b[k]
      BY <2>6, <2>8
    <3> QED BY <2>6, <3>1, <3>2, <3>3, ConcatIs
  <2>11. FlattenSeq(c) = FlattenSeq(a) \o FlattenSeq(b)
    BY <2>6, <2>10, FlattenConcat
  <2>12. FlattenSeq(a) = <<>> /\ <<>> \o IdsOf(calls) = IdsOf(calls)
    BY <2>4, <2>9, FlattenEmpties
  <2> QED BY <2>1, <2>5, <2>11, <2>12
<1> QED BY <1>1, <1>7, <1>8, <1>9, <1>10

LEMMA ToolTurn ==
    ASSUME executed \in Nat, NEW text \in Seq(Words), NEW calls \in Seq(Calls), calls # <<>>
    PROVE  \E turn \in AnthropicWire :
              /\ Turns(ToolMessage(Executed(calls))) = <<turn>>
              /\ UseIds(turn) = <<>> /\ ResultIds(turn) = IdsOf(calls)
<1> DEFINE rs == Executed(calls)
           q == [k \in DOMAIN rs |-> ToolResult(rs[k])]
           turn == [role |-> "user", blocks |-> q]
<1>1. PICK m \in Messages : m = ToolMessage(rs) /\ m.role = "tool" /\ m.results = rs
  BY ExchangeShape
<1>2. /\ rs \in Seq([id : CallIds, text : Seq(Nat)]) /\ Len(rs) = Len(calls) /\ rs # <<>>
      /\ \A k \in 1 .. Len(calls) : rs[k].id = calls[k].id
  BY ExchangeShape
<1> HIDE DEF rs
<1>3. Blocks(m) = q
  BY <1>1, <1>2 DEF Blocks
<1>4. \A k \in 1 .. Len(rs) :
         /\ ToolResult(rs[k]) \in WireBlocks /\ ToolResult(rs[k]).type = "tool_result"
         /\ ResultId(ToolResult(rs[k])) = <<rs[k].id>>
  <2> TAKE k \in 1 .. Len(rs)
  <2>1. rs[k] \in [id : CallIds, text : Seq(Nat)]
    BY <1>2, ElementOfSeq
  <2>2. rs[k].id \in CallIds /\ rs[k].text \in Seq(Nat)
    BY <2>1
  <2> QED BY <2>2 DEF ToolResult, WireBlocks, ResultId
<1>5. /\ Len(rs) \in Nat /\ q \in [1 .. Len(rs) -> WireBlocks]
      /\ \A k \in 1 .. Len(rs) : q[k] = ToolResult(rs[k])
  BY <1>2, <1>4
<1> HIDE DEF q
<1>6. q \in Seq(WireBlocks) /\ Len(q) = Len(rs) /\ DOMAIN q = 1 .. Len(rs)
  BY <1>5, SequenceOf
<1>7. q # <<>>
  <2>1. Len(rs) # 0
    BY <1>2, EmptySeq
  <2> QED BY <1>6, <2>1
<1>8. Turns(m) = <<turn>>
  BY <1>1, <1>3, <1>7 DEF Turns, Unless
<1>9. turn \in AnthropicWire /\ turn.blocks = q
  BY <1>6 DEF AnthropicWire, Roles
<1> HIDE DEF turn
<1>10. UseIds(turn) = <<>>
  <2>1. \A k \in DOMAIN turn.blocks : turn.blocks[k].type # "tool_use"
    BY <1>4, <1>5, <1>6, <1>9
  <2> QED BY <1>6, <1>9, <2>1, NoUses
<1>11. ResultIds(turn) = IdsOf(calls)
  <2> DEFINE c == [k \in DOMAIN q |-> ResultId(q[k])]
  <2>1. ResultIds(turn) = FlattenSeq(c)
    BY <1>9 DEF ResultIds, Joined, ResultId
  <2>2. Len(calls) = Len(rs) /\ DOMAIN calls = 1 .. Len(rs)
    BY <1>2
  <2>3. c = [k \in DOMAIN IdsOf(calls) |-> <<IdsOf(calls)[k]>>]
    BY <1>2, <1>4, <1>5, <1>6, <2>2 DEF IdsOf
  <2>4. IdsOf(calls) \in Seq(CallIds)
    <3>1. \A k \in 1 .. Len(calls) : calls[k].id \in CallIds
      <4> TAKE k \in 1 .. Len(calls)
      <4>1. calls[k] \in Calls
        BY ElementOfSeq
      <4> QED BY <4>1 DEF Calls
    <3>2. Len(calls) \in Nat /\ IdsOf(calls) \in [1 .. Len(calls) -> CallIds]
      BY <3>1 DEF IdsOf
    <3> QED BY <3>2, SequenceOf
  <2> HIDE DEF c
  <2> QED BY <2>1, <2>3, <2>4, FlattenSingletons
<1> QED BY <1>1, <1>8, <1>9, <1>10, <1>11 DEF rs

LEMMA AnthropicExchange ==
    ASSUME executed \in Nat, NEW text \in Seq(Words), NEW calls \in Seq(Calls), calls # <<>>
    PROVE  AnthropicPairs(Turns(Assistant(text, calls)) \o Turns(ToolMessage(Executed(calls))))
<1>1. PICK a \in AnthropicWire : /\ Turns(Assistant(text, calls)) = <<a>>
                                 /\ UseIds(a) = IdsOf(calls) /\ ResultIds(a) = <<>>
  BY AssistantTurn
<1>2. PICK t \in AnthropicWire : /\ Turns(ToolMessage(Executed(calls))) = <<t>>
                                 /\ UseIds(t) = <<>> /\ ResultIds(t) = IdsOf(calls)
  BY ToolTurn
<1> DEFINE u == <<a>> \o <<t>>
<1>3. DOMAIN u = {1, 2} /\ u[1] = a /\ u[2] = t
  <2>1. <<a>> \in Seq(AnthropicWire) /\ <<t>> \in Seq(AnthropicWire)
    OBVIOUS
  <2>2. Len(u) = 2 /\ u \in Seq(AnthropicWire) /\ u[1] = a /\ u[1 + 1] = t
    BY <2>1
  <2> HIDE DEF u
  <2> QED BY <2>2
<1> HIDE DEF u
<1>4. AnthropicPairs(u)
  <2> SUFFICES ASSUME NEW k \in DOMAIN u
               PROVE  /\ UseIds(u[k]) # <<>> =>
                            k + 1 \in DOMAIN u /\ ResultIds(u[k + 1]) = UseIds(u[k])
                      /\ ResultIds(u[k]) # <<>> => k > 1 /\ ResultIds(u[k]) = UseIds(u[k - 1])
    BY DEF AnthropicPairs
  <2>1. CASE k = 1
    BY <1>1, <1>2, <1>3, <2>1
  <2>2. CASE k = 2
    BY <1>1, <1>2, <1>3, <2>2
  <2> QED BY <1>3, <2>1, <2>2
<1> QED BY <1>1, <1>2, <1>4 DEF u
-----------------------------------------------------------------------------
\* What the adapters send.
LEMMA RequestTypes ==
    ASSUME NEW ms \in Seq(Messages)
    PROVE  /\ OpenAiRequest(ms) \in Seq(OpenAiWire)
           /\ AnthropicRequest(ms).messages \in Seq(AnthropicWire)
<1> DEFINE a == [k \in DOMAIN ms |-> OpenAiMessages(ms[k])]
           b == [k \in DOMAIN ms |-> Turns(ms[k])]
<1>1. \A k \in 1 .. Len(ms) :
         OpenAiMessages(ms[k]) \in Seq(OpenAiWire) /\ Turns(ms[k]) \in Seq(AnthropicWire)
  <2> TAKE k \in 1 .. Len(ms)
  <2>1. ms[k] \in Messages
    BY ElementOfSeq
  <2> QED BY <2>1, OpenAiMessageType, TurnsType
<1>2. /\ Len(ms) \in Nat /\ a \in [1 .. Len(ms) -> Seq(OpenAiWire)]
      /\ b \in [1 .. Len(ms) -> Seq(AnthropicWire)]
  BY <1>1
<1>3. /\ OpenAiRequest(ms) = FlattenSeq(a)
      /\ AnthropicRequest(ms).messages = FlattenSeq(b)
  BY DEF OpenAiRequest, AnthropicRequest, Joined
<1> HIDE DEF a, b
<1>4. a \in Seq(Seq(OpenAiWire)) /\ b \in Seq(Seq(AnthropicWire))
  BY <1>2, SequenceOf
<1> QED BY <1>3, <1>4, FlattenType

\* Requests with messages appended.
LEMMA PairsAppend ==
    ASSUME NEW ms \in Seq(Messages), NEW m \in Messages,
           m.role \in {"system", "user"}, m.calls = <<>>,
           OpenAiPairs(OpenAiRequest(ms)), AnthropicPairs(AnthropicRequest(ms).messages)
    PROVE  /\ OpenAiPairs(OpenAiRequest(Append(ms, m)))
           /\ AnthropicPairs(AnthropicRequest(Append(ms, m)).messages)
<1>1. /\ OpenAiRequest(Append(ms, m)) = OpenAiRequest(ms) \o OpenAiMessages(m)
      /\ AnthropicRequest(Append(ms, m)).messages = AnthropicRequest(ms).messages \o Turns(m)
  BY OpenAiAppend, AnthropicAppend
<1>2. /\ OpenAiRequest(ms) \in Seq(OpenAiWire) /\ OpenAiMessages(m) \in Seq(OpenAiWire)
      /\ AnthropicRequest(ms).messages \in Seq(AnthropicWire) /\ Turns(m) \in Seq(AnthropicWire)
  BY RequestTypes, OpenAiMessageType, TurnsType
<1>3. OpenAiPairs(OpenAiMessages(m)) /\ AnthropicPairs(Turns(m))
  <2>1. m.role # "tool"
    OBVIOUS
  <2> QED BY <2>1, OpenAiPlain, AnthropicPlain
<1>4. OpenAiPairs(OpenAiRequest(ms) \o OpenAiMessages(m))
  BY <1>2, <1>3, OpenAiPairsConcat
<1>5. AnthropicPairs(AnthropicRequest(ms).messages \o Turns(m))
  BY <1>2, <1>3, AnthropicPairsConcat
<1> QED BY <1>1, <1>4, <1>5

LEMMA PairsExchange ==
    ASSUME executed \in Nat, NEW text \in Seq(Words), NEW calls \in Seq(Calls), calls # <<>>,
           NEW ms \in Seq(Messages),
           OpenAiPairs(OpenAiRequest(ms)), AnthropicPairs(AnthropicRequest(ms).messages)
    PROVE  LET both == <<Assistant(text, calls), ToolMessage(Executed(calls))>>
           IN  /\ OpenAiPairs(OpenAiRequest(ms \o both))
               /\ AnthropicPairs(AnthropicRequest(ms \o both).messages)
<1>1. PICK a, t : a = Assistant(text, calls) /\ t = ToolMessage(Executed(calls))
  OBVIOUS
<1>2. a \in Messages /\ t \in Messages
  BY <1>1, ExchangeShape
<1>3. Append(ms, a) \in Seq(Messages) /\ ms \o <<a, t>> = Append(Append(ms, a), t)
  BY <1>2
<1>4. /\ OpenAiRequest(Append(Append(ms, a), t))
           = (OpenAiRequest(ms) \o OpenAiMessages(a)) \o OpenAiMessages(t)
      /\ AnthropicRequest(Append(Append(ms, a), t)).messages
           = (AnthropicRequest(ms).messages \o Turns(a)) \o Turns(t)
  BY <1>2, <1>3, OpenAiAppend, AnthropicAppend
<1>5. /\ OpenAiRequest(ms) \in Seq(OpenAiWire) /\ OpenAiMessages(a) \in Seq(OpenAiWire)
      /\ OpenAiMessages(t) \in Seq(OpenAiWire)
      /\ AnthropicRequest(ms).messages \in Seq(AnthropicWire) /\ Turns(a) \in Seq(AnthropicWire)
      /\ Turns(t) \in Seq(AnthropicWire)
  BY <1>2, RequestTypes, OpenAiMessageType, TurnsType
<1>6. /\ OpenAiMessages(a) \o OpenAiMessages(t) \in Seq(OpenAiWire)
      /\ Turns(a) \o Turns(t) \in Seq(AnthropicWire)
  BY <1>5
<1>7. /\ OpenAiPairs(OpenAiMessages(a) \o OpenAiMessages(t))
      /\ AnthropicPairs(Turns(a) \o Turns(t))
  BY <1>1, OpenAiExchange, AnthropicExchange
<1>8. OpenAiPairs(OpenAiRequest(ms) \o (OpenAiMessages(a) \o OpenAiMessages(t)))
  BY <1>5, <1>6, <1>7, OpenAiPairsConcat
<1>9. AnthropicPairs(AnthropicRequest(ms).messages \o (Turns(a) \o Turns(t)))
  BY <1>5, <1>6, <1>7, AnthropicPairsConcat
<1>10. /\ (OpenAiRequest(ms) \o OpenAiMessages(a)) \o OpenAiMessages(t)
            = OpenAiRequest(ms) \o (OpenAiMessages(a) \o OpenAiMessages(t))
       /\ (AnthropicRequest(ms).messages \o Turns(a)) \o Turns(t)
            = AnthropicRequest(ms).messages \o (Turns(a) \o Turns(t))
  <2>1. (OpenAiRequest(ms) \o OpenAiMessages(a)) \o OpenAiMessages(t)
            = OpenAiRequest(ms) \o (OpenAiMessages(a) \o OpenAiMessages(t))
    <3>1. PICK x, y, z : x = OpenAiRequest(ms) /\ y = OpenAiMessages(a) /\ z = OpenAiMessages(t)
      OBVIOUS
    <3>2. x \in Seq(OpenAiWire) /\ y \in Seq(OpenAiWire) /\ z \in Seq(OpenAiWire)
      BY <1>5, <3>1
    <3>3. \A u, v, w \in Seq(OpenAiWire) : (u \o v) \o w = u \o (v \o w)
      OBVIOUS
    <3>4. (x \o y) \o z = x \o (y \o z)
      BY <3>2, <3>3
    <3> QED BY <3>1, <3>4
  <2>2. (AnthropicRequest(ms).messages \o Turns(a)) \o Turns(t)
            = AnthropicRequest(ms).messages \o (Turns(a) \o Turns(t))
    <3>1. PICK x, y, z : x = AnthropicRequest(ms).messages /\ y = Turns(a) /\ z = Turns(t)
      OBVIOUS
    <3>2. x \in Seq(AnthropicWire) /\ y \in Seq(AnthropicWire) /\ z \in Seq(AnthropicWire)
      BY <1>5, <3>1
    <3>3. \A u, v, w \in Seq(AnthropicWire) : (u \o v) \o w = u \o (v \o w)
      OBVIOUS
    <3>4. (x \o y) \o z = x \o (y \o z)
      BY <3>2, <3>3
    <3> QED BY <3>1, <3>4
  <2> QED BY <2>1, <2>2
<1> QED BY <1>1, <1>3, <1>4, <1>8, <1>9, <1>10

\* The outputs of one round of calls, in Ollama's text.
LEMMA OllamaShows ==
    ASSUME executed \in Nat, NEW text \in Seq(Words), NEW calls \in Seq(Calls), calls # <<>>
    PROVE  LET shown == OllamaText(ToolMessage(Executed(calls)))
           IN  /\ DOMAIN shown = 1 .. Len(calls)
               /\ \A i \in 1 .. Len(calls) : shown[i] = executed + i
<1> DEFINE rs == Executed(calls)
           q == [i \in 1 .. Len(calls) |-> executed + i]
           c == [i \in DOMAIN rs |-> rs[i].text]
<1>1. PICK m : m = ToolMessage(rs) /\ m.text = <<>> /\ m.results = rs
  BY ExchangeShape
<1>2. OllamaText(m) = FlattenSeq(c)
  BY <1>1 DEF OllamaText, Joined
<1>3. /\ rs \in Seq([id : CallIds, text : Seq(Nat)]) /\ Len(rs) = Len(calls)
      /\ \A i \in 1 .. Len(calls) : rs[i].text = <<executed + i>>
  BY ExchangeShape
<1> HIDE DEF rs
<1>4. DOMAIN rs = 1 .. Len(calls)
  BY <1>3, LenProperties
<1>5. c = [i \in DOMAIN q |-> <<q[i]>>]
  BY <1>3, <1>4
<1>6. Len(calls) \in Nat /\ q \in [1 .. Len(calls) -> Nat]
  OBVIOUS
<1>7. DOMAIN q = 1 .. Len(calls) /\ \A i \in 1 .. Len(calls) : q[i] = executed + i
  OBVIOUS
<1> HIDE DEF c, q
<1>8. q \in Seq(Nat)
  BY <1>6, SequenceOf
<1>9. FlattenSeq(c) = q
  BY <1>5, <1>8, FlattenSingletons
<1> QED BY <1>1, <1>2, <1>7, <1>9 DEF rs

\* What the types need beside the pairs: a turn that is asked for is below the
\* limit, and a failure has a status that is one.
ConversationInv ==
    /\ ConversationTypeOK
    /\ loop = "ask" => turns < MaxTurns
    /\ ResultsAnswerCalls
    /\ loop = "failed" => status # 200

\* The output numbered n is in the text of some tool message.
Shown(ms, n) ==
    \E k \in DOMAIN ms :
        ms[k].role = "tool" /\ \E i \in DOMAIN OllamaText(ms[k]) : OllamaText(ms[k])[i] = n

\* The output numbered n is in the request Ollama gets.
LEMMA ShownMeans ==
    ASSUME NEW ms, NEW n
    PROVE  (\E k \in DOMAIN OllamaRequest(ms) :
               OllamaRequest(ms)[k].role = "tool"
               /\ \E i \in DOMAIN OllamaRequest(ms)[k].text : OllamaRequest(ms)[k].text[i] = n)
             <=> Shown(ms, n)
<1> DEFINE wire == OllamaRequest(ms)
<1>1. DOMAIN wire = DOMAIN ms
  BY DEF OllamaRequest
<1>2. \A k \in DOMAIN ms : wire[k].role = ms[k].role /\ wire[k].text = OllamaText(ms[k])
  BY DEF OllamaRequest
<1> HIDE DEF wire
<1>3. (\E k \in DOMAIN wire :
          wire[k].role = "tool" /\ \E i \in DOMAIN wire[k].text : wire[k].text[i] = n)
        <=> Shown(ms, n)
  BY <1>1, <1>2 DEF Shown
<1> QED BY <1>3 DEF wire

\* ResultsAnswerCalls, with what Ollama is shown in terms of the messages.
LEMMA ResultsMeans ==
    ResultsAnswerCalls <=>
      /\ \A k \in DOMAIN messages : IsInjective(IdsOf(messages[k].calls))
      /\ OpenAiPairs(OpenAiRequest(messages))
      /\ AnthropicPairs(AnthropicRequest(messages).messages)
      /\ \A n \in 1 .. executed : Shown(messages, n)
<1>1. \A n : (\E k \in DOMAIN OllamaRequest(messages) :
                OllamaRequest(messages)[k].role = "tool"
                /\ \E i \in DOMAIN OllamaRequest(messages)[k].text :
                      OllamaRequest(messages)[k].text[i] = n)
              <=> Shown(messages, n)
  BY ShownMeans
<1> QED BY <1>1 DEF ResultsAnswerCalls

LEMMA ConversationStarts ==
    ConversationAssumption /\ ConversationInit => ConversationInv
<1> SUFFICES ASSUME ConversationAssumption, ConversationInit PROVE ConversationInv
  OBVIOUS
<1> DEFINE s == Say("system", <<"prompt">>)
           u == Say("user", <<"task">>)
           v == Say("user", <<"issues">>)
<1>1. /\ s \in Messages /\ s.role = "system" /\ s.calls = <<>> /\ s.results = <<>>
      /\ u \in Messages /\ u.role = "user" /\ u.calls = <<>> /\ u.results = <<>>
      /\ v \in Messages /\ v.role = "user" /\ v.calls = <<>> /\ v.results = <<>>
  BY DEF Say, Messages, Words
<1>2. FirstMessages = <<s, u>>
  BY DEF FirstMessages
<1> HIDE DEF s, u, v
<1>3. /\ <<>> \in Seq(Messages) /\ <<s>> \in Seq(Messages) /\ <<s, u>> \in Seq(Messages)
      /\ Append(<<>>, s) = <<s>> /\ Append(<<s>>, u) = <<s, u>>
      /\ Append(<<s, u>>, v) \in Seq(Messages)
  <2>1. s \in Messages /\ u \in Messages /\ v \in Messages
    BY <1>1
  <2>2. <<>> \in Seq(Messages) /\ <<s>> \in Seq(Messages) /\ <<s, u>> \in Seq(Messages)
    BY <2>1
  <2>3. Append(<<>>, s) = <<s>> /\ Append(<<s>>, u) = <<s, u>>
    <3>1. /\ Append(<<>>, s) \in Seq(Messages) /\ Len(Append(<<>>, s)) = 1
          /\ Append(<<>>, s)[1] = s
      BY <2>1, <2>2
    <3>2. /\ Append(<<s>>, u) \in Seq(Messages) /\ Len(Append(<<s>>, u)) = 2
          /\ Append(<<s>>, u)[1] = s /\ Append(<<s>>, u)[2] = u
      BY <2>1, <2>2
    <3>3. Append(<<>>, s) = <<s>>
      BY <3>1, <2>2
    <3>4. Append(<<s>>, u) = <<s, u>>
      <4> DEFINE p == Append(<<s>>, u)
                 q == <<s, u>>
      <4>1. Len(q) = 2 /\ q[1] = s /\ q[2] = u /\ q \in Seq(Messages)
        BY <2>2
      <4>2. p \in Seq(Messages) /\ Len(p) = Len(q)
        BY <3>2, <4>1
      <4>3. \A i \in 1 .. Len(p) : p[i] = q[i]
        BY <3>2, <4>1
      <4> HIDE DEF p, q
      <4> QED BY <4>1, <4>2, <4>3, SeqEqual DEF p, q
    <3> QED BY <3>3, <3>4
  <2>4. Append(<<s, u>>, v) \in Seq(Messages)
    BY <2>1, <2>2
  <2> QED BY <2>2, <2>3, <2>4
<1>4. OpenAiRequest(<<>>) = <<>> /\ AnthropicRequest(<<>>).messages = <<>>
  <2>1. /\ [k \in DOMAIN <<>> |-> OpenAiMessages((<<>>)[k])] = <<>>
        /\ [k \in DOMAIN <<>> |-> Turns((<<>>)[k])] = <<>>
    OBVIOUS
  <2> QED BY <2>1, FlattenNone DEF OpenAiRequest, AnthropicRequest, Joined
<1>5. OpenAiPairs(<<>>) /\ AnthropicPairs(<<>>)
  BY DEF OpenAiPairs, AnthropicPairs
<1>6. OpenAiPairs(OpenAiRequest(<<s>>)) /\ AnthropicPairs(AnthropicRequest(<<s>>).messages)
  BY <1>1, <1>3, <1>4, <1>5, PairsAppend
<1>7. OpenAiPairs(OpenAiRequest(<<s, u>>)) /\ AnthropicPairs(AnthropicRequest(<<s, u>>).messages)
  BY <1>1, <1>3, <1>6, PairsAppend
<1>8. /\ OpenAiPairs(OpenAiRequest(Append(<<s, u>>, v)))
      /\ AnthropicPairs(AnthropicRequest(Append(<<s, u>>, v)).messages)
  BY <1>1, <1>3, <1>7, PairsAppend
<1>9. messages = <<s, u>> \/ messages = Append(<<s, u>>, v)
  BY <1>2 DEF ConversationInit, v
<1>10. \A k \in DOMAIN messages : messages[k] = s \/ messages[k] = u \/ messages[k] = v
  BY <1>3, <1>9
<1>11. \A k \in DOMAIN messages : /\ messages[k].calls = <<>> /\ messages[k].results = <<>>
                                 /\ messages[k].role # "assistant" /\ messages[k].role # "tool"
  BY <1>1, <1>10
<1>12. IsInjective(IdsOf(<<>>))
  BY DEF IsInjective, IdsOf
<1>13. /\ turns = 0 /\ loop = "ask" /\ server = "openai" /\ reply = <<>>
       /\ ids = 0 /\ executed = 0 /\ status = 200
  BY DEF ConversationInit
<1>14. MaxTurns \in Nat \ {0}
  BY DEF ConversationAssumption
<1>15. ResultsAnswerCalls
  <2>1. /\ OpenAiPairs(OpenAiRequest(messages))
        /\ AnthropicPairs(AnthropicRequest(messages).messages)
    BY <1>7, <1>8, <1>9
  <2>2. \A n \in 1 .. executed : Shown(messages, n)
    BY <1>13
  <2> QED BY <1>11, <1>12, <2>1, <2>2, ResultsMeans
<1>16. messages \in Seq(Messages)
  BY <1>3, <1>9
<1>17. ConversationTypeOK
  BY <1>11, <1>13, <1>14, <1>16 DEF ConversationTypeOK, Adapters, Statuses
<1> QED BY <1>13, <1>14, <1>15, <1>17 DEF ConversationInv

\* Messages whose calls and results pair up, with n outputs among them.
PairUp(ms, n) ==
    /\ ms \in Seq(Messages) /\ n \in Nat
    /\ \A k \in DOMAIN ms : /\ ms[k].calls # <<>> <=> ms[k].role = "assistant"
                            /\ ms[k].results # <<>> <=> ms[k].role = "tool"
                            /\ IsInjective(IdsOf(ms[k].calls))
    /\ OpenAiPairs(OpenAiRequest(ms)) /\ AnthropicPairs(AnthropicRequest(ms).messages)
    /\ \A o \in 1 .. n : Shown(ms, o)

\* One round of calls keeps the pairs of every adapter and shows every output.
LEMMA Exchanged ==
    ASSUME ConversationTypeOK, ResultsAnswerCalls,
           NEW text \in Seq(Words),
           NEW calls \in Seq(Calls), calls # <<>>, IsInjective(IdsOf(calls)),
           NEW ms, ms = messages \o <<Assistant(text, calls), ToolMessage(Executed(calls))>>,
           NEW n, n = executed + Len(calls)
    PROVE  PairUp(ms, n)
<1>1. /\ executed \in Nat /\ messages \in Seq(Messages)
      /\ \A k \in DOMAIN messages : /\ messages[k].calls # <<>> <=> messages[k].role = "assistant"
                                    /\ messages[k].results # <<>> <=> messages[k].role = "tool"
  BY DEF ConversationTypeOK
<1>2. /\ \A k \in DOMAIN messages : IsInjective(IdsOf(messages[k].calls))
      /\ OpenAiPairs(OpenAiRequest(messages))
      /\ AnthropicPairs(AnthropicRequest(messages).messages)
      /\ \A o \in 1 .. executed : Shown(messages, o)
  BY ResultsMeans
<1>3. PICK a, t : a = Assistant(text, calls) /\ t = ToolMessage(Executed(calls))
  OBVIOUS
<1>4. /\ a \in Messages /\ t \in Messages
      /\ a.role = "assistant" /\ a.calls = calls /\ a.results = <<>>
      /\ t.role = "tool" /\ t.calls = <<>> /\ t.results = Executed(calls) /\ Executed(calls) # <<>>
  BY <1>1, <1>3, ExchangeShape
<1>5. PICK l \in Nat : l = Len(messages) /\ DOMAIN messages = 1 .. l
  BY <1>1, LenProperties
<1>6. /\ ms \in Seq(Messages) /\ DOMAIN ms = 1 .. l + 2
      /\ \A k \in 1 .. l : ms[k] = messages[k]
      /\ ms[l + 1] = a /\ ms[l + 2] = t
  <2>1. ms = messages \o <<a, t>> /\ <<a, t>> \in Seq(Messages) /\ Len(<<a, t>>) = 2
        /\ <<a, t>>[1] = a /\ <<a, t>>[2] = t
    BY <1>3, <1>4
  <2> DEFINE q == <<a, t>>
  <2>2. ms = messages \o q /\ q \in Seq(Messages) /\ Len(q) = 2 /\ q[1] = a /\ q[2] = t
    BY <2>1
  <2> HIDE DEF q
  <2>3. /\ ms \in Seq(Messages) /\ Len(ms) = l + 2 /\ \A k \in 1 .. l : ms[k] = messages[k]
        /\ \A k \in 1 .. 2 : ms[l + k] = q[k]
    BY <1>1, <1>5, <2>2, ConcatProperties
  <2>4. DOMAIN ms = 1 .. l + 2
    BY <2>3
  <2>5. ms[l + 1] = a /\ ms[l + 2] = t
    BY <2>2, <2>3
  <2> QED BY <2>3, <2>4, <2>5
<1>7. \A k \in DOMAIN ms :
        \/ k \in DOMAIN messages /\ ms[k] = messages[k]
        \/ ms[k] = a \/ ms[k] = t
  BY <1>5, <1>6
<1>8. IsInjective(IdsOf(<<>>))
  BY DEF IsInjective, IdsOf
<1>9. \A k \in DOMAIN ms : /\ ms[k].calls # <<>> <=> ms[k].role = "assistant"
                           /\ ms[k].results # <<>> <=> ms[k].role = "tool"
                           /\ IsInjective(IdsOf(ms[k].calls))
  <2> TAKE k \in DOMAIN ms
  <2>1. CASE k \in DOMAIN messages /\ ms[k] = messages[k]
    BY <1>1, <1>2, <2>1
  <2>2. CASE ms[k] = a
    BY <1>4, <2>2
  <2>3. CASE ms[k] = t
    BY <1>4, <1>8, <2>3
  <2> QED BY <1>7, <2>1, <2>2, <2>3
<1>10. OpenAiPairs(OpenAiRequest(ms)) /\ AnthropicPairs(AnthropicRequest(ms).messages)
  BY <1>1, <1>2, PairsExchange
<1>11. Len(calls) \in Nat /\ n \in Nat
  BY <1>1
<1>12. \A o \in 1 .. n : Shown(ms, o)
  <2> TAKE o \in 1 .. n
  <2>1. CASE o <= executed
    <3>1. Shown(messages, o)
      <4>1. o \in 1 .. executed
        BY <1>1, <1>11, <2>1
      <4> QED BY <1>2, <4>1
    <3>2. PICK k \in 1 .. l :
             /\ messages[k].role = "tool"
             /\ \E i \in DOMAIN OllamaText(messages[k]) : OllamaText(messages[k])[i] = o
      BY <1>5, <3>1 DEF Shown
    <3>3. ms[k] = messages[k] /\ k \in DOMAIN ms
      BY <1>6
    <3> QED BY <3>2, <3>3 DEF Shown
  <2>2. CASE o > executed
    <3>1. PICK i \in 1 .. Len(calls) : o = executed + i
      <4>1. o - executed \in 1 .. Len(calls) /\ o = executed + (o - executed)
        BY <1>1, <1>11, <2>2
      <4> QED BY <4>1
    <3>2. i \in DOMAIN OllamaText(t) /\ OllamaText(t)[i] = o
      BY <1>1, <1>3, <3>1, OllamaShows
    <3>3. l + 2 \in DOMAIN ms
      BY <1>5, <1>6
    <3> QED BY <1>4, <1>6, <3>2, <3>3 DEF Shown
  <2> QED BY <1>1, <1>11, <2>1, <2>2
<1>13. ms \in Seq(Messages) /\ n \in Nat
  BY <1>6, <1>11
<1> QED BY <1>9, <1>10, <1>12, <1>13 DEF PairUp

\* Every step keeps the invariant.
LEMMA ConversationSteps ==
    ConversationAssumption /\ ConversationInv /\ [ConversationNext]_conversationVars
      => ConversationInv'
<1> SUFFICES ASSUME ConversationAssumption, ConversationInv, [ConversationNext]_conversationVars
             PROVE  ConversationInv'
  OBVIOUS
<1>1. /\ ConversationTypeOK /\ ResultsAnswerCalls
      /\ loop = "ask" => turns < MaxTurns
      /\ loop = "failed" => status # 200
  BY DEF ConversationInv
<1>2. turns \in 0 .. MaxTurns /\ MaxTurns \in Nat
  BY <1>1 DEF ConversationTypeOK, ConversationAssumption
<1>3. messages' = messages /\ executed' = executed => ResultsAnswerCalls'
  <2> SUFFICES ASSUME messages' = messages, executed' = executed PROVE ResultsAnswerCalls'
    OBVIOUS
  <2> QED BY <1>1 DEF ResultsAnswerCalls
<1>4. CASE Ask
  <2>1. ConversationTypeOK'
    BY <1>1, <1>2, <1>4 DEF Ask, ConversationTypeOK
  <2>2. loop' = "asked" /\ messages' = messages /\ executed' = executed
    BY <1>4 DEF Ask
  <2> QED BY <1>3, <2>1, <2>2 DEF ConversationInv
<1>5. CASE Fails
  <2>1. ConversationTypeOK'
    BY <1>1, <1>5 DEF Fails, ConversationTypeOK
  <2>2. loop' = "failed" /\ status' # 200 /\ messages' = messages /\ executed' = executed
    BY <1>5 DEF Fails
  <2> QED BY <1>3, <2>1, <2>2 DEF ConversationInv
<1>6. CASE Take
  <2>1. /\ loop = "asked" /\ status' = 200 /\ turns' = turns /\ server' = server
    BY <1>6 DEF Take
  <2>2. PICK blocks \in Replies :
           /\ reply' = blocks
           /\ ids' = ids + Len(Joined(blocks, CallsIn))
           /\ LET response == Response(server, blocks)
                  calls == CallsOf(response)
              IN  IF calls = <<>>
                  THEN loop' = "done" /\ messages' = messages /\ executed' = executed
                  ELSE /\ messages' = messages \o <<Assistant(response.text, calls),
                                                    ToolMessage(Executed(calls))>>
                       /\ executed' = executed + Len(calls)
                       /\ loop' = IF LastTurn THEN "done" ELSE "ask"
    BY <1>6 DEF Take
  <2>3. PICK response, calls : response = Response(server, blocks) /\ calls = CallsOf(response)
    OBVIOUS
  <2>4. ids \in Nat /\ server \in Adapters
    BY <1>1 DEF ConversationTypeOK
  <2>5. blocks \in Seq(ReplyBlocks) /\ IsInjective(IdsOf(Joined(blocks, CallsIn)))
    BY <2>4, ReplyIds
  <2>6. response.text \in Seq(Words) /\ response.calls \in Seq(Calls)
        /\ IsInjective(IdsOf(response.calls))
    BY <2>3, <2>4, <2>5, ResponseType
  <2>7. calls \in Seq(Calls) /\ IsInjective(IdsOf(calls))
    BY <2>3, <2>6, RecoveredType DEF CallsOf
  <2>8. ids' \in Nat
    <3>1. Joined(blocks, CallsIn) \in Seq(Calls)
      BY <2>5, CallsOfBlocks
    <3>2. Len(Joined(blocks, CallsIn)) \in Nat
      BY <3>1
    <3> QED BY <2>2, <2>4, <3>2
  <2>9. reply' \in Seq(ReplyBlocks)
    BY <2>2, <2>5
  <2>10. CASE calls = <<>>
    <3>1. loop' = "done" /\ messages' = messages /\ executed' = executed
      BY <2>2, <2>3, <2>10
    <3>2. ConversationTypeOK'
      BY <1>1, <2>1, <2>8, <2>9, <3>1 DEF ConversationTypeOK, Statuses
    <3> QED BY <1>3, <3>1, <3>2 DEF ConversationInv
  <2>11. CASE calls # <<>>
    <3>1. /\ messages' = messages \o <<Assistant(response.text, calls),
                                       ToolMessage(Executed(calls))>>
          /\ executed' = executed + Len(calls)
          /\ loop' = IF LastTurn THEN "done" ELSE "ask"
      BY <2>2, <2>3, <2>11
    <3>2. PairUp(messages', executed')
      <4>1. PICK text, ms, n : text = response.text /\ ms = messages' /\ n = executed'
        OBVIOUS
      <4>2. ms = messages \o <<Assistant(text, calls), ToolMessage(Executed(calls))>>
        BY <3>1, <4>1
      <4>3. n = executed + Len(calls)
        BY <3>1, <4>1
      <4>4. text \in Seq(Words)
        BY <2>6, <4>1
      <4>5. calls \in Seq(Calls) /\ IsInjective(IdsOf(calls)) /\ calls # <<>>
        BY <2>7, <2>11
      <4>6. PairUp(ms, n)
        BY <1>1, <4>2, <4>3, <4>4, <4>5, Exchanged
      <4> QED BY <4>1, <4>6
    <3>3. ConversationTypeOK'
      <4>1. /\ messages' \in Seq(Messages) /\ executed' \in Nat
            /\ \A k \in DOMAIN messages' :
                 /\ messages'[k].calls # <<>> <=> messages'[k].role = "assistant"
                 /\ messages'[k].results # <<>> <=> messages'[k].role = "tool"
        BY <3>2 DEF PairUp
      <4> QED BY <1>1, <2>1, <2>8, <2>9, <3>1, <4>1 DEF ConversationTypeOK, Statuses
    <3>4. ResultsAnswerCalls'
      <4>1. \A n : (\E k \in DOMAIN OllamaRequest(messages') :
               OllamaRequest(messages')[k].role = "tool"
               /\ \E i \in DOMAIN OllamaRequest(messages')[k].text :
                     OllamaRequest(messages')[k].text[i] = n)
             <=> Shown(messages', n)
        BY ShownMeans
      <4>2. /\ \A k \in DOMAIN messages' : IsInjective(IdsOf(messages'[k].calls))
            /\ OpenAiPairs(OpenAiRequest(messages'))
            /\ AnthropicPairs(AnthropicRequest(messages').messages)
            /\ \A n \in 1 .. executed' : Shown(messages', n)
        BY <3>2 DEF PairUp
      <4> QED BY <4>1, <4>2 DEF ResultsAnswerCalls
    <3>5. loop' = "ask" => turns' < MaxTurns
      BY <1>2, <2>1, <3>1 DEF LastTurn
    <3>6. loop' # "failed"
      BY <3>1
    <3> QED BY <3>3, <3>4, <3>5, <3>6 DEF ConversationInv
  <2> QED BY <2>10, <2>11
<1>7. CASE UNCHANGED conversationVars
  <2>1. ConversationTypeOK'
    BY <1>1, <1>7 DEF conversationVars, ConversationTypeOK
  <2> QED BY <1>1, <1>3, <1>7, <2>1 DEF conversationVars, ConversationInv
<1> QED BY <1>4, <1>5, <1>6, <1>7 DEF ConversationNext

\* Whatever the model answers and whoever serves the next turn, the invariant holds.
THEOREM ConversationInvariant == ConversationSpec => []ConversationInv
<1>1. ConversationInit => ConversationInv
  BY ConversationAssumption, ConversationStarts
<1>2. ConversationInv /\ [ConversationNext]_conversationVars => ConversationInv'
  BY ConversationAssumption, ConversationSteps
<1> QED BY <1>1, <1>2, PTL DEF ConversationSpec

\* The variables keep their types; a message has calls only if it is the
\* assistant's, results only if it is a tool's.
THEOREM ConversationTypes == ConversationSpec => []ConversationTypeOK
<1>1. ConversationInv => ConversationTypeOK
  BY DEF ConversationInv
<1> QED BY <1>1, ConversationInvariant, PTL

\* In every request an adapter sends, every call of the conversation is answered,
\* every answer belongs to a call, and no output is left out (run_agent_loop and
\* the three adapters' message conversions).
THEOREM EveryCallIsAnswered == ConversationSpec => []ResultsAnswerCalls
<1>1. ConversationInv => ResultsAnswerCalls
  BY DEF ConversationInv
<1> QED BY <1>1, ConversationInvariant, PTL

\* Which failures are retried, adapter by adapter.
LEMMA RetriedStatus ==
    ASSUME NEW adapter \in Adapters, NEW code \in Statuses \ {200}
    PROVE  IsRetryable(StatusError(adapter, code))
             <=> code \in TransientStatus /\ (adapter = "anthropic" => code = 429)
<1>1. code \in {401, 403, 408, 429, 500}
  BY DEF Statuses
<1>2. CASE adapter = "openai"
  BY <1>1, <1>2 DEF StatusError, OpenAiError, IsRetryable, TransientStatus
<1>3. CASE adapter = "anthropic"
  BY <1>1, <1>3 DEF StatusError, AnthropicError, IsRetryable, TransientStatus
<1>4. CASE adapter = "ollama"
  BY <1>1, <1>4 DEF StatusError, OllamaError, IsRetryable, TransientStatus
<1> QED BY <1>2, <1>3, <1>4 DEF Adapters

\* Only transient statuses are retried, all of them but for Anthropic, which
\* retries a rate limit only (the adapters' error mapping and is_retryable).
THEOREM RetriesAreTransient == ConversationSpec => []OnlyTransientIsRetried
<1>1. ConversationInv => OnlyTransientIsRetried
  <2> SUFFICES ASSUME ConversationInv, loop = "failed"
               PROVE  IsRetryable(StatusError(server, status))
                        <=> status \in TransientStatus /\ (server = "anthropic" => status = 429)
    BY DEF OnlyTransientIsRetried
  <2>1. server \in Adapters /\ status \in Statuses \ {200}
    BY DEF ConversationInv, ConversationTypeOK
  <2> QED BY <2>1, RetriedStatus
<1> QED BY <1>1, ConversationInvariant, PTL
-----------------------------------------------------------------------------
\* Elements with empty images, and elements that stand for one each.
LEMMA JoinedByBlank ==
    ASSUME NEW f, NEW s, NEW n \in Nat, DOMAIN s = 1 .. n, \A k \in 1 .. n : f[s[k]] = <<>>
    PROVE  JoinedBy(f, s) = <<>>
<1>1. ImageOf(f, s) \in [1 .. n -> {<<>>}]
  BY DEF ImageOf
<1>2. ImageOf(f, s) \in Seq({<<>>})
  BY <1>1, SequenceOf
<1> QED BY <1>2, FlattenEmpties DEF JoinedBy

LEMMA JoinedBySingles ==
    ASSUME NEW f, NEW S, NEW q \in Seq(S), NEW s, DOMAIN s = DOMAIN q,
           \A k \in DOMAIN q : f[s[k]] = <<q[k]>>
    PROVE  JoinedBy(f, s) = q
<1>1. ImageOf(f, s) = [k \in DOMAIN q |-> <<q[k]>>]
  BY DEF ImageOf
<1> QED BY <1>1, FlattenSingletons DEF JoinedBy

\* What deltas and chunks are made of; NoId is an id or a tool that is absent.
DeltaIds   == CallIds \cup {NoId}
DeltaTools == Tools \cup {NoId}
Deltas == [index : Nat, id : DeltaIds, tool : DeltaTools, args : Seq(Words)]
Chunks == [text : Seq(Words), deltas : Seq(Deltas)]

\* Functions, to join by.
OpeningOf == [d \in Deltas |-> Opening(d)]
ArgsOf(j) == [d \in Deltas |-> ArgsAt(j, d)]

\* The deltas of one call, at its index.
CallDeltas(c, m) ==
    <<Delta(m, c.id, c.tool, <<>>)>>
    \o [i \in DOMAIN c.args |-> Delta(m, NoId, NoId, <<c.args[i]>>)]

\* What a delta opens, and what it adds to the arguments at an index.
LEMMA DeltaMaps ==
    /\ Yields(OpeningOf, Deltas, Deltas)
    /\ \A j \in Nat : Yields(ArgsOf(j), Deltas, Words)
<1>1. \A d \in Deltas : Opening(d) \in Seq(Deltas) /\ d.args \in Seq(Words)
  <2> TAKE d \in Deltas
  <2>1. Opening(d) \in Seq(Deltas)
    BY DEF Opening
  <2> QED BY <2>1 DEF Deltas
<1>2. \A j \in Nat : \A d \in Deltas : ArgsAt(j, d) \in Seq(Words)
  BY <1>1 DEF ArgsAt
<1> QED BY <1>1, <1>2 DEF Yields, Maps, OpeningOf, ArgsOf

LEMMA DeltaIs ==
    ASSUME NEW m \in Nat, NEW id \in DeltaIds, NEW tool \in DeltaTools, NEW args \in Seq(Words)
    PROVE  /\ Delta(m, id, tool, args) \in Deltas
           /\ Opening(Delta(m, id, tool, args))
                = IF id = NoId THEN <<>> ELSE <<Delta(m, id, tool, args)>>
           /\ \A j : ArgsAt(j, Delta(m, id, tool, args)) = IF j = m THEN args ELSE <<>>
BY DEF Delta, Deltas, Opening, ArgsAt

LEMMA CallIdIsNone ==
    ASSUME NEW id \in CallIds
    PROVE  id # NoId
BY DEF CallIds, NoId

\* The deltas of a call open it once, and its arguments are theirs at its index.
LEMMA CallParts ==
    ASSUME NEW c \in Calls, NEW m \in Nat
    PROVE  /\ CallDeltas(c, m) \in Seq(Deltas)
           /\ JoinedBy(OpeningOf, CallDeltas(c, m)) = <<Delta(m, c.id, c.tool, <<>>)>>
           /\ \A j \in Nat : JoinedBy(ArgsOf(j), CallDeltas(c, m)) = IF j = m THEN c.args ELSE <<>>
<1> DEFINE Part(i) == Delta(m, NoId, NoId, <<c.args[i]>>)
           rest == [i \in DOMAIN c.args |-> Part(i)]
<1>1. c.id \in CallIds /\ c.tool \in Tools /\ c.args \in Seq(Words)
  BY DEF Calls
<1>2. PICK first, p : first = Delta(m, c.id, c.tool, <<>>) /\ p = <<first>>
  OBVIOUS
<1>3. <<>> \in Seq(Words) /\ NoId \in DeltaIds /\ NoId \in DeltaTools
      /\ c.id \in DeltaIds /\ c.tool \in DeltaTools /\ c.id # NoId
  BY <1>1, CallIdIsNone DEF DeltaIds, DeltaTools
<1>4. /\ first \in Deltas /\ Opening(first) = <<first>>
      /\ \A j : ArgsAt(j, first) = <<>>
  <2>1. PICK e : e = <<>>
    OBVIOUS
  <2>2. e \in Seq(Words)
    BY <1>3, <2>1
  <2>3. first = Delta(m, c.id, c.tool, e)
    BY <1>2, <2>1
  <2>4. /\ first \in Deltas
        /\ Opening(first) = IF c.id = NoId THEN <<>> ELSE <<first>>
        /\ \A j : ArgsAt(j, first) = IF j = m THEN e ELSE <<>>
    BY <1>3, <2>2, <2>3, DeltaIs
  <2> QED BY <1>3, <2>1, <2>4
<1>5. PICK n \in Nat : n = Len(c.args) /\ DOMAIN c.args = 1 .. n
  BY <1>1, LenProperties
<1>6. \A i \in 1 .. n : /\ Part(i) \in Deltas /\ Opening(Part(i)) = <<>>
                        /\ \A j : ArgsAt(j, Part(i)) = IF j = m THEN <<c.args[i]>> ELSE <<>>
  <2> TAKE i \in 1 .. n
  <2>1. c.args[i] \in Words
    BY <1>1, <1>5, ElementOfSeq
  <2>2. <<c.args[i]>> \in Seq(Words)
    BY <2>1
  <2>3. PICK w : w = <<c.args[i]>>
    OBVIOUS
  <2>4. w \in Seq(Words)
    BY <2>2, <2>3
  <2>5. Part(i) = Delta(m, NoId, NoId, w)
    BY <2>3
  <2> HIDE DEF Part
  <2>6. /\ Part(i) \in Deltas
        /\ Opening(Part(i)) = IF NoId = NoId THEN <<>> ELSE <<Part(i)>>
        /\ \A j : ArgsAt(j, Part(i)) = IF j = m THEN w ELSE <<>>
    BY <1>3, <2>4, <2>5, DeltaIs
  <2> QED BY <2>3, <2>6
<1>7. rest \in [1 .. n -> Deltas] /\ \A i \in 1 .. n : rest[i] = Part(i)
  BY <1>5, <1>6
<1>8. CallDeltas(c, m) = p \o rest
  BY <1>2 DEF CallDeltas
<1> HIDE DEF Part, rest
<1>9. rest \in Seq(Deltas) /\ p \in Seq(Deltas)
  BY <1>2, <1>4, <1>7, SequenceOf
<1>10. DOMAIN rest = 1 .. n
  BY <1>7
<1>11. CallDeltas(c, m) \in Seq(Deltas)
  BY <1>8, <1>9, ConcatProperties
<1>12. JoinedBy(OpeningOf, CallDeltas(c, m)) = p
  <2>0. Yields(OpeningOf, Deltas, Deltas)
    BY DeltaMaps
  <2>1. JoinedBy(OpeningOf, p \o rest) = JoinedBy(OpeningOf, p) \o JoinedBy(OpeningOf, rest)
    BY <1>9, <2>0, JoinedByConcat
  <2>2. OpeningOf[first] = p
    BY <1>2, <1>4 DEF OpeningOf
  <2>3. JoinedBy(OpeningOf, p) = p
    BY <1>2, <1>4, <2>0, <2>2, JoinedByOne
  <2>4. \A i \in 1 .. n : OpeningOf[rest[i]] = <<>>
    BY <1>6, <1>7 DEF OpeningOf
  <2>5. JoinedBy(OpeningOf, rest) = <<>>
    BY <1>10, <2>4, JoinedByBlank
  <2> QED BY <1>8, <1>9, <2>1, <2>3, <2>5, ConcatEmptySeq
<1>13. ASSUME NEW j \in Nat
       PROVE  JoinedBy(ArgsOf(j), CallDeltas(c, m)) = IF j = m THEN c.args ELSE <<>>
  <2>1. PICK f : f = ArgsOf(j)
    OBVIOUS
  <2>2. Yields(f, Deltas, Words)
    BY <2>1, DeltaMaps
  <2>3. JoinedBy(f, p \o rest) = JoinedBy(f, p) \o JoinedBy(f, rest)
    BY <1>9, <2>2, JoinedByConcat
  <2>4. f[first] = <<>>
    BY <1>4, <2>1 DEF ArgsOf
  <2>5. JoinedBy(f, p) = <<>>
    BY <1>2, <1>4, <2>2, <2>4, JoinedByOne
  <2>6. \A i \in 1 .. n : f[rest[i]] = IF j = m THEN <<c.args[i]>> ELSE <<>>
    BY <1>6, <1>7, <2>1 DEF ArgsOf
  <2>7. CASE j = m
    <3>0. PICK q : q = c.args
      OBVIOUS
    <3>1. q \in Seq(Words) /\ DOMAIN rest = DOMAIN q
      BY <1>1, <1>5, <1>10, <3>0
    <3>2. \A k \in DOMAIN q : f[rest[k]] = <<q[k]>>
      BY <1>5, <2>6, <2>7, <3>0
    <3>3. JoinedBy(f, rest) = q
      BY <3>1, <3>2, JoinedBySingles
    <3> QED BY <1>8, <2>1, <2>3, <2>5, <2>7, <3>0, <3>1, <3>3, ConcatEmptySeq
  <2>8. CASE j # m
    <3>1. JoinedBy(f, rest) = <<>>
      BY <1>10, <2>6, <2>8, JoinedByBlank
    <3> QED BY <1>8, <1>3, <2>1, <2>3, <2>5, <2>8, <3>1, ConcatEmptySeq
  <2> QED BY <2>7, <2>8
<1> QED BY <1>2, <1>11, <1>12, <1>13

\* The deltas so far add up to calls, whose indices lie below n.
Matches(D, calls, n) ==
    /\ D \in Seq(Deltas)
    /\ JoinedBy(OpeningOf, D) \in Seq(Deltas)
    /\ Len(JoinedBy(OpeningOf, D)) = Len(calls)
    /\ \A i \in 1 .. Len(calls) :
         LET o == JoinedBy(OpeningOf, D)[i]
         IN  /\ o.id = calls[i].id /\ o.tool = calls[i].tool
             /\ o.index \in Nat /\ o.index < n
             /\ JoinedBy(ArgsOf(o.index), D) = calls[i].args
    /\ \A j \in Nat : j >= n => JoinedBy(ArgsOf(j), D) = <<>>

\* No deltas, no calls.
LEMMA MatchesNone == Matches(<<>>, <<>>, 0)
<1>1. <<>> \in Seq(Deltas) /\ Len(<<>>) = 0
  OBVIOUS
<1>2. JoinedBy(OpeningOf, <<>>) = <<>> /\ \A j \in Nat : JoinedBy(ArgsOf(j), <<>>) = <<>>
  BY JoinedByNone
<1>3. PICK e : e = <<>>
  OBVIOUS
<1>4. e \in Seq(Deltas) /\ Len(e) = 0 /\ 1 .. 0 = {}
  BY <1>1, <1>3
<1>5. JoinedBy(OpeningOf, e) = e /\ \A j \in Nat : JoinedBy(ArgsOf(j), e) = <<>>
  BY <1>2, <1>3
<1>6. Matches(e, e, 0)
  BY <1>4, <1>5 DEF Matches
<1> QED BY <1>3, <1>6

\* The deltas of one more call, at the next index.
LEMMA MatchesCall ==
    ASSUME NEW D, NEW calls \in Seq(Calls), NEW n \in Nat, Matches(D, calls, n), NEW c \in Calls
    PROVE  Matches(D \o CallDeltas(c, n), Append(calls, c), n + 1)
<1>1. PICK d, o, more : /\ d = CallDeltas(c, n) /\ o = JoinedBy(OpeningOf, D)
                        /\ more = Append(calls, c)
  OBVIOUS
<1>2. PICK first : first = Delta(n, c.id, c.tool, <<>>)
  OBVIOUS
<1>3. PICK l \in Nat : l = Len(calls)
  OBVIOUS
<1>4. /\ D \in Seq(Deltas) /\ o \in Seq(Deltas) /\ Len(o) = l
      /\ \A i \in 1 .. l : /\ o[i].id = calls[i].id /\ o[i].tool = calls[i].tool
                           /\ o[i].index \in Nat /\ o[i].index < n
                           /\ JoinedBy(ArgsOf(o[i].index), D) = calls[i].args
      /\ \A j \in Nat : j >= n => JoinedBy(ArgsOf(j), D) = <<>>
  BY <1>1, <1>3 DEF Matches
<1>5. /\ d \in Seq(Deltas) /\ JoinedBy(OpeningOf, d) = <<first>>
      /\ \A j \in Nat : JoinedBy(ArgsOf(j), d) = IF j = n THEN c.args ELSE <<>>
  BY <1>1, <1>2, CallParts
<1>6. first.index = n /\ first.id = c.id /\ first.tool = c.tool
  BY <1>2 DEF Delta
<1>7. first \in Deltas /\ c.args \in Seq(Words)
  <2>1. c.id \in DeltaIds /\ c.tool \in DeltaTools /\ c.args \in Seq(Words)
    BY DEF Calls, DeltaIds, DeltaTools
  <2>2. PICK e : e = <<>>
    OBVIOUS
  <2>3. e \in Seq(Words) /\ first = Delta(n, c.id, c.tool, e)
    BY <1>2, <2>2
  <2> QED BY <2>1, <2>3, DeltaIs
<1>8. JoinedBy(OpeningOf, D \o d) = Append(o, first)
  <2>0. D \in Seq(Deltas) /\ d \in Seq(Deltas) /\ Yields(OpeningOf, Deltas, Deltas)
    BY <1>4, <1>5, DeltaMaps
  <2>1. JoinedBy(OpeningOf, D \o d) = JoinedBy(OpeningOf, D) \o JoinedBy(OpeningOf, d)
    BY <2>0, JoinedByConcat
  <2>2. Append(o, first) = o \o <<first>>
    BY <1>4, <1>7, AppendIsConcat
  <2> QED BY <1>1, <1>5, <2>1, <2>2
<1>9. PICK p : p = Append(o, first)
  OBVIOUS
<1>10. /\ p \in Seq(Deltas) /\ Len(p) = l + 1 /\ p[l + 1] = first
       /\ \A i \in 1 .. l : p[i] = o[i]
  BY <1>3, <1>4, <1>7, <1>9
<1>11. /\ more \in Seq(Calls) /\ Len(more) = l + 1 /\ more[l + 1] = c
       /\ \A i \in 1 .. l : more[i] = calls[i]
  BY <1>1, <1>3
<1>12. \A j \in Nat : JoinedBy(ArgsOf(j), D \o d) = JoinedBy(ArgsOf(j), D) \o JoinedBy(ArgsOf(j), d)
  <2> TAKE j \in Nat
  <2>1. PICK f : f = ArgsOf(j)
    OBVIOUS
  <2>2. Yields(f, Deltas, Words)
    BY <2>1, DeltaMaps
  <2>3. JoinedBy(f, D \o d) = JoinedBy(f, D) \o JoinedBy(f, d)
    BY <1>4, <1>5, <2>2, JoinedByConcat
  <2> QED BY <2>1, <2>3
<1>13. \A j \in Nat : j > n => JoinedBy(ArgsOf(j), D \o d) = <<>>
  <2> SUFFICES ASSUME NEW j \in Nat, j > n PROVE JoinedBy(ArgsOf(j), D \o d) = <<>>
    OBVIOUS
  <2>1. JoinedBy(ArgsOf(j), D) = <<>> /\ JoinedBy(ArgsOf(j), d) = <<>>
    BY <1>4, <1>5
  <2>2. <<>> \o <<>> = <<>>
    OBVIOUS
  <2> QED BY <1>12, <2>1, <2>2
<1>14. JoinedBy(ArgsOf(n), D \o d) = c.args
  <2>1. JoinedBy(ArgsOf(n), D) = <<>> /\ JoinedBy(ArgsOf(n), d) = c.args
    BY <1>4, <1>5
  <2>2. <<>> \o c.args = c.args
    BY <1>7, ConcatEmptySeq
  <2> QED BY <1>12, <2>1, <2>2
<1>15. \A i \in 1 .. l : JoinedBy(ArgsOf(o[i].index), D \o d) = calls[i].args
  <2> TAKE i \in 1 .. l
  <2>1. PICK j \in Nat : j = o[i].index /\ j # n
    BY <1>4
  <2>2. JoinedBy(ArgsOf(j), D) = calls[i].args /\ JoinedBy(ArgsOf(j), d) = <<>>
    BY <1>4, <1>5, <2>1
  <2>3. calls[i].args \in Seq(Words)
    <3>1. calls[i] \in Calls
      BY <1>3, ElementOfSeq
    <3> QED BY <3>1 DEF Calls
  <2>4. calls[i].args \o <<>> = calls[i].args
    BY <2>3, ConcatEmptySeq
  <2> QED BY <1>12, <2>1, <2>2, <2>4
<1>16. D \o d \in Seq(Deltas)
  BY <1>4, <1>5, ConcatProperties
<1>17. \A i \in 1 .. l + 1 : /\ p[i].id = more[i].id /\ p[i].tool = more[i].tool
                             /\ p[i].index \in Nat /\ p[i].index < n + 1
                             /\ JoinedBy(ArgsOf(p[i].index), D \o d) = more[i].args
  <2> TAKE i \in 1 .. l + 1
  <2>1. CASE i = l + 1
    BY <1>6, <1>10, <1>11, <1>14, <2>1
  <2>2. CASE i # l + 1
    <3>1. i \in 1 .. l
      BY <2>2
    <3>2. p[i] = o[i] /\ more[i] = calls[i]
      BY <1>10, <1>11, <3>1
    <3>3. /\ o[i].id = calls[i].id /\ o[i].tool = calls[i].tool
          /\ o[i].index \in Nat /\ o[i].index < n
      BY <1>4, <3>1
    <3>4. JoinedBy(ArgsOf(o[i].index), D \o d) = calls[i].args
      BY <1>15, <3>1
    <3> QED BY <3>2, <3>3, <3>4
  <2> QED BY <2>1, <2>2
<1>18. \A j \in Nat : j >= n + 1 => JoinedBy(ArgsOf(j), D \o d) = <<>>
  BY <1>13
<1>19. Matches(D \o d, more, n + 1)
  BY <1>8, <1>9, <1>10, <1>11, <1>16, <1>17, <1>18 DEF Matches
<1> QED BY <1>1, <1>19

\* An index may be passed over.
LEMMA MatchesMore ==
    ASSUME NEW D, NEW calls, NEW n \in Nat, Matches(D, calls, n)
    PROVE  Matches(D, calls, n + 1)
<1>1. \A j \in Nat : j >= n + 1 => j >= n
  OBVIOUS
<1>2. \A j \in Nat : j < n => j < n + 1
  OBVIOUS
<1> QED BY <1>1, <1>2 DEF Matches

\* Deltas that match calls are assembled to them.
LEMMA MatchesAssembles ==
    ASSUME NEW D, NEW calls \in Seq(Calls), NEW n \in Nat, Matches(D, calls, n)
    PROVE  Assembled(D) = calls
<1>1. PICK o : o = JoinedBy(OpeningOf, D)
  OBVIOUS
<1>2. /\ D \in Seq(Deltas) /\ o \in Seq(Deltas) /\ Len(o) = Len(calls)
      /\ \A i \in 1 .. Len(calls) : /\ o[i].id = calls[i].id /\ o[i].tool = calls[i].tool
                                    /\ o[i].index \in Nat
                                    /\ JoinedBy(ArgsOf(o[i].index), D) = calls[i].args
  BY <1>1 DEF Matches
<1>3. Joined(D, Opening) = o
  <2>1. \A k \in DOMAIN D : D[k] \in Deltas
    BY <1>2
  <2>2. [k \in DOMAIN D |-> Opening(D[k])] = ImageOf(OpeningOf, D)
    BY <2>1 DEF ImageOf, OpeningOf
  <2> QED BY <1>1, <2>2 DEF Joined, JoinedBy
<1>4. \A j \in Nat : FlattenSeq([k \in DOMAIN D |-> ArgsAt(j, D[k])]) = JoinedBy(ArgsOf(j), D)
  <2> TAKE j \in Nat
  <2>1. \A k \in DOMAIN D : D[k] \in Deltas
    BY <1>2
  <2>2. [k \in DOMAIN D |-> ArgsAt(j, D[k])] = ImageOf(ArgsOf(j), D)
    BY <2>1 DEF ImageOf, ArgsOf
  <2> QED BY <2>2 DEF JoinedBy
<1> DEFINE Call(i) == [id |-> o[i].id, tool |-> o[i].tool,
                       args |-> FlattenSeq([k \in DOMAIN D |-> ArgsAt(o[i].index, D[k])])]
<1>5. Assembled(D) = [i \in DOMAIN o |-> Call(i)]
  BY <1>3 DEF Assembled, Joined
<1>6. \A i \in 1 .. Len(calls) : Call(i) = calls[i]
  <2> TAKE i \in 1 .. Len(calls)
  <2>1. calls[i] \in Calls
    BY ElementOfSeq
  <2>2. FlattenSeq([k \in DOMAIN D |-> ArgsAt(o[i].index, D[k])]) = calls[i].args
    BY <1>2, <1>4
  <2>3. calls[i] = [id |-> calls[i].id, tool |-> calls[i].tool, args |-> calls[i].args]
    BY <2>1 DEF Calls
  <2> QED BY <1>2, <2>2, <2>3
<1> HIDE DEF Call
<1>7. DOMAIN o = 1 .. Len(calls) /\ Len(calls) \in Nat /\ DOMAIN calls = 1 .. Len(calls)
  BY <1>2, LenProperties
<1>8. calls = [i \in 1 .. Len(calls) |-> calls[i]]
  BY <1>7
<1> QED BY <1>5, <1>6, <1>7, <1>8
-----------------------------------------------------------------------------
LEMMA FlattenLast ==
    ASSUME NEW S, NEW n \in Nat, NEW ss \in Seq(Seq(S)), Len(ss) = n,
           NEW tt \in Seq(Seq(S)), Len(tt) = n + 1, \A i \in 1 .. n : tt[i] = ss[i]
    PROVE  FlattenSeq(tt) = FlattenSeq(ss) \o tt[n + 1]
<1>1. PICK Y, m : Y = Seq(S) /\ m = n + 1
  OBVIOUS
<1>2. tt \in Seq(Y) /\ ss \in Seq(Y) /\ Len(tt) = m /\ Len(ss) = n /\ m \in Nat
  BY <1>1
<1>3. PICK s : s = tt[m]
  OBVIOUS
<1>4. s \in Y
  <2>1. m \in 1 .. Len(tt)
    BY <1>1, <1>2
  <2> QED BY <1>2, <1>3, <2>1, ElementOfSeq
<1>5. PICK r : r = Append(ss, s)
  OBVIOUS
<1>6. r \in Seq(Y) /\ Len(r) = m /\ r[m] = s /\ \A i \in 1 .. n : r[i] = ss[i]
  BY <1>1, <1>2, <1>4, <1>5, AppendProperties
<1>7. \A i \in 1 .. m : r[i] = tt[i]
  <2> TAKE i \in 1 .. m
  <2>1. CASE i = m
    BY <1>3, <1>6, <2>1
  <2>2. CASE i # m
    <3>1. i \in 1 .. n
      BY <1>1, <2>2
    <3> QED BY <1>6, <3>1
  <2> QED BY <2>1, <2>2
<1>8. r = tt
  BY <1>2, <1>6, <1>7, SeqEqual
<1>9. FlattenSeq(r) = FlattenSeq(ss) \o s
  BY <1>1, <1>2, <1>4, <1>5, FlattenAppend
<1> QED BY <1>1, <1>3, <1>8, <1>9

TextOf   == [c \in Chunks |-> c.text]
DeltasOf == [c \in Chunks |-> c.deltas]

\* What a chunk carries.
LEMMA ChunkMaps == Yields(TextOf, Chunks, Words) /\ Yields(DeltasOf, Chunks, Deltas)
<1>1. \A c \in Chunks : c.text \in Seq(Words) /\ c.deltas \in Seq(Deltas)
  BY DEF Chunks
<1> QED BY <1>1 DEF Yields, Maps, TextOf, DeltasOf

LEMMA ChunkIs ==
    ASSUME NEW text \in Seq(Words), NEW deltas \in Seq(Deltas)
    PROVE  /\ Chunk(text, deltas) \in Chunks
           /\ JoinedBy(TextOf, <<Chunk(text, deltas)>>) = text
           /\ JoinedBy(DeltasOf, <<Chunk(text, deltas)>>) = deltas
<1>1. PICK c : c = Chunk(text, deltas)
  OBVIOUS
<1>2. c \in Chunks /\ c.text = text /\ c.deltas = deltas
  BY <1>1 DEF Chunk, Chunks
<1>3. TextOf[c] = text /\ DeltasOf[c] = deltas
  BY <1>2 DEF TextOf, DeltasOf
<1>4. Yields(TextOf, Chunks, Words)
  BY ChunkMaps
<1>5. Yields(DeltasOf, Chunks, Deltas)
  BY ChunkMaps
<1>6. JoinedBy(TextOf, <<c>>) = TextOf[c]
  BY <1>2, <1>4, JoinedByOne
<1>7. JoinedBy(DeltasOf, <<c>>) = DeltasOf[c]
  BY <1>2, <1>5, JoinedByOne
<1> QED BY <1>1, <1>2, <1>3, <1>6, <1>7

\* What the consumer makes of chunks whose deltas match calls.
LEMMA ConsumedIs ==
    ASSUME NEW chunks \in Seq(Chunks), NEW calls \in Seq(Calls), NEW n \in Nat,
           Matches(JoinedBy(DeltasOf, chunks), calls, n)
    PROVE  Consumed(chunks) = [text |-> JoinedBy(TextOf, chunks), calls |-> calls]
<1>1. \A k \in DOMAIN chunks : chunks[k] \in Chunks
  OBVIOUS
<1>2. [k \in DOMAIN chunks |-> chunks[k].text] = ImageOf(TextOf, chunks)
  BY <1>1 DEF ImageOf, TextOf
<1>3. [k \in DOMAIN chunks |-> chunks[k].deltas] = ImageOf(DeltasOf, chunks)
  BY <1>1 DEF ImageOf, DeltasOf
<1>4. Assembled(JoinedBy(DeltasOf, chunks)) = calls
  BY MatchesAssembles
<1> QED BY <1>2, <1>3, <1>4 DEF Consumed, Joined, JoinedBy

\* The deltas of a call: the one that opens it, and the pieces of its arguments.
LEMMA DeltasOfCall ==
    ASSUME NEW c \in Calls, NEW m \in Nat
    PROVE  /\ Delta(m, c.id, c.tool, <<>>) \in Deltas
           /\ [i \in DOMAIN c.args |-> Delta(m, NoId, NoId, <<c.args[i]>>)] \in Seq(Deltas)
           /\ \A i \in DOMAIN c.args : Delta(m, NoId, NoId, <<c.args[i]>>) \in Deltas
<1> DEFINE Part(i) == Delta(m, NoId, NoId, <<c.args[i]>>)
           rest == [i \in DOMAIN c.args |-> Part(i)]
<1>1. c.id \in DeltaIds /\ c.tool \in DeltaTools /\ c.args \in Seq(Words)
  BY DEF Calls, DeltaIds, DeltaTools
<1>2. NoId \in DeltaIds /\ NoId \in DeltaTools
  BY DEF DeltaIds, DeltaTools
<1>3. Delta(m, c.id, c.tool, <<>>) \in Deltas
  <2>1. PICK e : e = <<>>
    OBVIOUS
  <2>2. e \in Seq(Words)
    BY <2>1
  <2>3. Delta(m, c.id, c.tool, e) \in Deltas
    BY <1>1, <2>2, DeltaIs
  <2> QED BY <2>1, <2>3
<1>4. PICK n \in Nat : n = Len(c.args) /\ DOMAIN c.args = 1 .. n
  BY <1>1, LenProperties
<1>5. \A i \in 1 .. n : Part(i) \in Deltas
  <2> TAKE i \in 1 .. n
  <2>1. c.args[i] \in Words
    BY <1>1, <1>4, ElementOfSeq
  <2>2. PICK w : w = <<c.args[i]>>
    OBVIOUS
  <2>3. w \in Seq(Words)
    BY <2>1, <2>2
  <2>4. Delta(m, NoId, NoId, w) \in Deltas
    BY <1>2, <2>3, DeltaIs
  <2> QED BY <2>2, <2>4
<1>6. rest \in [1 .. n -> Deltas]
  BY <1>4, <1>5
<1>7. \A i \in DOMAIN c.args : Part(i) \in Deltas
  BY <1>4, <1>5
<1> HIDE DEF rest
<1>8. rest \in Seq(Deltas)
  BY <1>6, SequenceOf
<1> QED BY <1>3, <1>7, <1>8 DEF rest

\* The events of an OpenAI stream, and what they carry.
OpenAiChoices  == [content : Seq(Words), deltas : Seq(Deltas)]
OpenAiEventSet == [done : BOOLEAN, choices : Seq(OpenAiChoices)]

OpenAiSseOf == [e \in OpenAiEventSet |-> OpenAiSse(e)]
ContentOf == [e \in OpenAiEventSet |->
                IF e.done \/ e.choices = <<>> THEN <<>> ELSE e.choices[1].content]
MoreOf    == [e \in OpenAiEventSet |->
                IF e.done \/ e.choices = <<>> THEN <<>> ELSE e.choices[1].deltas]

\* What an OpenAI event yields is its first choice's content and deltas.
LEMMA OpenAiEventIs ==
    ASSUME NEW e \in OpenAiEventSet
    PROVE  /\ OpenAiSse(e) \in Seq(Chunks)
           /\ ContentOf[e] \in Seq(Words) /\ ContentOf[e] = JoinedBy(TextOf, OpenAiSse(e))
           /\ MoreOf[e] \in Seq(Deltas) /\ MoreOf[e] = JoinedBy(DeltasOf, OpenAiSse(e))
<1>1. e.choices \in Seq(OpenAiChoices)
  BY DEF OpenAiEventSet
<1>2. <<>> \in Seq(Words) /\ <<>> \in Seq(Deltas) /\ <<>> \in Seq(Chunks)
  OBVIOUS
<1>3. CASE e.done
  <2>1. OpenAiSse(e) = <<>> /\ ContentOf[e] = <<>> /\ MoreOf[e] = <<>>
    BY <1>3 DEF OpenAiSse, ContentOf, MoreOf
  <2> QED BY <1>2, <2>1, JoinedByNone
<1>4. CASE ~e.done
  <2>1. PICK text, deltas : /\ text = IF e.choices = <<>> THEN <<>> ELSE e.choices[1].content
                            /\ deltas = IF e.choices = <<>> THEN <<>> ELSE e.choices[1].deltas
    OBVIOUS
  <2>2. text \in Seq(Words) /\ deltas \in Seq(Deltas)
    <3>1. CASE e.choices = <<>>
      BY <1>2, <2>1, <3>1
    <3>2. CASE e.choices # <<>>
      <4>1. e.choices[1] \in OpenAiChoices
        BY <1>1, <3>2
      <4> QED BY <2>1, <3>2, <4>1 DEF OpenAiChoices
    <3> QED BY <3>1, <3>2
  <2>3. OpenAiSse(e) = <<Chunk(text, deltas)>>
    BY <1>4, <2>1 DEF OpenAiSse
  <2>4. ContentOf[e] = text /\ MoreOf[e] = deltas
    BY <1>4, <2>1 DEF ContentOf, MoreOf
  <2>5. PICK c : c = Chunk(text, deltas)
    OBVIOUS
  <2>6. /\ c \in Chunks /\ JoinedBy(TextOf, <<c>>) = text /\ JoinedBy(DeltasOf, <<c>>) = deltas
    BY <2>2, <2>5, ChunkIs
  <2>7. <<c>> \in Seq(Chunks)
    BY <2>6
  <2> QED BY <2>2, <2>3, <2>4, <2>5, <2>6, <2>7
<1> QED BY <1>3, <1>4

LEMMA OpenAiMaps ==
    /\ Yields(OpenAiSseOf, OpenAiEventSet, Chunks)
    /\ Yields(ContentOf, OpenAiEventSet, Words)
    /\ Yields(MoreOf, OpenAiEventSet, Deltas)
<1>1. Yields(OpenAiSseOf, OpenAiEventSet, Chunks)
  BY OpenAiEventIs DEF Yields, Maps, OpenAiSseOf
<1>2. DOMAIN ContentOf = OpenAiEventSet /\ DOMAIN MoreOf = OpenAiEventSet
  BY DEF ContentOf, MoreOf
<1>3. /\ ContentOf = [e \in OpenAiEventSet |-> ContentOf[e]]
      /\ MoreOf = [e \in OpenAiEventSet |-> MoreOf[e]]
  BY DEF ContentOf, MoreOf
<1>4. Yields(ContentOf, OpenAiEventSet, Words)
  BY <1>2, <1>3, OpenAiEventIs DEF Yields, Maps
<1>5. Yields(MoreOf, OpenAiEventSet, Deltas)
  BY <1>2, <1>3, OpenAiEventIs DEF Yields, Maps
<1> QED BY <1>1, <1>4, <1>5

\* What a stream of events adds up to.
LEMMA OpenAiAddsUp ==
    ASSUME NEW events \in Seq(OpenAiEventSet)
    PROVE  /\ Joined(events, OpenAiSse) \in Seq(Chunks)
           /\ JoinedBy(TextOf, Joined(events, OpenAiSse)) = JoinedBy(ContentOf, events)
           /\ JoinedBy(DeltasOf, Joined(events, OpenAiSse)) = JoinedBy(MoreOf, events)
<1>1. \A k \in DOMAIN events : events[k] \in OpenAiEventSet
  OBVIOUS
<1>2. [k \in DOMAIN events |-> OpenAiSse(events[k])] = ImageOf(OpenAiSseOf, events)
  BY <1>1 DEF ImageOf, OpenAiSseOf
<1>3. Joined(events, OpenAiSse) = JoinedBy(OpenAiSseOf, events)
  BY <1>2 DEF Joined, JoinedBy
<1>4. Yields(OpenAiSseOf, OpenAiEventSet, Chunks)
  BY OpenAiMaps
<1>5. Yields(ContentOf, OpenAiEventSet, Words)
  BY OpenAiMaps
<1>6. Yields(MoreOf, OpenAiEventSet, Deltas)
  BY OpenAiMaps
<1>7. Yields(TextOf, Chunks, Words)
  BY ChunkMaps
<1>8. Yields(DeltasOf, Chunks, Deltas)
  BY ChunkMaps
<1>9. \A e \in OpenAiEventSet : OpenAiSseOf[e] = OpenAiSse(e)
  BY DEF OpenAiSseOf
<1>10. \A e \in OpenAiEventSet : ContentOf[e] = JoinedBy(TextOf, OpenAiSseOf[e])
  BY <1>9, OpenAiEventIs
<1>11. \A e \in OpenAiEventSet : MoreOf[e] = JoinedBy(DeltasOf, OpenAiSseOf[e])
  BY <1>9, OpenAiEventIs
<1>12. JoinedBy(TextOf, JoinedBy(OpenAiSseOf, events)) = JoinedBy(ContentOf, events)
  BY <1>4, <1>5, <1>7, <1>10, JoinedByTwice
<1>13. JoinedBy(DeltasOf, JoinedBy(OpenAiSseOf, events)) = JoinedBy(MoreOf, events)
  BY <1>4, <1>6, <1>8, <1>11, JoinedByTwice
<1>14. JoinedBy(OpenAiSseOf, events) \in Seq(Chunks)
  BY <1>4, JoinedByType
<1> QED BY <1>3, <1>12, <1>13, <1>14

\* The event of one choice.
LEMMA ChoiceIs ==
    ASSUME NEW text \in Seq(Words), NEW deltas \in Seq(Deltas)
    PROVE  /\ Choice(text, deltas) \in OpenAiEventSet
           /\ ContentOf[Choice(text, deltas)] = text
           /\ MoreOf[Choice(text, deltas)] = deltas
<1>1. PICK o : o = [content |-> text, deltas |-> deltas]
  OBVIOUS
<1>2. o \in OpenAiChoices /\ o.content = text /\ o.deltas = deltas
  BY <1>1 DEF OpenAiChoices
<1>3. PICK e : e = Choice(text, deltas)
  OBVIOUS
<1>4. e.done = FALSE /\ e.choices = <<o>> /\ e = [done |-> FALSE, choices |-> <<o>>]
  BY <1>1, <1>3 DEF Choice, Event
<1>5. <<o>> \in Seq(OpenAiChoices) /\ <<o>> # <<>> /\ <<o>>[1] = o
  BY <1>2
<1>6. e \in OpenAiEventSet
  BY <1>4, <1>5 DEF OpenAiEventSet
<1> QED BY <1>2, <1>3, <1>4, <1>5, <1>6 DEF ContentOf, MoreOf

\* The events of one call add up to its deltas.
LEMMA CallEventsAre ==
    ASSUME NEW c \in Calls, NEW i \in Nat \ {0}
    PROVE  /\ CallEvents(c, i) \in Seq(OpenAiEventSet)
           /\ JoinedBy(ContentOf, CallEvents(c, i)) = <<>>
           /\ JoinedBy(MoreOf, CallEvents(c, i)) = CallDeltas(c, i - 1)
<1> DEFINE Part(k) == Delta(i - 1, NoId, NoId, <<c.args[k]>>)
           Ev(k) == Choice(<<>>, <<Part(k)>>)
           q == [k \in DOMAIN c.args |-> Part(k)]
           s == [k \in DOMAIN c.args |-> Ev(k)]
<1>1. PICK m \in Nat : m = i - 1
  OBVIOUS
<1>2. PICK first : first = Delta(m, c.id, c.tool, <<>>)
  OBVIOUS
<1>3. first \in Deltas
  BY <1>2, DeltasOfCall
<1>4. q \in Seq(Deltas)
  BY <1>1, DeltasOfCall
<1>5. \A k \in DOMAIN c.args : Part(k) \in Deltas
  BY <1>1, DeltasOfCall
<1>6. c.args \in Seq(Words)
  BY DEF Calls
<1>7. PICK n \in Nat : n = Len(c.args) /\ DOMAIN c.args = 1 .. n
  BY <1>6, LenProperties
<1>8. CallDeltas(c, m) = <<first>> \o q
  BY <1>1, <1>2 DEF CallDeltas
<1>9. PICK e0, p : e0 = Choice(<<>>, <<first>>) /\ p = <<e0>>
  OBVIOUS
<1>10. CallEvents(c, i) = p \o s
  BY <1>1, <1>2, <1>9 DEF CallEvents
<1>11. \A k \in 1 .. n : q[k] = Part(k) /\ s[k] = Ev(k)
  BY <1>7
<1>12. DOMAIN s = 1 .. n /\ DOMAIN q = 1 .. n
  BY <1>7
<1> HIDE DEF Part
<1>0. PICK z : z = <<>>
  OBVIOUS
<1>13. z = <<>> /\ z \in Seq(Words)
  BY <1>0
<1>14. e0 \in OpenAiEventSet /\ ContentOf[e0] = <<>> /\ MoreOf[e0] = <<first>>
  <2>1. PICK d : d = <<first>>
    OBVIOUS
  <2>2. d \in Seq(Deltas)
    BY <1>3, <2>1
  <2>3. e0 = Choice(z, d)
    BY <1>9, <1>13, <2>1
  <2> QED BY <1>13, <2>1, <2>2, <2>3, ChoiceIs
<1>15. \A k \in 1 .. n : /\ Ev(k) \in OpenAiEventSet /\ ContentOf[Ev(k)] = <<>>
                         /\ MoreOf[Ev(k)] = <<Part(k)>>
  <2> TAKE k \in 1 .. n
  <2>1. PICK d : d = <<Part(k)>>
    OBVIOUS
  <2>2. d \in Seq(Deltas)
    BY <1>5, <1>7, <2>1
  <2>3. Ev(k) = Choice(z, d)
    BY <1>13, <2>1
  <2>4. /\ Choice(z, d) \in OpenAiEventSet /\ ContentOf[Choice(z, d)] = z
        /\ MoreOf[Choice(z, d)] = d
    BY <1>13, <2>2, ChoiceIs
  <2> HIDE DEF Ev
  <2> QED BY <1>13, <2>1, <2>3, <2>4
<1>16. s \in [1 .. n -> OpenAiEventSet]
  BY <1>7, <1>15
<1> HIDE DEF Ev, q, s
<1>17. s \in Seq(OpenAiEventSet) /\ p \in Seq(OpenAiEventSet)
  BY <1>9, <1>14, <1>16, SequenceOf
<1>18. Yields(ContentOf, OpenAiEventSet, Words)
  BY OpenAiMaps
<1>19. Yields(MoreOf, OpenAiEventSet, Deltas)
  BY OpenAiMaps
<1>20. JoinedBy(ContentOf, p \o s) = JoinedBy(ContentOf, p) \o JoinedBy(ContentOf, s)
  BY <1>17, <1>18, JoinedByConcat
<1>21. JoinedBy(MoreOf, p \o s) = JoinedBy(MoreOf, p) \o JoinedBy(MoreOf, s)
  BY <1>17, <1>19, JoinedByConcat
<1>22. JoinedBy(ContentOf, p) = <<>>
  BY <1>9, <1>14, <1>18, JoinedByOne
<1>23. JoinedBy(MoreOf, p) = <<first>>
  BY <1>9, <1>14, <1>19, JoinedByOne
<1>24. JoinedBy(ContentOf, s) = <<>>
  <2>1. \A k \in 1 .. n : ContentOf[s[k]] = <<>>
    BY <1>11, <1>15
  <2> QED BY <1>12, <2>1, JoinedByBlank
<1>25. JoinedBy(MoreOf, s) = q
  <2>1. DOMAIN s = DOMAIN q
    BY <1>12
  <2>2. \A k \in DOMAIN q : MoreOf[s[k]] = <<q[k]>>
    BY <1>11, <1>12, <1>15
  <2> QED BY <1>4, <2>1, <2>2, JoinedBySingles
<1>26. <<>> \o <<>> = <<>>
  OBVIOUS
<1>27. p \o s \in Seq(OpenAiEventSet)
  BY <1>17, ConcatProperties
<1> QED BY <1>1, <1>8, <1>10, <1>20, <1>21, <1>22, <1>23, <1>24, <1>25, <1>26, <1>27

\* The calls' part of an OpenAI stream.
CallStream(calls) == FlattenSeq([i \in DOMAIN calls |-> CallEvents(calls[i], i)])

\* The events of all calls, and of one call more.
LEMMA CallStreamParts ==
    ASSUME NEW calls \in Seq(Calls)
    PROVE  /\ [i \in DOMAIN calls |-> CallEvents(calls[i], i)] \in Seq(Seq(OpenAiEventSet))
           /\ Len([i \in DOMAIN calls |-> CallEvents(calls[i], i)]) = Len(calls)
           /\ CallStream(calls) \in Seq(OpenAiEventSet)
<1> DEFINE ss == [i \in DOMAIN calls |-> CallEvents(calls[i], i)]
<1>1. PICK n \in Nat : n = Len(calls) /\ DOMAIN calls = 1 .. n
  BY LenProperties
<1>2. PICK Y : Y = Seq(OpenAiEventSet)
  OBVIOUS
<1>3. \A i \in 1 .. n : CallEvents(calls[i], i) \in Y
  <2> TAKE i \in 1 .. n
  <2>1. calls[i] \in Calls /\ i \in Nat \ {0}
    BY <1>1, ElementOfSeq
  <2> QED BY <1>2, <2>1, CallEventsAre
<1>4. ss \in [1 .. n -> Y]
  BY <1>1, <1>3
<1> HIDE DEF ss
<1>5. ss \in Seq(Y) /\ Len(ss) = n
  BY <1>4, SequenceOf
<1>6. FlattenSeq(ss) \in Seq(OpenAiEventSet)
  BY <1>2, <1>5, FlattenType
<1> QED BY <1>1, <1>2, <1>5, <1>6 DEF ss, CallStream

LEMMA CallStreamAppend ==
    ASSUME NEW calls \in Seq(Calls), NEW c \in Calls, NEW n \in Nat, n = Len(calls)
    PROVE  CallStream(Append(calls, c)) = CallStream(calls) \o CallEvents(c, n + 1)
<1>1. PICK more : more = Append(calls, c)
  OBVIOUS
<1>2. /\ more \in Seq(Calls) /\ Len(more) = n + 1 /\ more[n + 1] = c
      /\ \A i \in 1 .. n : more[i] = calls[i]
  BY <1>1
<1>3. DOMAIN calls = 1 .. n /\ DOMAIN more = 1 .. n + 1
  BY <1>2, LenProperties
<1> DEFINE ss == [i \in DOMAIN calls |-> CallEvents(calls[i], i)]
           tt == [i \in DOMAIN more |-> CallEvents(more[i], i)]
<1>4. ss \in Seq(Seq(OpenAiEventSet)) /\ Len(ss) = n
  BY CallStreamParts
<1>5. tt \in Seq(Seq(OpenAiEventSet)) /\ Len(tt) = n + 1
  BY <1>2, CallStreamParts
<1>6. \A i \in 1 .. n : tt[i] = ss[i]
  BY <1>2, <1>3
<1>7. tt[n + 1] = CallEvents(c, n + 1)
  <2>1. n + 1 \in DOMAIN more
    BY <1>3
  <2> QED BY <1>2, <2>1
<1> HIDE DEF ss, tt
<1>8. FlattenSeq(tt) = FlattenSeq(ss) \o tt[n + 1]
  BY <1>4, <1>5, <1>6, FlattenLast
<1> QED BY <1>1, <1>7, <1>8 DEF ss, tt, CallStream

\* They match the calls and carry no text.
LEMMA CallStreamAddsUp ==
    ASSUME NEW calls \in Seq(Calls)
    PROVE  /\ JoinedBy(ContentOf, CallStream(calls)) = <<>>
           /\ Matches(JoinedBy(MoreOf, CallStream(calls)), calls, Len(calls))
<1> DEFINE Good(s) == /\ JoinedBy(ContentOf, CallStream(s)) = <<>>
                      /\ Matches(JoinedBy(MoreOf, CallStream(s)), s, Len(s))
           T == {s \in Seq(Calls) : Good(s)}
<1>1. T \in SUBSET Seq(Calls) /\ \A s \in Seq(Calls) : s \in T <=> Good(s)
  OBVIOUS
<1> HIDE DEF T
<1>2. <<>> \in T
  <2>1. PICK e : e = <<>>
    OBVIOUS
  <2>2. e \in Seq(Calls) /\ Len(e) = 0
    BY <2>1
  <2>3. [i \in DOMAIN e |-> CallEvents(e[i], i)] = e
    BY <2>1
  <2>4. CallStream(e) = e
    BY <2>2, <2>3, FlattenNone DEF CallStream
  <2>5. JoinedBy(ContentOf, e) = e /\ JoinedBy(MoreOf, e) = e
    BY <2>1, JoinedByNone
  <2>6. Matches(e, e, 0)
    BY <2>1, MatchesNone
  <2>7. Good(e)
    BY <2>1, <2>2, <2>4, <2>5, <2>6
  <2> HIDE DEF Good
  <2> QED BY <1>1, <2>1, <2>2, <2>7
<1>3. \A s \in T, c \in Calls : Append(s, c) \in T
  <2> TAKE s \in T, c \in Calls
  <2>1. s \in Seq(Calls) /\ Good(s)
    BY <1>1
  <2>2. PICK n \in Nat : n = Len(s)
    BY <2>1
  <2>3. PICK more, old, new : /\ more = Append(s, c) /\ old = CallStream(s)
                              /\ new = CallEvents(c, n + 1)
    OBVIOUS
  <2>4. more \in Seq(Calls) /\ Len(more) = n + 1
    BY <2>1, <2>2, <2>3
  <2>5. CallStream(more) = old \o new
    BY <2>1, <2>2, <2>3, CallStreamAppend
  <2>6. old \in Seq(OpenAiEventSet)
    BY <2>1, <2>3, CallStreamParts
  <2>7. /\ new \in Seq(OpenAiEventSet) /\ JoinedBy(ContentOf, new) = <<>>
        /\ JoinedBy(MoreOf, new) = CallDeltas(c, n)
    <3>1. PICK m \in Nat \ {0} : m = n + 1 /\ n = m - 1
      OBVIOUS
    <3>2. /\ CallEvents(c, m) \in Seq(OpenAiEventSet)
          /\ JoinedBy(ContentOf, CallEvents(c, m)) = <<>>
          /\ JoinedBy(MoreOf, CallEvents(c, m)) = CallDeltas(c, m - 1)
      BY CallEventsAre
    <3> QED BY <2>3, <3>1, <3>2
  <2>8. JoinedBy(ContentOf, old \o new) = JoinedBy(ContentOf, old) \o JoinedBy(ContentOf, new)
    <3>1. Yields(ContentOf, OpenAiEventSet, Words)
      BY OpenAiMaps
    <3>2. new \in Seq(OpenAiEventSet)
      BY <2>7
    <3> QED BY <2>6, <3>1, <3>2, JoinedByConcat
  <2>9. JoinedBy(MoreOf, old \o new) = JoinedBy(MoreOf, old) \o JoinedBy(MoreOf, new)
    <3>1. Yields(MoreOf, OpenAiEventSet, Deltas)
      BY OpenAiMaps
    <3>2. new \in Seq(OpenAiEventSet)
      BY <2>7
    <3> QED BY <2>6, <3>1, <3>2, JoinedByConcat
  <2>10. JoinedBy(ContentOf, old) = <<>> /\ Matches(JoinedBy(MoreOf, old), s, n)
    BY <2>1, <2>2, <2>3
  <2>11. Matches(JoinedBy(MoreOf, old) \o CallDeltas(c, n), more, n + 1)
    BY <2>1, <2>3, <2>10, MatchesCall
  <2>12. <<>> \o <<>> = <<>>
    OBVIOUS
  <2>13. Good(more)
    BY <2>4, <2>5, <2>7, <2>8, <2>9, <2>10, <2>11, <2>12
  <2> HIDE DEF Good
  <2> QED BY <1>1, <2>3, <2>4, <2>13
<1> HIDE DEF Good
<1>4. T = Seq(Calls)
  BY <1>1, <1>2, <1>3, SequenceInduction
<1>5. Good(calls)
  BY <1>1, <1>4
<1> QED BY <1>5 DEF Good

\* The text, a word an event.
LEMMA TextStream ==
    ASSUME NEW text \in Seq(Words)
    PROVE  LET events == [k \in DOMAIN text |-> Choice(<<text[k]>>, <<>>)]
           IN  /\ events \in Seq(OpenAiEventSet)
               /\ JoinedBy(ContentOf, events) = text /\ JoinedBy(MoreOf, events) = <<>>
<1> DEFINE Ev(k) == Choice(<<text[k]>>, <<>>)
           events == [k \in DOMAIN text |-> Ev(k)]
<1>1. PICK n \in Nat : n = Len(text) /\ DOMAIN text = 1 .. n
  BY LenProperties
<1>2. \A k \in 1 .. n : /\ Ev(k) \in OpenAiEventSet
                        /\ ContentOf[Ev(k)] = <<text[k]>> /\ MoreOf[Ev(k)] = <<>>
  <2> TAKE k \in 1 .. n
  <2>1. text[k] \in Words
    BY <1>1, ElementOfSeq
  <2>2. PICK w, z : w = <<text[k]>> /\ z = <<>>
    OBVIOUS
  <2>3. w \in Seq(Words)
    BY <2>1, <2>2
  <2>4. z \in Seq(Deltas)
    BY <2>2
  <2>5. /\ Choice(w, z) \in OpenAiEventSet /\ ContentOf[Choice(w, z)] = w
        /\ MoreOf[Choice(w, z)] = z
    BY <2>3, <2>4, ChoiceIs
  <2> QED BY <2>2, <2>5
<1>3. events \in [1 .. n -> OpenAiEventSet] /\ \A k \in 1 .. n : events[k] = Ev(k)
  BY <1>1, <1>2
<1> HIDE DEF Ev, events
<1>4. events \in Seq(OpenAiEventSet) /\ DOMAIN events = 1 .. n
  BY <1>3, SequenceOf
<1>5. JoinedBy(ContentOf, events) = text
  <2>1. DOMAIN events = DOMAIN text
    BY <1>1, <1>4
  <2>2. \A k \in DOMAIN text : ContentOf[events[k]] = <<text[k]>>
    BY <1>1, <1>2, <1>3
  <2> QED BY <2>1, <2>2, JoinedBySingles
<1>6. JoinedBy(MoreOf, events) = <<>>
  <2>1. \A k \in 1 .. n : MoreOf[events[k]] = <<>>
    BY <1>2, <1>3
  <2> QED BY <1>4, <2>1, JoinedByBlank
<1> QED BY <1>4, <1>5, <1>6 DEF Ev, events

\* The last events: an empty choice, one without choices, and the mark.
OpenAiEnd == <<Choice(<<>>, <<>>), Event(<<>>), [done |-> TRUE, choices |-> <<>>]>>

\* The end of the stream adds nothing.
LEMMA EndStream ==
    /\ OpenAiEnd \in Seq(OpenAiEventSet)
    /\ JoinedBy(ContentOf, OpenAiEnd) = <<>> /\ JoinedBy(MoreOf, OpenAiEnd) = <<>>
<1>1. PICK a, b, c : /\ a = Choice(<<>>, <<>>) /\ b = Event(<<>>)
                     /\ c = [done |-> TRUE, choices |-> <<>>]
  OBVIOUS
<1>2. PICK z : z = <<>>
  OBVIOUS
<1>3. z \in Seq(Words) /\ z \in Seq(Deltas) /\ z \in Seq(OpenAiChoices)
  BY <1>2
<1>4. a \in OpenAiEventSet /\ ContentOf[a] = <<>> /\ MoreOf[a] = <<>>
  <2>1. a = Choice(z, z)
    BY <1>1, <1>2
  <2>2. /\ Choice(z, z) \in OpenAiEventSet /\ ContentOf[Choice(z, z)] = z
        /\ MoreOf[Choice(z, z)] = z
    BY <1>3, ChoiceIs
  <2> QED BY <1>2, <2>1, <2>2
<1>5. /\ b = [done |-> FALSE, choices |-> z] /\ c = [done |-> TRUE, choices |-> z]
  BY <1>1, <1>2 DEF Event
<1>6. b \in OpenAiEventSet /\ b.choices = <<>>
  BY <1>2, <1>3, <1>5 DEF OpenAiEventSet
<1>7. c \in OpenAiEventSet /\ c.choices = <<>>
  BY <1>2, <1>3, <1>5 DEF OpenAiEventSet
<1>8. ContentOf[b] = <<>> /\ MoreOf[b] = <<>> /\ ContentOf[c] = <<>> /\ MoreOf[c] = <<>>
  BY <1>6, <1>7 DEF ContentOf, MoreOf
<1>9. OpenAiEnd = <<a, b, c>>
  BY <1>1 DEF OpenAiEnd
<1>10. PICK s : s = <<a, b, c>>
  OBVIOUS
<1>11. s \in Seq(OpenAiEventSet) /\ DOMAIN s = 1 .. 3 /\ s[1] = a /\ s[2] = b /\ s[3] = c
  BY <1>4, <1>6, <1>7, <1>10
<1>12. \A k \in 1 .. 3 : ContentOf[s[k]] = <<>> /\ MoreOf[s[k]] = <<>>
  <2> TAKE k \in 1 .. 3
  <2>1. k = 1 \/ k = 2 \/ k = 3
    OBVIOUS
  <2> QED BY <1>4, <1>8, <1>11, <2>1
<1>13. 3 \in Nat
  OBVIOUS
<1>14. JoinedBy(ContentOf, s) = <<>>
  BY <1>11, <1>12, <1>13, JoinedByBlank
<1>15. JoinedBy(MoreOf, s) = <<>>
  BY <1>11, <1>12, <1>13, JoinedByBlank
<1> QED BY <1>9, <1>10, <1>11, <1>14, <1>15

\* What the server has to say.
Sent(blocks) == [text |-> Joined(blocks, TextIn), calls |-> Joined(blocks, CallsIn)]

\* Whatever the reply, its OpenAI stream adds up to it.
LEMMA OpenAiStream ==
    ASSUME NEW blocks \in Seq(ReplyBlocks)
    PROVE  Consumed(ChunksOf("openai", blocks)) = Sent(blocks)
<1>1. PICK text, calls : text = Joined(blocks, TextIn) /\ calls = Joined(blocks, CallsIn)
  OBVIOUS
<1>2. text \in Seq(Words) /\ calls \in Seq(Calls)
  BY <1>1, TextOfBlocks, CallsOfBlocks
<1>3. PICK a, b, c, ab, events :
         /\ a = [k \in DOMAIN text |-> Choice(<<text[k]>>, <<>>)]
         /\ b = CallStream(calls) /\ c = OpenAiEnd /\ ab = a \o b /\ events = ab \o c
  OBVIOUS
<1>4. OpenAiEvents(blocks) = events
  BY <1>1, <1>3 DEF OpenAiEvents, CallStream, OpenAiEnd
<1>5. /\ a \in Seq(OpenAiEventSet)
      /\ JoinedBy(ContentOf, a) = text /\ JoinedBy(MoreOf, a) = <<>>
  BY <1>2, <1>3, TextStream
<1>6. /\ b \in Seq(OpenAiEventSet) /\ JoinedBy(ContentOf, b) = <<>>
      /\ Matches(JoinedBy(MoreOf, b), calls, Len(calls))
  BY <1>2, <1>3, CallStreamParts, CallStreamAddsUp
<1>7. /\ c \in Seq(OpenAiEventSet)
      /\ JoinedBy(ContentOf, c) = <<>> /\ JoinedBy(MoreOf, c) = <<>>
  BY <1>3, EndStream
<1>8. ab \in Seq(OpenAiEventSet) /\ events \in Seq(OpenAiEventSet)
  BY <1>3, <1>5, <1>6, <1>7, ConcatProperties
<1>0. /\ a \in Seq(OpenAiEventSet) /\ b \in Seq(OpenAiEventSet) /\ c \in Seq(OpenAiEventSet)
      /\ ab \in Seq(OpenAiEventSet)
  BY <1>5, <1>6, <1>7, <1>8
<1>9. JoinedBy(ContentOf, events) = text
  <2>1. Yields(ContentOf, OpenAiEventSet, Words)
    BY OpenAiMaps
  <2>2. JoinedBy(ContentOf, a \o b) = JoinedBy(ContentOf, a) \o JoinedBy(ContentOf, b)
    BY <1>0, <2>1, JoinedByConcat
  <2>3. JoinedBy(ContentOf, ab \o c) = JoinedBy(ContentOf, ab) \o JoinedBy(ContentOf, c)
    BY <1>0, <2>1, JoinedByConcat
  <2>4. text \o <<>> = text
    BY <1>2, ConcatEmptySeq
  <2> QED BY <1>3, <1>5, <1>6, <1>7, <2>2, <2>3, <2>4
<1>10. JoinedBy(MoreOf, events) = JoinedBy(MoreOf, b)
  <2>1. Yields(MoreOf, OpenAiEventSet, Deltas)
    BY OpenAiMaps
  <2>2. JoinedBy(MoreOf, a \o b) = JoinedBy(MoreOf, a) \o JoinedBy(MoreOf, b)
    BY <1>0, <2>1, JoinedByConcat
  <2>3. JoinedBy(MoreOf, ab \o c) = JoinedBy(MoreOf, ab) \o JoinedBy(MoreOf, c)
    BY <1>0, <2>1, JoinedByConcat
  <2>4. JoinedBy(MoreOf, b) \in Seq(Deltas)
    BY <1>6, <2>1, JoinedByType
  <2>5. PICK d : d = JoinedBy(MoreOf, b)
    OBVIOUS
  <2>6. <<>> \o d = d /\ d \o <<>> = d
    BY <2>4, <2>5, ConcatEmptySeq
  <2> QED BY <1>3, <1>5, <1>7, <2>2, <2>3, <2>5, <2>6
<1>11. PICK chunks : chunks = Joined(events, OpenAiSse)
  OBVIOUS
<1>12. /\ chunks \in Seq(Chunks) /\ JoinedBy(TextOf, chunks) = text
       /\ JoinedBy(DeltasOf, chunks) = JoinedBy(MoreOf, b)
  BY <1>8, <1>9, <1>10, <1>11, OpenAiAddsUp
<1>13. PICK n \in Nat : n = Len(calls)
  BY <1>2
<1>14. Matches(JoinedBy(DeltasOf, chunks), calls, n)
  BY <1>6, <1>12, <1>13
<1>15. Consumed(chunks) = [text |-> JoinedBy(TextOf, chunks), calls |-> calls]
  BY <1>2, <1>12, <1>14, ConsumedIs
<1>16. ChunksOf("openai", blocks) = chunks
  BY <1>4, <1>11 DEF ChunksOf
<1>17. Sent(blocks) = [text |-> text, calls |-> calls]
  BY <1>1 DEF Sent
<1> QED BY <1>12, <1>15, <1>16, <1>17
-----------------------------------------------------------------------------
\* The events of an Anthropic stream.
BlockStarts == [type : {"content_block_start"}, index : Nat, block : ReplyBlocks]
BlockDeltas == [type : {"content_block_delta"}, index : Nat,
                kind : {"text_delta", "input_json_delta"}, piece : Words]
OtherEvents == [type : {"content_block_stop", "message_start", "ping", "message_delta",
                        "message_stop"}]
AnthropicEventSet == BlockStarts \cup BlockDeltas \cup OtherEvents

\* The text and the delta an event carries.
PieceOf(e) ==
    IF e.type = "content_block_delta" /\ e.kind = "text_delta" THEN <<e.piece>> ELSE <<>>
DeltaOf(e) ==
    IF e.type = "content_block_start" /\ e.block.type = "tool_use"
    THEN <<Delta(e.index, e.block.call.id, e.block.call.tool, <<>>)>>
    ELSE IF e.type = "content_block_delta" /\ e.kind # "text_delta"
    THEN <<Delta(e.index, NoId, NoId, <<e.piece>>)>>
    ELSE <<>>

\* Functions, to join by.
AnthropicSseOf == [e \in AnthropicEventSet |-> AnthropicSse(e)]
PiecesOf       == [e \in AnthropicEventSet |-> PieceOf(e)]
DeltasIn       == [e \in AnthropicEventSet |-> DeltaOf(e)]

\* An event that yields one chunk, or none.
LEMMA OneChunk ==
    ASSUME NEW e, NEW text \in Seq(Words), NEW deltas \in Seq(Deltas),
           AnthropicSse(e) = <<Chunk(text, deltas)>>
    PROVE  /\ AnthropicSse(e) \in Seq(Chunks)
           /\ JoinedBy(TextOf, AnthropicSse(e)) = text
           /\ JoinedBy(DeltasOf, AnthropicSse(e)) = deltas
<1>1. PICK c : c = Chunk(text, deltas)
  OBVIOUS
<1>2. c \in Chunks /\ JoinedBy(TextOf, <<c>>) = text /\ JoinedBy(DeltasOf, <<c>>) = deltas
  BY <1>1, ChunkIs
<1>3. <<c>> \in Seq(Chunks)
  BY <1>2
<1> QED BY <1>1, <1>2, <1>3

\* What an Anthropic event yields is its piece of text or its delta.
LEMMA AnthropicEventIs ==
    ASSUME NEW e \in AnthropicEventSet
    PROVE  /\ AnthropicSse(e) \in Seq(Chunks)
           /\ PieceOf(e) \in Seq(Words) /\ PieceOf(e) = JoinedBy(TextOf, AnthropicSse(e))
           /\ DeltaOf(e) \in Seq(Deltas) /\ DeltaOf(e) = JoinedBy(DeltasOf, AnthropicSse(e))
<1>1. PICK z : z = <<>>
  OBVIOUS
<1>2. z \in Seq(Words) /\ z \in Seq(Deltas) /\ z \in Seq(Chunks)
  BY <1>1
<1>3. CASE e \in BlockStarts
  <2>1. e.type = "content_block_start" /\ e.index \in Nat /\ e.block \in ReplyBlocks
    BY <1>3 DEF BlockStarts
  <2>2. PieceOf(e) = z
    BY <1>1, <2>1 DEF PieceOf
  <2>3. CASE e.block.type = "tool_use"
    <3>1. e.block.call \in Calls
      BY <2>1, <2>3 DEF ReplyBlocks
    <3>2. PICK d : d = Delta(e.index, e.block.call.id, e.block.call.tool, <<>>)
      OBVIOUS
    <3>3. d \in Deltas
      BY <2>1, <3>1, <3>2, DeltasOfCall
    <3>4. PICK ds : ds = <<d>>
      OBVIOUS
    <3>5. ds \in Seq(Deltas)
      BY <3>3, <3>4
    <3>6. DeltaOf(e) = ds /\ AnthropicSse(e) = <<Chunk(z, ds)>>
      BY <1>1, <2>1, <2>3, <3>2, <3>4 DEF DeltaOf, AnthropicSse
    <3> QED BY <1>2, <2>2, <3>5, <3>6, OneChunk
  <2>4. CASE e.block.type # "tool_use"
    <3>1. DeltaOf(e) = z /\ AnthropicSse(e) = <<Chunk(z, z)>>
      BY <1>1, <2>1, <2>4 DEF DeltaOf, AnthropicSse
    <3> QED BY <1>2, <2>2, <3>1, OneChunk
  <2> QED BY <2>3, <2>4
<1>4. CASE e \in BlockDeltas
  <2>1. /\ e.type = "content_block_delta" /\ e.index \in Nat
        /\ e.kind \in {"text_delta", "input_json_delta"} /\ e.piece \in Words
    BY <1>4 DEF BlockDeltas
  <2>2. PICK w : w = <<e.piece>>
    OBVIOUS
  <2>3. w \in Seq(Words)
    BY <2>1, <2>2
  <2>4. CASE e.kind = "text_delta"
    <3>1. PieceOf(e) = w /\ DeltaOf(e) = z /\ AnthropicSse(e) = <<Chunk(w, z)>>
      BY <1>1, <2>1, <2>2, <2>4 DEF PieceOf, DeltaOf, AnthropicSse
    <3> QED BY <1>2, <2>3, <3>1, OneChunk
  <2>5. CASE e.kind # "text_delta"
    <3>1. PICK d : d = Delta(e.index, NoId, NoId, w)
      OBVIOUS
    <3>2. d \in Deltas
      <4>1. NoId \in DeltaIds /\ NoId \in DeltaTools
        BY DEF DeltaIds, DeltaTools
      <4> QED BY <2>1, <2>3, <3>1, <4>1, DeltaIs
    <3>3. PICK ds : ds = <<d>>
      OBVIOUS
    <3>4. ds \in Seq(Deltas)
      BY <3>2, <3>3
    <3>5. PieceOf(e) = z /\ DeltaOf(e) = ds /\ AnthropicSse(e) = <<Chunk(z, ds)>>
      BY <1>1, <2>1, <2>2, <2>5, <3>1, <3>3 DEF PieceOf, DeltaOf, AnthropicSse
    <3> QED BY <1>2, <3>4, <3>5, OneChunk
  <2> QED BY <2>4, <2>5
<1>5. CASE e \in OtherEvents
  <2>1. e.type \in {"content_block_stop", "message_start", "ping", "message_delta",
                     "message_stop"}
    BY <1>5 DEF OtherEvents
  <2>2. PieceOf(e) = z /\ DeltaOf(e) = z
    BY <1>1, <2>1 DEF PieceOf, DeltaOf
  <2>3. CASE e.type \in {"message_start", "message_delta"}
    <3>1. AnthropicSse(e) = <<Chunk(z, z)>>
      BY <1>1, <2>1, <2>3 DEF AnthropicSse
    <3> QED BY <1>2, <2>2, <3>1, OneChunk
  <2>4. CASE e.type \notin {"message_start", "message_delta"}
    <3>1. AnthropicSse(e) = z
      BY <1>1, <2>1, <2>4 DEF AnthropicSse
    <3>2. JoinedBy(TextOf, z) = z /\ JoinedBy(DeltasOf, z) = z
      BY <1>1, JoinedByNone
    <3> QED BY <1>2, <2>2, <3>1, <3>2
  <2> QED BY <2>3, <2>4
<1> QED BY <1>3, <1>4, <1>5 DEF AnthropicEventSet

LEMMA AnthropicMaps ==
    /\ Yields(AnthropicSseOf, AnthropicEventSet, Chunks)
    /\ Yields(PiecesOf, AnthropicEventSet, Words)
    /\ Yields(DeltasIn, AnthropicEventSet, Deltas)
<1>1. Yields(AnthropicSseOf, AnthropicEventSet, Chunks)
  BY AnthropicEventIs DEF Yields, Maps, AnthropicSseOf
<1>2. Yields(PiecesOf, AnthropicEventSet, Words)
  BY AnthropicEventIs DEF Yields, Maps, PiecesOf
<1>3. Yields(DeltasIn, AnthropicEventSet, Deltas)
  BY AnthropicEventIs DEF Yields, Maps, DeltasIn
<1> QED BY <1>1, <1>2, <1>3

\* What a stream of events adds up to.
LEMMA AnthropicAddsUp ==
    ASSUME NEW events \in Seq(AnthropicEventSet)
    PROVE  /\ Joined(events, AnthropicSse) \in Seq(Chunks)
           /\ JoinedBy(TextOf, Joined(events, AnthropicSse)) = JoinedBy(PiecesOf, events)
           /\ JoinedBy(DeltasOf, Joined(events, AnthropicSse)) = JoinedBy(DeltasIn, events)
<1>1. \A k \in DOMAIN events : events[k] \in AnthropicEventSet
  OBVIOUS
<1>2. [k \in DOMAIN events |-> AnthropicSse(events[k])] = ImageOf(AnthropicSseOf, events)
  BY <1>1 DEF ImageOf, AnthropicSseOf
<1>3. Joined(events, AnthropicSse) = JoinedBy(AnthropicSseOf, events)
  BY <1>2 DEF Joined, JoinedBy
<1>4. Yields(AnthropicSseOf, AnthropicEventSet, Chunks)
  BY AnthropicMaps
<1>5. Yields(PiecesOf, AnthropicEventSet, Words)
  BY AnthropicMaps
<1>6. Yields(DeltasIn, AnthropicEventSet, Deltas)
  BY AnthropicMaps
<1>7. Yields(TextOf, Chunks, Words)
  BY ChunkMaps
<1>8. Yields(DeltasOf, Chunks, Deltas)
  BY ChunkMaps
<1>9. \A e \in AnthropicEventSet :
         AnthropicSseOf[e] = AnthropicSse(e) /\ PiecesOf[e] = PieceOf(e) /\ DeltasIn[e] = DeltaOf(e)
  BY DEF AnthropicSseOf, PiecesOf, DeltasIn
<1>10. \A e \in AnthropicEventSet : PiecesOf[e] = JoinedBy(TextOf, AnthropicSseOf[e])
  BY <1>9, AnthropicEventIs
<1>11. \A e \in AnthropicEventSet : DeltasIn[e] = JoinedBy(DeltasOf, AnthropicSseOf[e])
  BY <1>9, AnthropicEventIs
<1>12. JoinedBy(TextOf, JoinedBy(AnthropicSseOf, events)) = JoinedBy(PiecesOf, events)
  BY <1>4, <1>5, <1>7, <1>10, JoinedByTwice
<1>13. JoinedBy(DeltasOf, JoinedBy(AnthropicSseOf, events)) = JoinedBy(DeltasIn, events)
  BY <1>4, <1>6, <1>8, <1>11, JoinedByTwice
<1>14. JoinedBy(AnthropicSseOf, events) \in Seq(Chunks)
  BY <1>4, JoinedByType
<1> QED BY <1>3, <1>12, <1>13, <1>14

\* A start, the events between, an end.
Framed(e, events, z) == (<<e>> \o events) \o <<z>>
Pair(a, b) == a \o b

\* What a block's start, its pieces and its stop add up to.
LEMMA ThreePartsAddUp ==
    ASSUME NEW e \in AnthropicEventSet, NEW events \in Seq(AnthropicEventSet),
           NEW z \in AnthropicEventSet, PieceOf(e) = <<>>, PieceOf(z) = <<>>, DeltaOf(z) = <<>>,
           NEW s, s = Framed(e, events, z)
    PROVE  /\ s \in Seq(AnthropicEventSet)
           /\ JoinedBy(PiecesOf, s) = JoinedBy(PiecesOf, events)
           /\ JoinedBy(DeltasIn, s) = Pair(DeltaOf(e), JoinedBy(DeltasIn, events))
<1>1. PICK a, c, ab : a = <<e>> /\ c = <<z>> /\ ab = a \o events
  OBVIOUS
<1>2. a \in Seq(AnthropicEventSet) /\ c \in Seq(AnthropicEventSet)
  BY <1>1
<1>3. ab \in Seq(AnthropicEventSet)
  BY <1>1, <1>2, ConcatProperties
<1>4. ab \o c \in Seq(AnthropicEventSet)
  BY <1>2, <1>3, ConcatProperties
<1>5. Yields(PiecesOf, AnthropicEventSet, Words)
  BY AnthropicMaps
<1>6. Yields(DeltasIn, AnthropicEventSet, Deltas)
  BY AnthropicMaps
<1>7. JoinedBy(PiecesOf, a) = <<>> /\ JoinedBy(PiecesOf, c) = <<>>
  <2>1. PiecesOf[e] = <<>> /\ PiecesOf[z] = <<>>
    BY DEF PiecesOf
  <2> QED BY <1>1, <1>5, <2>1, JoinedByOne
<1>8. JoinedBy(DeltasIn, a) = DeltaOf(e) /\ JoinedBy(DeltasIn, c) = <<>>
  <2>1. DeltasIn[e] = DeltaOf(e) /\ DeltasIn[z] = <<>>
    BY DEF DeltasIn
  <2> QED BY <1>1, <1>6, <2>1, JoinedByOne
<1>9. JoinedBy(PiecesOf, a \o events) = JoinedBy(PiecesOf, a) \o JoinedBy(PiecesOf, events)
  BY <1>2, <1>5, JoinedByConcat
<1>10. JoinedBy(PiecesOf, ab \o c) = JoinedBy(PiecesOf, ab) \o JoinedBy(PiecesOf, c)
  BY <1>2, <1>3, <1>5, JoinedByConcat
<1>11. JoinedBy(DeltasIn, a \o events) = JoinedBy(DeltasIn, a) \o JoinedBy(DeltasIn, events)
  BY <1>2, <1>6, JoinedByConcat
<1>12. JoinedBy(DeltasIn, ab \o c) = JoinedBy(DeltasIn, ab) \o JoinedBy(DeltasIn, c)
  BY <1>2, <1>3, <1>6, JoinedByConcat
<1>13. PICK p, d, da : /\ p = JoinedBy(PiecesOf, events) /\ d = JoinedBy(DeltasIn, ab)
                       /\ da = DeltaOf(e) \o JoinedBy(DeltasIn, events)
  OBVIOUS
<1>14. p \in Seq(Words)
  BY <1>5, <1>13, JoinedByType
<1>15. d \in Seq(Deltas)
  BY <1>3, <1>6, <1>13, JoinedByType
<1>16. <<>> \o p = p /\ p \o <<>> = p
  BY <1>14, ConcatEmptySeq
<1>17. d \o <<>> = d
  BY <1>15, ConcatEmptySeq
<1>18. JoinedBy(PiecesOf, ab \o c) = p
  BY <1>1, <1>7, <1>9, <1>10, <1>13, <1>16
<1>19. d = da
  BY <1>1, <1>8, <1>11, <1>13
<1>20. JoinedBy(DeltasIn, ab \o c) = da
  BY <1>8, <1>12, <1>13, <1>17, <1>19
<1>21. s = ab \o c
  BY <1>1 DEF Framed
<1> QED BY <1>4, <1>13, <1>18, <1>20, <1>21 DEF Pair

\* The events of one block add up to its text, or to the deltas of its call.
LEMMA BlockEventsAre ==
    ASSUME NEW b \in ReplyBlocks, NEW k \in Nat \ {0}
    PROVE  /\ BlockEvents(b, k) \in Seq(AnthropicEventSet)
           /\ JoinedBy(PiecesOf, BlockEvents(b, k)) = TextIn(b)
           /\ JoinedBy(DeltasIn, BlockEvents(b, k))
                = IF b.type = "tool_use" THEN CallDeltas(b.call, k - 1) ELSE <<>>
<1>1. PICK m \in Nat : m = k - 1
  OBVIOUS
<1>2. PICK e, z : /\ e = [type |-> "content_block_start", index |-> m, block |-> b]
                  /\ z = [type |-> "content_block_stop"]
  OBVIOUS
<1>3. e \in AnthropicEventSet /\ z \in AnthropicEventSet
  <2>1. e \in BlockStarts
    BY <1>2 DEF BlockStarts
  <2>2. z \in OtherEvents
    BY <1>2 DEF OtherEvents
  <2> QED BY <2>1, <2>2 DEF AnthropicEventSet
<1>4. PieceOf(e) = <<>> /\ PieceOf(z) = <<>> /\ DeltaOf(z) = <<>>
  BY <1>2 DEF PieceOf, DeltaOf
<1>5. CASE b.type = "text"
  <2>1. PICK text : text = b.text
    OBVIOUS
  <2>2. text \in Seq(Words)
    BY <1>5, <2>1 DEF ReplyBlocks
  <2>3. PICK n \in Nat : n = Len(text) /\ DOMAIN text = 1 .. n
    BY <2>2, LenProperties
  <2> DEFINE Ev(i) == [type  |-> "content_block_delta", index |-> m, kind |-> "text_delta",
                       piece |-> text[i]]
             events == [i \in DOMAIN text |-> Ev(i)]
  <2>4. BlockEvents(b, k) = (<<e>> \o events) \o <<z>>
    BY <1>1, <1>2, <1>5, <2>1 DEF BlockEvents
  <2>5. \A i \in 1 .. n : /\ Ev(i) \in AnthropicEventSet
                          /\ PieceOf(Ev(i)) = <<text[i]>> /\ DeltaOf(Ev(i)) = <<>>
    <3> TAKE i \in 1 .. n
    <3>1. text[i] \in Words
      BY <2>2, <2>3, ElementOfSeq
    <3>2. Ev(i) \in BlockDeltas
      BY <3>1 DEF BlockDeltas
    <3> QED BY <3>2 DEF AnthropicEventSet, PieceOf, DeltaOf
  <2>6. events \in [1 .. n -> AnthropicEventSet] /\ \A i \in 1 .. n : events[i] = Ev(i)
    BY <2>3, <2>5
  <2> HIDE DEF Ev, events
  <2>7. events \in Seq(AnthropicEventSet) /\ DOMAIN events = 1 .. n
    BY <2>6, SequenceOf
  <2>8. JoinedBy(PiecesOf, events) = text
    <3>1. DOMAIN events = DOMAIN text
      BY <2>3, <2>7
    <3>2. \A i \in DOMAIN text : PiecesOf[events[i]] = <<text[i]>>
      BY <2>3, <2>5, <2>6 DEF PiecesOf
    <3> QED BY <2>2, <3>1, <3>2, JoinedBySingles
  <2>9. JoinedBy(DeltasIn, events) = <<>>
    <3>1. \A i \in 1 .. n : DeltasIn[events[i]] = <<>>
      BY <2>5, <2>6 DEF DeltasIn
    <3> QED BY <2>7, <3>1, JoinedByBlank
  <2>10. DeltaOf(e) = <<>>
    BY <1>2, <1>5 DEF DeltaOf
  <2>11. <<>> \o <<>> = <<>>
    OBVIOUS
  <2>12. TextIn(b) = text /\ b.type # "tool_use"
    BY <1>5, <2>1 DEF TextIn
  <2>13. /\ BlockEvents(b, k) \in Seq(AnthropicEventSet)
         /\ JoinedBy(PiecesOf, BlockEvents(b, k)) = JoinedBy(PiecesOf, events)
         /\ JoinedBy(DeltasIn, BlockEvents(b, k)) = DeltaOf(e) \o JoinedBy(DeltasIn, events)
    <3>1. PICK s : s = BlockEvents(b, k)
      OBVIOUS
    <3>2. s = Framed(e, events, z) /\ events \in Seq(AnthropicEventSet)
      BY <2>4, <2>7, <3>1 DEF Framed
    <3>3. /\ e \in AnthropicEventSet /\ z \in AnthropicEventSet
          /\ PieceOf(e) = <<>> /\ PieceOf(z) = <<>> /\ DeltaOf(z) = <<>>
      BY <1>3, <1>4
    <3>4. events \in Seq(AnthropicEventSet)
      BY <3>2
    <3>5. s \in Seq(AnthropicEventSet)
      BY <3>2, <3>3, <3>4, ThreePartsAddUp
    <3>6. JoinedBy(PiecesOf, s) = JoinedBy(PiecesOf, events)
      BY <3>2, <3>3, <3>4, ThreePartsAddUp
    <3>7. JoinedBy(DeltasIn, s) = Pair(DeltaOf(e), JoinedBy(DeltasIn, events))
      BY <3>2, <3>3, <3>4, ThreePartsAddUp
    <3> QED BY <3>1, <3>5, <3>6, <3>7 DEF Pair
  <2> QED BY <2>8, <2>9, <2>10, <2>11, <2>12, <2>13
<1>6. CASE b.type = "tool_use"
  <2>1. PICK c : c = b.call
    OBVIOUS
  <2>2. c \in Calls
    BY <1>6, <2>1 DEF ReplyBlocks
  <2>3. c.args \in Seq(Words)
    BY <2>2 DEF Calls
  <2>4. PICK n \in Nat : n = Len(c.args) /\ DOMAIN c.args = 1 .. n
    BY <2>3, LenProperties
  <2> DEFINE Ev(i) == [type  |-> "content_block_delta", index |-> m, kind |-> "input_json_delta",
                       piece |-> c.args[i]]
             events == [i \in DOMAIN c.args |-> Ev(i)]
             Part(i) == Delta(m, NoId, NoId, <<c.args[i]>>)
             q == [i \in DOMAIN c.args |-> Part(i)]
  <2>5. BlockEvents(b, k) = (<<e>> \o events) \o <<z>>
    BY <1>1, <1>2, <1>6, <2>1 DEF BlockEvents
  <2>6. \A i \in 1 .. n : /\ Ev(i) \in AnthropicEventSet
                          /\ PieceOf(Ev(i)) = <<>> /\ DeltaOf(Ev(i)) = <<Part(i)>>
    <3> TAKE i \in 1 .. n
    <3>1. c.args[i] \in Words
      BY <2>3, <2>4, ElementOfSeq
    <3>2. Ev(i) \in BlockDeltas
      BY <3>1 DEF BlockDeltas
    <3> QED BY <3>2 DEF AnthropicEventSet, PieceOf, DeltaOf
  <2>7. events \in [1 .. n -> AnthropicEventSet] /\ \A i \in 1 .. n : events[i] = Ev(i)
    BY <2>4, <2>6
  <2>8. q \in Seq(Deltas)
    BY <2>2, DeltasOfCall
  <2>9. DOMAIN q = 1 .. n /\ \A i \in 1 .. n : q[i] = Part(i)
    BY <2>4
  <2>10. CallDeltas(c, m) = <<Delta(m, c.id, c.tool, <<>>)>> \o q
    BY DEF CallDeltas
  <2> HIDE DEF Ev, events, Part, q
  <2>11. events \in Seq(AnthropicEventSet) /\ DOMAIN events = 1 .. n
    BY <2>7, SequenceOf
  <2>12. JoinedBy(PiecesOf, events) = <<>>
    <3>1. \A i \in 1 .. n : PiecesOf[events[i]] = <<>>
      BY <2>6, <2>7 DEF PiecesOf
    <3> QED BY <2>11, <3>1, JoinedByBlank
  <2>13. JoinedBy(DeltasIn, events) = q
    <3>1. DOMAIN events = DOMAIN q
      BY <2>9, <2>11
    <3>2. \A i \in DOMAIN q : DeltasIn[events[i]] = <<q[i]>>
      BY <2>6, <2>7, <2>9 DEF DeltasIn
    <3> QED BY <2>8, <3>1, <3>2, JoinedBySingles
  <2>14. DeltaOf(e) = <<Delta(m, c.id, c.tool, <<>>)>>
    BY <1>2, <1>6, <2>1 DEF DeltaOf
  <2>15. TextIn(b) = <<>>
    BY <1>6 DEF TextIn
  <2>16. /\ BlockEvents(b, k) \in Seq(AnthropicEventSet)
         /\ JoinedBy(PiecesOf, BlockEvents(b, k)) = JoinedBy(PiecesOf, events)
         /\ JoinedBy(DeltasIn, BlockEvents(b, k)) = DeltaOf(e) \o JoinedBy(DeltasIn, events)
    <3>1. PICK s : s = BlockEvents(b, k)
      OBVIOUS
    <3>2. s = Framed(e, events, z) /\ events \in Seq(AnthropicEventSet)
      BY <2>5, <2>11, <3>1 DEF Framed
    <3>3. /\ e \in AnthropicEventSet /\ z \in AnthropicEventSet
          /\ PieceOf(e) = <<>> /\ PieceOf(z) = <<>> /\ DeltaOf(z) = <<>>
      BY <1>3, <1>4
    <3>4. events \in Seq(AnthropicEventSet)
      BY <3>2
    <3>5. s \in Seq(AnthropicEventSet)
      BY <3>2, <3>3, <3>4, ThreePartsAddUp
    <3>6. JoinedBy(PiecesOf, s) = JoinedBy(PiecesOf, events)
      BY <3>2, <3>3, <3>4, ThreePartsAddUp
    <3>7. JoinedBy(DeltasIn, s) = Pair(DeltaOf(e), JoinedBy(DeltasIn, events))
      BY <3>2, <3>3, <3>4, ThreePartsAddUp
    <3> QED BY <3>1, <3>5, <3>6, <3>7 DEF Pair
  <2> QED BY <1>1, <1>6, <2>1, <2>10, <2>12, <2>13, <2>14, <2>15, <2>16
<1> QED BY <1>5, <1>6 DEF ReplyBlocks

TextInOf  == [b \in ReplyBlocks |-> TextIn(b)]
CallsInOf == [b \in ReplyBlocks |-> CallsIn(b)]

\* The text and the calls of a reply, by functions.
LEMMA BlockMaps ==
    /\ Yields(TextInOf, ReplyBlocks, Words)
    /\ Yields(CallsInOf, ReplyBlocks, Calls)
<1>1. \A b \in ReplyBlocks : TextIn(b) \in Seq(Words)
  BY DEF ReplyBlocks, TextIn
<1>2. \A b \in ReplyBlocks : CallsIn(b) \in Seq(Calls)
  BY DEF ReplyBlocks, CallsIn
<1> QED BY <1>1, <1>2 DEF Yields, Maps, TextInOf, CallsInOf

LEMMA JoinedBlocks ==
    ASSUME NEW blocks \in Seq(ReplyBlocks)
    PROVE  /\ Joined(blocks, TextIn) = JoinedBy(TextInOf, blocks)
           /\ Joined(blocks, CallsIn) = JoinedBy(CallsInOf, blocks)
<1>1. \A k \in DOMAIN blocks : blocks[k] \in ReplyBlocks
  OBVIOUS
<1>2. [k \in DOMAIN blocks |-> TextIn(blocks[k])] = ImageOf(TextInOf, blocks)
  BY <1>1 DEF ImageOf, TextInOf
<1>3. [k \in DOMAIN blocks |-> CallsIn(blocks[k])] = ImageOf(CallsInOf, blocks)
  BY <1>1 DEF ImageOf, CallsInOf
<1> QED BY <1>2, <1>3 DEF Joined, JoinedBy

\* The blocks' part of an Anthropic stream.
BlockStream(blocks) == FlattenSeq([k \in DOMAIN blocks |-> BlockEvents(blocks[k], k)])

\* The events of all blocks, and of one block more.
LEMMA BlockStreamParts ==
    ASSUME NEW blocks \in Seq(ReplyBlocks)
    PROVE  /\ [k \in DOMAIN blocks |-> BlockEvents(blocks[k], k)] \in Seq(Seq(AnthropicEventSet))
           /\ Len([k \in DOMAIN blocks |-> BlockEvents(blocks[k], k)]) = Len(blocks)
           /\ BlockStream(blocks) \in Seq(AnthropicEventSet)
<1> DEFINE ss == [k \in DOMAIN blocks |-> BlockEvents(blocks[k], k)]
<1>1. PICK n \in Nat : n = Len(blocks) /\ DOMAIN blocks = 1 .. n
  BY LenProperties
<1>2. PICK Y : Y = Seq(AnthropicEventSet)
  OBVIOUS
<1>3. \A k \in 1 .. n : BlockEvents(blocks[k], k) \in Y
  <2> TAKE k \in 1 .. n
  <2>1. blocks[k] \in ReplyBlocks /\ k \in Nat \ {0}
    BY <1>1, ElementOfSeq
  <2> QED BY <1>2, <2>1, BlockEventsAre
<1>4. ss \in [1 .. n -> Y]
  BY <1>1, <1>3
<1> HIDE DEF ss
<1>5. ss \in Seq(Y) /\ Len(ss) = n
  BY <1>4, SequenceOf
<1>6. FlattenSeq(ss) \in Seq(AnthropicEventSet)
  BY <1>2, <1>5, FlattenType
<1> QED BY <1>1, <1>2, <1>5, <1>6 DEF ss, BlockStream

LEMMA BlockStreamAppend ==
    ASSUME NEW blocks \in Seq(ReplyBlocks), NEW b \in ReplyBlocks, NEW n \in Nat, n = Len(blocks)
    PROVE  BlockStream(Append(blocks, b)) = BlockStream(blocks) \o BlockEvents(b, n + 1)
<1>1. PICK more : more = Append(blocks, b)
  OBVIOUS
<1>2. /\ more \in Seq(ReplyBlocks) /\ Len(more) = n + 1 /\ more[n + 1] = b
      /\ \A k \in 1 .. n : more[k] = blocks[k]
  BY <1>1
<1>3. DOMAIN blocks = 1 .. n /\ DOMAIN more = 1 .. n + 1
  BY <1>2, LenProperties
<1> DEFINE ss == [k \in DOMAIN blocks |-> BlockEvents(blocks[k], k)]
           tt == [k \in DOMAIN more |-> BlockEvents(more[k], k)]
<1>4. ss \in Seq(Seq(AnthropicEventSet)) /\ Len(ss) = n
  BY BlockStreamParts
<1>5. tt \in Seq(Seq(AnthropicEventSet)) /\ Len(tt) = n + 1
  BY <1>2, BlockStreamParts
<1>6. \A k \in 1 .. n : tt[k] = ss[k]
  BY <1>2, <1>3
<1>7. tt[n + 1] = BlockEvents(b, n + 1)
  <2>1. n + 1 \in DOMAIN more
    BY <1>3
  <2> QED BY <1>2, <2>1
<1> HIDE DEF ss, tt
<1>8. FlattenSeq(tt) = FlattenSeq(ss) \o tt[n + 1]
  BY <1>4, <1>5, <1>6, FlattenLast
<1> QED BY <1>1, <1>7, <1>8 DEF ss, tt, BlockStream

\* They carry the text of the blocks, and match their calls.
LEMMA BlockStreamAddsUp ==
    ASSUME NEW blocks \in Seq(ReplyBlocks)
    PROVE  /\ JoinedBy(PiecesOf, BlockStream(blocks)) = JoinedBy(TextInOf, blocks)
           /\ Matches(JoinedBy(DeltasIn, BlockStream(blocks)), JoinedBy(CallsInOf, blocks),
                      Len(blocks))
<1> DEFINE Good(s) ==
             /\ JoinedBy(PiecesOf, BlockStream(s)) = JoinedBy(TextInOf, s)
             /\ Matches(JoinedBy(DeltasIn, BlockStream(s)), JoinedBy(CallsInOf, s), Len(s))
           T == {s \in Seq(ReplyBlocks) : Good(s)}
<1>1. T \in SUBSET Seq(ReplyBlocks) /\ \A s \in Seq(ReplyBlocks) : s \in T <=> Good(s)
  OBVIOUS
<1> HIDE DEF T
<1>2. <<>> \in T
  <2>1. PICK e : e = <<>>
    OBVIOUS
  <2>2. e \in Seq(ReplyBlocks) /\ Len(e) = 0
    BY <2>1
  <2>3. [k \in DOMAIN e |-> BlockEvents(e[k], k)] = e
    BY <2>1
  <2>4. BlockStream(e) = e
    BY <2>2, <2>3, FlattenNone DEF BlockStream
  <2>5. /\ JoinedBy(PiecesOf, e) = e /\ JoinedBy(DeltasIn, e) = e
        /\ JoinedBy(TextInOf, e) = e /\ JoinedBy(CallsInOf, e) = e
    BY <2>1, JoinedByNone
  <2>6. Matches(e, e, 0)
    BY <2>1, MatchesNone
  <2>7. Good(e)
    BY <2>2, <2>4, <2>5, <2>6
  <2> HIDE DEF Good
  <2> QED BY <1>1, <2>1, <2>2, <2>7
<1>3. \A s \in T, b \in ReplyBlocks : Append(s, b) \in T
  <2> TAKE s \in T, b \in ReplyBlocks
  <2>1. s \in Seq(ReplyBlocks) /\ Good(s)
    BY <1>1
  <2>2. PICK n \in Nat : n = Len(s)
    BY <2>1
  <2>3. PICK more, old, new : /\ more = Append(s, b) /\ old = BlockStream(s)
                              /\ new = BlockEvents(b, n + 1)
    OBVIOUS
  <2>4. more \in Seq(ReplyBlocks) /\ Len(more) = n + 1
    BY <2>1, <2>2, <2>3
  <2>5. BlockStream(more) = old \o new
    BY <2>1, <2>2, <2>3, BlockStreamAppend
  <2>6. old \in Seq(AnthropicEventSet)
    BY <2>1, <2>3, BlockStreamParts
  <2>7. /\ new \in Seq(AnthropicEventSet) /\ JoinedBy(PiecesOf, new) = TextIn(b)
        /\ JoinedBy(DeltasIn, new) = IF b.type = "tool_use" THEN CallDeltas(b.call, n) ELSE <<>>
    <3>1. PICK m \in Nat \ {0} : m = n + 1 /\ n = m - 1
      OBVIOUS
    <3>2. /\ BlockEvents(b, m) \in Seq(AnthropicEventSet)
          /\ JoinedBy(PiecesOf, BlockEvents(b, m)) = TextIn(b)
          /\ JoinedBy(DeltasIn, BlockEvents(b, m))
               = IF b.type = "tool_use" THEN CallDeltas(b.call, m - 1) ELSE <<>>
      BY BlockEventsAre
    <3> QED BY <2>3, <3>1, <3>2
  <2>8. new \in Seq(AnthropicEventSet)
    BY <2>7
  <2>9. JoinedBy(PiecesOf, old \o new) = JoinedBy(PiecesOf, old) \o JoinedBy(PiecesOf, new)
    <3>1. Yields(PiecesOf, AnthropicEventSet, Words)
      BY AnthropicMaps
    <3> QED BY <2>6, <2>8, <3>1, JoinedByConcat
  <2>10. JoinedBy(DeltasIn, old \o new) = JoinedBy(DeltasIn, old) \o JoinedBy(DeltasIn, new)
    <3>1. Yields(DeltasIn, AnthropicEventSet, Deltas)
      BY AnthropicMaps
    <3> QED BY <2>6, <2>8, <3>1, JoinedByConcat
  <2>11. JoinedBy(TextInOf, more) = JoinedBy(TextInOf, s) \o TextIn(b)
    <3>1. Yields(TextInOf, ReplyBlocks, Words)
      BY BlockMaps
    <3>2. TextInOf[b] = TextIn(b)
      BY DEF TextInOf
    <3>3. JoinedBy(TextInOf, Append(s, b)) = JoinedBy(TextInOf, s) \o TextInOf[b]
      BY <2>1, <3>1, JoinedByAppend
    <3> QED BY <2>3, <3>2, <3>3
  <2>12. PICK calls, D : calls = JoinedBy(CallsInOf, s) /\ D = JoinedBy(DeltasIn, old)
    OBVIOUS
  <2>13. calls \in Seq(Calls) /\ D \in Seq(Deltas)
    <3>1. Yields(CallsInOf, ReplyBlocks, Calls)
      BY BlockMaps
    <3>2. Yields(DeltasIn, AnthropicEventSet, Deltas)
      BY AnthropicMaps
    <3>3. calls \in Seq(Calls)
      BY <2>1, <2>12, <3>1, JoinedByType
    <3>4. D \in Seq(Deltas)
      BY <2>6, <2>12, <3>2, JoinedByType
    <3> QED BY <3>3, <3>4
  <2>14. JoinedBy(CallsInOf, more) = calls \o CallsIn(b)
    <3>1. Yields(CallsInOf, ReplyBlocks, Calls)
      BY BlockMaps
    <3>2. CallsInOf[b] = CallsIn(b)
      BY DEF CallsInOf
    <3>3. JoinedBy(CallsInOf, Append(s, b)) = JoinedBy(CallsInOf, s) \o CallsInOf[b]
      BY <2>1, <3>1, JoinedByAppend
    <3> QED BY <2>3, <2>12, <3>2, <3>3
  <2>15. JoinedBy(PiecesOf, old) = JoinedBy(TextInOf, s) /\ Matches(D, calls, n)
    BY <2>1, <2>2, <2>3, <2>12
  <2>16. Matches(JoinedBy(DeltasIn, old \o new), JoinedBy(CallsInOf, more), n + 1)
    <3>1. CASE b.type = "tool_use"
      <4>1. PICK c : c = b.call
        OBVIOUS
      <4>2. c \in Calls
        BY <3>1, <4>1 DEF ReplyBlocks
      <4>3. CallsIn(b) = <<c>>
        BY <3>1, <4>1 DEF CallsIn
      <4>4. JoinedBy(CallsInOf, more) = Append(calls, c)
        BY <2>13, <2>14, <4>2, <4>3, AppendIsConcat
      <4>5. JoinedBy(DeltasIn, old \o new) = D \o CallDeltas(c, n)
        BY <2>7, <2>10, <2>12, <3>1, <4>1
      <4>6. Matches(D \o CallDeltas(c, n), Append(calls, c), n + 1)
        BY <2>13, <2>15, <4>2, MatchesCall
      <4> QED BY <4>4, <4>5, <4>6
    <3>2. CASE b.type # "tool_use"
      <4>1. CallsIn(b) = <<>> /\ JoinedBy(DeltasIn, new) = <<>>
        BY <2>7, <3>2 DEF CallsIn
      <4>2. calls \o <<>> = calls
        BY <2>13, ConcatEmptySeq
      <4>3. D \o <<>> = D
        BY <2>13, ConcatEmptySeq
      <4>4. JoinedBy(CallsInOf, more) = calls /\ JoinedBy(DeltasIn, old \o new) = D
        BY <2>10, <2>12, <2>14, <4>1, <4>2, <4>3
      <4>5. Matches(D, calls, n + 1)
        BY <2>15, MatchesMore
      <4> QED BY <4>4, <4>5
    <3> QED BY <3>1, <3>2
  <2>17. Good(more)
    BY <2>4, <2>5, <2>7, <2>9, <2>11, <2>15, <2>16
  <2> HIDE DEF Good
  <2> QED BY <1>1, <2>3, <2>4, <2>17
<1> HIDE DEF Good
<1>4. T = Seq(ReplyBlocks)
  BY <1>1, <1>2, <1>3, SequenceInduction
<1>5. Good(blocks)
  BY <1>1, <1>4
<1> QED BY <1>5 DEF Good

\* The events around them.
AnthropicStart == <<[type |-> "message_start"], [type |-> "ping"]>>
AnthropicEnd   == <<[type |-> "message_delta"], [type |-> "message_stop"]>>

\* The events before the first block and after the last add nothing.
LEMMA EndsAddUp ==
    ASSUME NEW s, s = AnthropicStart \/ s = AnthropicEnd
    PROVE  /\ s \in Seq(AnthropicEventSet)
           /\ JoinedBy(PiecesOf, s) = <<>> /\ JoinedBy(DeltasIn, s) = <<>>
<1>0. PICK t, p, d, e : /\ t = [type |-> "message_start"] /\ p = [type |-> "ping"]
                        /\ d = [type |-> "message_delta"] /\ e = [type |-> "message_stop"]
  OBVIOUS
<1>1. t \in OtherEvents /\ p \in OtherEvents /\ d \in OtherEvents /\ e \in OtherEvents
  BY <1>0 DEF OtherEvents
<1>2. PICK a, b : s = <<a, b>> /\ a \in OtherEvents /\ b \in OtherEvents
  <2>1. s = <<t, p>> \/ s = <<d, e>>
    BY <1>0 DEF AnthropicStart, AnthropicEnd
  <2> QED BY <1>1, <2>1
<1>3. a \in AnthropicEventSet /\ b \in AnthropicEventSet
  BY <1>2 DEF AnthropicEventSet
<1>4. \A x \in OtherEvents : PieceOf(x) = <<>> /\ DeltaOf(x) = <<>>
  BY DEF OtherEvents, PieceOf, DeltaOf
<1>5. /\ PiecesOf[a] = <<>> /\ DeltasIn[a] = <<>>
      /\ PiecesOf[b] = <<>> /\ DeltasIn[b] = <<>>
  BY <1>2, <1>3, <1>4 DEF PiecesOf, DeltasIn
<1>6. s \in Seq(AnthropicEventSet) /\ DOMAIN s = 1 .. 2 /\ s[1] = a /\ s[2] = b
  BY <1>2, <1>3
<1>7. \A k \in 1 .. 2 : PiecesOf[s[k]] = <<>> /\ DeltasIn[s[k]] = <<>>
  <2> TAKE k \in 1 .. 2
  <2>1. k = 1 \/ k = 2
    OBVIOUS
  <2> QED BY <1>5, <1>6, <2>1
<1>8. 2 \in Nat
  OBVIOUS
<1>9. JoinedBy(PiecesOf, s) = <<>>
  BY <1>6, <1>7, <1>8, JoinedByBlank
<1>10. JoinedBy(DeltasIn, s) = <<>>
  BY <1>6, <1>7, <1>8, JoinedByBlank
<1> QED BY <1>6, <1>9, <1>10

\* Whatever the reply, its Anthropic stream adds up to it.
LEMMA AnthropicStream ==
    ASSUME NEW blocks \in Seq(ReplyBlocks)
    PROVE  Consumed(ChunksOf("anthropic", blocks)) = Sent(blocks)
<1>1. PICK text, calls : text = Joined(blocks, TextIn) /\ calls = Joined(blocks, CallsIn)
  OBVIOUS
<1>2. text \in Seq(Words) /\ calls \in Seq(Calls)
  BY <1>1, TextOfBlocks, CallsOfBlocks
<1>3. PICK a, b, c, ab, events :
         /\ a = AnthropicStart /\ b = BlockStream(blocks) /\ c = AnthropicEnd
         /\ ab = a \o b /\ events = ab \o c
  OBVIOUS
<1>4. AnthropicEvents(blocks) = events
  BY <1>3 DEF AnthropicEvents, AnthropicStart, AnthropicEnd, BlockStream
<1>5. /\ a \in Seq(AnthropicEventSet)
      /\ JoinedBy(PiecesOf, a) = <<>> /\ JoinedBy(DeltasIn, a) = <<>>
  BY <1>3, EndsAddUp
<1>6. PICK n \in Nat : n = Len(blocks)
  OBVIOUS
<1>7. /\ b \in Seq(AnthropicEventSet) /\ JoinedBy(PiecesOf, b) = text
      /\ Matches(JoinedBy(DeltasIn, b), calls, n)
  BY <1>1, <1>3, <1>6, BlockStreamParts, BlockStreamAddsUp, JoinedBlocks
<1>8. /\ c \in Seq(AnthropicEventSet)
      /\ JoinedBy(PiecesOf, c) = <<>> /\ JoinedBy(DeltasIn, c) = <<>>
  BY <1>3, EndsAddUp
<1>9. ab \in Seq(AnthropicEventSet) /\ events \in Seq(AnthropicEventSet)
  BY <1>3, <1>5, <1>7, <1>8, ConcatProperties
<1>10. /\ a \in Seq(AnthropicEventSet) /\ b \in Seq(AnthropicEventSet)
       /\ c \in Seq(AnthropicEventSet) /\ ab \in Seq(AnthropicEventSet)
  BY <1>5, <1>7, <1>8, <1>9
<1>11. JoinedBy(PiecesOf, events) = text
  <2>1. Yields(PiecesOf, AnthropicEventSet, Words)
    BY AnthropicMaps
  <2>2. JoinedBy(PiecesOf, a \o b) = JoinedBy(PiecesOf, a) \o JoinedBy(PiecesOf, b)
    BY <1>10, <2>1, JoinedByConcat
  <2>3. JoinedBy(PiecesOf, ab \o c) = JoinedBy(PiecesOf, ab) \o JoinedBy(PiecesOf, c)
    BY <1>10, <2>1, JoinedByConcat
  <2>4. <<>> \o text = text /\ text \o <<>> = text
    BY <1>2, ConcatEmptySeq
  <2> QED BY <1>3, <1>5, <1>7, <1>8, <2>2, <2>3, <2>4
<1>12. JoinedBy(DeltasIn, events) = JoinedBy(DeltasIn, b)
  <2>1. Yields(DeltasIn, AnthropicEventSet, Deltas)
    BY AnthropicMaps
  <2>2. JoinedBy(DeltasIn, a \o b) = JoinedBy(DeltasIn, a) \o JoinedBy(DeltasIn, b)
    BY <1>10, <2>1, JoinedByConcat
  <2>3. JoinedBy(DeltasIn, ab \o c) = JoinedBy(DeltasIn, ab) \o JoinedBy(DeltasIn, c)
    BY <1>10, <2>1, JoinedByConcat
  <2>4. PICK d : d = JoinedBy(DeltasIn, b)
    OBVIOUS
  <2>5. d \in Seq(Deltas)
    BY <1>10, <2>1, <2>4, JoinedByType
  <2>6. <<>> \o d = d /\ d \o <<>> = d
    BY <2>5, ConcatEmptySeq
  <2> QED BY <1>3, <1>5, <1>8, <2>2, <2>3, <2>4, <2>6
<1>13. PICK chunks : chunks = Joined(events, AnthropicSse)
  OBVIOUS
<1>14. /\ chunks \in Seq(Chunks) /\ JoinedBy(TextOf, chunks) = text
       /\ JoinedBy(DeltasOf, chunks) = JoinedBy(DeltasIn, b)
  BY <1>9, <1>11, <1>12, <1>13, AnthropicAddsUp
<1>15. Matches(JoinedBy(DeltasOf, chunks), calls, n)
  BY <1>7, <1>14
<1>16. Consumed(chunks) = [text |-> JoinedBy(TextOf, chunks), calls |-> calls]
  BY <1>2, <1>14, <1>15, ConsumedIs
<1>17. ChunksOf("anthropic", blocks) = chunks
  BY <1>4, <1>13 DEF ChunksOf
<1>18. Sent(blocks) = [text |-> text, calls |-> calls]
  BY <1>1 DEF Sent
<1> QED BY <1>14, <1>16, <1>17, <1>18

\* However many blocks of whatever kind a reply has, streaming it gives the text
\* and the calls that complete gives, with the same arguments but for OpenAI's
\* that are no JSON (the parsers of both streams, and complete of both adapters).
THEOREM StreamsAddUp ==
    ASSUME NEW adapter \in {"openai", "anthropic"}, NEW blocks \in Seq(ReplyBlocks)
    PROVE  StreamAgrees(adapter, blocks)
<1>1. Consumed(ChunksOf(adapter, blocks)) = Sent(blocks)
  <2>1. CASE adapter = "openai"
    BY <2>1, OpenAiStream
  <2>2. CASE adapter = "anthropic"
    BY <2>2, AnthropicStream
  <2> QED BY <2>1, <2>2
<1>2. PICK calls : calls = Joined(blocks, CallsIn)
  OBVIOUS
<1>3. calls \in Seq(Calls)
  BY <1>2, CallsOfBlocks
<1>4. PICK received : received = [i \in DOMAIN calls |-> Received(adapter, calls[i], i)]
  OBVIOUS
<1>5. PICK streamed, whole :
         streamed = Consumed(ChunksOf(adapter, blocks)) /\ whole = Response(adapter, blocks)
  OBVIOUS
<1>6. /\ streamed.text = Joined(blocks, TextIn) /\ streamed.calls = calls
      /\ whole.text = Joined(blocks, TextIn) /\ whole.calls = received
  BY <1>1, <1>2, <1>4, <1>5 DEF Sent, Response
<1>7. DOMAIN received = 1 .. Len(calls) /\ Len(received) = Len(calls)
  BY <1>3, <1>4
<1>8. \A i \in DOMAIN received :
         /\ calls[i].id = received[i].id /\ calls[i].tool = received[i].tool
         /\ received[i].args = IF adapter = "openai" /\ ~ IsJson(calls[i].args)
                               THEN Null ELSE calls[i].args
  <2> TAKE i \in DOMAIN received
  <2>1. PICK c : c = calls[i]
    OBVIOUS
  <2>2. c \in Calls /\ received[i] = Received(adapter, c, i)
    BY <1>3, <1>4, <1>7, <2>1
  <2>3. CASE adapter = "openai"
    <3>1. PICK d : d = Decoded(c.args)
      OBVIOUS
    <3>2. received[i] = [c EXCEPT !.args = d]
      BY <2>2, <2>3, <3>1 DEF Received
    <3>3. received[i].id = c.id /\ received[i].tool = c.tool /\ received[i].args = d
      BY <2>2, <3>2 DEF Calls
    <3> QED BY <2>1, <2>3, <3>1, <3>3 DEF Decoded
  <2>4. CASE adapter = "anthropic"
    <3>1. received[i] = c
      BY <2>2, <2>4 DEF Received
    <3> QED BY <2>1, <2>4, <3>1
  <2> QED BY <2>3, <2>4
<1> QED BY <1>5, <1>6, <1>7, <1>8 DEF StreamAgrees

\* In every state of the conversation its last reply, streamed, adds up to what
\* complete returns.
THEOREM StreamsAlwaysAgree == ConversationSpec => []StreamsAgree
<1>1. ConversationInv => StreamsAgree
  <2> SUFFICES ASSUME ConversationInv, NEW adapter \in {"openai", "anthropic"}
               PROVE  StreamAgrees(adapter, reply)
    BY DEF StreamsAgree
  <2>1. reply \in Seq(ReplyBlocks)
    BY DEF ConversationInv, ConversationTypeOK
  <2> QED BY <2>1, StreamsAddUp
<1> QED BY <1>1, ConversationInvariant, PTL
=============================================================================
