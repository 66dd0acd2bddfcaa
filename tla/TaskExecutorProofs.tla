------------------------- MODULE TaskExecutorProofs --------------------------
(***************************************************************************)
(* Theorems about TaskExecutor, for every bound on the number of tasks,    *)
(* every set of ids, every turn cap and every number of review rounds.     *)
(***************************************************************************)
EXTENDS TaskExecutor, FiniteSetTheorems, FunctionTheorems, SequenceTheorems, TLAPS

(***************************************************************************)
(* The inductive invariant.  DependencyOrder and RunsOnce are not inductive*)
(* by themselves: that a ready task's dependencies are finished *tasks*,   *)
(* not only completed *ids*, needs the fact that tasks that share an id    *)
(* always enter the same wave.                                             *)
(***************************************************************************)
Pending == {i \in Nodes(graph) : i \in ready \/ i = current}

PhaseInv ==
    /\ phase \in {"implement", "review", "record"} => current \in Nodes(graph)
    /\ phase \in {"schedule", "wave", "ok", "deadlock"} => current = 0
    /\ phase \in {"schedule", "ok", "deadlock"} => ready = {}
    /\ phase = "implement" => turns < MaxTurns

BasicInv == TypeOK /\ PhaseInv

WaveInv ==
    /\ completed = {graph.nodes[i] : i \in Finished}
    /\ current \notin ready
    /\ Pending \cap Finished = {}
    /\ \A i \in Pending : DependenciesOf(graph, graph.nodes[i]) \subseteq Finished
    /\ \A i \in Pending, j \in Nodes(graph) :
          graph.nodes[j] = graph.nodes[i] => j \in Finished \cup Pending
    /\ \A j \in Nodes(graph) :
          graph.nodes[j] \in completed => j \in Finished \cup Pending

OrderInv ==
    /\ \A k \in 1 .. Len(results) :
          \A j \in DependenciesOf(graph, graph.nodes[results[k]]) :
             \E l \in 1 .. k - 1 : results[l] = j
    /\ \A k, l \in 1 .. Len(results) : results[k] = results[l] => k = l

OutcomeInv ==
    /\ phase = "ok" => ~ TasksLeft
    /\ phase = "deadlock" => TasksLeft /\ \A i \in Nodes(graph) : ~ IsReady(i)

SchedulerInv == Valid(graph) /\ WaveInv /\ OrderInv /\ OutcomeInv

ReviewInv ==
    /\ phase = "review" => delegation.review
    /\ round <= delegation.maxRounds
    /\ phase = "implement" /\ ~ delegation.review => review = "none"
    /\ ReviewIsSettled

BudgetInv == spent <= MaxTurns * round + turns
-----------------------------------------------------------------------------
(***************************************************************************)
(* Facts about graphs.                                                     *)
(***************************************************************************)
LEMMA GraphShape ==
    ASSUME NEW g \in Graphs
    PROVE  /\ g.nodes \in Seq(TaskIds)
           /\ Len(g.nodes) \in Nat
           /\ Nodes(g) = 1 .. Len(g.nodes)
           /\ \A i \in Nodes(g) : g.nodes[i] \in TaskIds
           /\ g.edges \subseteq TaskIds \X TaskIds
<1>1. PICK n \in 0 .. MaxTasks : g \in Graph(n)
    BY DEF Graphs
<1>2. /\ g.nodes \in [1 .. n -> TaskIds]
      /\ g.edges \subseteq TaskIds \X TaskIds
      /\ n \in Nat
    BY <1>1, TaskGraphAssumption DEF Graph
<1>3. g.nodes \in Seq(TaskIds) /\ Len(g.nodes) = n
    BY <1>2
<1> QED
    BY <1>2, <1>3 DEF Nodes

LEMMA NodesFinite ==
    ASSUME NEW g \in Graphs
    PROVE  /\ IsFiniteSet(Nodes(g))
           /\ Cardinality(Nodes(g)) = Len(g.nodes)
<1>1. Nodes(g) = 1 .. Len(g.nodes) /\ Len(g.nodes) \in Nat
    BY GraphShape
<1>2. /\ IsFiniteSet(1 .. Len(g.nodes))
      /\ Cardinality(1 .. Len(g.nodes)) =
            IF 1 > Len(g.nodes) THEN 0 ELSE Len(g.nodes) - 1 + 1
    BY <1>1, FS_Interval
<1> QED
    BY <1>1, <1>2

\* The ids of some of the tasks are at most as many as those tasks.
LEMMA IdsOfTasks ==
    ASSUME NEW g \in Graphs, NEW T \in SUBSET Nodes(g)
    PROVE  LET I == {g.nodes[i] : i \in T}
           IN  IsFiniteSet(I) /\ Cardinality(I) <= Cardinality(T)
<1> DEFINE I == {g.nodes[i] : i \in T}
           f == [i \in T |-> g.nodes[i]]
<1>1. IsFiniteSet(T)
    BY NodesFinite, FS_Subset
<1>2. f \in Surjection(T, I)
    BY DEF Surjection
<1> QED
    BY <1>1, <1>2, FS_Surjection

\* Without a shared id, there are as many ids as tasks.
LEMMA DistinctIds ==
    ASSUME NEW g \in Graphs, ~ HasDuplicateIds(g)
    PROVE  Cardinality(Ids(g)) = Len(g.nodes)
<1> DEFINE f == [i \in Nodes(g) |-> g.nodes[i]]
<1>1. f \in Surjection(Nodes(g), Ids(g)) /\ f \in Injection(Nodes(g), Ids(g))
    BY DEF Surjection, Injection, IsInjective, Ids, HasDuplicateIds
<1> QED
    BY <1>1, NodesFinite, FS_Surjection

\* In an acyclic graph some task that is not completed has all its
\* dependencies completed: otherwise the ids left would be a cycle.
LEMMA SomeTaskIsReady ==
    ASSUME TypeOK, Valid(graph),
           NEW n \in Nodes(graph), graph.nodes[n] \notin completed
    PROVE  \E i \in Nodes(graph) : IsReady(i)
<1>1. SUFFICES ASSUME \A i \in Nodes(graph) : ~ IsReady(i) PROVE FALSE
    OBVIOUS
<1> DEFINE S == {x \in Ids(graph) : x \notin completed}
<1>2. graph \in Graphs
    BY DEF TypeOK
<1>3. S \in SUBSET TaskIds /\ S # {}
    BY <1>2, GraphShape DEF Ids
<1>4. \A x \in S : \E y \in S : <<y, x>> \in graph.edges
    BY <1>1 DEF IsReady, DependenciesOf, Ids
<1> QED
    BY <1>3, <1>4 DEF Valid, Cyclic

LEMMA FinishedGrows ==
    ASSUME NEW i \in Nodes(graph), results \in Seq(Nodes(graph)),
           results' = Append(results, i)
    PROVE  Finished' = Finished \cup {i}
<1>1. /\ Len(results') = Len(results) + 1 /\ Len(results) \in Nat
      /\ results'[Len(results) + 1] = i
      /\ \A k \in 1 .. Len(results) : results'[k] = results[k]
    OBVIOUS
<1> QED
    BY <1>1 DEF Finished
-----------------------------------------------------------------------------
\* Type correctness.  That a turn stays within MAX_TURNS and that a recorded
\* task is a task of the graph come from PhaseInv.
THEOREM TypeCorrect == Spec => []BasicInv
<1> USE TaskGraphAssumption, ExecutorAssumption
<1>1. Init => BasicInv
    BY DEF Init, BasicInv, TypeOK, PhaseInv, Running, Outcomes, Verdicts
<1>2. BasicInv /\ [Next]_vars => BasicInv'
  <2> SUFFICES ASSUME BasicInv, [Next]_vars PROVE BasicInv'
      OBVIOUS
  <2> USE DEF BasicInv, TypeOK, PhaseInv, Running, Outcomes, Verdicts
  <2>1. CASE BeginWave
      BY <2>1 DEF BeginWave, taskVars
  <2>2. CASE EndWave
      BY <2>2 DEF EndWave, taskVars
  <2>3. CASE AllDone
      BY <2>3 DEF AllDone, taskVars
  <2>4. CASE StartTask
      BY <2>4 DEF StartTask
  <2>5. CASE Turn
      BY <2>5 DEF Turn, LoopEnds
  <2>6. CASE Review
      BY <2>6 DEF Review, Revise, RoundsLeft
  <2>7. CASE Record
    <3>1. current \in Nodes(graph) /\ current \in Nodes(graph')
        BY <2>7 DEF Record
    <3>2. graph.nodes[current] \in TaskIds
        BY <3>1, GraphShape
    <3>3. results' \in Seq(Nodes(graph'))
        BY <2>7, <3>1 DEF Record
    <3> QED
        BY <2>7, <3>2, <3>3 DEF Record, taskVars
  <2>8. CASE CallFails
      BY <2>8 DEF CallFails, taskVars
  <2>9. CASE UNCHANGED vars
      BY <2>9 DEF vars, taskVars
  <2> QED
      BY <2>1, <2>2, <2>3, <2>4, <2>5, <2>6, <2>7, <2>8, <2>9 DEF Next
<1> QED
    BY <1>1, <1>2, PTL DEF Spec

\* ReviewIsSettled, with the facts about the review loop it rests on.
THEOREM ReviewSettled == Spec => []ReviewIsSettled
<1> USE ExecutorAssumption DEF ReviewInv, ReviewIsSettled
<1>1. Init => ReviewInv
    BY DEF Init
<1>2. BasicInv /\ ReviewInv /\ [Next]_vars => ReviewInv'
  <2> SUFFICES ASSUME BasicInv, ReviewInv, [Next]_vars PROVE ReviewInv'
      OBVIOUS
  <2>1. CASE BeginWave \/ EndWave \/ AllDone \/ CallFails
      BY <2>1 DEF BeginWave, EndWave, AllDone, CallFails, taskVars
  <2>2. CASE StartTask \/ Record
      BY <2>2 DEF StartTask, Record, taskVars, BasicInv, TypeOK
  <2>3. CASE Turn
      BY <2>3 DEF Turn
  <2>4. CASE Review
      BY <2>4 DEF Review, Revise, RoundsLeft, ShouldRetry, Verdicts,
                  BasicInv, TypeOK
  <2>5. CASE UNCHANGED vars
      BY <2>5 DEF vars, taskVars
  <2> QED
      BY <2>1, <2>2, <2>3, <2>4, <2>5 DEF Next
<1> QED
    BY <1>1, <1>2, TypeCorrect, PTL DEF Spec

\* TurnBudget: every finished agent loop used at most MAX_TURNS turns.
THEOREM TurnsBounded == Spec => []TurnBudget
<1> USE ExecutorAssumption DEF BudgetInv
<1>1. Init => BudgetInv
    BY DEF Init
<1>2. BasicInv /\ BudgetInv /\ [Next]_vars => BudgetInv'
  <2> SUFFICES ASSUME BasicInv, BudgetInv, [Next]_vars PROVE BudgetInv'
      OBVIOUS
  <2>0. /\ MaxTurns \in Nat /\ round \in Nat /\ turns \in Nat /\ spent \in Nat
        /\ turns <= MaxTurns
        /\ MaxTurns * (round + 1) = MaxTurns * round + MaxTurns
        /\ MaxTurns * round \in Nat
      BY DEF BasicInv, TypeOK
  <2>1. CASE BeginWave \/ EndWave \/ AllDone \/ CallFails \/ Record
      BY <2>1 DEF BeginWave, EndWave, AllDone, CallFails, Record, taskVars
  <2>2. CASE StartTask
      BY <2>2 DEF StartTask
  <2>3. CASE Turn
      BY <2>0, <2>3 DEF Turn
  <2>4. CASE Review
    <3>1. CASE UNCHANGED <<turns, round>>
        BY <2>4, <3>1 DEF Review
    <3>2. CASE Revise
        BY <2>0, <2>4, <3>2 DEF Review, Revise
    <3> QED
        BY <2>4, <3>1, <3>2 DEF Review
  <2>5. CASE UNCHANGED vars
      BY <2>5 DEF vars, taskVars
  <2> QED
      BY <2>1, <2>2, <2>3, <2>4, <2>5 DEF Next
<1>3. BasicInv /\ BudgetInv => TurnBudget
  <2> SUFFICES ASSUME BasicInv, BudgetInv PROVE TurnBudget
      OBVIOUS
  <2>1. /\ MaxTurns \in Nat /\ round \in Nat /\ turns \in Nat /\ spent \in Nat
        /\ turns <= MaxTurns
        /\ MaxTurns * (round + 1) = MaxTurns * round + MaxTurns
        /\ MaxTurns * round \in Nat
      BY DEF BasicInv, TypeOK
  <2> QED
      BY <2>1 DEF TurnBudget
<1> QED
    BY <1>1, <1>2, <1>3, TypeCorrect, PTL DEF Spec
-----------------------------------------------------------------------------
(***************************************************************************)
(* The scheduler.                                                          *)
(***************************************************************************)
LEMMA InitScheduler == Init => SchedulerInv
<1> SUFFICES ASSUME Init PROVE SchedulerInv
    OBVIOUS
<1>1. Finished = {} /\ graph \in Graphs
    BY DEF Init, Finished
<1>2. Pending = {}
    BY <1>1, GraphShape DEF Init, Pending
<1> QED
    BY <1>1, <1>2 DEF Init, SchedulerInv, WaveInv, OrderInv, OutcomeInv

LEMMA StepBeginWave ==
    ASSUME BasicInv, SchedulerInv, BeginWave PROVE SchedulerInv'
<1> USE DEF BeginWave
<1>1. graph \in Graphs /\ current = 0 /\ 0 \notin Nodes(graph)
    BY GraphShape DEF BasicInv, TypeOK, PhaseInv
<1>2. Pending = {} /\ Pending' = ready'
    BY <1>1 DEF Pending, BasicInv, PhaseInv, Nodes
<1>3. Finished' = Finished
    BY DEF Finished
<1>4. \A i \in ready' :
        /\ i \in Nodes(graph) /\ graph.nodes[i] \notin completed
        /\ \A j \in DependenciesOf(graph, graph.nodes[i]) :
              graph.nodes[j] \in completed
    BY DEF IsReady
<1>5. WaveInv'
  <2> USE DEF SchedulerInv, WaveInv
  <2>1. completed' = {graph'.nodes[i] : i \in Finished'}
      BY <1>3
  <2>2. current' \notin ready'
      BY <1>1, <1>4
  <2>3. Pending' \cap Finished' = {}
      BY <1>2, <1>3, <1>4
  <2>4. \A i \in Pending' : DependenciesOf(graph', graph'.nodes[i]) \subseteq Finished'
      BY <1>2, <1>3, <1>4 DEF DependenciesOf
  <2>5. \A i \in Pending', j \in Nodes(graph') :
           graph'.nodes[j] = graph'.nodes[i] => j \in Finished' \cup Pending'
      BY <1>2, <1>4 DEF IsReady
  <2>6. \A j \in Nodes(graph') :
           graph'.nodes[j] \in completed' => j \in Finished' \cup Pending'
      BY <1>2, <1>3
  <2> QED
      BY <2>1, <2>2, <2>3, <2>4, <2>5, <2>6
<1>6. OrderInv'
    BY DEF SchedulerInv, OrderInv
<1>7. OutcomeInv'
    BY DEF OutcomeInv, TasksLeft, IsReady
<1> QED
    BY <1>5, <1>6, <1>7 DEF SchedulerInv

\* Actions that move the program counter only.
LEMMA StepPhaseOnly ==
    ASSUME BasicInv, SchedulerInv,
           EndWave \/ AllDone \/ Turn \/ Review \/ CallFails
    PROVE  SchedulerInv'
<1>1. /\ UNCHANGED <<graph, completed, ready, current, results>>
      /\ phase' # "deadlock" /\ (phase' = "ok" => ~ TasksLeft)
    BY DEF EndWave, AllDone, Turn, Review, Revise, CallFails
<1>2. Finished' = Finished /\ Pending' = Pending
    BY <1>1 DEF Finished, Pending
<1>3. WaveInv'
    BY <1>1, <1>2 DEF SchedulerInv, WaveInv
<1>4. OrderInv' /\ OutcomeInv'
    BY <1>1 DEF SchedulerInv, OrderInv, OutcomeInv, TasksLeft
<1> QED
    BY <1>1, <1>3, <1>4 DEF SchedulerInv

LEMMA StepStartTask ==
    ASSUME BasicInv, SchedulerInv, StartTask PROVE SchedulerInv'
<1>1. PICK i \in ready : current' = i /\ ready' = ready \ {i}
    BY DEF StartTask
<1>2. /\ UNCHANGED <<graph, completed, results>>
      /\ phase' = "implement" /\ current = 0
    BY DEF StartTask, BasicInv, PhaseInv
<1>3. graph \in Graphs /\ ready \subseteq Nodes(graph) /\ 0 \notin Nodes(graph)
    BY GraphShape DEF BasicInv, TypeOK
<1>4. Finished' = Finished /\ Pending' = Pending
    BY <1>1, <1>2, <1>3 DEF Finished, Pending
<1>5. WaveInv'
    BY <1>1, <1>2, <1>4 DEF SchedulerInv, WaveInv
<1>6. OrderInv' /\ OutcomeInv'
    BY <1>2 DEF SchedulerInv, OrderInv, OutcomeInv
<1> QED
    BY <1>2, <1>5, <1>6 DEF SchedulerInv

LEMMA StepRecord ==
    ASSUME BasicInv, SchedulerInv, Record PROVE SchedulerInv'
<1>1. /\ current \in Nodes(graph) /\ current' = 0
      /\ UNCHANGED <<graph, ready>>
      /\ phase' = "wave"
      /\ completed' = completed \cup {graph.nodes[current]}
      /\ results' = Append(results, current)
    BY DEF Record, BasicInv, PhaseInv
<1>2. /\ graph \in Graphs /\ results \in Seq(Nodes(graph))
      /\ 0 \notin Nodes(graph) /\ current \in Pending
    BY <1>1, GraphShape DEF BasicInv, TypeOK, Pending
<1>3. Finished' = Finished \cup {current}
    BY <1>1, <1>2, FinishedGrows
<1>4. Pending' = Pending \ {current}
    BY <1>1, <1>2 DEF Pending, SchedulerInv, WaveInv
<1>5. WaveInv'
  <2> USE <1>1, <1>3, <1>4 DEF SchedulerInv, WaveInv
  <2>1. completed' = {graph'.nodes[i] : i \in Finished'}
      OBVIOUS
  <2>2. current' \notin ready'
      BY <1>2 DEF BasicInv, TypeOK
  <2>3. Pending' \cap Finished' = {}
      OBVIOUS
  <2>4. \A i \in Pending' : DependenciesOf(graph', graph'.nodes[i]) \subseteq Finished'
      OBVIOUS
  <2>5. \A i \in Pending', j \in Nodes(graph') :
           graph'.nodes[j] = graph'.nodes[i] => j \in Finished' \cup Pending'
      OBVIOUS
  <2>6. \A j \in Nodes(graph') :
           graph'.nodes[j] \in completed' => j \in Finished' \cup Pending'
      BY <1>2
  <2> QED
      BY <2>1, <2>2, <2>3, <2>4, <2>5, <2>6
<1>6. OrderInv'
  <2>0. /\ Len(results) \in Nat /\ Len(results') = Len(results) + 1
        /\ results'[Len(results) + 1] = current
        /\ \A k \in 1 .. Len(results) : results'[k] = results[k]
      BY <1>1, <1>2
  <2>1. \A j \in DependenciesOf(graph, graph.nodes[current]) :
           \E l \in 1 .. Len(results) : results[l] = j
      BY <1>2 DEF SchedulerInv, WaveInv, Finished
  <2>2. \A k \in 1 .. Len(results) : results[k] # current
      BY <1>2 DEF SchedulerInv, WaveInv, Finished
  <2>3. ASSUME NEW k \in 1 .. Len(results'),
               NEW j \in DependenciesOf(graph', graph'.nodes[results'[k]])
        PROVE  \E l \in 1 .. k - 1 : results'[l] = j
    <3>1. CASE k = Len(results) + 1
      <4>1. j \in DependenciesOf(graph, graph.nodes[current])
          BY <1>1, <2>0, <3>1
      <4>2. PICK l \in 1 .. Len(results) : results[l] = j
          BY <2>1, <4>1
      <4> QED
          BY <2>0, <3>1, <4>2
    <3>2. CASE k \in 1 .. Len(results)
      <4>1. j \in DependenciesOf(graph, graph.nodes[results[k]])
          BY <1>1, <2>0, <3>2
      <4>2. PICK l \in 1 .. k - 1 : results[l] = j
          BY <3>2, <4>1 DEF SchedulerInv, OrderInv
      <4>3. l \in 1 .. Len(results)
          BY <2>0, <3>2
      <4> QED
          BY <2>0, <4>2, <4>3
    <3> QED
        BY <2>0, <3>1, <3>2
  <2>4. ASSUME NEW k \in 1 .. Len(results'), NEW l \in 1 .. Len(results'),
               results'[k] = results'[l]
        PROVE  k = l
      BY <2>0, <2>2, <2>4 DEF SchedulerInv, OrderInv
  <2> QED
      BY <2>3, <2>4 DEF OrderInv
<1>7. OutcomeInv'
    BY <1>1 DEF OutcomeInv
<1> QED
    BY <1>1, <1>5, <1>6, <1>7 DEF SchedulerInv

THEOREM SchedulerCorrect == Spec => [](BasicInv /\ SchedulerInv)
<1>1. BasicInv /\ SchedulerInv /\ [Next]_vars => SchedulerInv'
  <2> SUFFICES ASSUME BasicInv, SchedulerInv, [Next]_vars PROVE SchedulerInv'
      OBVIOUS
  <2>1. CASE UNCHANGED vars
    <3>1. Finished' = Finished /\ Pending' = Pending
        BY <2>1 DEF vars, Finished, Pending
    <3> QED
        BY <2>1, <3>1 DEF vars, SchedulerInv, WaveInv, OrderInv, OutcomeInv,
                          TasksLeft, IsReady
  <2> QED
      BY <2>1, StepBeginWave, StepPhaseOnly, StepStartTask, StepRecord DEF Next
<1> QED
    BY <1>1, InitScheduler, TypeCorrect, PTL DEF Spec

\* No task starts before the tasks it depends on, and results are in
\* dependency order, whether or not ids are shared.
THEOREM DependenciesFirst == Spec => []DependencyOrder
<1>1. BasicInv /\ SchedulerInv => DependencyOrder
  <2> SUFFICES ASSUME BasicInv, SchedulerInv PROVE DependencyOrder
      OBVIOUS
  <2>1. current # 0 => current \in Pending
      BY DEF BasicInv, TypeOK, Pending
  <2> QED
      BY <2>1 DEF DependencyOrder, SchedulerInv, WaveInv, OrderInv
<1> QED
    BY <1>1, SchedulerCorrect, PTL

\* No task runs twice.
THEOREM TasksRunOnce == Spec => []RunsOnce
<1>1. BasicInv /\ SchedulerInv => RunsOnce
  <2> SUFFICES ASSUME BasicInv, SchedulerInv PROVE RunsOnce
      OBVIOUS
  <2>1. current = 0 \/ current \in Pending
      BY DEF BasicInv, TypeOK, Pending
  <2>2. Finished \subseteq Nodes(graph) /\ 0 \notin Nodes(graph)
      BY GraphShape DEF BasicInv, TypeOK, Finished
  <2> QED
      BY <2>1, <2>2 DEF RunsOnce, SchedulerInv, WaveInv, OrderInv
<1> QED
    BY <1>1, SchedulerCorrect, PTL

\* A task without a result leaves fewer completed ids than there are tasks.
LEMMA UnfinishedLeavesTasks ==
    ASSUME BasicInv, SchedulerInv, Pending = {},
           NEW n \in Nodes(graph), n \notin Finished
    PROVE  TasksLeft
<1>1. graph \in Graphs /\ Finished \subseteq Nodes(graph)
    BY DEF BasicInv, TypeOK, Finished
<1> DEFINE T == Nodes(graph) \ {n}
           I == {graph.nodes[i] : i \in T}
<1>2. completed \subseteq I
    BY <1>1 DEF SchedulerInv, WaveInv
<1>3. IsFiniteSet(I) /\ Cardinality(I) <= Cardinality(T)
  <2>1. T \in SUBSET Nodes(graph)
      OBVIOUS
  <2> QED
      BY <1>1, <2>1, IdsOfTasks
<1>4. Cardinality(completed) <= Cardinality(I)
    BY <1>2, <1>3, FS_Subset
<1>5. Cardinality(T) = Len(graph.nodes) - 1
    BY <1>1, NodesFinite, FS_RemoveElement
<1>6. /\ Cardinality(completed) \in Nat /\ Cardinality(I) \in Nat
      /\ Len(graph.nodes) \in Nat
    BY <1>1, <1>2, <1>3, FS_Subset, FS_CardinalityType, GraphShape
<1> HIDE DEF T, I
<1> QED
    BY <1>3, <1>4, <1>5, <1>6 DEF TasksLeft

\* Ok(results) means that every task was executed.
THEOREM SuccessComplete == Spec => []SuccessIsComplete
<1>1. BasicInv /\ SchedulerInv => SuccessIsComplete
  <2> SUFFICES ASSUME BasicInv, SchedulerInv, phase = "ok"
               PROVE  Finished = Nodes(graph)
      BY DEF SuccessIsComplete
  <2>1. ~ TasksLeft
      BY DEF SchedulerInv, OutcomeInv
  <2>2. Pending = {}
      BY GraphShape DEF BasicInv, TypeOK, PhaseInv, Pending
  <2>3. Finished \subseteq Nodes(graph)
      BY DEF BasicInv, TypeOK, Finished
  <2> QED
      BY <2>1, <2>2, <2>3, UnfinishedLeavesTasks
<1> QED
    BY <1>1, SchedulerCorrect, PTL

\* The scheduler reports a deadlock only when two tasks share an id, and then
\* every task has been run: on a plan with distinct ids it never happens.
THEOREM DeadlockNeedsDuplicates == Spec => []DeadlockOnlyWithDuplicates
<1>1. BasicInv /\ SchedulerInv => DeadlockOnlyWithDuplicates
  <2> SUFFICES ASSUME BasicInv, SchedulerInv, phase = "deadlock"
               PROVE  HasDuplicateIds(graph) /\ Finished = Nodes(graph)
      BY DEF DeadlockOnlyWithDuplicates
  <2>1. /\ TasksLeft /\ \A i \in Nodes(graph) : ~ IsReady(i)
        /\ Valid(graph) /\ graph \in Graphs
      BY DEF SchedulerInv, OutcomeInv, BasicInv, TypeOK
  <2>2. \A n \in Nodes(graph) : graph.nodes[n] \in completed
      BY <2>1, SomeTaskIsReady DEF BasicInv
  <2>3. Pending = {}
      BY GraphShape DEF BasicInv, TypeOK, PhaseInv, Pending
  <2>4. Finished = Nodes(graph)
      BY <2>2, <2>3 DEF SchedulerInv, WaveInv, Finished, BasicInv, TypeOK
  <2>5. completed = Ids(graph)
      BY <2>4 DEF SchedulerInv, WaveInv, Ids
  <2>6. ASSUME ~ HasDuplicateIds(graph) PROVE FALSE
    <3>1. Cardinality(completed) = Len(graph.nodes) /\ Len(graph.nodes) \in Nat
        BY <2>1, <2>5, <2>6, DistinctIds, GraphShape
    <3> QED
        BY <2>1, <3>1 DEF TasksLeft
  <2> QED
      BY <2>4, <2>6
<1> QED
    BY <1>1, SchedulerCorrect, PTL

\* The executor implements the abstract schedule: recording a task is the
\* schedule's Finish, every other step moves its status or stutters.
THEOREM ExecutorImplementsSchedule == Spec => ImplementsSchedule
<1> USE DEF Running, Outcomes
<1>0. /\ Schedule!Nodes(graph) = Nodes(graph)
      /\ \A id : Schedule!DependenciesOf(graph, id) = DependenciesOf(graph, id)
    BY DEF Schedule!Nodes, Nodes, Schedule!DependenciesOf, DependenciesOf
<1>1. Init => Schedule!Init
  <2>1. \A g : /\ g \in Graphs => g \in Schedule!Graphs
               /\ Valid(g) => Schedule!Valid(g)
      BY DEF Graphs, Graph, Schedule!Graphs, Schedule!Graph,
             Valid, Cyclic, Dangling, Ids, Nodes, Schedule!Valid,
             Schedule!Cyclic, Schedule!Dangling, Schedule!Ids, Schedule!Nodes
  <2> QED
      BY <2>1 DEF Init, Schedule!Init, Finished
<1>2. BasicInv /\ SchedulerInv /\ SuccessIsComplete' /\ [Next]_vars
        => [Schedule!Next]_Schedule!vars
  <2> SUFFICES ASSUME BasicInv, SchedulerInv, SuccessIsComplete', [Next]_vars
               PROVE  [Schedule!Next]_Schedule!vars
      OBVIOUS
  <2> USE DEF Schedule!vars
  <2>1. CASE BeginWave
    <3>1. UNCHANGED <<graph, Finished>>
        BY <2>1 DEF BeginWave, Finished
    <3> QED
        BY <2>1, <3>1 DEF BeginWave, Schedule!Next, Schedule!Fail
  <2>2. CASE AllDone
    <3>1. UNCHANGED <<graph, Finished>>
        BY <2>2 DEF AllDone, Finished
    <3>2. Finished = Nodes(graph)
        BY <2>2, <3>1 DEF AllDone, SuccessIsComplete
    <3> QED
        BY <1>0, <2>2, <3>1, <3>2 DEF AllDone, Schedule!Next, Schedule!Succeed
  <2>3. CASE EndWave \/ StartTask \/ Turn \/ Review
      BY <2>3 DEF EndWave, StartTask, Turn, Review, Revise, Finished
  <2>4. CASE Record
    <3>1. current \in Nodes(graph) /\ current \in Pending
        BY <2>4 DEF Record, BasicInv, PhaseInv, Pending
    <3>2. Finished' = Finished \cup {current}
        BY <2>4, <3>1, FinishedGrows DEF Record, BasicInv, TypeOK
    <3>3. /\ current \notin Finished
          /\ DependenciesOf(graph, graph.nodes[current]) \subseteq Finished
        BY <3>1 DEF SchedulerInv, WaveInv
    <3>4. Schedule!Finish(current)
        BY <1>0, <2>4, <3>2, <3>3 DEF Record, Schedule!Finish
    <3> QED
        BY <1>0, <3>1, <3>4 DEF Schedule!Next
  <2>5. CASE CallFails
    <3>1. UNCHANGED <<graph, Finished>>
        BY <2>5 DEF CallFails, Finished
    <3> QED
        BY <2>5, <3>1 DEF CallFails, Schedule!Next, Schedule!Fail
  <2>6. CASE UNCHANGED vars
      BY <2>6 DEF vars, Finished
  <2> QED
      BY <2>1, <2>2, <2>3, <2>4, <2>5, <2>6 DEF Next
<1> QED
    BY <1>1, <1>2, SchedulerCorrect, SuccessComplete, PTL
    DEF Spec, ImplementsSchedule, Schedule!Spec
\* What the scheduler owes a plan: tasks run once, after the tasks they depend
\* on, all of them on success, and errors are for plans with repeated ids.
THEOREM ScheduleSound == Spec => []ScheduleIsSound
<1>1. DependencyOrder /\ RunsOnce /\ SuccessIsComplete /\ DeadlockOnlyWithDuplicates
        => ScheduleIsSound
    BY DEF ScheduleIsSound
<1> QED
    BY <1>1, DependenciesFirst, TasksRunOnce, SuccessComplete,
       DeadlockNeedsDuplicates, PTL

\* What it owes a task: the configured review, within the turns it can cost.
THEOREM WorkReviewed == Spec => []WorkIsReviewed
<1>1. ReviewIsSettled /\ TurnBudget => WorkIsReviewed
    BY DEF WorkIsReviewed
<1> QED
    BY <1>1, ReviewSettled, TurnsBounded, PTL

\* Types, as the runs check them.
THEOREM TypeInvariant == Spec => []TypeOK
<1>1. BasicInv => TypeOK
    BY DEF BasicInv
<1> QED
    BY <1>1, TypeCorrect, PTL
=============================================================================
