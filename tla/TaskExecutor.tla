---------------------------- MODULE TaskExecutor -----------------------------
(***************************************************************************)
(* TaskExecutor of ratchet-core/src/task_executor.rs: execute_task_graph   *)
(* schedules a validated graph in waves; execute_single_task runs one task *)
(* through the implementer's model/tool loop (run_agent_loop) and, when    *)
(* delegation.review is set, the reviewer loop that may send it back.      *)
(* The executor is one sequential async function; what varies is the       *)
(* graph, what the models answer, and which call fails.                    *)
(***************************************************************************)
EXTENDS TaskGraph

CONSTANTS
    MaxTurns,           \* MAX_TURNS: model calls of one agent loop (12 in the code)
    MaxReviewRounds     \* bound on delegation.max_review_rounds

ASSUME ExecutorAssumption ==
    /\ MaxTurns \in Nat \ {0}
    /\ MaxReviewRounds \in Nat

VARIABLES
    graph,          \* &plan.task_graph, accepted by TaskGraph::validate
    delegation,     \* config.delegation: review, max_review_rounds
    phase,          \* where the executor is
    completed,      \* the completed ids
    ready,          \* positions of this wave that have not started
    current,        \* position of the task being run, or 0
    results,        \* positions in the order their results were pushed
    turns,          \* turns of the current agent loop
    spent,          \* total_turns of the current task
    round,          \* review rounds of the current task
    review          \* the current task's last verdict, or "none"

taskVars == <<turns, spent, round, review>>
vars == <<graph, delegation, phase, completed, ready, current, results, taskVars>>

Running  == {"schedule", "wave", "implement", "review", "record"}
Outcomes == {"ok", "deadlock", "error"}
Verdicts == {"approved", "rejected", "unparseable"}

TypeOK ==
    /\ graph \in Graphs
    /\ delegation \in [review : BOOLEAN, maxRounds : 0 .. MaxReviewRounds]
    /\ phase \in Running \cup Outcomes
    /\ completed \in SUBSET TaskIds
    /\ ready \in SUBSET Nodes(graph)
    /\ current \in Nodes(graph) \cup {0}
    /\ results \in Seq(Nodes(graph))
    /\ turns \in 0 .. MaxTurns
    /\ spent \in Nat
    /\ round \in 0 .. MaxReviewRounds
    /\ review \in Verdicts \cup {"none"}

Init ==
    /\ graph \in {g \in Graphs : Valid(g)}
    /\ delegation \in [review : BOOLEAN, maxRounds : 0 .. MaxReviewRounds]
    /\ phase = "schedule"
    /\ completed = {}
    /\ ready = {}
    /\ current = 0
    /\ results = <<>>
    /\ turns = 0 /\ spent = 0 /\ round = 0 /\ review = "none"
-----------------------------------------------------------------------------
(***************************************************************************)
(* execute_task_graph.                                                     *)
(***************************************************************************)

\* Mutant: one completed dependency is enough.
IsReadySomeDependency(i) ==
    /\ graph.nodes[i] \notin completed
    /\ LET deps == DependenciesOf(graph, graph.nodes[i])
       IN  deps = {} \/ \E j \in deps : graph.nodes[j] \in completed

IsReady(i) ==
    /\ graph.nodes[i] \notin completed
    /\ \A j \in DependenciesOf(graph, graph.nodes[i]) : graph.nodes[j] \in completed

\* The while condition compares the number of ids with the number of nodes.
TasksLeft == Cardinality(completed) < Len(graph.nodes)

\* Mutant: an empty wave is not noticed.
BeginWaveUnchecked ==
    /\ phase = "schedule" /\ TasksLeft
    /\ ready' = {i \in Nodes(graph) : IsReady(i)}
    /\ phase' = "wave"
    /\ UNCHANGED <<graph, delegation, completed, current, results, taskVars>>

\* The tasks of the next wave are computed once, before any of them starts.
BeginWave ==
    /\ phase = "schedule" /\ TasksLeft
    /\ ready' = {i \in Nodes(graph) : IsReady(i)}
    /\ phase' = IF ready' = {} THEN "deadlock" ELSE "wave"
    /\ UNCHANGED <<graph, delegation, completed, current, results, taskVars>>

EndWave ==
    /\ phase = "wave" /\ ready = {}
    /\ phase' = "schedule"
    /\ UNCHANGED <<graph, delegation, completed, ready, current, results, taskVars>>

AllDone ==
    /\ phase = "schedule" /\ ~ TasksLeft
    /\ phase' = "ok"
    /\ UNCHANGED <<graph, delegation, completed, ready, current, results, taskVars>>

\* execute_single_task begins on the wave's next node, in Vec order.
StartTask ==
    /\ phase = "wave"
    /\ \E i \in ready :
         /\ \A j \in ready : i <= j
         /\ current' = i
         /\ ready' = ready \ {i}
    /\ phase' = "implement"
    /\ turns' = 0 /\ spent' = 0 /\ round' = 0 /\ review' = "none"
    /\ UNCHANGED <<graph, delegation, completed, results>>
-----------------------------------------------------------------------------
(***************************************************************************)
(* execute_single_task: one turn of run_agent_loop is one model call and   *)
(* the tool calls it asks for.  The loop ends when the model asks for none *)
(* or when MAX_TURNS turns are used.                                       *)
(***************************************************************************)
\* Mutant: only a final answer ends the loop.
LoopEndsOnAnswer(answer) == answer = "final" \/ turns = MaxTurns

LoopEnds(answer) == answer = "final" \/ turns + 1 >= MaxTurns

Turn ==
    /\ phase = "implement"
    /\ \E answer \in {"tools", "final"} :
         phase' = IF ~ LoopEnds(answer) THEN "implement"
                  ELSE IF delegation.review THEN "review" ELSE "record"
    /\ turns' = turns + 1
    /\ spent' = spent + 1
    /\ UNCHANGED <<graph, delegation, completed, ready, current, results, round, review>>

ShouldRetry(verdict) == verdict = "rejected"

\* Another round: the implementer gets the reviewer's issues.
Revise ==
    /\ phase' = "implement"
    /\ turns' = 0
    /\ round' = round + 1

\* Mutant: a rejected change is accepted once any round is used.
RoundsLeftOnce == round < 1 /\ round < delegation.maxRounds

RoundsLeft == round < delegation.maxRounds

Review ==
    /\ phase = "review"
    /\ \E verdict \in Verdicts :
         /\ review' = verdict
         /\ IF ShouldRetry(verdict) /\ RoundsLeft
            THEN Revise
            ELSE phase' = "record" /\ UNCHANGED <<turns, round>>
    /\ UNCHANGED <<graph, delegation, completed, ready, current, results, spent>>

\* The result is built and pushed, and the task's id counts as completed.
Record ==
    /\ phase = "record"
    /\ completed' = completed \cup {graph.nodes[current]}
    /\ results' = Append(results, current)
    /\ current' = 0
    /\ phase' = "wave"
    /\ UNCHANGED <<graph, delegation, ready, taskVars>>

\* Assembling the context, resolving a provider or a model call fails, or a tool
\* panics, and the error or the unwinding leaves through every level: the caller
\* gets no result of any task.
CallFails ==
    /\ phase \in {"implement", "review"}
    /\ phase' = "error"
    /\ UNCHANGED <<graph, delegation, completed, ready, current, results, taskVars>>

Next ==
    \/ BeginWave \/ EndWave \/ AllDone
    \/ StartTask \/ Turn \/ Review \/ Record \/ CallFails

\* An async function whose every await returns or fails.  That is an assumption:
\* HTTP calls, shell commands and plugins carry a timeout, MCP servers do not.
Spec == Init /\ [][Next]_vars
FairSpec == Spec /\ WF_vars(Next)
-----------------------------------------------------------------------------
(***************************************************************************)
(* Properties.                                                             *)
(***************************************************************************)

Finished == {results[k] : k \in 1 .. Len(results)}

\* A task's agent works on top of the changes of the tasks it depends on: when
\* it runs, and in the order results were pushed, every task of every id it
\* depends on has a result -- also when several tasks share that id, where the
\* set of completed ids alone does not tell.
DependencyOrder ==
    /\ current # 0 => DependenciesOf(graph, graph.nodes[current]) \subseteq Finished
    /\ \A k \in 1 .. Len(results) :
          \A j \in DependenciesOf(graph, graph.nodes[results[k]]) :
             \E l \in 1 .. k - 1 : results[l] = j

\* No task is run twice: across waves nothing that has a result is current.
RunsOnce ==
    /\ \A k, l \in 1 .. Len(results) : results[k] = results[l] => k = l
    /\ current \notin Finished

\* Ok(results) means that every task of the plan was executed.
SuccessIsComplete == phase = "ok" => Finished = Nodes(graph)

\* A change goes on record only as reviewed as the configuration asks: with
\* review on, the last verdict is an approval, or unreadable, or a rejection
\* that came when every allowed round had been spent.
ReviewIsSettled ==
    phase = "record" =>
        IF delegation.review
        THEN \/ review \in {"approved", "unparseable"}
             \/ review = "rejected" /\ round = delegation.maxRounds
        ELSE review = "none"

\* "Hard cap on model/tool round-trips per task": a task costs at most
\* MAX_TURNS turns for each of its implementer runs.
TurnBudget == spent <= MaxTurns * (round + 1)

\* On a validated graph the scheduler gives up only when two tasks share an
\* id, and then only after every task has been run.
DeadlockOnlyWithDuplicates ==
    phase = "deadlock" => HasDuplicateIds(graph) /\ Finished = Nodes(graph)

\* What the scheduler owes a plan: every task once, after the tasks it depends
\* on, and an error only for a plan that names two tasks alike.
ScheduleIsSound ==
    /\ DependencyOrder
    /\ RunsOnce
    /\ SuccessIsComplete
    /\ DeadlockOnlyWithDuplicates

\* What it owes a task: as much review as the configuration asks for, and no
\* more turns than that review can cost.
WorkIsReviewed == ReviewIsSettled /\ TurnBudget

\* Every execution ends, however often the reviewer rejects and however long
\* the model keeps calling tools.
Terminates == <>(phase \in Outcomes)

\* The executor implements the schedule.
Schedule == INSTANCE TaskSchedule WITH
    done   <- Finished,
    status <- IF phase \in Running THEN "running"
              ELSE IF phase = "ok" THEN "ok" ELSE "failed"

ImplementsSchedule == Schedule!Spec
=============================================================================
