------------------------------ MODULE A2aServer ------------------------------
(***************************************************************************)
(* Delegated tasks: A2aDispatcher of ratchet-server/src/a2a.rs in front of *)
(* ProjectAgent of ratchet-cli/src/commands/dashboard.rs.  The dispatcher  *)
(* keeps a cache of tasks, the agent the tasks themselves; both maps have  *)
(* a lock that is released between any two steps below.  Every connection  *)
(* is a tokio task, and so are the run and the poller that a send spawns.  *)
(* The runs take turns on one AgentHarness.                                *)
(***************************************************************************)
EXTENDS AgentHarness, FiniteSets

CONSTANTS
    NumRequests,    \* bound: requests that arrive
    NumIds,         \* bound: ids of delegated tasks
    MaxPolls        \* polls of one poller (7200 in the code)

ASSUME A2aAssumption ==
    /\ NumRequests \in Nat
    /\ NumIds \in Nat \ {0}
    /\ MaxPolls \in Nat \ {0}

VARIABLES
    tasks,      \* ProjectAgent.tasks
    cache,      \* A2aDispatcher.tasks
    req,        \* the requests, numbered in the order they arrive
    run,        \* spawn_run of each send request
    poller,     \* spawn_poller of each send request
    holder,     \* the run that holds the harness lock, or Nobody
    past        \* history: every status a task has had

serverVars == <<tasks, cache, req, run, poller, holder, past>>
vars == <<harnessVars, serverVars>>

Requests == 1 .. NumRequests
Ids      == 1 .. NumIds         \* numbered in the order of their first use
Nobody   == 0
Ended    == {"completed", "failed", "canceled"}        \* TaskState::is_terminal
Statuses == {"submitted", "working"} \cup Ended
Task     == [status : Statuses, artifacts : BOOLEAN]
NoTask   == [status |-> "none", artifacts |-> FALSE]
MaybeTask == Task \cup {NoTask}
NewTask  == [status |-> "submitted", artifacts |-> FALSE]
Terminal(t) == t.status \in Ended

\* A request: what it asks for, its next step, the task it has copied out of a
\* map, and (history) the ids whose send had been answered when it arrived.
Request ==
    [method : {"none", "send", "get", "cancel"}, id : Ids,
     at : {"unborn", "check", "create", "lookup", "fetch", "guard", "cancel", "fill",
           "answered", "error"},
     copy : MaybeTask, after : SUBSET Ids]

Run    == {"none", "start", "queued", "planning", "running",
           "completed", "failed", "broken", "passed", "over", "died"}
Poller == [at : {"none", "check", "fetch", "fill", "stopped", "gave_up"},
           copy : MaybeTask, polls : 0 .. MaxPolls]

TypeOK ==
    /\ HarnessTypeOK
    /\ tasks \in [Ids -> MaybeTask]
    /\ cache \in [Ids -> MaybeTask]
    /\ req \in [Requests -> Request]
    /\ run \in [Requests -> Run]
    /\ poller \in [Requests -> Poller]
    /\ holder \in Requests \cup {Nobody}
    /\ past \in [Ids -> SUBSET Statuses]

Init ==
    /\ HarnessInit
    /\ tasks = [p \in Ids |-> NoTask]
    /\ cache = [p \in Ids |-> NoTask]
    /\ req \in [Requests -> [method : {"none"}, id : {1},
                             at : {"unborn"}, copy : {NoTask}, after : {{}}]]
    /\ run = [r \in Requests |-> "none"]
    /\ poller = [r \in Requests |-> [at |-> "none", copy |-> NoTask, polls |-> 0]]
    /\ holder = Nobody
    /\ past = [p \in Ids |-> {}]
-----------------------------------------------------------------------------
\* Every change of a delegated task goes through here, so that past keeps up.
Put(p, task) ==
    /\ tasks' = [tasks EXCEPT ![p] = task]
    /\ past' = [past EXCEPT ![p] = @ \cup {task.status}]

\* Task::transition: whatever the status was.
Transition(p, status) == Put(p, [tasks[p] EXCEPT !.status = status])

Goto(r, at) == req' = [req EXCEPT ![r].at = at]
Keep(r, task, at) == req' = [req EXCEPT ![r].copy = task, ![r].at = at]
-----------------------------------------------------------------------------
(***************************************************************************)
(* The connections: A2aDispatcher::handle and the ProjectAgent methods.    *)
(***************************************************************************)
SendDone(p) == \E r \in Requests :
    req[r].method = "send" /\ req[r].id = p /\ req[r].at = "answered"

FirstStep(method) ==
    CASE method = "send" -> "check" [] method = "get" -> "lookup" [] OTHER -> "guard"

Arrive(r) ==
    /\ req[r].at = "unborn"
    /\ \A q \in Requests : q < r => req[q].at # "unborn"
    /\ \E p \in Ids, method \in {"send", "get", "cancel"} :
         /\ \A q \in 1 .. p - 1 : \E o \in 1 .. r - 1 : req[o].id = q
         /\ req' = [req EXCEPT ![r] =
                      [method |-> method, id |-> p, at |-> FirstStep(method),
                       copy |-> NoTask, after |-> {q \in Ids : SendDone(q)}]]
    /\ UNCHANGED <<harnessVars, tasks, cache, run, poller, holder, past>>

\* send of a spec that does not exist or does not parse.
RefuseSend(r) ==
    /\ req[r].at = "check"
    /\ Goto(r, "error")
    /\ UNCHANGED <<harnessVars, tasks, cache, run, poller, holder, past>>

\* Mutant: a repeated id is not looked up.
SendAnyway(r) ==
    /\ req[r].at = "check"
    /\ Goto(r, "create")
    /\ UNCHANGED <<harnessVars, tasks, cache, run, poller, holder, past>>

\* send, under the first lock: a repeated id returns the existing task.
SendCheck(r) ==
    /\ req[r].at = "check"
    /\ LET task == tasks[req[r].id] IN
       IF task = NoTask THEN Goto(r, "create") ELSE Keep(r, task, "fill")
    /\ UNCHANGED <<harnessVars, tasks, cache, run, poller, holder, past>>

\* send, under the second lock: the task is inserted and its run spawned.
SendCreate(r) ==
    /\ req[r].at = "create"
    /\ Put(req[r].id, NewTask)
    /\ run' = [run EXCEPT ![r] = "start"]
    /\ Keep(r, NewTask, "fill")
    /\ UNCHANGED <<harnessVars, cache, poller, holder>>

\* tasks/get is answered from the cache when the cache knows the task.
Lookup(r) ==
    /\ req[r].at = "lookup"
    /\ LET task == cache[req[r].id] IN
       IF task = NoTask THEN Goto(r, "fetch") ELSE Goto(r, "answered")
    /\ UNCHANGED <<harnessVars, tasks, cache, run, poller, holder, past>>

Fetch(r) ==
    /\ req[r].at = "fetch"
    /\ LET task == tasks[req[r].id] IN
       IF task = NoTask THEN Goto(r, "error") ELSE Keep(r, task, "fill")
    /\ UNCHANGED <<harnessVars, tasks, cache, run, poller, holder, past>>

\* tasks/cancel is refused if the cached task has ended.
Guard(r) ==
    /\ req[r].at = "guard"
    /\ Goto(r, IF Terminal(cache[req[r].id]) THEN "error" ELSE "cancel")
    /\ UNCHANGED <<harnessVars, tasks, cache, run, poller, holder, past>>

\* Mutant: the peer gets a canceled copy, the task stays as it is.
CancelCopyOnly(r) ==
    /\ req[r].at = "cancel"
    /\ Keep(r, [tasks[req[r].id] EXCEPT !.status = "canceled"], "fill")
    /\ UNCHANGED <<harnessVars, tasks, past, cache, run, poller, holder>>

\* The agent refuses too if the task itself has ended; else it is Canceled.
\* Its run is not told.
CancelTask(r) ==
    /\ req[r].at = "cancel"
    /\ LET p == req[r].id IN
       IF tasks[p] = NoTask \/ Terminal(tasks[p])
       THEN Goto(r, "error") /\ UNCHANGED <<tasks, past>>
       ELSE /\ Transition(p, "canceled")
            /\ Keep(r, [tasks[p] EXCEPT !.status = "canceled"], "fill")
    /\ UNCHANGED <<harnessVars, cache, run, poller, holder>>

\* The copy goes into the cache and out to the peer; a send whose task has not
\* ended spawns a poller.
Fill(r) ==
    /\ req[r].at = "fill"
    /\ cache' = [cache EXCEPT ![req[r].id] = req[r].copy]
    /\ poller' = IF req[r].method = "send" /\ ~ Terminal(req[r].copy)
                 THEN [poller EXCEPT ![r].at = "check"] ELSE poller
    /\ Keep(r, NoTask, "answered")
    /\ UNCHANGED <<harnessVars, tasks, run, holder, past>>
-----------------------------------------------------------------------------
(***************************************************************************)
(* spawn_run.                                                              *)
(***************************************************************************)
At(r, from, to) == run[r] = from /\ run' = [run EXCEPT ![r] = to]

Announce(r) ==
    /\ At(r, "start", "queued")
    /\ Transition(req[r].id, "working")
    /\ UNCHANGED <<harnessVars, cache, req, poller, holder>>

\* The harness lock is taken and load_or_plan called.
Acquire(r) ==
    /\ At(r, "queued", "planning")
    /\ holder = Nobody /\ holder' = r
    /\ \E s \in Specs : LoadOrPlan(s, 1)
    /\ UNCHANGED <<tasks, cache, req, poller, past>>

\* With a plan the run goes on, still under the lock.
Execute(r) ==
    /\ At(r, "planning", "running")
    /\ step = "free" /\ ret = "planned"
    /\ Transition(req[r].id, "working")
    /\ RunWith(job, plan)
    /\ UNCHANGED <<cache, req, poller, holder>>

\* The call failed or was refused: the lock is dropped first.
Drop(r) ==
    /\ step = "free"
    /\ \/ At(r, "planning", "broken") /\ ret # "planned"
       \/ At(r, "running", "broken") /\ ret \notin {"passed", "failed", "panicked"}
    /\ holder' = Nobody
    /\ UNCHANGED <<harnessVars, tasks, cache, req, poller, past>>

\* A panic ends the spawned task.  Unwinding drops the guard of tokio's mutex,
\* which knows no poison; nobody joins the task and nothing is reported.
Die(r) ==
    /\ At(r, "running", "died")
    /\ step = "free" /\ ret = "panicked"
    /\ holder' = Nobody
    /\ UNCHANGED <<harnessVars, tasks, cache, req, poller, past>>

Finish(r) ==
    /\ step = "free" /\ ret \in {"passed", "failed"}
    /\ At(r, "running", IF ret = "passed" THEN "completed" ELSE "failed")
    /\ holder' = Nobody
    /\ UNCHANGED <<harnessVars, tasks, cache, req, poller, past>>

\* Mutant: the error is not reported.
FailSilently(r) ==
    /\ At(r, "broken", "over")
    /\ UNCHANGED <<harnessVars, tasks, cache, req, poller, holder, past>>

Fail(r) ==
    /\ At(r, "broken", "over")
    /\ Transition(req[r].id, "failed")
    /\ UNCHANGED <<harnessVars, cache, req, poller, holder>>

\* Status and artifacts are set under one lock.
Report(r) ==
    /\ At(r, "completed", "passed") \/ At(r, "failed", "over")
    /\ Put(req[r].id, [status |-> run[r], artifacts |-> TRUE])
    /\ UNCHANGED <<harnessVars, cache, req, poller, holder>>
-----------------------------------------------------------------------------
(***************************************************************************)
(* spawn_poller.                                                           *)
(***************************************************************************)
PollerAt(at) == [at |-> at, copy |-> NoTask, polls |-> 0]

\* Mutant: the polls are not bounded.
PollUncapped(r) ==
    /\ poller[r].at = "check"
    /\ poller' = [poller EXCEPT ![r] =
          IF Terminal(cache[req[r].id]) THEN PollerAt("stopped") ELSE [@ EXCEPT !.at = "fetch"]]
    /\ UNCHANGED <<harnessVars, tasks, cache, req, run, holder, past>>

\* Awake: a task whose cached copy has ended needs no more polling.
PollCheck(r) ==
    /\ poller[r].at = "check"
    /\ poller' = [poller EXCEPT ![r] =
          IF @.polls = MaxPolls THEN PollerAt("gave_up")
          ELSE IF Terminal(cache[req[r].id]) THEN PollerAt("stopped")
          ELSE [@ EXCEPT !.at = "fetch"]]
    /\ UNCHANGED <<harnessVars, tasks, cache, req, run, holder, past>>

PollFetch(r) ==
    /\ poller[r].at = "fetch"
    /\ poller' = [poller EXCEPT ![r].at = "fill", ![r].copy = tasks[req[r].id]]
    /\ UNCHANGED <<harnessVars, tasks, cache, req, run, holder, past>>

\* Mutant: the poller stops after one answer.
PollOnce(r) ==
    /\ poller[r].at = "fill"
    /\ cache' = [cache EXCEPT ![req[r].id] = poller[r].copy]
    /\ poller' = [poller EXCEPT ![r] = PollerAt("stopped")]
    /\ UNCHANGED <<harnessVars, tasks, req, run, holder, past>>

PollFill(r) ==
    /\ poller[r].at = "fill"
    /\ cache' = [cache EXCEPT ![req[r].id] = poller[r].copy]
    /\ poller' = [poller EXCEPT ![r] =
          IF Terminal(@.copy) THEN PollerAt("stopped")
          ELSE [at |-> "check", copy |-> NoTask, polls |-> @.polls + 1]]
    /\ UNCHANGED <<harnessVars, tasks, req, run, holder, past>>
-----------------------------------------------------------------------------
Serve(r) ==
    \/ SendCheck(r) \/ SendCreate(r) \/ Lookup(r) \/ Fetch(r)
    \/ Guard(r) \/ CancelTask(r) \/ Fill(r)

RunStep(r) ==
    \/ Announce(r) \/ Acquire(r) \/ Execute(r) \/ Drop(r) \/ Die(r) \/ Finish(r)
    \/ Fail(r) \/ Report(r)

Poll(r) == PollCheck(r) \/ PollFetch(r) \/ PollFill(r)

Work == HarnessStep /\ UNCHANGED serverVars

Next ==
    \/ \E r \in Requests : Arrive(r) \/ RefuseSend(r) \/ Serve(r) \/ RunStep(r) \/ Poll(r)
    \/ Work

\* Peers may stop asking.  The runs the server has spawned are scheduled, the
\* harness lock is handed on, and the calls of the harness return or panic.
Spec ==
    /\ Init /\ [][Next]_vars
    /\ \A r \in Requests : WF_vars(RunStep(r))
    /\ WF_vars(Work)
-----------------------------------------------------------------------------
(***************************************************************************)
(* Properties.                                                             *)
(***************************************************************************)
Copies(p) ==
    {tasks[p], cache[p]}
        \cup {req[r].copy : r \in {q \in Requests : req[q].id = p}}
        \cup {poller[r].copy : r \in {q \in Requests : req[q].id = p}}

\* extending.md: "Completed tasks carry summary and review artifacts".  No
\* peer, cache or copy in flight ever sees a completed task without them.
CompletedCarriesArtifacts ==
    \A p \in Ids : \A t \in Copies(p) : t.status = "completed" => t.artifacts

\* What the cache and the copies say of a task was true of it at some time:
\* a slow fill may be late, never wrong about another task or state.
CopiesAreHonest ==
    \A p \in Ids : \A t \in Copies(p) : t # NoTask => t.status \in past[p]

\* Nobody is told of a task what was never so.
ReportsAreHonest == CopiesAreHonest /\ CompletedCarriesArtifacts

\* No transition out of Done is ever taken, so one server completes at most
\* one delegated task in its life; every other ends failed or canceled.
OneSuccessPerServer ==
    Cardinality({r \in Requests : run[r] \in {"completed", "passed"}}) <= 1

\* dashboard.rs: "Idempotent: a repeated id returns the existing task".  A send
\* that arrives after another one of the same id was answered starts no run
\* (two that overlap can both start one).
RetryStartsNoRun ==
    \A r \in Requests : run[r] # "none" => req[r].id \notin req[r].after

\* The cache is kept current: a task it shows as not ended, ended or not, has a
\* poller that will look at it again, unless a poller used up its polls or a
\* tasks/get filled in a copy it had fetched earlier.
StaleCacheHasAReason ==
    \A p \in Ids :
        LET mine == {r \in Requests : req[r].id = p} IN
        \/ cache[p] = NoTask \/ Terminal(cache[p])
        \/ \E r \in mine : poller[r].at \in {"check", "fetch", "fill"}
        \/ \E r \in mine : poller[r].at = "gave_up"
        \/ \E r \in mine : req[r].method = "get" /\ req[r].at = "answered"

\* A delegated task ends, and at some point stays ended, whatever the planner,
\* the executor and the peers' cancellations do -- unless its own run died of a
\* panic, which leaves it Working for ever.  The runs queued behind such a run
\* get their turn and report like the others.
EveryTaskSettles ==
    <>[](\A p \in Ids :
            \/ tasks[p] = NoTask \/ Terminal(tasks[p])
            \/ \E r \in Requests : req[r].id = p /\ run[r] = "died")
=============================================================================
