---------------------------- MODULE AgentHarness -----------------------------
(***************************************************************************)
(* AgentHarness of ratchet-core/src/agent.rs with its StateMachine         *)
(* (state.rs): the object behind the chat session, the A2A agent and the   *)
(* ACP server.  It keeps the agent state in memory and one plan file per   *)
(* spec on disk.  Its methods take &mut self, or run under the caller's    *)
(* lock, so one call is in progress at a time; a call is several steps     *)
(* because its caller's process may be killed between them.                *)
(*                                                                         *)
(* The module has no specification of its own: ChatSession, A2aServer and  *)
(* AcpServer drive it.                                                     *)
(***************************************************************************)
EXTENDS Naturals

CONSTANTS
    Specs,          \* spec ids
    MaxRevision     \* bound: the texts a session's specs go through

NoPlan   == 0                   \* no plan.json
Unusable == MaxRevision + 1     \* plan.json does not parse or validate
Revisions == 1 .. MaxRevision   \* otherwise: the text the plan was made from

ASSUME HarnessAssumption == MaxRevision \in Nat \ {0}

VARIABLES
    state,      \* AgentState
    step,       \* where the call in progress is; "free" when there is none
    job,        \* the spec of that call: its id and text
    planFile,   \* what .ratchet/plan/<id>.plan.json holds
    plan,       \* the plan the last load_or_plan returned, or run_with runs
    ret         \* how the last call ended

harnessVars == <<state, step, job, planFile, plan, ret>>

AgentStates ==
    {"idle", "planning", "executing", "verifying", "blocked", "done", "failed"}

HarnessTypeOK ==
    /\ state \in AgentStates
    /\ step \in {"free", "planning", "saving", "executing", "verifying"}
    /\ job \in [spec : Specs, rev : Revisions]
    /\ planFile \in [Specs -> Revisions \cup {NoPlan, Unusable}]
    /\ plan \in Revisions \cup {NoPlan}
    /\ ret \in {"none", "planned", "passed", "failed", "error", "refused", "panicked"}

\* AgentHarness::new: what a process starts with, whatever is on disk.
NewProcess(files) ==
    /\ state' = "idle" /\ step' = "free"
    /\ planFile' = files
    /\ plan' = NoPlan /\ ret' = "none"
    /\ UNCHANGED job

HarnessInit ==
    /\ state = "idle" /\ step = "free"
    /\ job \in [spec : Specs, rev : {1}]
    /\ planFile = [s \in Specs |-> NoPlan]
    /\ plan = NoPlan /\ ret = "none"
-----------------------------------------------------------------------------
(***************************************************************************)
(* StateMachine::transition.  TryMove is a transition whose error the      *)
(* caller drops with .ok().                                                *)
(***************************************************************************)
\* Mutant: a finished agent may execute again.
MovesAfterDone == {<<"idle", "planning">>, <<"idle", "executing">>,
    <<"planning", "executing">>, <<"executing", "verifying">>,
    <<"verifying", "done">>, <<"done", "executing">>}
        \cup (AgentStates \X {"failed"})

Moves ==
    {<<"idle", "planning">>, <<"idle", "executing">>,
     <<"planning", "executing">>, <<"planning", "done">>,
     <<"executing", "verifying">>, <<"executing", "blocked">>,
     <<"verifying", "done">>, <<"verifying", "blocked">>, <<"verifying", "executing">>,
     <<"blocked", "executing">>, <<"blocked", "done">>,
     <<"done", "idle">>, <<"failed", "idle">>, <<"failed", "planning">>}
        \cup (AgentStates \X {"failed"})

CanMove(to) == <<state, to>> \in Moves
TryMove(to) == state' = IF CanMove(to) THEN to ELSE state

\* A call ends.
Return(result) == step' = "free" /\ ret' = result
-----------------------------------------------------------------------------
(***************************************************************************)
(* plan and load_or_plan.                                                  *)
(***************************************************************************)
\* plan: refused unless the state machine lets the agent plan.
BeginPlan ==
    IF CanMove("planning")
    THEN state' = "planning" /\ step' = "planning" /\ UNCHANGED <<plan, ret>>
    ELSE Return("refused") /\ UNCHANGED <<state, plan>>

\* Mutant: the saved plan is ignored.
AlwaysPlan(s, rev) ==
    /\ step = "free"
    /\ job' = [spec |-> s, rev |-> rev]
    /\ BeginPlan
    /\ UNCHANGED planFile

\* A saved plan is used whatever text of the spec it was made from; one that
\* does not parse or validate is an error, not a reason to plan again.
LoadOrPlan(s, rev) ==
    /\ step = "free"
    /\ job' = [spec |-> s, rev |-> rev]
    /\ CASE planFile[s] = NoPlan   -> BeginPlan
         [] planFile[s] = Unusable -> Return("error") /\ UNCHANGED <<state, plan>>
         [] OTHER -> /\ Return("planned")
                     /\ plan' = planFile[s]
                     /\ UNCHANGED state
    /\ UNCHANGED planFile

\* The model answers.  A failed call or a graph that does not validate leaves
\* the state at Planning.
PlanAnswered ==
    /\ step = "planning"
    /\ \/ step' = "saving" /\ UNCHANGED ret
       \/ Return("error")
    /\ UNCHANGED <<state, job, planFile, plan>>

\* What a save that does not get to its end leaves in plan.json: the tasks file
\* was written first, the JSON can be cut short, the readable plan comes last.
InterruptedSave ==
    {[planFile EXCEPT ![job.spec] = p] : p \in {planFile[job.spec], Unusable, job.rev}}

\* save_plan, then the transition to Idle that the state machine rejects from
\* Planning and whose error is dropped.
SavePlan ==
    /\ step = "saving"
    /\ \/ /\ planFile' = [planFile EXCEPT ![job.spec] = job.rev]
          /\ plan' = job.rev
          /\ TryMove("idle")
          /\ Return("planned")
       \/ /\ planFile' \in InterruptedSave
          /\ Return("error")
          /\ UNCHANGED <<state, plan>>
    /\ UNCHANGED job
-----------------------------------------------------------------------------
(***************************************************************************)
(* run_with.                                                               *)
(***************************************************************************)
\* The caller hands in the spec and the plan it holds.
RunWith(work, p) ==
    /\ step = "free"
    /\ job' = work /\ plan' = p
    /\ IF CanMove("executing")
       THEN state' = "executing" /\ step' = "executing" /\ UNCHANGED ret
       ELSE Return("refused") /\ UNCHANGED state
    /\ UNCHANGED planFile

\* The executor returns; its error leaves the state at Executing, and so does a
\* panic of one of its tools (FileRead, asked for lines past the end of a file),
\* which unwinds through run_with: nothing on the way catches it.
Executed ==
    /\ step = "executing"
    /\ \/ TryMove("verifying") /\ step' = "verifying" /\ UNCHANGED ret
       \/ Return("error") /\ UNCHANGED state
       \/ Return("panicked") /\ UNCHANGED state
    /\ UNCHANGED <<job, planFile, plan>>

\* Verification and the writes of report, memory and review.  Any of those
\* writes can fail, which leaves the state at Verifying.
Verified ==
    /\ step = "verifying"
    /\ \/ TryMove("done") /\ Return("passed")
       \/ TryMove("failed") /\ Return("failed")
       \/ Return("error") /\ UNCHANGED state
    /\ UNCHANGED <<job, planFile, plan>>

\* The call in progress goes on.
HarnessStep == PlanAnswered \/ SavePlan \/ Executed \/ Verified

\* What the user approved cannot change under him: within a process, a plan
\* file that exists is never written again, so the plan that execution reads
\* back is the one that was shown.
SavedPlanIsKept ==
    [][\A s \in Specs : planFile[s] # NoPlan => planFile'[s] = planFile[s]]_planFile
=============================================================================
