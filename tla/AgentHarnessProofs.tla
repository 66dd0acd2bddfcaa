------------------------- MODULE AgentHarnessProofs --------------------------
(***************************************************************************)
(* What one call of the harness keeps, whoever makes it: lemmas for the    *)
(* proofs about its callers.                                               *)
(***************************************************************************)
EXTENDS AgentHarness, TLAPS

\* The planner is at work only on a spec without a plan file.
PlanningInv == step \in {"planning", "saving"} => planFile[job.spec] = NoPlan

\* A plan that was returned is the one in the plan file.
ReturnInv ==
    step = "free" /\ ret = "planned" =>
        plan \in Revisions /\ planFile[job.spec] = plan

\* The state machine says where the call in progress is.
PhaseInv ==
    /\ step \in {"planning", "saving"} => state = "planning"
    /\ step = "executing" => state = "executing"
    /\ step = "verifying" => state = "verifying"

HarnessInv == HarnessTypeOK /\ PlanningInv /\ ReturnInv

\* No step writes a plan file that is there.
PlansAreKept ==
    \A s \in Specs : planFile[s] # NoPlan => planFile'[s] = planFile[s]

LEMMA PlanValues ==
    /\ NoPlan \notin Revisions /\ Unusable \notin Revisions /\ NoPlan # Unusable
    /\ 1 \in Revisions
BY HarnessAssumption DEF NoPlan, Unusable, Revisions

LEMMA InitHarness == HarnessInit => HarnessInv
BY PlanValues
DEF HarnessInit, HarnessInv, HarnessTypeOK, PlanningInv, ReturnInv, AgentStates

LEMMA MoveType ==
    ASSUME state \in AgentStates, NEW to \in AgentStates, TryMove(to)
    PROVE  state' \in AgentStates
BY DEF TryMove

LEMMA LoadOrPlanKeeps ==
    ASSUME HarnessInv, NEW s \in Specs, NEW rev \in Revisions, LoadOrPlan(s, rev)
    PROVE  /\ HarnessInv' /\ UNCHANGED planFile
           /\ job' = [spec |-> s, rev |-> rev]
           /\ step' \in {"free", "planning"}
<1> USE DEF HarnessInv, HarnessTypeOK, PlanningInv, ReturnInv
<1>1. /\ step = "free" /\ UNCHANGED planFile
      /\ job' = [spec |-> s, rev |-> rev]
    BY DEF LoadOrPlan
<1>2. job' \in [spec : Specs, rev : Revisions] /\ job'.spec = s
    BY <1>1
<1>3. CASE planFile[s] = NoPlan
  <2>1. \/ step' = "planning" /\ state' = "planning" /\ UNCHANGED <<plan, ret>>
        \/ step' = "free" /\ ret' = "refused" /\ UNCHANGED <<state, plan>>
      BY <1>3, PlanValues DEF LoadOrPlan, BeginPlan, Return
  <2> QED
      BY <1>1, <1>2, <1>3, <2>1 DEF AgentStates
<1>4. CASE planFile[s] = Unusable
  <2>1. Return("error") /\ UNCHANGED <<state, plan>>
      BY <1>4, PlanValues DEF LoadOrPlan
  <2> QED
      BY <1>1, <1>2, <2>1 DEF Return
<1>5. CASE planFile[s] \notin {NoPlan, Unusable}
  <2>1. Return("planned") /\ plan' = planFile[s] /\ UNCHANGED state
      BY <1>5 DEF LoadOrPlan
  <2>2. plan' \in Revisions
      BY <1>5, <2>1
  <2> QED
      BY <1>1, <1>2, <2>1, <2>2 DEF Return
<1> QED
    BY <1>3, <1>4, <1>5

LEMMA RunWithKeeps ==
    ASSUME HarnessInv, NEW work \in [spec : Specs, rev : Revisions],
           NEW p \in Revisions, RunWith(work, p)
    PROVE  /\ HarnessInv' /\ UNCHANGED planFile
           /\ job' = work /\ plan' = p
           /\ step' \in {"free", "executing"}
BY DEF HarnessInv, HarnessTypeOK, PlanningInv, ReturnInv, RunWith, Return, AgentStates

\* What an interrupted save may leave.
LEMMA InterruptedSaveKeeps ==
    ASSUME HarnessInv, step = "saving", NEW files \in InterruptedSave
    PROVE  /\ files \in [Specs -> Revisions \cup {NoPlan, Unusable}]
           /\ \A s \in Specs : planFile[s] # NoPlan => files[s] = planFile[s]
BY DEF HarnessInv, HarnessTypeOK, PlanningInv, InterruptedSave

LEMMA HarnessStepKeeps ==
    ASSUME HarnessInv, HarnessStep
    PROVE  HarnessInv' /\ PlansAreKept /\ UNCHANGED job /\ step # "free"
<1> USE DEF HarnessInv, HarnessTypeOK, PlanningInv, ReturnInv, PlansAreKept
<1>1. CASE PlanAnswered
    BY <1>1 DEF PlanAnswered, Return
<1>2. CASE SavePlan
  <2>1. CASE /\ planFile' = [planFile EXCEPT ![job.spec] = job.rev]
             /\ plan' = job.rev /\ TryMove("idle") /\ Return("planned")
    <3>1. state' \in AgentStates
        BY <2>1, MoveType DEF AgentStates
    <3>2. job.spec \in Specs /\ job.rev \in Revisions /\ UNCHANGED job
        BY <1>2 DEF SavePlan
    <3>3. planFile[job.spec] = NoPlan
        BY <1>2 DEF SavePlan
    <3>4. /\ planFile' \in [Specs -> Revisions \cup {NoPlan, Unusable}]
          /\ planFile'[job.spec] = job.rev
        BY <2>1, <3>2
    <3> QED
        BY <1>2, <2>1, <3>1, <3>2, <3>3, <3>4 DEF SavePlan, Return
  <2>2. CASE planFile' \in InterruptedSave /\ Return("error") /\ UNCHANGED <<state, plan>>
    <3>1. step = "saving" /\ UNCHANGED job
        BY <1>2 DEF SavePlan
    <3>2. /\ planFile' \in [Specs -> Revisions \cup {NoPlan, Unusable}]
          /\ \A s \in Specs : planFile[s] # NoPlan => planFile'[s] = planFile[s]
        BY <2>2, <3>1, InterruptedSaveKeeps
    <3> QED
        BY <2>2, <3>1, <3>2 DEF Return
  <2> QED
      BY <1>2, <2>1, <2>2 DEF SavePlan
<1>3. CASE Executed
  <2>1. state' \in AgentStates
      BY <1>3, MoveType DEF Executed, AgentStates
  <2> QED
      BY <1>3, <2>1 DEF Executed, Return
<1>4. CASE Verified
  <2>1. state' \in AgentStates
      BY <1>4, MoveType DEF Verified, AgentStates
  <2> QED
      BY <1>4, <2>1 DEF Verified, Return
<1> QED
    BY <1>1, <1>2, <1>3, <1>4 DEF HarnessStep
-----------------------------------------------------------------------------
\* What the calls do to the state machine: from Done it goes nowhere, and a
\* call that passed leaves it there.
LEMMA LoadOrPlanMoves ==
    ASSUME NEW s, NEW rev, LoadOrPlan(s, rev)
    PROVE  /\ PhaseInv'
           /\ \/ step' = "planning" /\ state # "done"
              \/ step' = "free" /\ UNCHANGED state /\ ret' \in {"planned", "error", "refused"}
<1>1. \/ BeginPlan
      \/ Return("error") /\ UNCHANGED state
      \/ Return("planned") /\ UNCHANGED state
    BY DEF LoadOrPlan
<1>2. CASE BeginPlan
    BY <1>2 DEF BeginPlan, CanMove, Moves, Return, PhaseInv
<1> QED
    BY <1>1, <1>2 DEF Return, PhaseInv

LEMMA RunWithMoves ==
    ASSUME NEW work, NEW p, RunWith(work, p)
    PROVE  /\ PhaseInv'
           /\ \/ step' = "executing" /\ state # "done"
              \/ step' = "free" /\ UNCHANGED state /\ ret' = "refused"
BY DEF RunWith, CanMove, Moves, Return, PhaseInv

LEMMA HarnessStepMoves ==
    ASSUME PhaseInv, HarnessStep
    PROVE  /\ PhaseInv' /\ state # "done"
           /\ step \in {"planning", "saving"} => step' \in {"free", "saving"}
           /\ step \in {"executing", "verifying"} => step' \in {"free", "verifying"}
           /\ step' = "free" /\ ret' = "passed" => state' = "done"
<1> USE DEF PhaseInv, TryMove, CanMove, Moves, Return, AgentStates
<1>1. CASE PlanAnswered
    BY <1>1 DEF PlanAnswered
<1>2. CASE SavePlan
    BY <1>2 DEF SavePlan
<1>3. CASE Executed
    BY <1>3 DEF Executed
<1>4. CASE Verified
    BY <1>4 DEF Verified
<1> QED
    BY <1>1, <1>2, <1>3, <1>4 DEF HarnessStep
=============================================================================
