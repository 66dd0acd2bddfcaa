-------------------------- MODULE ChatSessionProofs --------------------------
(***************************************************************************)
(* Theorems about ChatSession, for every set of spec ids and any number of *)
(* texts.                                                                  *)
(***************************************************************************)
EXTENDS ChatSession, AgentHarnessProofs

\* The draft is what was approved and saved.
Approved == draft \in Drafts /\ specId = draft.spec /\ specFile[specId] = draft.rev

\* Where the session and its harness are when they meet.
MeetingInv ==
    /\ at \notin {"planning", "loading", "running"} => step = "free"
    /\ at \in {"drafting", "asking"} => phase \in {"discovery", "spec_review"}
    /\ phase = "spec_review" => draft \in Drafts
    /\ at = "planning" =>
         phase = "spec_review" /\ Approved /\ job = draft /\ step \in {"free", "planning", "saving"}
    /\ phase = "plan_review" =>
         /\ at \in {"prompt", "loading", "running", "gone"}
         /\ Approved /\ shown \in Revisions /\ planFile[specId] = shown
    /\ at \in {"loading", "running"} => phase = "plan_review" /\ job = draft /\ plan = shown
    /\ at = "loading" => step = "free" /\ ret = "planned"
    /\ at = "running" => step \in {"free", "executing", "verifying"}

SessionInv == TypeOK /\ HarnessInv /\ MeetingInv
-----------------------------------------------------------------------------
LEMMA InitSession == Init => SessionInv
BY InitHarness, HarnessAssumption
DEF Init, SessionInv, HarnessInv, TypeOK, MeetingInv, HarnessInit

\* At the prompt, before anything is asked of the harness.
LEMMA StepPrompt ==
    ASSUME SessionInv, Request \/ Feedback \/ Cancel \/ Answer \/ ApproveFails \/ Drafted
    PROVE  SessionInv' /\ UNCHANGED planFile
<1>1. UNCHANGED harnessVars
    BY DEF Request, Feedback, Cancel, Answer, ApproveFails, Drafted
<1>2. HarnessInv' /\ UNCHANGED <<step, job, planFile, plan, ret>>
    BY <1>1 DEF SessionInv, harnessVars, HarnessInv, HarnessTypeOK, PlanningInv, ReturnInv
<1> USE DEF SessionInv, TypeOK, MeetingInv, HarnessInv, Approved
<1>3. CASE Request
    BY <1>2, <1>3 DEF Request
<1>4. CASE Feedback
    BY <1>2, <1>4 DEF Feedback
<1>5. CASE Cancel
    BY <1>2, <1>5 DEF Cancel
<1>6. CASE Answer
    BY <1>2, <1>6 DEF Answer
<1>7. CASE ApproveFails
  <2>1. draft \in Drafts /\ draft.spec \in Specs /\ draft.rev \in Revisions
      BY <1>7 DEF ApproveFails, Drafts
  <2>2. specFile' \in [Specs -> Revisions \cup {NoText}]
      BY <1>7, <2>1 DEF ApproveFails, SaveSpec
  <2> QED
      BY <1>2, <1>7, <2>2 DEF ApproveFails
<1>8. CASE Drafted
  <2>1. CASE /\ texts < MaxRevision /\ texts' = texts + 1
             /\ \E s \in Specs : draft' = [spec |-> s, rev |-> texts']
             /\ phase' = "spec_review" /\ at' = "prompt"
    <3>1. texts' \in Revisions /\ texts' \in 0 .. MaxRevision
        BY <2>1, HarnessAssumption DEF Revisions
    <3>2. draft' \in Drafts
        BY <2>1, <3>1 DEF Drafts
    <3> QED
        BY <1>2, <1>8, <2>1, <3>1, <3>2 DEF Drafted
  <2>2. CASE at' = "asking" /\ UNCHANGED <<phase, draft, texts>>
      BY <1>2, <1>8, <2>2 DEF Drafted
  <2>3. CASE phase' = "idle" /\ at' = "prompt" /\ UNCHANGED <<draft, texts>>
      BY <1>2, <1>8, <2>3 DEF Drafted
  <2>4. CASE at' = "gone" /\ UNCHANGED <<phase, draft, texts>>
      BY <1>2, <1>8, <2>4 DEF Drafted
  <2> QED
      BY <1>8, <2>1, <2>2, <2>3, <2>4 DEF Drafted
<1> QED
    BY <1>2, <1>3, <1>4, <1>5, <1>6, <1>7, <1>8

LEMMA StepApproveSpec ==
    ASSUME SessionInv, ApproveSpec PROVE SessionInv' /\ UNCHANGED planFile
<1>1. /\ draft \in Drafts /\ draft.spec \in Specs /\ draft.rev \in Revisions
      /\ [spec |-> draft.spec, rev |-> draft.rev] = draft
    BY DEF SessionInv, MeetingInv, ApproveSpec, Drafts
<1>2. LoadOrPlan(draft.spec, draft.rev)
    BY DEF ApproveSpec
<1>3. HarnessInv' /\ UNCHANGED planFile /\ job' = draft /\ step' \in {"free", "planning"}
    BY <1>1, <1>2, LoadOrPlanKeeps DEF SessionInv
<1>4. /\ specFile' = [specFile EXCEPT ![draft.spec] = draft.rev]
      /\ phase = "spec_review" /\ specId' = draft.spec /\ at' = "planning"
      /\ UNCHANGED <<phase, draft, shown, texts>>
    BY DEF ApproveSpec, SaveSpec
<1>5. /\ specFile' \in [Specs -> Revisions \cup {NoText}]
      /\ specFile'[draft.spec] = draft.rev
    BY <1>1, <1>4 DEF SessionInv, TypeOK
<1> QED
    BY <1>1, <1>3, <1>4, <1>5 DEF SessionInv, TypeOK, MeetingInv, HarnessInv, Approved

\* The plan that was shown is on disk, so it is what execute loads.
LEMMA StepApprovePlan ==
    ASSUME SessionInv, ApprovePlan PROVE SessionInv' /\ UNCHANGED planFile
<1>1. /\ phase = "plan_review" /\ at = "prompt" /\ Approved /\ step = "free"
      /\ shown \in Revisions /\ planFile[specId] = shown
    BY DEF SessionInv, MeetingInv, ApprovePlan
<1>2. /\ specId \in Specs /\ specFile[specId] \in Revisions
      /\ [spec |-> specId, rev |-> specFile[specId]] = draft
    BY <1>1 DEF Approved, Drafts
<1>3. UNCHANGED <<phase, draft, specId, specFile, shown, texts>>
    BY DEF ApprovePlan
<1>4. CASE LoadOrPlan(specId, specFile[specId]) /\ at' = "loading"
  <2>1. HarnessInv' /\ UNCHANGED planFile /\ job' = draft
      BY <1>2, <1>4, LoadOrPlanKeeps DEF SessionInv
  <2>2. step' = "free" /\ ret' = "planned" /\ plan' = shown
      BY <1>1, <1>4, PlanValues DEF LoadOrPlan, Return
  <2> QED
      BY <1>1, <1>3, <1>4, <2>1, <2>2 DEF SessionInv, TypeOK, MeetingInv, HarnessInv, Approved
<1>5. CASE at' = "gone" /\ UNCHANGED harnessVars
    BY <1>1, <1>3, <1>5 DEF SessionInv, TypeOK, MeetingInv, Approved,
       harnessVars, HarnessInv, HarnessTypeOK, PlanningInv, ReturnInv
<1> QED
    BY <1>4, <1>5 DEF ApprovePlan

\* The continuations of the calls.
LEMMA StepContinue ==
    ASSUME SessionInv, Planned \/ Loaded \/ Ran
    PROVE  SessionInv' /\ UNCHANGED planFile
<1>1. CASE Planned
  <2>1. HarnessInv' /\ UNCHANGED <<step, job, planFile, plan, ret>>
      BY <1>1 DEF Planned, SessionInv, harnessVars, HarnessInv, HarnessTypeOK, PlanningInv, ReturnInv
  <2>2. /\ step = "free" /\ Approved /\ job.spec = specId
        /\ ret = "planned" => plan \in Revisions /\ planFile[specId] = plan
      BY <1>1 DEF Planned, SessionInv, MeetingInv, HarnessInv, ReturnInv, Approved
  <2> QED
      BY <1>1, <2>1, <2>2 DEF Planned, SessionInv, TypeOK, MeetingInv, HarnessInv, Approved
<1>2. CASE Loaded
  <2>1. /\ ret = "planned" /\ plan = shown /\ job = draft /\ phase = "plan_review"
        /\ Approved /\ shown \in Revisions /\ planFile[specId] = shown
      BY <1>2 DEF Loaded, SessionInv, MeetingInv
  <2>2. RunWith(job, plan) /\ at' = "running" /\ UNCHANGED <<phase, draft, specId, specFile, shown, texts>>
      BY <1>2, <2>1 DEF Loaded
  <2>3. job \in [spec : Specs, rev : Revisions] /\ plan \in Revisions
      BY <2>1 DEF SessionInv, HarnessInv, HarnessTypeOK
  <2>4. /\ HarnessInv' /\ UNCHANGED planFile
        /\ job' = job /\ plan' = plan /\ step' \in {"free", "executing"}
      BY <2>2, <2>3, RunWithKeeps DEF SessionInv
  <2> QED
      BY <2>1, <2>2, <2>4 DEF SessionInv, TypeOK, MeetingInv, HarnessInv, Approved
<1>3. CASE Ran
  <2>1. HarnessInv' /\ UNCHANGED <<step, job, planFile, plan, ret>>
      BY <1>3 DEF Ran, SessionInv, harnessVars, HarnessInv, HarnessTypeOK, PlanningInv, ReturnInv
  <2> QED
      BY <1>3, <2>1 DEF Ran, SessionInv, TypeOK, MeetingInv, HarnessInv, Approved
<1> QED
    BY <1>1, <1>2, <1>3

LEMMA StepHarness ==
    ASSUME SessionInv, HarnessStep, UNCHANGED sessionVars
    PROVE  SessionInv' /\ PlansAreKept
<1>1. HarnessInv' /\ PlansAreKept /\ UNCHANGED job /\ step # "free"
    BY HarnessStepKeeps DEF SessionInv
<1>2. UNCHANGED <<phase, at, draft, specId, specFile, shown, texts>>
    BY DEF sessionVars
<1>3. at \in {"planning", "running"}
    BY <1>1 DEF SessionInv, TypeOK, MeetingInv
<1>4. CASE at = "planning"
  <2>1. step' \in {"free", "planning", "saving"} /\ phase = "spec_review"
      BY <1>4 DEF SessionInv, MeetingInv, HarnessStep, PlanAnswered, SavePlan, Executed, Verified, Return
  <2> QED
      BY <1>1, <1>2, <1>4, <2>1 DEF SessionInv, TypeOK, MeetingInv, HarnessInv, Approved
<1>5. CASE at = "running"
  <2>1. step' \in {"free", "executing", "verifying"} /\ UNCHANGED <<plan, planFile>>
      BY <1>1, <1>5 DEF SessionInv, MeetingInv, HarnessStep, PlanAnswered, SavePlan, Executed, Verified, Return
  <2> QED
      BY <1>1, <1>2, <1>5, <2>1 DEF SessionInv, TypeOK, MeetingInv, HarnessInv, Approved
<1> QED
    BY <1>3, <1>4, <1>5

LEMMA StepRestart ==
    ASSUME SessionInv, Restart PROVE SessionInv' /\ PlansAreKept
<1>1. \E files : /\ NewProcess(files)
                 /\ files \in [Specs -> Revisions \cup {NoPlan, Unusable}]
                 /\ \A s \in Specs : planFile[s] # NoPlan => files[s] = planFile[s]
  <2>1. CASE step = "saving"
      BY <2>1, InterruptedSaveKeeps DEF Restart, SessionInv
  <2>2. CASE step # "saving"
      BY <2>2 DEF Restart, SessionInv, HarnessInv, HarnessTypeOK
  <2> QED
      BY <2>1, <2>2
<1>2. HarnessInv' /\ PlansAreKept /\ step' = "free"
    BY <1>1 DEF NewProcess, SessionInv, HarnessInv, HarnessTypeOK, PlanningInv, ReturnInv,
       AgentStates, PlansAreKept
<1> QED
    BY <1>2 DEF Restart, SessionInv, TypeOK, MeetingInv, HarnessInv, Approved

LEMMA StepSession == SessionInv /\ [Next]_vars => SessionInv' /\ PlansAreKept
<1> SUFFICES ASSUME SessionInv, [Next]_vars PROVE SessionInv' /\ PlansAreKept
    OBVIOUS
<1>1. CASE UNCHANGED vars
  <2>1. UNCHANGED <<state, step, job, planFile, plan, ret, phase, at, draft, specId, specFile, shown, texts>>
      BY <1>1 DEF vars, harnessVars, sessionVars
  <2> QED
      BY <2>1 DEF SessionInv, TypeOK, MeetingInv, HarnessInv, HarnessTypeOK, PlanningInv,
         ReturnInv, Approved, PlansAreKept
<1>2. CASE Next
  <2>1. UNCHANGED planFile => PlansAreKept
      BY DEF PlansAreKept
  <2> QED
      BY <1>2, <2>1, StepPrompt, StepApproveSpec, StepApprovePlan, StepContinue, StepHarness, StepRestart
      DEF Next, Continue
<1> QED
    BY <1>1, <1>2

THEOREM SessionCorrect == Spec => []SessionInv
BY InitSession, StepSession, PTL DEF Spec

\* Only a spec and a plan that the user saw and approved are worked on,
\* whatever requests, revisions, cancellations and restarts came before.
THEOREM ApprovalInformed == Spec => []ApprovalIsInformed
<1>1. SessionInv => OnlyApprovedWork
    BY DEF SessionInv, TypeOK, MeetingInv, OnlyApprovedWork, Approved
<1>2. SessionInv => ReviewsHaveASubject
    BY DEF SessionInv, TypeOK, MeetingInv, ReviewsHaveASubject, Approved
<1>3. OnlyApprovedWork /\ ReviewsHaveASubject => ApprovalIsInformed
    BY DEF ApprovalIsInformed
<1> QED
    BY <1>1, <1>2, <1>3, SessionCorrect, PTL

\* A plan file that exists is not written again, by no call, failed save or
\* restart.
THEOREM SavedPlanKept == Spec => SavedPlanIsKept
<1>1. SessionInv /\ [Next]_vars =>
         [\A s \in Specs : planFile[s] # NoPlan => planFile'[s] = planFile[s]]_planFile
    BY StepSession DEF PlansAreKept
<1> QED
    BY <1>1, SessionCorrect, PTL DEF Spec, SavedPlanIsKept
=============================================================================
