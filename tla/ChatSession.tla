----------------------------- MODULE ChatSession -----------------------------
(***************************************************************************)
(* The interactive session of ratchet-cli/src/commands/chat.rs: describe,  *)
(* answer questions, approve the spec, approve the plan, run.  One process *)
(* with one AgentHarness; the user may leave or kill it at any time and    *)
(* start another one on the same .ratchet directory.                       *)
(***************************************************************************)
EXTENDS AgentHarness

VARIABLES
    phase,      \* Phase
    at,         \* what the session waits for; "prompt" is the main loop
    draft,      \* self.draft: id and text of the last proposal
    specId,     \* self.spec_id: the approved spec, once it is saved
    specFile,   \* the text in .ratchet/spec/<id>.spec.md
    shown,      \* history: the plan on display at the plan review
    texts       \* number of spec texts the model has proposed

sessionVars == <<phase, at, draft, specId, specFile, shown, texts>>
vars == <<harnessVars, sessionVars>>

NoText  == 0
NoDraft == [spec |-> "none", rev |-> NoText]
Drafts  == [spec : Specs, rev : Revisions]

TypeOK ==
    /\ HarnessTypeOK
    /\ phase \in {"idle", "discovery", "spec_review", "plan_review", "done"}
    /\ at \in {"prompt", "asking", "drafting", "planning", "loading", "running", "gone"}
    /\ draft \in Drafts \cup {NoDraft}
    /\ specId \in Specs \cup {"none"}
    /\ specFile \in [Specs -> Revisions \cup {NoText}]
    /\ shown \in Revisions \cup {NoPlan}
    /\ texts \in 0 .. MaxRevision

Init ==
    /\ HarnessInit
    /\ phase = "idle" /\ at = "prompt"
    /\ draft = NoDraft /\ specId = "none"
    /\ specFile = [s \in Specs |-> NoText]
    /\ shown = NoPlan /\ texts = 0
-----------------------------------------------------------------------------
(***************************************************************************)
(* The main loop: what the user types at the prompt.                       *)
(***************************************************************************)
\* A request, at the start or after a run: start() forgets the last one.
Request ==
    /\ at = "prompt" /\ phase \in {"idle", "done"}
    /\ draft' = NoDraft /\ specId' = "none"
    /\ phase' = "discovery" /\ at' = "drafting"
    /\ UNCHANGED <<harnessVars, specFile, shown, texts>>

\* Guidance, or feedback on the proposed spec: the model is asked again.
Feedback ==
    /\ at = "prompt" /\ phase \in {"discovery", "spec_review"}
    /\ at' = "drafting"
    /\ UNCHANGED <<harnessVars, phase, draft, specId, specFile, shown, texts>>

\* /reset and /cancel, in any phase: only the phase changes.
Cancel ==
    /\ at = "prompt" /\ phase # "idle"
    /\ phase' = "idle"
    /\ UNCHANGED <<harnessVars, at, draft, specId, specFile, shown, texts>>

\* Mutant: a spec file that exists is kept.
SaveSpecOnce ==
    specFile' = [specFile EXCEPT ![draft.spec] = IF @ = NoText THEN draft.rev ELSE @]

SaveSpec == specFile' = [specFile EXCEPT ![draft.spec] = draft.rev]

\* Enter at the spec review: run_spec_approved, up to its call of load_or_plan.
ApproveSpec ==
    /\ at = "prompt" /\ phase = "spec_review" /\ draft # NoDraft
    /\ SaveSpec
    /\ specId' = draft.spec
    /\ LoadOrPlan(draft.spec, draft.rev)
    /\ at' = "planning"
    /\ UNCHANGED <<phase, draft, shown, texts>>

\* The spec cannot be written, or what was rendered does not parse: the error
\* ends the session, before or after the file was written.
ApproveFails ==
    /\ at = "prompt" /\ phase = "spec_review" /\ draft # NoDraft
    /\ SaveSpec \/ UNCHANGED specFile
    /\ at' = "gone"
    /\ UNCHANGED <<harnessVars, phase, draft, specId, shown, texts>>

\* Enter at the plan review: execute reads spec and plan back from disk.
ApprovePlan ==
    /\ at = "prompt" /\ phase = "plan_review" /\ specId # "none"
    /\ \/ LoadOrPlan(specId, specFile[specId]) /\ at' = "loading"
       \/ at' = "gone" /\ UNCHANGED harnessVars
    /\ UNCHANGED <<phase, draft, specId, specFile, shown, texts>>
-----------------------------------------------------------------------------
(***************************************************************************)
(* Continuations of the calls.                                             *)
(***************************************************************************)
\* draft_spec returns: the model picks the spec's id.
Drafted ==
    /\ at = "drafting"
    /\ \/ at' = "asking" /\ UNCHANGED <<phase, draft, texts>>
       \/ /\ texts < MaxRevision
          /\ texts' = texts + 1
          /\ \E s \in Specs : draft' = [spec |-> s, rev |-> texts']
          /\ phase' = "spec_review" /\ at' = "prompt"
       \/ phase' = "idle" /\ at' = "prompt" /\ UNCHANGED <<draft, texts>>
       \/ at' = "gone" /\ UNCHANGED <<phase, draft, texts>>
    /\ UNCHANGED <<harnessVars, specId, specFile, shown>>

\* The questions are answered, or an end of input sends the user back to the
\* prompt in the phase the session was in.
Answer ==
    /\ at = "asking"
    /\ at' \in {"drafting", "prompt"}
    /\ UNCHANGED <<harnessVars, phase, draft, specId, specFile, shown, texts>>

\* Mutant: only a plan is handled.
PlannedOnly ==
    /\ at = "planning" /\ step = "free" /\ ret = "planned"
    /\ phase' = "plan_review" /\ shown' = plan
    /\ at' = "prompt"
    /\ UNCHANGED <<harnessVars, draft, specId, specFile, texts>>

\* load_or_plan returns to run_spec_approved.
Planned ==
    /\ at = "planning" /\ step = "free"
    /\ IF ret = "planned"
       THEN phase' = "plan_review" /\ shown' = plan
       ELSE phase' = "idle" /\ UNCHANGED shown
    /\ at' = "prompt"
    /\ UNCHANGED <<harnessVars, draft, specId, specFile, texts>>

\* load_or_plan returns to execute; its error ends the session.
Loaded ==
    /\ at = "loading" /\ step = "free"
    /\ IF ret = "planned"
       THEN RunWith(job, plan) /\ at' = "running"
       ELSE at' = "gone" /\ UNCHANGED harnessVars
    /\ UNCHANGED <<phase, draft, specId, specFile, shown, texts>>

\* run_with returns to execute.  Its panic is one of the main task and ends the
\* process.
Ran ==
    /\ at = "running" /\ step = "free"
    /\ IF ret = "panicked"
       THEN at' = "gone" /\ UNCHANGED phase
       ELSE /\ phase' = IF ret \in {"passed", "failed"} THEN "done" ELSE "idle"
            /\ at' = "prompt"
    /\ UNCHANGED <<harnessVars, draft, specId, specFile, shown, texts>>

\* /exit, end of input, or the process is killed; a new one starts.  A kill
\* while the plan is saved leaves what had been written.
Restart ==
    /\ IF step = "saving"
       THEN \E files \in InterruptedSave : NewProcess(files)
       ELSE NewProcess(planFile)
    /\ phase' = "idle" /\ at' = "prompt"
    /\ draft' = NoDraft /\ specId' = "none" /\ shown' = NoPlan
    /\ UNCHANGED <<specFile, texts>>

Continue == Drafted \/ Planned \/ Loaded \/ Ran \/ (HarnessStep /\ UNCHANGED sessionVars)

Next ==
    \/ Request \/ Feedback \/ Cancel \/ ApproveSpec \/ ApproveFails \/ ApprovePlan \/ Answer
    \/ Continue
    \/ Restart

\* Calls return; the user may stop typing at any time.
Spec == Init /\ [][Next]_vars /\ WF_vars(Continue)
-----------------------------------------------------------------------------
(***************************************************************************)
(* Properties.                                                             *)
(***************************************************************************)

\* "approve the spec, approve the plan": the agent works only on a spec whose
\* text on disk is the proposal the user saw last, by the plan the user saw,
\* and only when both reviews of this request were passed -- whatever requests,
\* cancellations, re-used spec ids and restarts came before.
OnlyApprovedWork ==
    step \in {"executing", "verifying"} =>
        /\ phase = "plan_review"
        /\ job = draft /\ job.spec = specId
        /\ specFile[job.spec] = job.rev
        /\ plan = shown

\* A review shows something: there is a proposal at the spec review, and at
\* the plan review a plan that parsed and validated.
ReviewsHaveASubject ==
    at = "prompt" =>
        /\ phase = "spec_review" => draft \in Drafts
        /\ phase = "plan_review" => shown \in Revisions /\ specId = draft.spec

\* Whatever is shown for approval exists, and nothing else is worked on.
ApprovalIsInformed == OnlyApprovedWork /\ ReviewsHaveASubject

\* The user gets the prompt back, or the session is over, whenever the model,
\* the planner or the executor was called.
CallsComeBack == at \in {"drafting", "planning", "loading", "running"}
                     ~> at \in {"prompt", "asking", "gone"}
=============================================================================
