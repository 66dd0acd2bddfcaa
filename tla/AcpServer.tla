------------------------------ MODULE AcpServer ------------------------------
(***************************************************************************)
(* Editors driving the harness: AcpServer of ratchet-acp/src/server.rs in  *)
(* front of ServingHarness of ratchet-cli/src/commands/serve.rs.  Every    *)
(* connection is a task that serves one request at a time; agent/plan and  *)
(* agent/run take the harness lock to plan, agent/run gives it up again    *)
(* and spawns the run, which takes it anew.  agent/status only reads,      *)
(* initialize and agent/approve answer a constant.                         *)
(***************************************************************************)
EXTENDS AgentHarness, FiniteSets, Sequences

CONSTANTS
    Conns,          \* connections
    MaxRuns,        \* bound: runs that are spawned
    MaxSecond,      \* bound: the clock
    Nobody          \* no holder of the harness lock

ASSUME AcpAssumption ==
    /\ MaxRuns \in Nat \ {0}
    /\ MaxSecond \in Nat
    /\ IsFiniteSet(Conns)
    /\ Conns \cap 1 .. MaxRuns = {}
    /\ Nobody \notin Conns \cup 1 .. MaxRuns

VARIABLES
    specFile,   \* the text in .ratchet/spec/<id>.spec.md
    clock,      \* the second a run id is made of
    conn,       \* the request each connection serves
    bg,         \* the spawned runs, in the order they were spawned
    runs,       \* ServingHarness.runs: run id -> status
    holder,     \* who holds the harness lock
    shown,      \* history: the plans that answers to agent/plan showed, per spec
    ran         \* history: the plans that were run, per spec

serverVars == <<specFile, clock, conn, bg, runs, holder, shown, ran>>
vars == <<harnessVars, serverVars>>

RunIds   == Specs \X (0 .. MaxSecond)       \* "run-<spec>-<HHMMSS>"
Requests == [method : {"plan", "run"}, spec : Specs, rev : Revisions, id : RunIds]
Work(r)  == [spec |-> r.spec, rev |-> r.rev]

\* What a connection is doing, and a spawned run.
Connection ==
         [at : {"idle"}, req : {<<>>}, plan : {NoPlan}]
    \cup [at : {"lock", "planning"}, req : Requests, plan : {NoPlan}]
    \cup [at : {"announce"}, req : Requests, plan : Revisions]

Run == [at : {"queued", "running", "done", "failed", "died"}, req : Requests, plan : Revisions]

TypeOK ==
    /\ HarnessTypeOK
    /\ specFile \in [Specs -> Revisions]
    /\ clock \in 0 .. MaxSecond
    /\ conn \in [Conns -> Connection]
    /\ bg \in Seq(Run) /\ Len(bg) <= MaxRuns
    /\ runs \in [RunIds -> {"unknown", "started", "done", "failed"}]
    /\ shown \in [Specs -> SUBSET Revisions] /\ ran \in [Specs -> SUBSET Revisions]
    /\ holder \in Conns \cup DOMAIN bg \cup {Nobody}
    /\ holder = Nobody => step = "free"
    /\ \A c \in Conns : conn[c].at = "planning" => holder = c
    /\ \A b \in DOMAIN bg : bg[b].at = "running" => holder = b

IdleConn == [at |-> "idle", req |-> <<>>, plan |-> NoPlan]

Init ==
    /\ HarnessInit
    /\ specFile = [s \in Specs |-> 1]
    /\ clock = 0
    /\ conn = [c \in Conns |-> IdleConn]
    /\ bg = <<>>
    /\ runs = [i \in RunIds |-> "unknown"]
    /\ holder = Nobody
    /\ shown = [s \in Specs |-> {}] /\ ran = [s \in Specs |-> {}]
-----------------------------------------------------------------------------
\* The editor saves another text of a spec.
EditSpec ==
    /\ \E s \in Specs : specFile[s] < MaxRevision
                        /\ specFile' = [specFile EXCEPT ![s] = @ + 1]
    /\ UNCHANGED <<harnessVars, clock, conn, bg, runs, holder, shown, ran>>

Tick ==
    /\ clock < MaxSecond
    /\ clock' = clock + 1
    /\ UNCHANGED <<harnessVars, specFile, conn, bg, runs, holder, shown, ran>>

\* Runs spawned and still to be spawned.
Owed == Len(bg) + Cardinality({c \in Conns : conn[c].at # "idle" /\ conn[c].req.method = "run"})

\* agent/plan or agent/run: the spec is read and the run id made up.  A spec that
\* does not load is answered with an error and changes nothing.
Ask(c) ==
    /\ conn[c].at = "idle"
    /\ \E method \in {"plan", "run"}, s \in Specs :
         /\ method = "run" => Owed < MaxRuns
         /\ conn' = [conn EXCEPT ![c] =
              [at |-> "lock", plan |-> NoPlan,
               req |-> [method |-> method, spec |-> s, rev |-> specFile[s], id |-> <<s, clock>>]]]
    /\ UNCHANGED <<harnessVars, specFile, clock, bg, runs, holder, shown, ran>>

\* Mutant: nobody waits for the lock.
LockRudely(c) ==
    /\ conn[c].at = "lock" /\ step = "free"
    /\ holder' = c
    /\ LoadOrPlan(conn[c].req.spec, conn[c].req.rev)
    /\ conn' = [conn EXCEPT ![c].at = "planning"]
    /\ UNCHANGED <<specFile, clock, bg, runs, shown, ran>>

Lock(c) ==
    /\ conn[c].at = "lock"
    /\ holder = Nobody /\ holder' = c
    /\ LoadOrPlan(conn[c].req.spec, conn[c].req.rev)
    /\ conn' = [conn EXCEPT ![c].at = "planning"]
    /\ UNCHANGED <<specFile, clock, bg, runs, shown, ran>>

\* The lock is given up.  The plan is the answer, or the run's.
Planned(c) ==
    /\ conn[c].at = "planning" /\ step = "free"
    /\ holder' = Nobody
    /\ LET r == conn[c].req IN
       /\ conn' = [conn EXCEPT ![c] =
            IF ret = "planned" /\ r.method = "run" THEN [@ EXCEPT !.at = "announce", !.plan = plan]
            ELSE IdleConn]
       /\ shown' = IF ret = "planned" /\ r.method = "plan"
                   THEN [shown EXCEPT ![r.spec] = @ \cup {plan}] ELSE shown
    /\ UNCHANGED <<harnessVars, specFile, clock, bg, runs, ran>>

\* set_status(Started), the spawn and the answer.
Announce(c) ==
    /\ conn[c].at = "announce"
    /\ runs' = [runs EXCEPT ![conn[c].req.id] = "started"]
    /\ bg' = Append(bg, [at |-> "queued", req |-> conn[c].req, plan |-> conn[c].plan])
    /\ conn' = [conn EXCEPT ![c] = IdleConn]
    /\ UNCHANGED <<harnessVars, specFile, clock, holder, shown, ran>>

\* The spawned task takes the lock and runs the spec and plan it was given.
StartRun(b) ==
    /\ bg[b].at = "queued"
    /\ holder = Nobody /\ holder' = b
    /\ RunWith(Work(bg[b].req), bg[b].plan)
    /\ ran' = [ran EXCEPT ![bg[b].req.spec] = @ \cup {bg[b].plan}]
    /\ bg' = [bg EXCEPT ![b].at = "running"]
    /\ UNCHANGED <<specFile, clock, conn, runs, shown>>

Outcome == IF ret = "passed" THEN "done" ELSE "failed"

\* Mutant: a run that ends in an error is not reported.
EndRunSilently(b) ==
    /\ bg[b].at = "running" /\ step = "free" /\ ret # "panicked"
    /\ runs' = IF ret \in {"passed", "failed"} THEN [runs EXCEPT ![bg[b].req.id] = Outcome] ELSE runs
    /\ bg' = [bg EXCEPT ![b].at = Outcome]
    /\ holder' = Nobody
    /\ UNCHANGED <<harnessVars, specFile, clock, conn, shown, ran>>

\* Mutant: a run that does not pass keeps the lock.
EndRunHolding(b) ==
    /\ bg[b].at = "running" /\ step = "free" /\ ret # "panicked"
    /\ runs' = [runs EXCEPT ![bg[b].req.id] = Outcome]
    /\ bg' = [bg EXCEPT ![b].at = Outcome]
    /\ holder' = IF ret = "passed" THEN Nobody ELSE holder
    /\ UNCHANGED <<harnessVars, specFile, clock, conn, shown, ran>>

\* The outcome is entered before the lock is given up.
EndRun(b) ==
    /\ bg[b].at = "running" /\ step = "free" /\ ret # "panicked"
    /\ runs' = [runs EXCEPT ![bg[b].req.id] = Outcome]
    /\ bg' = [bg EXCEPT ![b].at = Outcome]
    /\ holder' = Nobody
    /\ UNCHANGED <<harnessVars, specFile, clock, conn, shown, ran>>

\* A panic in run_with ends the spawned task before set_status.  Unwinding gives
\* the lock up; nobody joins the task.
RunDies(b) ==
    /\ bg[b].at = "running" /\ step = "free" /\ ret = "panicked"
    /\ bg' = [bg EXCEPT ![b].at = "died"]
    /\ holder' = Nobody
    /\ UNCHANGED <<harnessVars, specFile, clock, conn, runs, shown, ran>>

HarnessGoesOn == HarnessStep /\ UNCHANGED serverVars

Serve(c) == Lock(c) \/ Planned(c) \/ Announce(c)
RunStep(b) == StartRun(b) \/ EndRun(b) \/ RunDies(b)

Next ==
    \/ EditSpec \/ Tick \/ HarnessGoesOn
    \/ \E c \in Conns : Ask(c) \/ Serve(c)
    \/ \E b \in DOMAIN bg : RunStep(b)

\* Editors may stop asking.  tokio's mutex is fair, so whoever waits for it gets
\* it although others take it in between; calls of the harness return or panic.
Spec ==
    /\ Init /\ [][Next]_vars
    /\ WF_vars(HarnessGoesOn)
    /\ \A c \in Conns : SF_vars(Serve(c))
    /\ \A b \in 1 .. MaxRuns : SF_vars(b \in DOMAIN bg /\ RunStep(b))
-----------------------------------------------------------------------------
(***************************************************************************)
(* Properties.                                                             *)
(***************************************************************************)
Holders(i) == {b \in DOMAIN bg : bg[b].req.id = i}

\* "Reports status via agent/status": as long as an id was handed out once, its
\* entry says what became of that run, from the answer to agent/run on -- except
\* that a run which died of a panic reads started for ever.  Two runs of a spec
\* within a second share an id and an entry.
StatusIsHonest ==
    \A i \in RunIds :
        /\ runs[i] = "unknown" <=> Holders(i) = {}
        /\ \A b \in Holders(i) :
              Cardinality(Holders(i)) = 1 =>
                  runs[i] = IF bg[b].at \in {"done", "failed"} THEN bg[b].at ELSE "started"

\* The lock is given up between planning and running, texts are edited and
\* other clients plan and run.  Yet all plans shown and all plans run for a
\* spec are one plan, and the plan file holds it.
OnePlanPerSpec ==
    \A s \in Specs : shown[s] \cup ran[s] \subseteq {planFile[s]}

\* Every run that was announced comes to an end, whoever holds the harness and
\* whatever state it is in, and its id reads done or failed -- unless that very
\* run died of a panic; the runs that wait behind it still end.
EveryRunEnds ==
    \A i \in RunIds :
        runs[i] = "started" ~>
            runs[i] \in {"done", "failed"} \/ \E b \in Holders(i) : bg[b].at = "died"
=============================================================================
