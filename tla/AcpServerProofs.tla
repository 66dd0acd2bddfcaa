--------------------------- MODULE AcpServerProofs ---------------------------
(***************************************************************************)
(* Theorems about AcpServer, for every set of connections and specs and    *)
(* any number of texts, runs and seconds.                                  *)
(***************************************************************************)
EXTENDS AcpServer, AgentHarnessProofs, FiniteSetTheorems

\* The connections that were asked for a run.
Runners == {c \in Conns : conn[c].at # "idle" /\ conn[c].req.method = "run"}

\* A connection that plans holds the harness, which works on its request; only
\* a run is announced.
TypeInv ==
    /\ TypeOK /\ HarnessInv
    /\ Len(bg) + Cardinality(Runners) <= MaxRuns
    /\ \A c \in Conns : conn[c].at = "planning" => job = Work(conn[c].req)
    /\ \A c \in Conns : conn[c].at = "announce" => conn[c].req.method = "run"

USE AcpAssumption
-----------------------------------------------------------------------------
LEMMA ConnectionShape ==
    ASSUME NEW x \in Connection
    PROVE  /\ x.at \in {"idle", "lock", "planning", "announce"}
           /\ x.at = "idle" => x = IdleConn
           /\ x.at # "idle" => x.req \in Requests
           /\ x.at = "lock" => [x EXCEPT !.at = "planning"] \in Connection
           /\ x.at = "announce" => x.plan \in Revisions
           /\ x.at = "planning" => \A p \in Revisions :
                 [x EXCEPT !.at = "announce", !.plan = p] \in Connection
<1> USE DEF Connection, IdleConn
<1>1. CASE x \in [at : {"idle"}, req : {<<>>}, plan : {NoPlan}]
    BY <1>1
<1>2. CASE x \in [at : {"lock", "planning"}, req : Requests, plan : {NoPlan}]
    BY <1>2
<1>3. CASE x \in [at : {"announce"}, req : Requests, plan : Revisions]
    BY <1>3
<1> QED
    BY <1>1, <1>2, <1>3

LEMMA RequestShape ==
    ASSUME NEW r \in Requests
    PROVE  /\ r.method \in {"plan", "run"} /\ r.spec \in Specs /\ r.rev \in Revisions
           /\ r.id \in RunIds
           /\ Work(r) \in [spec : Specs, rev : Revisions]
BY DEF Requests, Work

LEMMA RunShape ==
    ASSUME TypeOK, NEW b \in DOMAIN bg
    PROVE  /\ bg \in Seq(Run) /\ bg[b] \in Run
           /\ bg[b].req \in Requests /\ bg[b].plan \in Revisions
           /\ bg[b].req.spec \in Specs /\ bg[b].req.id \in RunIds
           /\ Work(bg[b].req) \in [spec : Specs, rev : Revisions]
<1>1. bg \in Seq(Run)
    BY DEF TypeOK
<1>2. bg[b] \in Run
    BY ONLY <1>1, b \in DOMAIN bg
<1>3. bg[b].req \in Requests /\ bg[b].plan \in Revisions
    BY ONLY <1>2 DEF Run
<1> QED
    BY <1>1, <1>2, <1>3, RequestShape

LEMMA IdleShape == IdleConn \in Connection /\ IdleConn.at = "idle"
BY DEF IdleConn, Connection

LEMMA RunnersFinite == IsFiniteSet(Runners) /\ Cardinality(Runners) \in Nat
BY FS_Subset, FS_CardinalityType DEF Runners

\* One connection changes: what that does to the number of runs still owed.
LEMMA RunnersOfOne ==
    ASSUME TypeOK, NEW c \in Conns, NEW x \in Connection,
           conn' = [conn EXCEPT ![c] = x]
    PROVE  /\ c \notin Runners' => Cardinality(Runners') <= Cardinality(Runners)
           /\ c \in Runners /\ c \notin Runners'
                => Cardinality(Runners') = Cardinality(Runners) - 1
           /\ Cardinality(Runners') <= Cardinality(Runners) + 1
           /\ c \in Runners => Cardinality(Runners') <= Cardinality(Runners)
           /\ Cardinality(Runners') \in Nat
<1>1. /\ c \in Runners' => Runners' = Runners \cup {c}
      /\ c \notin Runners' => Runners' = Runners \ {c}
    BY DEF Runners, TypeOK
<1>2. IsFiniteSet(Runners) /\ Cardinality(Runners) \in Nat
    BY RunnersFinite
<1>3. /\ Cardinality(Runners \cup {c}) =
            IF c \in Runners THEN Cardinality(Runners) ELSE Cardinality(Runners) + 1
      /\ Cardinality(Runners \ {c}) =
            IF c \in Runners THEN Cardinality(Runners) - 1 ELSE Cardinality(Runners)
    BY ONLY <1>2, FS_AddElement, FS_RemoveElement
<1>4. IsFiniteSet(Runners')
    BY <1>1, <1>2, FS_AddElement, FS_RemoveElement
<1>5. Cardinality(Runners') \in Nat
    BY ONLY <1>4, FS_CardinalityType
<1>6. CASE c \in Runners'
  <2>1. Cardinality(Runners') = Cardinality(Runners \cup {c})
      BY ONLY <1>1, <1>6
  <2> QED
      BY ONLY <1>2, <1>3, <1>5, <1>6, <2>1
<1>7. CASE c \notin Runners'
  <2>1. Cardinality(Runners') = Cardinality(Runners \ {c})
      BY ONLY <1>1, <1>7
  <2> QED
      BY ONLY <1>2, <1>3, <1>5, <1>7, <2>1
<1> QED
    BY ONLY <1>6, <1>7
-----------------------------------------------------------------------------
LEMMA InitType == Init => TypeInv
<1> SUFFICES ASSUME Init PROVE TypeInv
    OBVIOUS
<1>1. HarnessInv
    BY InitHarness DEF Init
<1>2. TypeOK
    BY <1>1, IdleShape, PlanValues DEF Init, TypeOK, HarnessInv, RunIds, HarnessInit
<1>3. Runners = {}
    BY IdleShape DEF Init, Runners
<1>4. Len(bg) + Cardinality(Runners) <= MaxRuns
    BY <1>3, FS_EmptySet DEF Init
<1> QED
    BY <1>1, <1>2, <1>4, IdleShape DEF TypeInv, Init

LEMMA StepEnvironment ==
    ASSUME TypeInv, EditSpec \/ Tick PROVE TypeInv'
<1>1. TypeOK' /\ HarnessInv'
  <2>1. CASE EditSpec
    <3>1. PICK s \in Specs : /\ specFile[s] < MaxRevision
                             /\ specFile' = [specFile EXCEPT ![s] = @ + 1]
        BY <2>1 DEF EditSpec
    <3>2. specFile[s] + 1 \in Revisions
        BY <3>1, HarnessAssumption DEF TypeInv, TypeOK, Revisions
    <3>3. specFile' \in [Specs -> Revisions]
        BY <3>1, <3>2 DEF TypeInv, TypeOK
    <3> QED
        BY <2>1, <3>3 DEF EditSpec, TypeInv, TypeOK, harnessVars,
           HarnessInv, HarnessTypeOK, PlanningInv, ReturnInv
  <2>2. CASE Tick
      BY <2>2 DEF Tick, TypeInv, TypeOK, harnessVars,
         HarnessInv, HarnessTypeOK, PlanningInv, ReturnInv
  <2> QED
      BY <2>1, <2>2
<1>2. UNCHANGED <<conn, bg, job>>
    BY DEF EditSpec, Tick, harnessVars
<1>3. Runners' = Runners
    BY <1>2 DEF Runners
<1> QED
    BY <1>1, <1>2, <1>3 DEF TypeInv

LEMMA StepHarness ==
    ASSUME TypeInv, HarnessGoesOn PROVE TypeInv'
<1>1. HarnessInv' /\ UNCHANGED job /\ step # "free"
    BY HarnessStepKeeps DEF HarnessGoesOn, TypeInv
<1>2. UNCHANGED serverVars
    BY DEF HarnessGoesOn
<1>3. holder # Nobody
    BY <1>1 DEF TypeInv, TypeOK
<1>4. TypeOK'
    BY <1>1, <1>2, <1>3 DEF TypeInv, TypeOK, HarnessInv, serverVars
<1>5. Runners' = Runners
    BY <1>2 DEF Runners, serverVars
<1> QED
    BY <1>1, <1>2, <1>4, <1>5 DEF TypeInv, serverVars

LEMMA StepAsk ==
    ASSUME TypeInv, NEW c \in Conns, Ask(c) PROVE TypeInv'
<1>1. PICK method \in {"plan", "run"} : \E s \in Specs :
         /\ method = "run" => Owed < MaxRuns
         /\ conn' = [conn EXCEPT ![c] =
              [at |-> "lock", plan |-> NoPlan,
               req |-> [method |-> method, spec |-> s, rev |-> specFile[s], id |-> <<s, clock>>]]]
    BY DEF Ask
<1>2. PICK s \in Specs :
         /\ method = "run" => Owed < MaxRuns
         /\ conn' = [conn EXCEPT ![c] =
              [at |-> "lock", plan |-> NoPlan,
               req |-> [method |-> method, spec |-> s, rev |-> specFile[s], id |-> <<s, clock>>]]]
    BY <1>1
<1> DEFINE r == [method |-> method, spec |-> s, rev |-> specFile[s], id |-> <<s, clock>>]
           x == [at |-> "lock", plan |-> NoPlan, req |-> r]
<1>3. r \in Requests
    BY DEF Requests, RunIds, TypeInv, TypeOK
<1>4. x \in Connection /\ x.at = "lock" /\ x.req.method = method
    BY <1>3 DEF Connection
<1>5. conn' = [conn EXCEPT ![c] = x]
    BY <1>2
<1>6. conn[c].at = "idle" /\ UNCHANGED <<harnessVars, specFile, clock, bg, runs, holder, shown, ran>>
    BY DEF Ask
<1> HIDE DEF x, r
<1>7. conn' \in [Conns -> Connection] /\ conn'[c] = x
    BY <1>4, <1>5 DEF TypeInv, TypeOK
<1>8. \A d \in Conns : conn'[d].at \in {"planning", "announce"} => d # c /\ conn'[d] = conn[d]
    BY <1>4, <1>5, <1>7 DEF TypeInv, TypeOK
<1>9. HarnessInv'
    BY <1>6 DEF TypeInv, harnessVars, HarnessInv, HarnessTypeOK, PlanningInv, ReturnInv
<1>10. TypeOK'
    BY <1>6, <1>7, <1>8, <1>9 DEF TypeInv, TypeOK, HarnessInv, harnessVars
<1>11. Len(bg) + Cardinality(Runners') <= MaxRuns
  <2>1. /\ Len(bg) \in Nat /\ Len(bg) + Cardinality(Runners) <= MaxRuns
        /\ Cardinality(Runners) \in Nat
      BY RunnersFinite DEF TypeInv, TypeOK
  <2>2. CASE method = "plan"
    <3>1. c \notin Runners'
        BY <1>4, <1>7, <2>2 DEF Runners
    <3>2. Cardinality(Runners') <= Cardinality(Runners) /\ Cardinality(Runners') \in Nat
        BY <1>4, <1>5, <3>1, RunnersOfOne DEF TypeInv
    <3> QED
        BY ONLY <2>1, <3>2, AcpAssumption
  <2>3. CASE method = "run"
    <3>1. Owed < MaxRuns /\ Owed = Len(bg) + Cardinality(Runners)
        BY <1>2, <2>3 DEF Owed, Runners
    <3>2. Cardinality(Runners') <= Cardinality(Runners) + 1 /\ Cardinality(Runners') \in Nat
        BY <1>4, <1>5, RunnersOfOne DEF TypeInv
    <3> QED
        BY ONLY <2>1, <3>1, <3>2, AcpAssumption
  <2> QED
      BY <2>2, <2>3
<1> QED
    BY <1>6, <1>8, <1>9, <1>10, <1>11 DEF TypeInv, harnessVars

LEMMA StepLock ==
    ASSUME TypeInv, NEW c \in Conns, Lock(c) PROVE TypeInv'
<1> DEFINE x == [conn[c] EXCEPT !.at = "planning"]
<1>1. /\ conn[c].at = "lock" /\ holder = Nobody /\ holder' = c
      /\ conn' = [conn EXCEPT ![c] = x]
      /\ UNCHANGED <<specFile, clock, bg, runs, shown, ran>>
    BY DEF Lock
<1>2. conn[c] \in Connection /\ conn[c].req \in Requests
    BY <1>1, ConnectionShape DEF TypeInv, TypeOK
<1>3. x \in Connection /\ x.at = "planning" /\ x.req = conn[c].req
    BY <1>1, <1>2, ConnectionShape DEF Connection
<1>4. HarnessInv' /\ job' = Work(conn[c].req)
    BY <1>2, RequestShape, LoadOrPlanKeeps DEF Lock, TypeInv, Work
<1> HIDE DEF x
<1>5. conn' \in [Conns -> Connection] /\ conn'[c] = x
    BY <1>1, <1>3 DEF TypeInv, TypeOK
<1>6. \A d \in Conns : conn'[d].at = "planning" => d = c
    BY <1>1, <1>5 DEF TypeInv, TypeOK
<1>7. \A b \in DOMAIN bg : bg[b].at # "running"
    BY <1>1 DEF TypeInv, TypeOK
<1>8. TypeOK'
    BY <1>1, <1>4, <1>5, <1>6, <1>7 DEF TypeInv, TypeOK, HarnessInv
<1>9. c \in Runners' => c \in Runners
    BY <1>1, <1>3, <1>5 DEF Runners
<1>10. Cardinality(Runners') <= Cardinality(Runners) /\ Cardinality(Runners') \in Nat
    BY <1>1, <1>3, <1>9, RunnersOfOne DEF TypeInv
<1>11. Len(bg) + Cardinality(Runners') <= MaxRuns
    BY <1>10, RunnersFinite DEF TypeInv, TypeOK
<1> QED
    BY <1>1, <1>3, <1>4, <1>5, <1>6, <1>8, <1>11 DEF TypeInv
LEMMA StepPlanned ==
    ASSUME TypeInv, NEW c \in Conns, Planned(c) PROVE TypeInv'
<1> DEFINE r == conn[c].req
           x == IF ret = "planned" /\ r.method = "run"
                THEN [conn[c] EXCEPT !.at = "announce", !.plan = plan] ELSE IdleConn
<1>1. /\ conn[c].at = "planning" /\ step = "free" /\ holder' = Nobody
      /\ conn' = [conn EXCEPT ![c] = x]
      /\ shown' = IF ret = "planned" /\ r.method = "plan"
                  THEN [shown EXCEPT ![r.spec] = @ \cup {plan}] ELSE shown
      /\ UNCHANGED <<harnessVars, specFile, clock, bg, runs, ran>>
    BY DEF Planned
<1>2. /\ conn[c] \in Connection /\ r \in Requests /\ holder = c
      /\ ret = "planned" => plan \in Revisions
    BY <1>1, ConnectionShape DEF TypeInv, TypeOK, HarnessInv, ReturnInv
<1>3. x \in Connection /\ x.at \in {"idle", "announce"}
      /\ (x.at = "announce" => x.req = r /\ r.method = "run")
    BY <1>1, <1>2, ConnectionShape, IdleShape DEF Connection
<1>4. shown' \in [Specs -> SUBSET Revisions]
    BY <1>1, <1>2, RequestShape DEF TypeInv, TypeOK
<1> HIDE DEF x
<1>5. conn' \in [Conns -> Connection] /\ conn'[c] = x
    BY <1>1, <1>3 DEF TypeInv, TypeOK
<1>6. \A d \in Conns : conn'[d].at # "planning"
    BY <1>1, <1>2, <1>3, <1>5 DEF TypeInv, TypeOK
<1>7. \A b \in DOMAIN bg : bg[b].at # "running"
  <2>1. DOMAIN bg \subseteq 1 .. MaxRuns
      BY DEF TypeInv, TypeOK
  <2> QED
      BY <1>2, <2>1 DEF TypeInv, TypeOK
<1>8. HarnessInv'
    BY <1>1 DEF TypeInv, harnessVars, HarnessInv, HarnessTypeOK, PlanningInv, ReturnInv
<1>9. TypeOK'
    BY <1>1, <1>4, <1>5, <1>6, <1>7, <1>8 DEF TypeInv, TypeOK, HarnessInv, harnessVars
<1>10. c \in Runners' => c \in Runners
    BY <1>1, <1>3, <1>5 DEF Runners
<1>11. Cardinality(Runners') <= Cardinality(Runners) /\ Cardinality(Runners') \in Nat
    BY <1>1, <1>3, <1>10, RunnersOfOne DEF TypeInv
<1>12. Len(bg) + Cardinality(Runners') <= MaxRuns
    BY <1>11, RunnersFinite DEF TypeInv, TypeOK
<1>13. \A d \in Conns : conn'[d].at = "announce" => conn'[d].req.method = "run"
    BY <1>1, <1>3, <1>5 DEF TypeInv, TypeOK
<1> QED
    BY <1>1, <1>6, <1>8, <1>9, <1>12, <1>13 DEF TypeInv

LEMMA StepAnnounce ==
    ASSUME TypeInv, NEW c \in Conns, Announce(c) PROVE TypeInv'
<1> DEFINE r == conn[c].req
           b == [at |-> "queued", req |-> r, plan |-> conn[c].plan]
<1>1. /\ conn[c].at = "announce" /\ conn' = [conn EXCEPT ![c] = IdleConn]
      /\ runs' = [runs EXCEPT ![r.id] = "started"] /\ bg' = Append(bg, b)
      /\ UNCHANGED <<harnessVars, specFile, clock, holder, shown, ran>>
    BY DEF Announce
<1>2. r \in Requests /\ conn[c].plan \in Revisions
    BY <1>1, ConnectionShape DEF TypeInv, TypeOK
<1>3. b \in Run /\ b.at = "queued"
    BY <1>2 DEF Run
<1> HIDE DEF b
<1>4. /\ bg' \in Seq(Run) /\ Len(bg') = Len(bg) + 1
      /\ \A k \in DOMAIN bg' : (k \in DOMAIN bg /\ bg'[k] = bg[k]) \/ bg'[k] = b
      /\ DOMAIN bg \subseteq DOMAIN bg'
    BY <1>1, <1>3 DEF TypeInv, TypeOK
<1>5. runs' \in [RunIds -> {"unknown", "started", "done", "failed"}]
    BY <1>1, <1>2, RequestShape DEF TypeInv, TypeOK
<1>6. conn' \in [Conns -> Connection] /\ conn'[c] = IdleConn
    BY <1>1, IdleShape DEF TypeInv, TypeOK
<1>7. \A d \in Conns : conn'[d].at = "planning" => d # c /\ conn'[d] = conn[d]
    BY <1>1, <1>6, IdleShape DEF TypeInv, TypeOK
<1>8. HarnessInv'
    BY <1>1 DEF TypeInv, harnessVars, HarnessInv, HarnessTypeOK, PlanningInv, ReturnInv
<1>9. Len(bg') + Cardinality(Runners') <= MaxRuns /\ Len(bg') <= MaxRuns
  <2>1. r.method = "run"
      BY <1>1 DEF TypeInv
  <2>2. c \in Runners /\ c \notin Runners'
      BY <1>1, <1>6, <2>1, IdleShape DEF Runners
  <2>3. Cardinality(Runners') = Cardinality(Runners) - 1 /\ Cardinality(Runners') \in Nat
      BY <1>1, <2>2, IdleShape, RunnersOfOne DEF TypeInv
  <2>4. Len(bg) + Cardinality(Runners) <= MaxRuns /\ Len(bg) \in Nat
      BY DEF TypeInv, TypeOK
  <2> QED
      BY ONLY <1>4, <2>3, <2>4, RunnersFinite, AcpAssumption
<1>10. TypeOK'
    BY <1>1, <1>3, <1>4, <1>5, <1>6, <1>7, <1>8, <1>9
    DEF TypeInv, TypeOK, HarnessInv, harnessVars
<1>11. \A d \in Conns : conn'[d].at = "announce" => d # c /\ conn'[d] = conn[d]
    BY <1>1, <1>6, IdleShape DEF TypeInv, TypeOK
<1> QED
    BY <1>1, <1>7, <1>8, <1>9, <1>10, <1>11 DEF TypeInv, harnessVars

LEMMA StepRun ==
    ASSUME TypeInv, NEW b \in DOMAIN bg, RunStep(b) PROVE TypeInv'
<1>1. /\ bg[b] \in Run /\ bg[b].req \in Requests /\ bg[b].plan \in Revisions
      /\ DOMAIN bg \subseteq 1 .. MaxRuns
  <2>1. bg \in Seq(Run) /\ Len(bg) <= MaxRuns
      BY DEF TypeInv, TypeOK
  <2>2. DOMAIN bg \subseteq 1 .. MaxRuns
      BY ONLY <2>1, AcpAssumption
  <2> QED
      BY <2>2, RunShape DEF TypeInv
<1>2. CASE StartRun(b)
  <2> DEFINE x == [bg[b] EXCEPT !.at = "running"]
  <2>1. /\ bg[b].at = "queued" /\ holder = Nobody /\ holder' = b
        /\ bg' = [bg EXCEPT ![b] = x]
        /\ ran' = [ran EXCEPT ![bg[b].req.spec] = @ \cup {bg[b].plan}]
        /\ UNCHANGED <<specFile, clock, conn, runs, shown>>
      BY <1>2 DEF StartRun
  <2>2. x \in Run
      BY <1>1 DEF Run
  <2>3. HarnessInv'
      BY <1>1, <1>2, RequestShape, RunWithKeeps DEF StartRun, TypeInv
  <2> HIDE DEF x
  <2>4. bg' \in Seq(Run) /\ Len(bg') = Len(bg) /\ DOMAIN bg' = DOMAIN bg
        /\ \A k \in DOMAIN bg : k # b => bg'[k] = bg[k]
      BY <2>1, <2>2 DEF TypeInv, TypeOK
  <2>5. ran' \in [Specs -> SUBSET Revisions]
      BY <1>1, <2>1, RequestShape DEF TypeInv, TypeOK
  <2>6. /\ \A c \in Conns : conn[c].at # "planning"
        /\ \A k \in DOMAIN bg : bg[k].at # "running"
      BY <1>1, <2>1 DEF TypeInv, TypeOK
  <2>7. TypeOK'
      BY <1>1, <2>1, <2>3, <2>4, <2>5, <2>6 DEF TypeInv, TypeOK, HarnessInv
  <2>8. Runners' = Runners
      BY <2>1 DEF Runners
  <2> QED
      BY <2>1, <2>3, <2>4, <2>6, <2>7, <2>8 DEF TypeInv
<1>3. CASE EndRun(b) \/ RunDies(b)
  <2> DEFINE end == IF RunDies(b) THEN "died" ELSE Outcome
  <2> DEFINE x == [bg[b] EXCEPT !.at = end]
  <2>1. /\ bg[b].at = "running" /\ step = "free" /\ holder' = Nobody
        /\ bg' = [bg EXCEPT ![b] = x]
        /\ runs' = runs \/ runs' = [runs EXCEPT ![bg[b].req.id] = Outcome]
        /\ UNCHANGED <<harnessVars, specFile, clock, conn, shown, ran>>
      BY <1>3 DEF EndRun, RunDies
  <2>2. Outcome \in {"done", "failed"} /\ end \in {"done", "failed", "died"}
      BY DEF Outcome
  <2> HIDE DEF end
  <2>3. x \in Run /\ x.at = end
      BY <1>1, <2>2 DEF Run
  <2>4. HarnessInv'
      BY <2>1 DEF TypeInv, harnessVars, HarnessInv, HarnessTypeOK, PlanningInv, ReturnInv
  <2> HIDE DEF x
  <2>5. bg' \in Seq(Run) /\ Len(bg') = Len(bg) /\ DOMAIN bg' = DOMAIN bg
        /\ bg'[b] = x /\ \A k \in DOMAIN bg : k # b => bg'[k] = bg[k]
      BY <2>1, <2>3 DEF TypeInv, TypeOK
  <2>6. runs' \in [RunIds -> {"unknown", "started", "done", "failed"}]
      BY <1>1, <2>1, <2>2, RequestShape DEF TypeInv, TypeOK
  <2>7. holder = b /\ b \notin Conns
      BY <1>1, <2>1 DEF TypeInv, TypeOK
  <2>8. /\ \A c \in Conns : conn[c].at # "planning"
        /\ \A k \in DOMAIN bg : bg[k].at = "running" => k = b
      BY <2>7 DEF TypeInv, TypeOK
  <2>9. TypeOK'
      BY <2>1, <2>2, <2>3, <2>4, <2>5, <2>6, <2>8 DEF TypeInv, TypeOK, HarnessInv, harnessVars
  <2>10. Runners' = Runners
      BY <2>1 DEF Runners
  <2> QED
      BY <2>1, <2>4, <2>5, <2>8, <2>9, <2>10 DEF TypeInv
<1> QED
    BY <1>2, <1>3 DEF RunStep

\* One step, whoever takes it.
LEMMA StepType == TypeInv /\ [Next]_vars => TypeInv'
<1> SUFFICES ASSUME TypeInv, [Next]_vars PROVE TypeInv'
    OBVIOUS
<1>1. CASE UNCHANGED vars
  <2>1. UNCHANGED <<state, step, job, planFile, plan, ret, specFile, clock, conn, bg, runs, holder, shown, ran>>
      BY <1>1 DEF vars, harnessVars, serverVars
  <2>2. Runners' = Runners
      BY <2>1 DEF Runners
  <2> QED
      BY <2>1, <2>2 DEF TypeInv, TypeOK, HarnessInv, HarnessTypeOK, PlanningInv, ReturnInv
<1>2. CASE Next
    BY <1>2, StepEnvironment, StepHarness, StepAsk, StepLock, StepPlanned, StepAnnounce, StepRun
    DEF Next, Serve
<1> QED
    BY <1>1, <1>2

\* The lock is held by at most one connection or run, which is the one the
\* harness works for, and never more runs are owed than may be spawned.
THEOREM TypeCorrect == Spec => []TypeInv
BY InitType, StepType, PTL DEF Spec

\* Types, as the run checks them.
THEOREM TypeInvariant == Spec => []TypeOK
<1>1. TypeInv => TypeOK
    BY DEF TypeInv
<1> QED
    BY <1>1, TypeCorrect, PTL
-----------------------------------------------------------------------------
(***************************************************************************)
(* One plan per spec: every plan on its way to a client or to a run is the *)
(* one in the plan file, which no step writes again.                       *)
(***************************************************************************)
PlanInv ==
    /\ OnePlanPerSpec
    /\ \A c \in Conns : conn[c].at = "announce" => conn[c].plan = planFile[conn[c].req.spec]
    /\ \A b \in DOMAIN bg : bg[b].plan = planFile[bg[b].req.spec]

\* Whatever leaves the plans that are there, and the clients and runs, alone.
LEMMA PlansStay ==
    ASSUME TypeInv, PlanInv, PlansAreKept, UNCHANGED <<conn, bg, shown, ran>>
    PROVE  PlanInv'
<1>1. \A c \in Conns : conn[c].at = "announce"
         => conn[c].plan \in Revisions /\ conn[c].req.spec \in Specs
    BY ConnectionShape, RequestShape DEF TypeInv, TypeOK
<1>2. \A b \in DOMAIN bg : bg[b].plan \in Revisions /\ bg[b].req.spec \in Specs
    BY RunShape DEF TypeInv
<1>3. \A s \in Specs : shown[s] \subseteq Revisions /\ ran[s] \subseteq Revisions
    BY DEF TypeInv, TypeOK
<1>4. \A s \in Specs : planFile[s] \in Revisions => planFile'[s] = planFile[s]
    BY PlanValues DEF PlansAreKept
<1> QED
    BY <1>1, <1>2, <1>3, <1>4 DEF PlanInv, OnePlanPerSpec

LEMMA PlannedKeepsPlans ==
    ASSUME TypeInv, PlanInv, NEW c \in Conns, Planned(c) PROVE PlanInv'
<1> DEFINE r == conn[c].req
<1>1. conn[c].at = "planning" /\ step = "free" /\ UNCHANGED <<planFile, bg, ran>>
    BY DEF Planned, harnessVars
<1>2. job = Work(r) /\ job.spec = r.spec /\ r.spec \in Specs
  <2>1. job = Work(r) /\ conn[c] \in Connection
      BY <1>1 DEF TypeInv, TypeOK
  <2>2. r \in Requests
      BY <1>1, <2>1, ConnectionShape
  <2> QED
      BY <2>1, <2>2, RequestShape DEF Work
<1>3. ret = "planned" => plan = planFile[r.spec]
    BY <1>1, <1>2 DEF TypeInv, HarnessInv, ReturnInv
<1>4. \/ shown' = shown
      \/ ret = "planned" /\ shown' = [shown EXCEPT ![r.spec] = @ \cup {plan}]
    BY DEF Planned
<1>5. OnePlanPerSpec'
    BY <1>1, <1>2, <1>3, <1>4 DEF PlanInv, OnePlanPerSpec, TypeInv, TypeOK
<1>6. \A d \in Conns : conn'[d].at = "announce" =>
         \/ conn'[d] = conn[d]
         \/ conn'[d].req = r /\ conn'[d].plan = plan /\ ret = "planned"
  <2>1. \/ conn' = [conn EXCEPT ![c] = IdleConn]
        \/ /\ ret = "planned"
           /\ conn' = [conn EXCEPT ![c] = [@ EXCEPT !.at = "announce", !.plan = plan]]
      BY DEF Planned
  <2>2. conn[c] \in Connection /\ conn \in [Conns -> Connection]
      BY DEF TypeInv, TypeOK
  <2>3. /\ [conn[c] EXCEPT !.at = "announce", !.plan = plan].req = r
        /\ ret = "planned" => [conn[c] EXCEPT !.at = "announce", !.plan = plan].plan = plan
      BY <1>1, <2>2 DEF Connection
  <2> QED
      BY <2>1, <2>2, <2>3, IdleShape
<1> QED
    BY <1>1, <1>3, <1>5, <1>6 DEF PlanInv

LEMMA AnnounceKeepsPlans ==
    ASSUME TypeInv, PlanInv, NEW c \in Conns, Announce(c) PROVE PlanInv'
<1> DEFINE b == [at |-> "queued", req |-> conn[c].req, plan |-> conn[c].plan]
<1>1. /\ conn[c].at = "announce" /\ conn' = [conn EXCEPT ![c] = IdleConn]
      /\ bg' = Append(bg, b) /\ UNCHANGED <<planFile, shown, ran>>
    BY DEF Announce, harnessVars
<1>2. b.plan = planFile[b.req.spec]
    BY <1>1 DEF PlanInv
<1> HIDE DEF b
<1>3. \A k \in DOMAIN bg' : (k \in DOMAIN bg /\ bg'[k] = bg[k]) \/ bg'[k] = b
    BY <1>1 DEF TypeInv, TypeOK
<1>4. \A d \in Conns : conn'[d].at = "announce" => conn'[d] = conn[d]
    BY <1>1, IdleShape DEF TypeInv, TypeOK
<1> QED
    BY <1>1, <1>2, <1>3, <1>4 DEF PlanInv, OnePlanPerSpec

LEMMA RunKeepsPlans ==
    ASSUME TypeInv, PlanInv, NEW b \in DOMAIN bg, RunStep(b) PROVE PlanInv'
<1>1. bg \in Seq(Run) /\ bg[b] \in Run /\ bg[b].req.spec \in Specs
    BY RunShape DEF TypeInv
<1>2. /\ UNCHANGED <<planFile, conn, shown>>
      /\ DOMAIN bg' = DOMAIN bg
      /\ \A k \in DOMAIN bg : bg'[k].plan = bg[k].plan /\ bg'[k].req = bg[k].req
  <2>1. CASE StartRun(b)
    <3>1. UNCHANGED planFile
        BY <2>1, RunShape, RunWithKeeps DEF StartRun, TypeInv
    <3> QED
        BY <1>1, <2>1, <3>1 DEF StartRun, Run
  <2>2. CASE EndRun(b) \/ RunDies(b)
      BY <1>1, <2>2 DEF EndRun, RunDies, Run, harnessVars
  <2> QED
      BY <2>1, <2>2 DEF RunStep
<1>3. \/ ran' = ran
      \/ ran' = [ran EXCEPT ![bg[b].req.spec] = @ \cup {bg[b].plan}]
    BY DEF RunStep, StartRun, EndRun, RunDies
<1>4. OnePlanPerSpec'
    BY <1>1, <1>2, <1>3 DEF PlanInv, OnePlanPerSpec, TypeInv, TypeOK
<1> QED
    BY <1>2, <1>4 DEF PlanInv

\* The lock is given up between planning and running, texts are edited and
\* other clients plan and run, and yet all of them get the one saved plan.
THEOREM PlansAgree == Spec => []OnePlanPerSpec
<1>1. Init => PlanInv
    BY IdleShape DEF Init, PlanInv, OnePlanPerSpec
<1>2. TypeInv /\ PlanInv /\ [Next]_vars => PlanInv'
  <2> SUFFICES ASSUME TypeInv, PlanInv, [Next]_vars PROVE PlanInv'
      OBVIOUS
  <2>1. CASE EditSpec \/ Tick \/ UNCHANGED vars
      BY <2>1, PlansStay DEF EditSpec, Tick, vars, harnessVars, serverVars, PlansAreKept
  <2>2. CASE HarnessGoesOn
      BY <2>2, PlansStay, HarnessStepKeeps DEF HarnessGoesOn, serverVars, TypeInv
  <2>3. ASSUME NEW c \in Conns, Ask(c) \/ Lock(c) PROVE PlanInv'
    <3>1. UNCHANGED <<planFile, bg, shown, ran>>
      <4>1. CASE Ask(c)
          BY <4>1 DEF Ask, harnessVars
      <4>2. CASE Lock(c)
        <5>1. conn[c].req \in Requests
            BY <4>2, ConnectionShape DEF Lock, TypeInv, TypeOK
        <5> QED
            BY <4>2, <5>1, RequestShape, LoadOrPlanKeeps DEF Lock, TypeInv
      <4> QED
          BY <2>3, <4>1, <4>2
    <3>2. \A d \in Conns : conn'[d].at = "announce" => conn'[d] = conn[d]
      <4>1. CASE Ask(c)
        <5>1. \A d \in Conns : d # c => conn'[d] = conn[d]
            BY <4>1 DEF Ask, TypeInv, TypeOK
        <5>2. conn'[c].at = "lock"
            BY <4>1 DEF Ask, TypeInv, TypeOK
        <5> QED
            BY <5>1, <5>2
      <4>2. CASE Lock(c)
        <5>1. conn[c] \in Connection /\ conn \in [Conns -> Connection]
            BY DEF TypeInv, TypeOK
        <5>2. [conn[c] EXCEPT !.at = "planning"].at = "planning"
            BY <5>1 DEF Connection
        <5>3. conn' = [conn EXCEPT ![c] = [conn[c] EXCEPT !.at = "planning"]]
            BY <4>2 DEF Lock
        <5> QED
            BY <5>1, <5>2, <5>3
      <4> QED
          BY <2>3, <4>1, <4>2
    <3> QED
        BY <3>1, <3>2 DEF PlanInv, OnePlanPerSpec
  <2> QED
      BY <2>1, <2>2, <2>3, PlannedKeepsPlans, AnnounceKeepsPlans, RunKeepsPlans DEF Next, Serve
<1>3. PlanInv => OnePlanPerSpec
    BY DEF PlanInv
<1> QED
    BY <1>1, <1>2, <1>3, TypeCorrect, PTL DEF Spec
-----------------------------------------------------------------------------
(***************************************************************************)
(* agent/status.                                                           *)
(***************************************************************************)
LEMMA OnlyHolder ==
    ASSUME NEW q \in Seq(Run), NEW i, NEW b
    PROVE  LET H == {k \in DOMAIN q : q[k].req.id = i}
           IN  b \in H /\ Cardinality(H) = 1 => H = {b}
<1> DEFINE H == {k \in DOMAIN q : q[k].req.id = i}
<1>1. Len(q) \in Nat /\ DOMAIN q = 1 .. Len(q)
    OBVIOUS
<1>2. IsFiniteSet(DOMAIN q)
    BY ONLY <1>1, FS_Interval
<1>3. IsFiniteSet(H)
    BY ONLY <1>2, FS_Subset
<1> HIDE DEF H
<1>4. b \in H /\ Cardinality(H) = 1 => H = {b}
    BY ONLY <1>3, FS_Singleton
<1> QED
    BY <1>4 DEF H

LEMMA AnnounceKeepsStatus ==
    ASSUME TypeInv, TypeInv', StatusIsHonest, NEW c \in Conns, Announce(c)
    PROVE  StatusIsHonest'
<1> DEFINE r == conn[c].req
           x == [at |-> "queued", req |-> r, plan |-> conn[c].plan]
           n == Len(bg) + 1
<1>1. /\ bg' = Append(bg, x) /\ runs' = [runs EXCEPT ![r.id] = "started"]
      /\ conn[c].at = "announce"
    BY DEF Announce
<1>2. bg \in Seq(Run) /\ runs \in [RunIds -> {"unknown", "started", "done", "failed"}]
    BY DEF TypeInv, TypeOK
<1>3. r \in Requests /\ r.id \in RunIds
    BY <1>1, ConnectionShape, RequestShape DEF TypeInv, TypeOK
<1>4. /\ DOMAIN bg' = DOMAIN bg \cup {n} /\ n \notin DOMAIN bg
      /\ bg'[n] = x /\ \A k \in DOMAIN bg : bg'[k] = bg[k]
    BY <1>1, <1>2
<1>5. bg'[n].req.id = r.id /\ bg'[n].at = "queued"
    BY <1>4
<1> HIDE DEF x, n
<1>6. ASSUME NEW i \in RunIds, i # r.id
      PROVE  Holders(i)' = Holders(i) /\ runs'[i] = runs[i]
  <2>1. Holders(i)' = Holders(i)
      BY <1>4, <1>5, <1>6 DEF Holders
  <2> QED
      BY <1>1, <1>2, <1>6, <2>1
<1>7. ASSUME NEW i \in RunIds, i = r.id
      PROVE  n \in Holders(i)' /\ runs'[i] = "started"
  <2>1. n \in Holders(i)'
      BY <1>4, <1>5, <1>7 DEF Holders
  <2> QED
      BY <1>1, <1>2, <1>7, <2>1
<1>8. SUFFICES ASSUME NEW i \in RunIds
      PROVE  /\ runs'[i] = "unknown" <=> Holders(i)' = {}
             /\ \A b \in Holders(i)' : Cardinality(Holders(i)') = 1 =>
                   runs'[i] = IF bg'[b].at \in {"done", "failed"} THEN bg'[b].at ELSE "started"
    BY DEF StatusIsHonest
<1>9. CASE i = r.id
  <2>1. bg' \in Seq(Run)
      BY DEF TypeInv, TypeOK
  <2>2. n \in Holders(i)' /\ runs'[i] = "started"
      BY <1>7, <1>9
  <2>3. Cardinality(Holders(i)') = 1 => Holders(i)' = {n}
      BY <2>1, <2>2, OnlyHolder DEF Holders
  <2> QED
      BY <1>5, <2>2, <2>3
<1>10. CASE i # r.id
  <2>1. \A b \in Holders(i) : bg'[b] = bg[b]
      BY <1>4 DEF Holders
  <2> QED
      BY <1>6, <1>10, <2>1 DEF StatusIsHonest
<1> QED
    BY <1>9, <1>10

LEMMA RunKeepsStatus ==
    ASSUME TypeInv, StatusIsHonest, NEW b \in DOMAIN bg, RunStep(b)
    PROVE  StatusIsHonest'
<1>1. /\ bg \in Seq(Run) /\ bg[b] \in Run /\ bg[b].req.id \in RunIds
      /\ runs \in [RunIds -> {"unknown", "started", "done", "failed"}]
    BY RunShape DEF TypeInv, TypeOK
<1>2. CASE StartRun(b)
  <2>1. /\ DOMAIN bg' = DOMAIN bg /\ runs' = runs
        /\ \A k \in DOMAIN bg : bg'[k].req = bg[k].req
        /\ \A k \in DOMAIN bg :
              \/ bg'[k].at = bg[k].at
              \/ bg[k].at = "queued" /\ bg'[k].at = "running"
    <3>1. /\ bg' = [bg EXCEPT ![b] = [bg[b] EXCEPT !.at = "running"]]
          /\ bg[b].at = "queued" /\ runs' = runs
        BY <1>2 DEF StartRun
    <3>2. /\ [bg[b] EXCEPT !.at = "running"].at = "running"
          /\ [bg[b] EXCEPT !.at = "running"].req = bg[b].req
        BY <1>1 DEF Run
    <3>3. /\ DOMAIN bg' = DOMAIN bg /\ \A k \in DOMAIN bg : k # b => bg'[k] = bg[k]
          /\ bg'[b] = [bg[b] EXCEPT !.at = "running"]
        BY <1>1, <3>1
    <3>4. bg'[b].req = bg[b].req /\ bg'[b].at = "running"
        BY <3>2, <3>3
    <3>5. ASSUME NEW k \in DOMAIN bg
          PROVE  /\ bg'[k].req = bg[k].req
                 /\ \/ bg'[k].at = bg[k].at
                    \/ bg[k].at = "queued" /\ bg'[k].at = "running"
      <4>1. CASE k = b
          BY ONLY <3>1, <3>4, <4>1
      <4>2. CASE k # b
        <5>1. bg'[k] = bg[k]
            BY ONLY <3>3, <4>2, k \in DOMAIN bg
        <5> QED
            BY ONLY <5>1
      <4> QED
          BY <4>1, <4>2
    <3> QED
        BY ONLY <3>1, <3>3, <3>5
  <2>2. \A i \in RunIds : Holders(i)' = Holders(i)
      BY <2>1 DEF Holders
  <2> QED
      BY <2>1, <2>2 DEF StatusIsHonest, Holders
<1>3. CASE EndRun(b)
  <2>1. /\ DOMAIN bg' = DOMAIN bg
        /\ runs' = [runs EXCEPT ![bg[b].req.id] = Outcome]
        /\ \A k \in DOMAIN bg : bg'[k].req = bg[k].req
        /\ bg'[b].at = Outcome /\ \A k \in DOMAIN bg : k # b => bg'[k].at = bg[k].at
        /\ Outcome \in {"done", "failed"}
      BY <1>1, <1>3 DEF EndRun, Run, Outcome
  <2>2. \A i \in RunIds : Holders(i)' = Holders(i)
      BY <2>1 DEF Holders
  <2>3. SUFFICES ASSUME NEW i \in RunIds
        PROVE  /\ runs'[i] = "unknown" <=> Holders(i) = {}
               /\ \A k \in Holders(i) : Cardinality(Holders(i)) = 1 =>
                     runs'[i] = IF bg'[k].at \in {"done", "failed"} THEN bg'[k].at ELSE "started"
      BY <2>2 DEF StatusIsHonest
  <2>4. CASE i = bg[b].req.id
    <3>1. b \in Holders(i) /\ runs'[i] = Outcome
        BY <1>1, <2>1, <2>4 DEF Holders
    <3>2. Cardinality(Holders(i)) = 1 => Holders(i) = {b}
        BY <1>1, <3>1, OnlyHolder DEF Holders
    <3> QED
        BY <2>1, <3>1, <3>2
  <2>5. CASE i # bg[b].req.id
    <3>1. b \notin Holders(i) /\ runs'[i] = runs[i]
        BY <1>1, <2>1, <2>5 DEF Holders
    <3>2. \A k \in Holders(i) : bg'[k].at = bg[k].at
        BY <2>1, <3>1 DEF Holders
    <3> QED
        BY <3>1, <3>2 DEF StatusIsHonest
  <2> QED
      BY <2>4, <2>5
<1>4. CASE RunDies(b)
  <2>1. /\ DOMAIN bg' = DOMAIN bg /\ runs' = runs
        /\ \A k \in DOMAIN bg : bg'[k].req = bg[k].req
        /\ bg[b].at = "running" /\ bg'[b].at = "died"
        /\ \A k \in DOMAIN bg : k # b => bg'[k].at = bg[k].at
      BY <1>1, <1>4 DEF RunDies, Run
  <2>2. \A i \in RunIds : Holders(i)' = Holders(i)
      BY <2>1 DEF Holders
  <2>3. \A i \in RunIds : \A k \in Holders(i) :
            bg'[k].at = bg[k].at \/ (bg[k].at = "running" /\ bg'[k].at = "died")
      BY <2>1 DEF Holders
  <2> QED
      BY <2>1, <2>2, <2>3 DEF StatusIsHonest
<1> QED
    BY <1>2, <1>3, <1>4 DEF RunStep

\* An id that one run holds reads what became of that run, from the answer to
\* agent/run on, save that one which panicked reads started; no other id reads
\* anything.
THEOREM StatusHonest == Spec => []StatusIsHonest
<1>1. Init => StatusIsHonest
    BY DEF Init, StatusIsHonest, Holders
<1>2. TypeInv /\ TypeInv' /\ StatusIsHonest /\ [Next]_vars => StatusIsHonest'
  <2> SUFFICES ASSUME TypeInv, TypeInv', StatusIsHonest, [Next]_vars PROVE StatusIsHonest'
      OBVIOUS
  <2>1. CASE UNCHANGED <<bg, runs>>
      BY <2>1 DEF StatusIsHonest, Holders
  <2>2. CASE \E c \in Conns : Announce(c)
      BY <2>2, AnnounceKeepsStatus
  <2>3. CASE \E b \in DOMAIN bg : RunStep(b)
      BY <2>3, RunKeepsStatus
  <2> QED
      BY <2>1, <2>2, <2>3
      DEF Next, Serve, EditSpec, Tick, HarnessGoesOn, Ask, Lock, Planned, vars, serverVars
<1> QED
    BY <1>1, <1>2, TypeCorrect, PTL DEF Spec
=============================================================================
