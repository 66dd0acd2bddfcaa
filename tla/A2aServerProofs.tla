--------------------------- MODULE A2aServerProofs ---------------------------
(***************************************************************************)
(* Theorems about A2aServer, for any number of requests, ids and polls,    *)
(* every set of specs and any number of texts.                             *)
(***************************************************************************)
EXTENDS A2aServer, AgentHarnessProofs, FiniteSetTheorems

\* What a request may ask for at each of its steps.
AsksFor(at) ==
    CASE at \in {"check", "create"} -> {"send"}
      [] at \in {"lookup", "fetch"} -> {"get"}
      [] at \in {"guard", "cancel"} -> {"cancel"}
      [] at = "fill" -> {"send", "get", "cancel"}
      [] OTHER -> {"none", "send", "get", "cancel"}

\* A copy is held only while it is on its way; a run is spawned by a send that
\* has created its task, a poller by one that is answered.
RequestInv ==
    \A r \in Requests :
        /\ req[r].method \in AsksFor(req[r].at)
        /\ req[r].at # "fill" => req[r].copy = NoTask
        /\ req[r].at = "fill" /\ req[r].method = "cancel" => req[r].copy.status = "canceled"
        /\ run[r] # "none" => req[r].method = "send" /\ req[r].at \in {"fill", "answered"}
        /\ poller[r].at # "none" => req[r].at = "answered"
        /\ poller[r].at # "fill" => poller[r].copy = NoTask
        /\ poller[r].at \in {"fetch", "fill"} => poller[r].polls < MaxPolls

\* A send that was answered has its task, and tasks are never removed; so a
\* later send of the id finds it.
RetryInv ==
    \A r \in Requests :
        /\ req[r].method = "send" /\ req[r].at \in {"fill", "answered"}
              => tasks[req[r].id] # NoTask
        /\ \A p \in req[r].after : tasks[p] # NoTask
        /\ req[r].at = "create" \/ run[r] # "none" => req[r].id \notin req[r].after

\* The run that plans or executes holds the harness, which works for it.
LockInv ==
    /\ \A r \in Requests : run[r] \in {"planning", "running"} <=> holder = r
    /\ holder = Nobody => step = "free"
    /\ \A r \in Requests :
          /\ run[r] = "planning" => step \in {"free", "planning", "saving"}
          /\ run[r] = "running" => step \in {"free", "executing", "verifying"}

Succeeded == {r \in Requests : run[r] \in {"completed", "passed"}}

\* A run that has succeeded leaves the state machine at Done, for good.
SuccessInv ==
    /\ \A r, q \in Succeeded : r = q
    /\ Succeeded # {} => state = "done"
    /\ step = "free" /\ ret = "passed" =>
          state = "done" /\ (holder # Nobody => Succeeded = {})

TypeInv == TypeOK /\ HarnessInv /\ PhaseInv /\ RequestInv /\ LockInv

\* What a map or a copy says of a task was so, and complete.
Complete(t) == t.status = "completed" => t.artifacts
Honest(p, t) == (t # NoTask => t.status \in past[p]) /\ Complete(t)

HonestInv ==
    /\ \A p \in Ids : Honest(p, tasks[p]) /\ Honest(p, cache[p])
    /\ \A r \in Requests :
          Honest(req[r].id, req[r].copy) /\ Honest(req[r].id, poller[r].copy)

\* A request whose poller will look at its task again, or gave up, or which may
\* have filled in a copy it fetched earlier.
Watches(r) ==
    \/ poller[r].at \in {"check", "fetch", "fill", "gave_up"}
    \/ req[r].method = "get" /\ req[r].at = "answered"

StaleInv ==
    \A p \in Ids :
        \/ cache[p] = NoTask \/ Terminal(cache[p])
        \/ \E r \in Requests : req[r].id = p /\ Watches(r)

ServerInv == TypeInv /\ HonestInv /\ RetryInv /\ SuccessInv /\ StaleInv

USE A2aAssumption
-----------------------------------------------------------------------------
\* A request at its next step, with the copy it now holds.
Moved(r, at, task) == [req[r] EXCEPT !.copy = task, !.at = at]

LEMMA GotoMoves ==
    ASSUME TypeOK, NEW r \in Requests, NEW at, Goto(r, at)
    PROVE  req' = [req EXCEPT ![r] = Moved(r, at, req[r].copy)]
<1>1. req[r] \in Request
    BY DEF TypeOK
<1>2. [req[r] EXCEPT !.at = at] = Moved(r, at, req[r].copy)
    BY <1>1 DEF Moved, Request
<1> QED
    BY <1>2 DEF Goto

LEMMA KeepMoves ==
    ASSUME NEW r \in Requests, NEW at, NEW task, Keep(r, task, at)
    PROVE  req' = [req EXCEPT ![r] = Moved(r, at, task)]
BY DEF Keep, Moved

\* What a request's step changes of it, and that it changes no other.
LEMMA MovedShape ==
    ASSUME TypeOK, NEW r \in Requests, NEW task \in MaybeTask,
           NEW at \in {"unborn", "check", "create", "lookup", "fetch", "guard", "cancel",
                       "fill", "answered", "error"},
           req' = [req EXCEPT ![r] = Moved(r, at, task)]
    PROVE  /\ req' \in [Requests -> Request]
           /\ \A q \in Requests : q # r => req'[q] = req[q]
           /\ req'[r].at = at /\ req'[r].copy = task
           /\ \A q \in Requests : /\ req'[q].method = req[q].method
                                 /\ req'[q].id = req[q].id
                                 /\ req'[q].after = req[q].after
<1>1. req \in [Requests -> Request] /\ req[r] \in Request
    BY DEF TypeOK
<1> DEFINE x == Moved(r, at, task)
<1>2. /\ x \in Request /\ x.at = at /\ x.copy = task
      /\ x.method = req[r].method /\ x.id = req[r].id /\ x.after = req[r].after
    BY <1>1 DEF Moved, Request
<1> HIDE DEF x
<1>3. req' = [req EXCEPT ![r] = x]
    BY DEF x
<1> QED
    BY <1>1, <1>2, <1>3

\* A step of a request that neither fills nor arrives keeps the shape.
LEMMA MovedKeeps ==
    ASSUME TypeOK, RequestInv, NEW r \in Requests, NEW task \in MaybeTask,
           NEW at \in {"check", "create", "lookup", "fetch", "guard", "cancel",
                       "fill", "answered", "error"},
           req' = [req EXCEPT ![r] = Moved(r, at, task)],
           UNCHANGED <<poller, run>>,
           req[r].at \notin {"unborn", "fill", "answered"},
           req[r].method \in AsksFor(at),
           at # "fill" => task = NoTask,
           at = "fill" /\ req[r].method = "cancel" => task.status = "canceled"
    PROVE  RequestInv'
<1>1. /\ req' \in [Requests -> Request]
      /\ \A q \in Requests : q # r => req'[q] = req[q]
      /\ req'[r].at = at /\ req'[r].copy = task
      /\ \A q \in Requests : req'[q].method = req[q].method
    BY MovedShape
<1>2. \A x : AsksFor(x)' = AsksFor(x)
    BY DEF AsksFor
<1> SUFFICES ASSUME NEW q \in Requests
             PROVE  /\ req'[q].method \in AsksFor(req'[q].at)
                    /\ req'[q].at # "fill" => req'[q].copy = NoTask
                    /\ req'[q].at = "fill" /\ req'[q].method = "cancel"
                          => req'[q].copy.status = "canceled"
                    /\ run[q] # "none"
                          => req'[q].method = "send" /\ req'[q].at \in {"fill", "answered"}
                    /\ poller[q].at # "none" => req'[q].at = "answered"
                    /\ poller[q].at # "fill" => poller[q].copy = NoTask
                    /\ poller[q].at \in {"fetch", "fill"} => poller[q].polls < MaxPolls
    BY <1>2 DEF RequestInv
<1>3. CASE q = r
    BY <1>1, <1>3 DEF RequestInv
<1>4. CASE q # r
    BY <1>1, <1>4 DEF RequestInv
<1> QED
    BY <1>3, <1>4

LEMMA HarnessKept ==
    ASSUME HarnessTypeOK, HarnessInv, PhaseInv, UNCHANGED harnessVars
    PROVE  HarnessTypeOK' /\ HarnessInv' /\ PhaseInv'
BY DEF harnessVars, HarnessInv, HarnessTypeOK, PhaseInv, PlanningInv, ReturnInv

LEMMA TaskShape ==
    /\ NoTask \in MaybeTask /\ NewTask \in MaybeTask /\ NewTask # NoTask
    /\ ~ Terminal(NoTask) /\ NoTask.status = "none"
    /\ \A t \in MaybeTask, s \in Statuses :
          /\ [t EXCEPT !.status = s] \in MaybeTask /\ [t EXCEPT !.status = s] # NoTask
          /\ [t EXCEPT !.status = s].status = s
          /\ [t EXCEPT !.status = s].artifacts = t.artifacts
    /\ \A t \in MaybeTask : t # NoTask => t.status \in Statuses
<1>1. /\ NoTask \in MaybeTask /\ NewTask \in MaybeTask /\ NewTask # NoTask
      /\ ~ Terminal(NoTask) /\ NoTask.status = "none"
    BY DEF NoTask, MaybeTask, NewTask, Task, Statuses, Ended, Terminal
<1>2. ASSUME NEW t \in MaybeTask, NEW s \in Statuses
      PROVE  /\ [t EXCEPT !.status = s] \in MaybeTask /\ [t EXCEPT !.status = s] # NoTask
             /\ [t EXCEPT !.status = s].status = s
             /\ [t EXCEPT !.status = s].artifacts = t.artifacts
  <2>1. "none" \notin Statuses
      BY DEF Statuses, Ended
  <2>2. t \in [status : Statuses \cup {"none"}, artifacts : BOOLEAN]
    <3>1. CASE t \in Task
        BY <3>1 DEF Task
    <3>2. CASE t = NoTask
        BY <3>2 DEF NoTask
    <3> QED
        BY <3>1, <3>2 DEF MaybeTask
  <2>3. /\ [t EXCEPT !.status = s] \in [status : Statuses, artifacts : BOOLEAN]
        /\ [t EXCEPT !.status = s].status = s
        /\ [t EXCEPT !.status = s].artifacts = t.artifacts
      BY <2>2
  <2> QED
      BY <2>1, <2>3 DEF MaybeTask, NoTask, Task
<1>3. \A t \in MaybeTask : t # NoTask => t.status \in Statuses
    BY DEF MaybeTask, Task
<1> QED
    BY <1>1, <1>2, <1>3

LEMMA PutShape ==
    ASSUME TypeOK, NEW p \in Ids, NEW t \in MaybeTask, t # NoTask, Put(p, t)
    PROVE  /\ tasks' \in [Ids -> MaybeTask] /\ past' \in [Ids -> SUBSET Statuses]
           /\ tasks'[p] = t /\ t.status \in past'[p]
           /\ \A q \in Ids : /\ q # p => tasks'[q] = tasks[q]
                            /\ past[q] \subseteq past'[q]
<1>1. t.status \in Statuses
    BY TaskShape
<1>2. tasks' = [tasks EXCEPT ![p] = t] /\ past' = [past EXCEPT ![p] = @ \cup {t.status}]
    BY DEF Put
<1>3. tasks \in [Ids -> MaybeTask] /\ past \in [Ids -> SUBSET Statuses]
    BY DEF TypeOK
<1> QED
    BY <1>1, <1>2, <1>3

LEMMA TransitionShape ==
    ASSUME TypeOK, NEW p \in Ids, NEW s \in Statuses, Transition(p, s)
    PROVE  \E t \in MaybeTask : /\ t # NoTask /\ Put(p, t)
                             /\ t.status = s /\ t.artifacts = tasks[p].artifacts
                             /\ t = [tasks[p] EXCEPT !.status = s]
<1>1. tasks[p] \in MaybeTask
    BY DEF TypeOK
<1> QED
    BY <1>1, TaskShape DEF Transition

LEMMA RequestType ==
    ASSUME TypeOK, NEW r \in Requests
    PROVE  /\ req[r] \in Request /\ req[r].id \in Ids /\ req[r].copy \in MaybeTask
           /\ req[r].after \subseteq Ids
           /\ poller[r] \in Poller /\ poller[r].copy \in MaybeTask
           /\ poller[r].polls \in 0 .. MaxPolls
           /\ tasks[req[r].id] \in MaybeTask /\ cache[req[r].id] \in MaybeTask
BY DEF TypeOK, Request, Poller
-----------------------------------------------------------------------------
\* Types and shapes, action by action.
LEMMA TypeInit == Init => TypeInv
<1> SUFFICES ASSUME Init PROVE TypeInv
    OBVIOUS
<1>1. HarnessInv /\ HarnessTypeOK /\ PhaseInv
    BY InitHarness DEF Init, HarnessInv, HarnessInit, PhaseInv
<1>2. \A r \in Requests : /\ req[r] \in Request /\ req[r].at = "unborn"
                           /\ req[r].method = "none" /\ req[r].copy = NoTask
    BY TaskShape DEF Init, Request, Ids
<1>3. req \in [Requests -> Request]
    BY <1>2 DEF Init
<1>4. TypeOK
    BY <1>1, <1>3, TaskShape DEF Init, TypeOK, Run, Poller
<1>5. RequestInv
    BY <1>2 DEF Init, RequestInv, AsksFor
<1>6. LockInv
    BY DEF Init, LockInv, HarnessInit, Nobody, Requests
<1> QED
    BY <1>1, <1>4, <1>5, <1>6 DEF TypeInv

\* Steps of a request that touch neither the tasks, nor the cache, nor a run.
NotCancelable(p) == tasks[p] = NoTask \/ Terminal(tasks[p])
Quiet(r) ==
    \/ RefuseSend(r) \/ SendCheck(r) \/ Lookup(r) \/ Fetch(r) \/ Guard(r)
    \/ CancelTask(r) /\ NotCancelable(req[r].id)

LEMMA QuietEffect ==
    ASSUME TypeInv, NEW r \in Requests, Quiet(r)
    PROVE  /\ UNCHANGED <<harnessVars, tasks, cache, run, poller, holder, past>>
           /\ \E task \in MaybeTask, at \in {"create", "fetch", "cancel", "fill", "answered", "error"} :
                 /\ req' = [req EXCEPT ![r] = Moved(r, at, task)]
                 /\ req[r].at \notin {"unborn", "fill", "answered"} /\ req[r].method \in AsksFor(at)
                 /\ at # "fill" => task = NoTask
                 /\ at = "fill" => req[r].method # "cancel" /\ task = tasks[req[r].id] /\ task # NoTask
                 /\ at = "create" => tasks[req[r].id] = NoTask
                 /\ at = "answered" => req[r].method = "get"
<1>t. TypeOK /\ RequestInv
    BY DEF TypeInv
<1>u. UNCHANGED <<harnessVars, tasks, cache, run, poller, holder, past>>
  <2>1. CASE CancelTask(r) /\ NotCancelable(req[r].id)
      BY <2>1 DEF CancelTask, NotCancelable
  <2> QED
      BY <2>1 DEF Quiet, RefuseSend, SendCheck, Lookup, Fetch, Guard
<1>m. req[r].method \in AsksFor(req[r].at)
    BY <1>t DEF RequestInv
<1> SUFFICES \E task \in MaybeTask, at \in {"create", "fetch", "cancel", "fill", "answered", "error"} :
        /\ req' = [req EXCEPT ![r] = Moved(r, at, task)]
        /\ req[r].at \notin {"unborn", "fill", "answered"} /\ req[r].method \in AsksFor(at)
        /\ at # "fill" => task = NoTask
        /\ at = "fill" => req[r].method # "cancel" /\ task = tasks[req[r].id] /\ task # NoTask
        /\ at = "create" => tasks[req[r].id] = NoTask
        /\ at = "answered" => req[r].method = "get"
    BY <1>u
<1>0. \A at : Goto(r, at) /\ req[r].at # "fill" => req' = [req EXCEPT ![r] = Moved(r, at, NoTask)]
    BY <1>t, GotoMoves DEF RequestInv
<1>1. CASE RefuseSend(r)
    BY <1>1, <1>0, <1>m, TaskShape DEF RefuseSend, AsksFor
<1>2. CASE SendCheck(r)
  <2>1. req[r].at = "check" /\ req[r].method = "send"
      BY <1>2, <1>m DEF SendCheck, AsksFor
  <2>2. \/ Goto(r, "create") /\ tasks[req[r].id] = NoTask
        \/ Keep(r, tasks[req[r].id], "fill") /\ tasks[req[r].id] # NoTask
      BY <1>2 DEF SendCheck
  <2> QED
      BY <2>1, <2>2, <1>0, <1>t, KeepMoves, RequestType, TaskShape DEF AsksFor
<1>3. CASE Lookup(r)
  <2>1. req[r].at = "lookup" /\ req[r].method = "get"
      BY <1>3, <1>m DEF Lookup, AsksFor
  <2>2. Goto(r, "fetch") \/ Goto(r, "answered")
      BY <1>3 DEF Lookup
  <2> QED
      BY <2>1, <2>2, <1>0, TaskShape DEF AsksFor
<1>4. CASE Fetch(r)
  <2>1. req[r].at = "fetch" /\ req[r].method = "get"
      BY <1>4, <1>m DEF Fetch, AsksFor
  <2>2. \/ Goto(r, "error")
        \/ Keep(r, tasks[req[r].id], "fill") /\ tasks[req[r].id] # NoTask
      BY <1>4 DEF Fetch
  <2> QED
      BY <2>1, <2>2, <1>0, <1>t, KeepMoves, RequestType, TaskShape DEF AsksFor
<1>5. CASE Guard(r)
  <2>1. req[r].at = "guard" /\ req[r].method = "cancel"
      BY <1>5, <1>m DEF Guard, AsksFor
  <2>2. Goto(r, "error") \/ Goto(r, "cancel")
      BY <1>5 DEF Guard
  <2> QED
      BY <2>1, <2>2, <1>0, TaskShape DEF AsksFor
<1>6. CASE CancelTask(r) /\ NotCancelable(req[r].id)
  <2>1. req[r].at = "cancel" /\ req[r].method = "cancel"
      BY <1>6, <1>m DEF CancelTask, AsksFor
  <2>2. Goto(r, "error")
      BY <1>6 DEF CancelTask, NotCancelable
  <2> QED
      BY <2>1, <2>2, <1>0, TaskShape DEF AsksFor
<1> QED
    BY <1>1, <1>2, <1>3, <1>4, <1>5, <1>6 DEF Quiet

LEMMA TypeQuiet == ASSUME TypeInv, NEW r \in Requests, Quiet(r) PROVE TypeInv'
<1>t. TypeOK /\ RequestInv
    BY DEF TypeInv
<1>1. UNCHANGED <<harnessVars, tasks, cache, run, poller, holder, past>>
    BY QuietEffect
<1>3. PICK task \in MaybeTask, at \in {"create", "fetch", "cancel", "fill", "answered", "error"} :
        /\ req' = [req EXCEPT ![r] = Moved(r, at, task)]
        /\ req[r].at \notin {"unborn", "fill", "answered"} /\ req[r].method \in AsksFor(at)
        /\ at # "fill" => task = NoTask
        /\ at = "fill" => req[r].method # "cancel"
    BY QuietEffect
<1>4. RequestInv' /\ req' \in [Requests -> Request]
    BY <1>t, <1>1, <1>3, MovedKeeps, MovedShape
<1>5. HarnessTypeOK' /\ HarnessInv' /\ PhaseInv'
    BY <1>1, HarnessKept DEF TypeInv, TypeOK
<1>6. TypeOK'
    BY <1>1, <1>4, <1>5, <1>t DEF TypeOK
<1>7. LockInv'
    BY <1>1 DEF TypeInv, LockInv, harnessVars
<1> QED
    BY <1>4, <1>5, <1>6, <1>7 DEF TypeInv

\* A send creates its task, or a cancel ends it; both hold a copy of it.
LEMMA TaskEffect ==
    ASSUME TypeInv, NEW r \in Requests,
           SendCreate(r) \/ (CancelTask(r) /\ ~ NotCancelable(req[r].id))
    PROVE  /\ UNCHANGED <<harnessVars, cache, poller, holder>>
           /\ \E task \in MaybeTask :
                 /\ task # NoTask /\ task.status # "completed"
                 /\ Put(req[r].id, task)
                 /\ req' = [req EXCEPT ![r] = Moved(r, "fill", task)]
                 /\ \/ /\ req[r].at = "create" /\ req[r].method = "send"
                       /\ run' = [run EXCEPT ![r] = "start"]
                    \/ /\ req[r].at = "cancel" /\ req[r].method = "cancel"
                       /\ task.status = "canceled" /\ UNCHANGED run
<1>t. TypeOK /\ RequestInv
    BY DEF TypeInv
<1>u. UNCHANGED <<harnessVars, cache, poller, holder>>
    BY DEF SendCreate, CancelTask
<1>m. req[r].method \in AsksFor(req[r].at)
    BY <1>t DEF RequestInv
<1>1. CASE SendCreate(r)
  <2>1. req[r].at = "create" /\ req[r].method = "send"
      BY <1>1, <1>m DEF SendCreate, AsksFor
  <2>2. /\ Put(req[r].id, NewTask) /\ run' = [run EXCEPT ![r] = "start"]
        /\ req' = [req EXCEPT ![r] = Moved(r, "fill", NewTask)]
      BY <1>1, KeepMoves DEF SendCreate
  <2>3. NewTask \in MaybeTask /\ NewTask # NoTask /\ NewTask.status # "completed"
      BY TaskShape DEF NewTask
  <2> QED
      BY <1>u, <2>1, <2>2, <2>3
<1>2. CASE CancelTask(r) /\ ~ NotCancelable(req[r].id)
  <2>1. req[r].at = "cancel" /\ req[r].method = "cancel"
      BY <1>2, <1>m DEF CancelTask, AsksFor
  <2> DEFINE task == [tasks[req[r].id] EXCEPT !.status = "canceled"]
  <2>2. Put(req[r].id, task) /\ Keep(r, task, "fill") /\ UNCHANGED run
      BY <1>2 DEF CancelTask, NotCancelable, Transition
  <2>3. task \in MaybeTask /\ task # NoTask /\ task.status = "canceled"
      BY <1>t, RequestType, TaskShape DEF Statuses, Ended
  <2> HIDE DEF task
  <2>4. req' = [req EXCEPT ![r] = Moved(r, "fill", task)]
      BY <2>2, KeepMoves
  <2> QED
      BY <1>u, <2>1, <2>2, <2>3, <2>4
<1> QED
    BY <1>1, <1>2

LEMMA TypeTask ==
    ASSUME TypeInv, NEW r \in Requests,
           SendCreate(r) \/ (CancelTask(r) /\ ~ NotCancelable(req[r].id))
    PROVE  TypeInv'
<1>t. TypeOK /\ RequestInv
    BY DEF TypeInv
<1>1. UNCHANGED <<harnessVars, cache, poller, holder>>
    BY TaskEffect
<1>2. PICK task \in MaybeTask :
        /\ task # NoTask /\ Put(req[r].id, task)
        /\ req' = [req EXCEPT ![r] = Moved(r, "fill", task)]
        /\ \/ /\ req[r].at = "create" /\ req[r].method = "send"
              /\ run' = [run EXCEPT ![r] = "start"]
           \/ /\ req[r].at = "cancel" /\ req[r].method = "cancel"
              /\ task.status = "canceled" /\ UNCHANGED run
    BY TaskEffect
<1>3. /\ req' \in [Requests -> Request]
      /\ \A q \in Requests : q # r => req'[q] = req[q]
      /\ req'[r].at = "fill" /\ req'[r].copy = task /\ req'[r].method = req[r].method
    BY <1>t, <1>2, MovedShape
<1>4. tasks' \in [Ids -> MaybeTask] /\ past' \in [Ids -> SUBSET Statuses]
    BY <1>t, <1>2, PutShape, RequestType
<1>5. run[r] = "none" /\ poller[r].at = "none" /\ poller[r].copy = NoTask
    BY <1>t, <1>2 DEF RequestInv
<1>6. /\ run' \in [Requests -> Run]
      /\ \A q \in Requests : q # r => run'[q] = run[q]
      /\ run'[r] \in {"none", "start"} /\ (req[r].method # "send" => run'[r] = "none")
    BY <1>t, <1>2, <1>5 DEF TypeOK, Run
<1>7. HarnessTypeOK' /\ HarnessInv' /\ PhaseInv'
    BY <1>1, HarnessKept DEF TypeInv, TypeOK
<1>8. TypeOK'
    BY <1>1, <1>3, <1>4, <1>6, <1>7, <1>t DEF TypeOK
<1>9. RequestInv'
  <2>1. \A x : AsksFor(x)' = AsksFor(x)
      BY DEF AsksFor
  <2>2. req[r].method \in AsksFor("fill")
      BY <1>2 DEF AsksFor
  <2> SUFFICES ASSUME NEW q \in Requests
               PROVE  /\ req'[q].method \in AsksFor(req'[q].at)
                      /\ req'[q].at # "fill" => req'[q].copy = NoTask
                      /\ req'[q].at = "fill" /\ req'[q].method = "cancel"
                            => req'[q].copy.status = "canceled"
                      /\ run'[q] # "none"
                            => req'[q].method = "send" /\ req'[q].at \in {"fill", "answered"}
                      /\ poller[q].at # "none" => req'[q].at = "answered"
                      /\ poller[q].at # "fill" => poller[q].copy = NoTask
                      /\ poller[q].at \in {"fetch", "fill"} => poller[q].polls < MaxPolls
      BY <1>1, <2>1 DEF RequestInv
  <2>3. CASE q = r
      BY <1>2, <1>3, <1>5, <1>6, <2>2, <2>3 DEF RequestInv
  <2>4. CASE q # r
      BY <1>3, <1>6, <1>t, <2>4 DEF RequestInv
  <2> QED
      BY <2>3, <2>4
<1>10. LockInv'
  <2>1. \A q \in Requests : run'[q] \in {"planning", "running"} <=> run[q] \in {"planning", "running"}
      BY <1>5, <1>6
  <2>2. \A q \in Requests : run'[q] \in {"planning", "running"} => run'[q] = run[q]
      BY <1>6
  <2> QED
      BY <1>1, <2>1, <2>2 DEF TypeInv, LockInv, harnessVars
<1> QED
    BY <1>7, <1>8, <1>9, <1>10 DEF TypeInv

\* A request arrives.
LEMMA ArriveEffect ==
    ASSUME TypeInv, NEW r \in Requests, Arrive(r)
    PROVE  /\ req[r].at = "unborn"
           /\ UNCHANGED <<harnessVars, tasks, cache, run, poller, holder, past>>
           /\ req' \in [Requests -> Request]
           /\ \A q \in Requests : q # r => req'[q] = req[q]
           /\ req'[r].at \in {"check", "lookup", "guard"} /\ req'[r].copy = NoTask
           /\ req'[r].method \in AsksFor(req'[r].at)
           /\ req'[r].after = {q \in Ids : SendDone(q)}
<1>1. PICK p \in Ids, method \in {"send", "get", "cancel"} :
        req' = [req EXCEPT ![r] =
                  [method |-> method, id |-> p, at |-> FirstStep(method),
                   copy |-> NoTask, after |-> {q \in Ids : SendDone(q)}]]
    BY DEF Arrive
<1> DEFINE x == [method |-> method, id |-> p, at |-> FirstStep(method),
                 copy |-> NoTask, after |-> {q \in Ids : SendDone(q)}]
<1>2. FirstStep(method) \in {"check", "lookup", "guard"} /\ method \in AsksFor(FirstStep(method))
    BY DEF FirstStep, AsksFor
<1>3. {q \in Ids : SendDone(q)} \in SUBSET Ids
    OBVIOUS
<1>4. x \in Request
    BY <1>2, <1>3, TaskShape DEF Request
<1>5. /\ x.at \in {"check", "lookup", "guard"} /\ x.copy = NoTask
      /\ x.method \in AsksFor(x.at) /\ x.after = {q \in Ids : SendDone(q)}
    BY <1>2
<1>6. req \in [Requests -> Request] /\ req' = [req EXCEPT ![r] = x]
    BY <1>1 DEF TypeInv, TypeOK
<1> HIDE DEF x
<1>7. /\ req' \in [Requests -> Request] /\ req'[r] = x
      /\ \A q \in Requests : q # r => req'[q] = req[q]
    BY <1>4, <1>6
<1> QED
    BY <1>5, <1>7 DEF Arrive

LEMMA TypeArrive == ASSUME TypeInv, NEW r \in Requests, Arrive(r) PROVE TypeInv'
<1>1. /\ req[r].at = "unborn"
      /\ UNCHANGED <<harnessVars, tasks, cache, run, poller, holder, past>>
      /\ req' \in [Requests -> Request]
      /\ \A q \in Requests : q # r => req'[q] = req[q]
      /\ req'[r].at \in {"check", "lookup", "guard"} /\ req'[r].copy = NoTask
      /\ req'[r].method \in AsksFor(req'[r].at)
    BY ArriveEffect
<1>2. HarnessTypeOK' /\ HarnessInv' /\ PhaseInv'
    BY <1>1, HarnessKept DEF TypeInv, TypeOK
<1>3. TypeOK'
    BY <1>1, <1>2 DEF TypeInv, TypeOK
<1>4. RequestInv'
  <2>1. \A x : AsksFor(x)' = AsksFor(x)
      BY DEF AsksFor
  <2> QED
      BY <1>1, <2>1 DEF TypeInv, RequestInv
<1>5. LockInv'
    BY <1>1 DEF TypeInv, LockInv, harnessVars
<1> QED
    BY <1>2, <1>3, <1>4, <1>5 DEF TypeInv

\* The copy goes into the cache; a send of a task that goes on is polled for.
LEMMA FillEffect ==
    ASSUME TypeInv, NEW r \in Requests, Fill(r)
    PROVE  /\ UNCHANGED <<harnessVars, tasks, run, holder, past>>
           /\ req[r].at = "fill" /\ req[r].method \in {"send", "get", "cancel"}
           /\ req' = [req EXCEPT ![r] = Moved(r, "answered", NoTask)]
           /\ cache' = [cache EXCEPT ![req[r].id] = req[r].copy]
           /\ poller[r].at = "none" /\ poller' \in [Requests -> Poller]
           /\ \A q \in Requests : q # r => poller'[q] = poller[q]
           /\ poller'[r].copy = NoTask
           /\ poller'[r].at = IF req[r].method = "send" /\ ~ Terminal(req[r].copy)
                              THEN "check" ELSE "none"
<1>t. TypeOK /\ RequestInv
    BY DEF TypeInv
<1>1. req[r].at = "fill" /\ req[r].method \in {"send", "get", "cancel"}
    BY <1>t DEF Fill, RequestInv, AsksFor
<1>2. poller[r].at = "none" /\ poller[r].copy = NoTask /\ poller[r] \in Poller
    BY <1>t, <1>1 DEF RequestInv, TypeOK
<1>3. poller' = IF req[r].method = "send" /\ ~ Terminal(req[r].copy)
                THEN [poller EXCEPT ![r].at = "check"] ELSE poller
    BY DEF Fill
<1>4. PICK x : x = [poller[r] EXCEPT !.at = "check"]
    OBVIOUS
<1>5. x \in Poller /\ x.at = "check" /\ x.copy = NoTask
    BY <1>2, <1>4 DEF Poller
<1>6. \/ /\ req[r].method = "send" /\ ~ Terminal(req[r].copy) /\ poller' = [poller EXCEPT ![r] = x]
      \/ ~ (req[r].method = "send" /\ ~ Terminal(req[r].copy)) /\ poller' = poller
    BY <1>3, <1>4
<1>7. /\ poller' \in [Requests -> Poller]
      /\ \A q \in Requests : q # r => poller'[q] = poller[q]
      /\ poller'[r].copy = NoTask
      /\ poller'[r].at = IF req[r].method = "send" /\ ~ Terminal(req[r].copy)
                          THEN "check" ELSE "none"
    BY <1>2, <1>5, <1>6, <1>t DEF TypeOK
<1> QED
    BY <1>1, <1>2, <1>7, KeepMoves DEF Fill

LEMMA TypeFill == ASSUME TypeInv, NEW r \in Requests, Fill(r) PROVE TypeInv'
<1>t. TypeOK /\ RequestInv
    BY DEF TypeInv
<1>1. /\ UNCHANGED <<harnessVars, tasks, run, holder, past>>
      /\ req[r].at = "fill" /\ req[r].method \in {"send", "get", "cancel"}
      /\ req' = [req EXCEPT ![r] = Moved(r, "answered", NoTask)]
      /\ cache' = [cache EXCEPT ![req[r].id] = req[r].copy]
      /\ poller' \in [Requests -> Poller]
      /\ \A q \in Requests : q # r => poller'[q] = poller[q]
      /\ poller'[r].copy = NoTask /\ poller'[r].at \in {"none", "check"}
    BY FillEffect
<1>2. /\ req' \in [Requests -> Request]
      /\ \A q \in Requests : q # r => req'[q] = req[q]
      /\ req'[r].at = "answered" /\ req'[r].copy = NoTask /\ req'[r].method = req[r].method
    BY <1>t, <1>1, MovedShape, TaskShape
<1>3. cache' \in [Ids -> MaybeTask]
    BY <1>t, <1>1, RequestType DEF TypeOK
<1>4. HarnessTypeOK' /\ HarnessInv' /\ PhaseInv'
    BY <1>1, HarnessKept DEF TypeInv, TypeOK
<1>5. TypeOK'
    BY <1>1, <1>2, <1>3, <1>4, <1>t DEF TypeOK
<1>6. RequestInv'
  <2>1. (\A x : AsksFor(x)' = AsksFor(x)) /\ req[r].method \in AsksFor("answered")
      BY <1>1 DEF AsksFor
  <2> QED
      BY <1>1, <1>2, <1>t, <2>1 DEF RequestInv
<1>7. LockInv'
    BY <1>1 DEF TypeInv, LockInv, harnessVars
<1> QED
    BY <1>4, <1>5, <1>6, <1>7 DEF TypeInv

\* A step of a run: what it may do to its task, and to nothing else.
LEMMA RunEffect ==
    ASSUME TypeInv, NEW r \in Requests, RunStep(r)
    PROVE  /\ UNCHANGED <<req, cache, poller>>
           /\ run' \in [Requests -> Run] /\ run[r] # "none" /\ run'[r] # "none"
           /\ \A q \in Requests : q # r => run'[q] = run[q]
           /\ \/ UNCHANGED <<tasks, past>>
              \/ \E t \in MaybeTask :
                    /\ t # NoTask /\ Put(req[r].id, t)
                    /\ Complete(t)
<1>t. TypeOK
    BY DEF TypeInv
<1>1. UNCHANGED <<req, cache, poller>>
    BY DEF RunStep, Announce, Acquire, Execute, Drop, Die, Finish, Fail, Report
<1>2. \E from, to \in Run : At(r, from, to) /\ from # "none" /\ to # "none"
    BY DEF RunStep, Announce, Acquire, Execute, Drop, Die, Finish, Fail, Report, Run
<1>3. /\ run' \in [Requests -> Run] /\ run[r] # "none" /\ run'[r] # "none"
      /\ \A q \in Requests : q # r => run'[q] = run[q]
    BY <1>2, <1>t DEF At, TypeOK
<1>4. \/ UNCHANGED <<tasks, past>>
      \/ \E t \in MaybeTask :
            /\ t # NoTask /\ Put(req[r].id, t)
            /\ Complete(t)
  <2>1. CASE \E s \in {"working", "failed"} : Transition(req[r].id, s)
      BY <2>1, <1>t, TransitionShape, RequestType DEF Statuses, Ended, Complete
  <2>2. CASE Report(r)
    <3>1. run[r] \in {"completed", "failed"}
        BY <2>2 DEF Report, At
    <3>2. PICK t : t = [status |-> run[r], artifacts |-> TRUE]
        OBVIOUS
    <3>3. t \in MaybeTask /\ t # NoTask /\ Complete(t)
        BY <3>1, <3>2 DEF MaybeTask, Task, Statuses, Ended, NoTask, Complete
    <3> QED
        BY <2>2, <3>2, <3>3 DEF Report
  <2>3. CASE Acquire(r) \/ Drop(r) \/ Die(r) \/ Finish(r)
      BY <2>3 DEF Acquire, Drop, Die, Finish
  <2> QED
      BY <2>1, <2>2, <2>3 DEF RunStep, Announce, Execute, Fail
<1> QED
    BY <1>1, <1>3, <1>4

\* What a run does with the lock and the harness.
LEMMA RunLock ==
    ASSUME TypeInv, NEW r \in Requests, RunStep(r)
    PROVE  /\ HarnessInv' /\ PhaseInv'
           /\ \/ /\ UNCHANGED <<harnessVars, holder>>
                 /\ {run[r], run'[r]} \cap {"planning", "running"} = {}
                 /\ run[r] \in {"completed", "passed"} <=> run'[r] \in {"completed", "passed"}
              \/ /\ holder = Nobody /\ holder' = r /\ run[r] = "queued" /\ run'[r] = "planning"
                 /\ step = "free" /\ step' \in {"free", "planning"}
                 /\ step' = "free" => UNCHANGED state /\ ret' # "passed"
                 /\ step' # "free" => state # "done"
              \/ /\ holder = r /\ UNCHANGED holder /\ run[r] = "planning" /\ run'[r] = "running"
                 /\ step = "free" /\ step' \in {"free", "executing"}
                 /\ step' = "free" => UNCHANGED state /\ ret' # "passed"
                 /\ step' # "free" => state # "done"
              \/ /\ holder = r /\ holder' = Nobody /\ run[r] \in {"planning", "running"}
                 /\ step = "free" /\ UNCHANGED harnessVars
                 /\ \/ run'[r] \in {"broken", "failed", "died"}
                    \/ run'[r] = "completed" /\ ret = "passed"
<1>t. TypeOK /\ HarnessInv /\ PhaseInv /\ LockInv /\ HarnessTypeOK /\ run \in [Requests -> Run]
    BY DEF TypeInv, TypeOK
<1>k. UNCHANGED harnessVars => HarnessInv' /\ PhaseInv'
    BY <1>t, HarnessKept
<1>h. run[r] \in {"planning", "running"} => holder = r
    BY <1>t DEF LockInv
<1>1. CASE Announce(r) \/ Fail(r) \/ Report(r)
    BY <1>1, <1>k, <1>t DEF Announce, Fail, Report, At
<1>2. CASE Acquire(r)
  <2>1. PICK s \in Specs : LoadOrPlan(s, 1)
      BY <1>2 DEF Acquire
  <2>2. HarnessInv' /\ step' \in {"free", "planning"}
      BY <2>1, <1>t, PlanValues, LoadOrPlanKeeps
  <2>3. /\ PhaseInv'
        /\ \/ step' = "planning" /\ state # "done"
           \/ step' = "free" /\ UNCHANGED state /\ ret' \in {"planned", "error", "refused"}
      BY <2>1, LoadOrPlanMoves
  <2>4. step = "free"
      BY <2>1 DEF LoadOrPlan
  <2>5. holder = Nobody /\ holder' = r /\ run[r] = "queued" /\ run'[r] = "planning"
      BY <1>2, <1>t DEF Acquire, At
  <2> QED
      BY <2>2, <2>3, <2>4, <2>5
<1>3. CASE Execute(r)
  <2>1. step = "free" /\ ret = "planned" /\ RunWith(job, plan) /\ UNCHANGED holder
      BY <1>3 DEF Execute
  <2>2. job \in [spec : Specs, rev : Revisions] /\ plan \in Revisions
      BY <2>1, <1>t DEF HarnessTypeOK, HarnessInv, ReturnInv
  <2>3. HarnessInv' /\ step' \in {"free", "executing"}
      BY <2>1, <2>2, <1>t, RunWithKeeps
  <2>4. /\ PhaseInv'
        /\ \/ step' = "executing" /\ state # "done"
           \/ step' = "free" /\ UNCHANGED state /\ ret' = "refused"
      BY <2>1, RunWithMoves
  <2>5. run[r] = "planning" /\ run'[r] = "running"
      BY <1>3, <1>t DEF Execute, At
  <2> QED
      BY <2>1, <2>3, <2>4, <2>5, <1>h
<1>4. CASE Drop(r) \/ Die(r) \/ Finish(r)
  <2>1. /\ step = "free" /\ UNCHANGED harnessVars /\ holder' = Nobody
        /\ run[r] \in {"planning", "running"}
        /\ \/ run'[r] \in {"broken", "failed", "died"}
           \/ run'[r] = "completed" /\ ret = "passed"
      BY <1>4, <1>t DEF Drop, Die, Finish, At
  <2> QED
      BY <2>1, <1>k, <1>h
<1> QED
    BY <1>1, <1>2, <1>3, <1>4 DEF RunStep

LEMMA TypeRun == ASSUME TypeInv, NEW r \in Requests, RunStep(r) PROVE TypeInv'
<1>t. TypeOK /\ RequestInv /\ LockInv
    BY DEF TypeInv
<1>1. /\ UNCHANGED <<req, cache, poller>>
      /\ run' \in [Requests -> Run] /\ run[r] # "none"
      /\ \A q \in Requests : q # r => run'[q] = run[q]
    BY RunEffect
<1>2. tasks' \in [Ids -> MaybeTask] /\ past' \in [Ids -> SUBSET Statuses]
  <2>1. CASE UNCHANGED <<tasks, past>>
      BY <2>1, <1>t DEF TypeOK
  <2>2. CASE \E t \in MaybeTask : t # NoTask /\ Put(req[r].id, t)
      BY <2>2, <1>t, PutShape, RequestType
  <2> QED
      BY <2>1, <2>2, RunEffect
<1>3. HarnessInv' /\ PhaseInv' /\ HarnessTypeOK'
    BY RunLock DEF HarnessInv
<1>4. Nobody \notin Requests
    BY DEF Nobody, Requests
<1>5. LockInv' /\ holder' \in Requests \cup {Nobody}
  <2>1. CASE /\ UNCHANGED <<harnessVars, holder>>
             /\ {run[r], run'[r]} \cap {"planning", "running"} = {}
    <3>1. \A q \in Requests : run'[q] # run[q] =>
              run[q] \notin {"planning", "running"} /\ run'[q] \notin {"planning", "running"}
        BY <1>1, <2>1
    <3> QED
        BY <2>1, <3>1, <1>t DEF LockInv, harnessVars, TypeOK
  <2>2. CASE /\ holder = Nobody /\ holder' = r /\ run[r] = "queued" /\ run'[r] = "planning"
             /\ step' \in {"free", "planning"}
      BY <2>2, <1>1, <1>4, <1>t DEF LockInv
  <2>3. CASE /\ holder = r /\ UNCHANGED holder /\ run[r] = "planning" /\ run'[r] = "running"
             /\ step' \in {"free", "executing"}
      BY <2>3, <1>1, <1>4, <1>t DEF LockInv
  <2>4. CASE /\ holder = r /\ holder' = Nobody
             /\ step = "free" /\ UNCHANGED harnessVars
             /\ run'[r] \in {"broken", "failed", "died", "completed"}
      BY <2>4, <1>1, <1>4, <1>t DEF LockInv, harnessVars
  <2> QED
      BY <2>1, <2>2, <2>3, <2>4, RunLock
<1>6. TypeOK'
    BY <1>1, <1>2, <1>3, <1>5, <1>t DEF TypeOK
<1>7. RequestInv'
  <2>1. \A x : AsksFor(x)' = AsksFor(x)
      BY DEF AsksFor
  <2> QED
      BY <1>1, <2>1, <1>t DEF RequestInv
<1> QED
    BY <1>3, <1>5, <1>6, <1>7 DEF TypeInv

\* A step of a poller: it copies a task, or puts its copy into the cache.
LEMMA PollEffect ==
    ASSUME TypeInv, NEW r \in Requests, Poll(r)
    PROVE  /\ UNCHANGED <<harnessVars, tasks, req, run, holder, past>>
           /\ poller' \in [Requests -> Poller] /\ poller[r].at # "none"
           /\ \A q \in Requests : q # r => poller'[q] = poller[q]
           /\ \/ /\ poller[r].at \in {"check", "fetch"} /\ UNCHANGED cache
                 /\ \/ poller'[r].at \in {"gave_up", "fetch"} /\ poller'[r].copy = NoTask
                    \/ /\ poller'[r].at = "stopped" /\ poller'[r].copy = NoTask
                       /\ Terminal(cache[req[r].id])
                    \/ poller'[r].at = "fill" /\ poller'[r].copy = tasks[req[r].id]
              \/ /\ poller[r].at = "fill" /\ poller'[r].copy = NoTask
                 /\ cache' = [cache EXCEPT ![req[r].id] = poller[r].copy]
                 /\ \/ poller'[r].at = "stopped" /\ Terminal(poller[r].copy)
                    \/ poller'[r].at = "check"
           /\ poller'[r].at \in {"fetch", "fill"} => poller'[r].polls < MaxPolls
<1>t. TypeOK /\ RequestInv
    BY DEF TypeInv
<1>p. /\ poller \in [Requests -> Poller] /\ poller[r] \in Poller
      /\ poller[r].polls \in 0 .. MaxPolls /\ tasks[req[r].id] \in MaybeTask
    BY <1>t, RequestType DEF TypeOK
<1>i. \A at \in {"stopped", "gave_up"} :
        PollerAt(at) \in Poller /\ PollerAt(at).at = at /\ PollerAt(at).copy = NoTask
    BY TaskShape DEF PollerAt, Poller
<1>q. /\ poller[r].at # "fill" => poller[r].copy = NoTask
      /\ poller[r].at \in {"fetch", "fill"} => poller[r].polls < MaxPolls
    BY <1>t DEF RequestInv
<1>1. CASE PollCheck(r)
  <2>1. PICK x : x = IF poller[r].polls = MaxPolls THEN PollerAt("gave_up")
                     ELSE IF Terminal(cache[req[r].id]) THEN PollerAt("stopped")
                     ELSE [poller[r] EXCEPT !.at = "fetch"]
      OBVIOUS
  <2>2. /\ poller[r].at = "check" /\ poller' = [poller EXCEPT ![r] = x]
        /\ UNCHANGED <<harnessVars, tasks, cache, req, run, holder, past>>
      BY <1>1, <2>1, <1>p DEF PollCheck
  <2>3. CASE poller[r].polls = MaxPolls
      BY <1>p, <1>i, <2>1, <2>2, <2>3
  <2>4. CASE poller[r].polls # MaxPolls /\ Terminal(cache[req[r].id])
      BY <1>p, <1>i, <2>1, <2>2, <2>4
  <2>5. CASE poller[r].polls # MaxPolls /\ ~ Terminal(cache[req[r].id])
    <3>1. x = [poller[r] EXCEPT !.at = "fetch"]
        BY <2>1, <2>5
    <3>2. x \in Poller /\ x.at = "fetch" /\ x.copy = NoTask /\ x.polls = poller[r].polls
        BY <3>1, <1>p, <1>q, <2>2 DEF Poller
    <3>3. x.polls < MaxPolls
        BY <3>2, <1>p, <2>5
    <3> QED
        BY <1>p, <2>2, <3>2, <3>3
  <2> QED
      BY <2>3, <2>4, <2>5
<1>2. CASE PollFetch(r)
  <2>1. PICK x : x = [poller[r] EXCEPT !.at = "fill", !.copy = tasks[req[r].id]]
      OBVIOUS
  <2>2. /\ poller[r].at = "fetch" /\ poller' = [poller EXCEPT ![r] = x]
        /\ UNCHANGED <<harnessVars, tasks, cache, req, run, holder, past>>
      BY <1>2, <2>1, <1>p DEF PollFetch
  <2>3. /\ x \in Poller /\ x.at = "fill" /\ x.copy = tasks[req[r].id]
        /\ x.polls = poller[r].polls
      BY <2>1, <1>p DEF Poller
  <2> QED
      BY <1>p, <1>q, <2>2, <2>3
<1>3. CASE PollFill(r)
  <2>1. PICK x : x = IF Terminal(poller[r].copy) THEN PollerAt("stopped")
                     ELSE [at |-> "check", copy |-> NoTask, polls |-> poller[r].polls + 1]
      OBVIOUS
  <2>2. /\ poller[r].at = "fill" /\ poller' = [poller EXCEPT ![r] = x]
        /\ UNCHANGED <<harnessVars, tasks, req, run, holder, past>>
        /\ cache' = [cache EXCEPT ![req[r].id] = poller[r].copy]
      BY <1>3, <2>1, <1>p DEF PollFill
  <2>3. poller[r].polls + 1 \in 0 .. MaxPolls
      BY <1>p, <1>q, <2>2
  <2>4. /\ x \in Poller /\ x.copy = NoTask
        /\ (x.at = "stopped" /\ Terminal(poller[r].copy)) \/ x.at = "check"
      BY <2>1, <2>3, <1>i, TaskShape DEF Poller
  <2> QED
      BY <1>p, <2>2, <2>4
<1> QED
    BY <1>1, <1>2, <1>3 DEF Poll

LEMMA TypePoll == ASSUME TypeInv, NEW r \in Requests, Poll(r) PROVE TypeInv'
<1>t. TypeOK /\ RequestInv
    BY DEF TypeInv
<1>1. /\ UNCHANGED <<harnessVars, tasks, req, run, holder, past>>
      /\ poller' \in [Requests -> Poller] /\ poller[r].at # "none"
      /\ \A q \in Requests : q # r => poller'[q] = poller[q]
      /\ poller'[r].at # "fill" => poller'[r].copy = NoTask
      /\ poller'[r].at \in {"fetch", "fill"} => poller'[r].polls < MaxPolls
      /\ cache' = cache \/ cache' = [cache EXCEPT ![req[r].id] = poller[r].copy]
    BY PollEffect
<1>2. cache' \in [Ids -> MaybeTask]
    BY <1>t, <1>1, RequestType DEF TypeOK
<1>3. HarnessTypeOK' /\ HarnessInv' /\ PhaseInv'
    BY <1>1, HarnessKept DEF TypeInv, TypeOK
<1>4. TypeOK'
    BY <1>1, <1>2, <1>3, <1>t DEF TypeOK
<1>5. RequestInv'
  <2>1. \A x : AsksFor(x)' = AsksFor(x)
      BY DEF AsksFor
  <2> QED
      BY <1>1, <1>t, <2>1 DEF RequestInv
<1>6. LockInv'
    BY <1>1 DEF TypeInv, LockInv, harnessVars
<1> QED
    BY <1>3, <1>4, <1>5, <1>6 DEF TypeInv

LEMMA TypeWork == ASSUME TypeInv, Work PROVE TypeInv' /\ holder # Nobody /\ state # "done"
<1>t. TypeOK /\ RequestInv /\ LockInv /\ HarnessInv /\ PhaseInv
    BY DEF TypeInv
<1>1. HarnessStep /\ UNCHANGED serverVars
    BY DEF Work
<1>2. HarnessInv' /\ step # "free" /\ HarnessTypeOK'
    BY <1>1, <1>t, HarnessStepKeeps DEF HarnessInv
<1>3. /\ PhaseInv' /\ state # "done"
      /\ step \in {"planning", "saving"} => step' \in {"free", "saving"}
      /\ step \in {"executing", "verifying"} => step' \in {"free", "verifying"}
    BY <1>1, <1>t, HarnessStepMoves
<1>4. TypeOK'
    BY <1>1, <1>2, <1>t DEF TypeOK, serverVars
<1>5. RequestInv'
  <2>1. \A x : AsksFor(x)' = AsksFor(x)
      BY DEF AsksFor
  <2> QED
      BY <1>1, <1>t, <2>1 DEF RequestInv, serverVars
<1>6. LockInv' /\ holder # Nobody
    BY <1>1, <1>2, <1>3, <1>t DEF LockInv, serverVars
<1> QED
    BY <1>2, <1>3, <1>4, <1>5, <1>6 DEF TypeInv

LEMMA TypeStutter == ASSUME TypeInv, UNCHANGED vars PROVE TypeInv'
<1>1. HarnessTypeOK' /\ HarnessInv' /\ PhaseInv'
    BY HarnessKept DEF TypeInv, TypeOK, vars
<1>2. TypeOK'
    BY <1>1 DEF TypeInv, TypeOK, vars, serverVars
<1>3. RequestInv' /\ LockInv'
    BY DEF TypeInv, RequestInv, AsksFor, LockInv, vars, serverVars, harnessVars
<1> QED
    BY <1>1, <1>2, <1>3 DEF TypeInv
-----------------------------------------------------------------------------
\* Reports: what comes into a map or a copy is honest, and past only grows.
LEMMA HonestInit == Init => HonestInv
<1> SUFFICES ASSUME Init PROVE HonestInv
    OBVIOUS
<1>1. \A r \in Requests : req[r].copy = NoTask
    BY DEF Init
<1> QED
    BY <1>1, TaskShape DEF Init, HonestInv, Honest, Complete

LEMMA HonestStep ==
    ASSUME TypeInv, HonestInv, [Next]_vars
    PROVE  HonestInv'
<1>t. TypeOK /\ RequestInv
    BY DEF TypeInv
<1>n. \A p : Honest(p, NoTask) /\ Honest(p, NoTask)'
    BY TaskShape DEF Honest, Complete
<1>1. ASSUME NEW r \in Requests, Quiet(r) PROVE HonestInv'
  <2>1. UNCHANGED <<tasks, cache, poller, past>>
      BY <1>1, QuietEffect
  <2>2. PICK task \in MaybeTask, at \in {"create", "fetch", "cancel", "fill", "answered", "error"} :
          /\ req' = [req EXCEPT ![r] = Moved(r, at, task)]
          /\ task \in {NoTask, tasks[req[r].id]}
      BY <1>1, QuietEffect
  <2>3. /\ \A q \in Requests : q # r => req'[q] = req[q]
        /\ req'[r].copy = task /\ req'[r].id = req[r].id
      BY <1>t, <2>2, MovedShape
  <2>4. req[r].id \in Ids
      BY <1>t, RequestType
  <2> QED
      BY <2>1, <2>2, <2>3, <2>4, <1>n DEF HonestInv, Honest, Complete
<1>2. ASSUME NEW r \in Requests, NEW t \in MaybeTask, Put(req[r].id, t), t # NoTask,
             Complete(t), UNCHANGED <<cache, poller>>,
             \A q \in Requests : req'[q].id = req[q].id,
             \A q \in Requests : q # r => req'[q] = req[q],
             req'[r].copy \in {req[r].copy, t}
      PROVE  HonestInv'
  <2>1. req[r].id \in Ids /\ \A q \in Requests : req[q].id \in Ids
      BY <1>t, RequestType
  <2>2. /\ tasks'[req[r].id] = t /\ t.status \in past'[req[r].id]
        /\ \A q \in Ids : /\ q # req[r].id => tasks'[q] = tasks[q]
                          /\ past[q] \subseteq past'[q]
      BY <1>t, <1>2, <2>1, PutShape
  <2>3. ASSUME NEW p \in Ids, NEW x, Honest(p, x)
        PROVE  /\ x # NoTask => x.status \in past'[p]
               /\ Complete(x)
      BY <2>2, <2>3 DEF Honest
  <2>4. \A p \in Ids : /\ tasks'[p] # NoTask => tasks'[p].status \in past'[p]
                       /\ Complete(tasks'[p])
      BY <1>2, <2>2, <2>3 DEF HonestInv
  <2>5. \A q \in Requests : /\ req'[q].copy # NoTask => req'[q].copy.status \in past'[req'[q].id]
                            /\ Complete(req'[q].copy)
    <3> SUFFICES ASSUME NEW q \in Requests
                 PROVE  /\ req'[q].copy # NoTask => req'[q].copy.status \in past'[req[q].id]
                        /\ Complete(req'[q].copy)
        BY <1>2
    <3>1. CASE req'[q].copy = req[q].copy
        BY <2>1, <2>3, <3>1 DEF HonestInv
    <3>2. CASE q = r /\ req'[q].copy = t
        BY <1>2, <2>2, <3>2
    <3> QED
        BY <1>2, <3>1, <3>2
  <2>6. \A q \in Requests :
          /\ poller[q].copy # NoTask => poller[q].copy.status \in past'[req'[q].id]
          /\ Complete(poller[q].copy)
      BY <1>2, <2>1, <2>3 DEF HonestInv
  <2>7. \A p \in Ids : /\ cache[p] # NoTask => cache[p].status \in past'[p]
                       /\ Complete(cache[p])
      BY <2>3 DEF HonestInv
  <2> QED
      BY <1>2, <2>4, <2>5, <2>6, <2>7 DEF HonestInv, Honest
<1>3. ASSUME NEW r \in Requests, SendCreate(r) \/ (CancelTask(r) /\ ~ NotCancelable(req[r].id))
      PROVE  HonestInv'
  <2>1. PICK task \in MaybeTask :
          /\ task # NoTask /\ task.status # "completed" /\ Put(req[r].id, task)
          /\ req' = [req EXCEPT ![r] = Moved(r, "fill", task)]
          /\ UNCHANGED <<cache, poller>>
      BY <1>3, TaskEffect
  <2>2. /\ \A q \in Requests : q # r => req'[q] = req[q]
        /\ req'[r].copy = task /\ \A q \in Requests : req'[q].id = req[q].id
      BY <1>t, <2>1, MovedShape
  <2>3. Complete(task)
      BY <2>1 DEF Complete
  <2> QED
      BY <1>2, <2>1, <2>2, <2>3
<1>4. ASSUME NEW r \in Requests, Arrive(r) PROVE HonestInv'
  <2>1. /\ req[r].at = "unborn" /\ UNCHANGED <<tasks, cache, poller, past>>
        /\ \A q \in Requests : q # r => req'[q] = req[q]
        /\ req'[r].copy = NoTask
      BY <1>4, ArriveEffect
  <2>2. poller[r].copy = NoTask
      BY <1>t, <2>1 DEF RequestInv
  <2> QED
      BY <2>1, <2>2, TaskShape DEF HonestInv, Honest, Complete
<1>5. ASSUME NEW r \in Requests, Fill(r) PROVE HonestInv'
  <2>1. /\ UNCHANGED <<tasks, past>>
        /\ req' = [req EXCEPT ![r] = Moved(r, "answered", NoTask)]
        /\ cache' = [cache EXCEPT ![req[r].id] = req[r].copy]
        /\ poller[r].at = "none"
        /\ \A q \in Requests : q # r => poller'[q] = poller[q]
        /\ poller'[r].copy = NoTask
      BY <1>5, FillEffect
  <2>2. /\ \A q \in Requests : q # r => req'[q] = req[q]
        /\ req'[r].copy = NoTask /\ \A q \in Requests : req'[q].id = req[q].id
      BY <1>t, <2>1, MovedShape, TaskShape
  <2>3. /\ cache'[req[r].id] = req[r].copy
        /\ \A p \in Ids : p # req[r].id => cache'[p] = cache[p]
      BY <1>t, <2>1, RequestType DEF TypeOK
  <2> QED
      BY <2>1, <2>2, <2>3, TaskShape DEF HonestInv, Honest, Complete
<1>6. ASSUME NEW r \in Requests, RunStep(r) PROVE HonestInv'
  <2>1. UNCHANGED <<req, cache, poller>>
      BY <1>6, RunEffect
  <2>2. CASE UNCHANGED <<tasks, past>>
      BY <2>1, <2>2 DEF HonestInv, Honest, Complete
  <2>3. CASE \E t \in MaybeTask : t # NoTask /\ Put(req[r].id, t) /\ Complete(t)
    <3>1. PICK t \in MaybeTask : t # NoTask /\ Put(req[r].id, t) /\ Complete(t)
        BY <2>3
    <3>2. /\ \A q \in Requests : req'[q].id = req[q].id
          /\ \A q \in Requests : q # r => req'[q] = req[q]
          /\ req'[r].copy \in {req[r].copy, t} /\ UNCHANGED <<cache, poller>>
        BY <2>1
    <3> QED
        BY <1>2, <3>1, <3>2
  <2> QED
      BY <1>6, <2>2, <2>3, RunEffect
<1>7. ASSUME NEW r \in Requests, Poll(r) PROVE HonestInv'
  <2>1. /\ UNCHANGED <<tasks, req, past>>
        /\ \A q \in Requests : q # r => poller'[q] = poller[q]
        /\ poller'[r].copy \in {NoTask, tasks[req[r].id]}
        /\ cache' = cache \/ cache' = [cache EXCEPT ![req[r].id] = poller[r].copy]
      BY <1>7, PollEffect
  <2>2. \A p \in Ids : cache'[p] = cache[p] \/ (p = req[r].id /\ cache'[p] = poller[r].copy)
      BY <1>t, <2>1 DEF TypeOK
  <2>3. req[r].id \in Ids
      BY <1>t, RequestType
  <2> QED
      BY <2>1, <2>2, <2>3, TaskShape DEF HonestInv, Honest, Complete
<1>8. CASE Work \/ UNCHANGED vars
    BY <1>8 DEF Work, vars, serverVars, HonestInv, Honest
<1> QED
    BY <1>1, <1>3, <1>4, <1>5, <1>6, <1>7, <1>8 DEF Next, Serve, Quiet
-----------------------------------------------------------------------------
\* Retries: tasks are never removed, so an id that was answered has one.
LEMMA RetryStep ==
    ASSUME TypeInv, RetryInv, [Next]_vars
    PROVE  RetryInv'
<1>t. TypeOK /\ RequestInv
    BY DEF TypeInv
<1>i. \A q \in Requests : req[q].id \in Ids /\ req[q].after \subseteq Ids
    BY <1>t, RequestType
<1>1. ASSUME NEW r \in Requests, Quiet(r) PROVE RetryInv'
  <2>1. UNCHANGED <<tasks, run>>
      BY <1>1, QuietEffect
  <2>2. PICK task \in MaybeTask, at \in {"create", "fetch", "cancel", "fill", "answered", "error"} :
          /\ req' = [req EXCEPT ![r] = Moved(r, at, task)]
          /\ at = "fill" => tasks[req[r].id] # NoTask
          /\ at = "create" => tasks[req[r].id] = NoTask
          /\ at = "answered" => req[r].method = "get"
      BY <1>1, QuietEffect
  <2>3. /\ \A q \in Requests : q # r => req'[q] = req[q]
        /\ req'[r].at = at
        /\ \A q \in Requests : /\ req'[q].method = req[q].method
                              /\ req'[q].id = req[q].id /\ req'[q].after = req[q].after
      BY <1>t, <2>2, MovedShape
  <2> QED
      BY <2>1, <2>2, <2>3 DEF RetryInv
<1>2. ASSUME NEW r \in Requests, SendCreate(r) \/ (CancelTask(r) /\ ~ NotCancelable(req[r].id))
      PROVE  RetryInv'
  <2>1. PICK task \in MaybeTask :
          /\ task # NoTask /\ Put(req[r].id, task)
          /\ req' = [req EXCEPT ![r] = Moved(r, "fill", task)]
          /\ \/ req[r].at = "create" /\ run' = [run EXCEPT ![r] = "start"]
             \/ req[r].at = "cancel" /\ UNCHANGED run
      BY <1>2, TaskEffect
  <2>2. /\ \A q \in Requests : q # r => req'[q] = req[q]
        /\ req'[r].at = "fill"
        /\ \A q \in Requests : /\ req'[q].method = req[q].method
                              /\ req'[q].id = req[q].id /\ req'[q].after = req[q].after
      BY <1>t, <2>1, MovedShape
  <2>3. \A p \in Ids : tasks'[p] = tasks[p] \/ tasks'[p] # NoTask
      BY <1>i, <1>t, <2>1, PutShape
  <2>4. tasks'[req[r].id] # NoTask
      BY <1>i, <1>t, <2>1, PutShape
  <2>5. \A q \in Requests : run'[q] # "none" => run[q] # "none" \/ (q = r /\ req[r].at = "create")
      BY <1>t, <2>1 DEF TypeOK
  <2> QED
      BY <1>i, <2>2, <2>3, <2>4, <2>5 DEF RetryInv
<1>3. ASSUME NEW r \in Requests, Arrive(r) PROVE RetryInv'
  <2>1. /\ req[r].at = "unborn" /\ UNCHANGED <<tasks, run>>
        /\ \A q \in Requests : q # r => req'[q] = req[q]
        /\ req'[r].at \in {"check", "lookup", "guard"}
        /\ req'[r].after = {q \in Ids : SendDone(q)}
      BY <1>3, ArriveEffect
  <2>2. run[r] = "none"
      BY <1>t, <2>1 DEF RequestInv
  <2>3. \A p \in req'[r].after : tasks[p] # NoTask
      BY <2>1 DEF SendDone, RetryInv
  <2> QED
      BY <2>1, <2>2, <2>3 DEF RetryInv
<1>4. ASSUME NEW r \in Requests, Fill(r) PROVE RetryInv'
  <2>1. /\ UNCHANGED <<tasks, run>> /\ req[r].at = "fill"
        /\ req' = [req EXCEPT ![r] = Moved(r, "answered", NoTask)]
      BY <1>4, FillEffect
  <2>2. /\ \A q \in Requests : q # r => req'[q] = req[q]
        /\ req'[r].at = "answered"
        /\ \A q \in Requests : /\ req'[q].method = req[q].method
                              /\ req'[q].id = req[q].id /\ req'[q].after = req[q].after
      BY <1>t, <2>1, MovedShape, TaskShape
  <2> QED
      BY <2>1, <2>2 DEF RetryInv
<1>5. ASSUME NEW r \in Requests, RunStep(r) PROVE RetryInv'
  <2>1. /\ UNCHANGED req /\ run[r] # "none"
        /\ \A q \in Requests : q # r => run'[q] = run[q]
      BY <1>5, RunEffect
  <2>2. \A p \in Ids : tasks'[p] = tasks[p] \/ tasks'[p] # NoTask
    <3>1. CASE \E t \in MaybeTask : t # NoTask /\ Put(req[r].id, t)
        BY <3>1, <1>i, <1>t, PutShape
    <3> QED
        BY <3>1, <1>5, RunEffect
  <2> QED
      BY <1>i, <2>1, <2>2 DEF RetryInv
<1>6. CASE Work \/ UNCHANGED vars \/ \E r \in Requests : Poll(r)
    BY <1>6, PollEffect DEF Work, vars, serverVars, RetryInv
<1> QED
    BY <1>1, <1>2, <1>3, <1>4, <1>5, <1>6 DEF Next, Serve, Quiet
-----------------------------------------------------------------------------
\* Successes: the harness accepts no call at Done, so the run that took it there
\* is the last one that can pass.
LEMMA SuccessStep ==
    ASSUME TypeInv, SuccessInv, [Next]_vars
    PROVE  SuccessInv'
<1>t. TypeOK /\ RequestInv /\ PhaseInv /\ LockInv
    BY DEF TypeInv
<1>0. ASSUME UNCHANGED <<harnessVars, holder>>, Succeeded' = Succeeded
      PROVE  SuccessInv'
    BY <1>0 DEF SuccessInv, harnessVars
<1>1. ASSUME NEW r \in Requests, Quiet(r) \/ Arrive(r) \/ Fill(r) \/ Poll(r)
      PROVE  SuccessInv'
  <2>1. UNCHANGED <<harnessVars, holder, run>>
      BY <1>1, QuietEffect, ArriveEffect, FillEffect, PollEffect
  <2> QED
      BY <1>0, <2>1 DEF Succeeded
<1>2. ASSUME NEW r \in Requests, SendCreate(r) \/ (CancelTask(r) /\ ~ NotCancelable(req[r].id))
      PROVE  SuccessInv'
  <2>1. /\ UNCHANGED <<harnessVars, holder>>
        /\ \/ req[r].at = "create" /\ run' = [run EXCEPT ![r] = "start"]
           \/ UNCHANGED run
      BY <1>2, TaskEffect
  <2>2. req[r].at = "create" => run[r] = "none"
      BY <1>t DEF RequestInv
  <2>3. \A q \in Requests : run'[q] \in {"completed", "passed"} <=> run[q] \in {"completed", "passed"}
      BY <2>1, <2>2, <1>t DEF TypeOK
  <2> QED
      BY <1>0, <2>1, <2>3 DEF Succeeded
<1>3. ASSUME NEW r \in Requests, RunStep(r) PROVE SuccessInv'
  <2>1. \A q \in Requests : q # r => run'[q] = run[q]
      BY <1>3, RunEffect
  <2>n. Nobody \notin Requests
      BY DEF Nobody, Requests
  <2>2. CASE /\ UNCHANGED <<harnessVars, holder>>
             /\ run[r] \in {"completed", "passed"} <=> run'[r] \in {"completed", "passed"}
    <3>1. Succeeded' = Succeeded
        BY <2>1, <2>2 DEF Succeeded
    <3> QED
        BY <1>0, <2>2, <3>1
  <2>3. CASE /\ run[r] \in {"queued", "planning"} /\ run'[r] \in {"planning", "running"}
             /\ step' = "free" => UNCHANGED state /\ ret' # "passed"
             /\ step' # "free" => state # "done"
    <3>1. Succeeded' = Succeeded
        BY <2>1, <2>3 DEF Succeeded
    <3> QED
        BY <2>3, <3>1 DEF SuccessInv
  <2>4. CASE /\ holder = r /\ holder' = Nobody /\ run[r] \in {"planning", "running"}
             /\ step = "free" /\ UNCHANGED harnessVars
             /\ \/ run'[r] \in {"broken", "failed", "died"}
                \/ run'[r] = "completed" /\ ret = "passed"
    <3>1. CASE run'[r] \in {"broken", "failed", "died"}
      <4>1. Succeeded' = Succeeded
          BY <2>1, <2>4, <3>1 DEF Succeeded
      <4> QED
          BY <2>4, <4>1 DEF SuccessInv, harnessVars
    <3>2. CASE run'[r] = "completed" /\ ret = "passed"
      <4>1. Succeeded = {} /\ state = "done"
          BY <2>4, <2>n, <3>2 DEF SuccessInv
      <4>2. Succeeded' = {r}
          BY <2>1, <3>2, <4>1 DEF Succeeded
      <4> QED
          BY <2>4, <4>1, <4>2 DEF SuccessInv, harnessVars
    <3> QED
        BY <2>4, <3>1, <3>2
  <2> QED
      BY <1>3, <2>2, <2>3, <2>4, RunLock
<1>4. CASE Work
  <2>1. state # "done" /\ UNCHANGED run
      BY <1>4, TypeWork DEF Work, serverVars
  <2>2. step' = "free" /\ ret' = "passed" => state' = "done"
      BY <1>4, <1>t, HarnessStepMoves DEF Work
  <2>3. Succeeded = {} /\ Succeeded' = {}
      BY <2>1 DEF SuccessInv, Succeeded
  <2> QED
      BY <2>2, <2>3 DEF SuccessInv
<1>5. CASE UNCHANGED vars
    BY <1>0, <1>5 DEF vars, serverVars, Succeeded
<1> QED
    BY <1>1, <1>2, <1>3, <1>4, <1>5 DEF Next, Serve, Quiet
-----------------------------------------------------------------------------
\* The cache: what a send puts there is polled for until it has ended.
LEMMA StaleStep ==
    ASSUME TypeInv, StaleInv, [Next]_vars
    PROVE  StaleInv'
<1>t. TypeOK /\ RequestInv
    BY DEF TypeInv
<1>1. ASSUME UNCHANGED cache,
             \A q \in Requests : Watches(q) => req'[q].id = req[q].id /\ Watches(q)'
      PROVE  StaleInv'
    BY <1>1 DEF StaleInv
<1>2. ASSUME NEW r \in Requests,
             Quiet(r) \/ SendCreate(r) \/ (CancelTask(r) /\ ~ NotCancelable(req[r].id))
      PROVE  StaleInv'
  <2>1. UNCHANGED <<cache, poller>>
      BY <1>2, QuietEffect, TaskEffect
  <2>2. PICK task \in MaybeTask, at \in {"create", "fetch", "cancel", "fill", "answered", "error"} :
          req' = [req EXCEPT ![r] = Moved(r, at, task)] /\ req[r].at # "answered"
      BY <1>2, QuietEffect, TaskEffect
  <2>3. /\ \A q \in Requests : q # r => req'[q] = req[q]
        /\ \A q \in Requests : req'[q].id = req[q].id
      BY <1>t, <2>2, MovedShape
  <2> QED
      BY <1>1, <2>1, <2>2, <2>3 DEF Watches
<1>3. ASSUME NEW r \in Requests, Arrive(r) PROVE StaleInv'
  <2>1. /\ req[r].at = "unborn" /\ UNCHANGED <<cache, poller>>
        /\ \A q \in Requests : q # r => req'[q] = req[q]
      BY <1>3, ArriveEffect
  <2>2. ~ Watches(r)
      BY <1>t, <2>1 DEF RequestInv, Watches
  <2> QED
      BY <1>1, <2>1, <2>2 DEF Watches
<1>4. ASSUME NEW r \in Requests, Fill(r) PROVE StaleInv'
  <2>1. /\ req[r].at = "fill" /\ req[r].method \in {"send", "get", "cancel"}
        /\ req' = [req EXCEPT ![r] = Moved(r, "answered", NoTask)]
        /\ cache' = [cache EXCEPT ![req[r].id] = req[r].copy]
        /\ poller[r].at = "none"
        /\ \A q \in Requests : q # r => poller'[q] = poller[q]
        /\ req[r].method = "send" /\ ~ Terminal(req[r].copy) => poller'[r].at = "check"
      BY <1>4, FillEffect
  <2>2. /\ \A q \in Requests : q # r => req'[q] = req[q]
        /\ req'[r].at = "answered"
        /\ \A q \in Requests : req'[q].id = req[q].id /\ req'[q].method = req[q].method
      BY <1>t, <2>1, MovedShape, TaskShape
  <2>3. /\ cache'[req[r].id] = req[r].copy
        /\ \A p \in Ids : p # req[r].id => cache'[p] = cache[p]
      BY <1>t, <2>1, RequestType DEF TypeOK
  <2>4. \A q \in Requests : Watches(q) => Watches(q)'
      BY <2>1, <2>2 DEF Watches
  <2>5. Terminal(req[r].copy) \/ Watches(r)'
    <3>1. req[r].method = "cancel" => Terminal(req[r].copy)
        BY <1>t, <2>1 DEF RequestInv, Terminal, Ended
    <3> QED
        BY <2>1, <2>2, <3>1 DEF Watches
  <2> SUFFICES ASSUME NEW p \in Ids
               PROVE  \/ cache'[p] = NoTask \/ Terminal(cache'[p])
                      \/ \E q \in Requests : req'[q].id = p /\ Watches(q)'
      BY DEF StaleInv, Terminal
  <2>6. CASE p = req[r].id
      BY <2>2, <2>3, <2>5, <2>6
  <2>7. CASE p # req[r].id
      BY <2>2, <2>3, <2>4, <2>7 DEF StaleInv
  <2> QED
      BY <2>6, <2>7
<1>5. ASSUME NEW r \in Requests, Poll(r) PROVE StaleInv'
  <2>1. /\ UNCHANGED req
        /\ \A q \in Requests : q # r => poller'[q] = poller[q]
      BY <1>5, PollEffect
  <2>2. \/ /\ UNCHANGED cache
           /\ \/ poller'[r].at \in {"gave_up", "fetch", "fill"}
              \/ poller'[r].at = "stopped" /\ Terminal(cache[req[r].id])
        \/ /\ cache' = [cache EXCEPT ![req[r].id] = poller[r].copy]
           /\ \/ poller'[r].at = "stopped" /\ Terminal(poller[r].copy)
              \/ poller'[r].at = "check"
      BY <1>5, PollEffect
  <2>3. \A p \in Ids : p # req[r].id => cache'[p] = cache[p]
      BY <1>t, <2>2 DEF TypeOK
  <2>4. \/ Terminal(cache'[req[r].id])
        \/ poller'[r].at \in {"check", "fetch", "fill", "gave_up"}
      BY <1>t, <2>2, RequestType DEF TypeOK
  <2> SUFFICES ASSUME NEW p \in Ids
               PROVE  \/ cache'[p] = NoTask \/ Terminal(cache'[p])
                      \/ \E q \in Requests : req[q].id = p /\ Watches(q)'
      BY <2>1 DEF StaleInv, Terminal
  <2>5. CASE p = req[r].id
      BY <2>4, <2>5 DEF Watches
  <2>6. CASE p # req[r].id
      BY <2>1, <2>3, <2>6 DEF StaleInv, Watches
  <2> QED
      BY <2>5, <2>6
<1>6. CASE Work \/ UNCHANGED vars \/ \E r \in Requests : RunStep(r)
    BY <1>6, <1>1, RunEffect DEF Work, vars, serverVars, Watches
<1> QED
    BY <1>2, <1>3, <1>4, <1>5, <1>6 DEF Next, Serve, Quiet
-----------------------------------------------------------------------------
LEMMA ServerInit == Init => ServerInv
<1> SUFFICES ASSUME Init PROVE ServerInv
    OBVIOUS
<1>1. TypeInv /\ HonestInv
    BY TypeInit, HonestInit
<1>2. RetryInv
    BY DEF Init, RetryInv
<1>3. SuccessInv
    BY DEF Init, HarnessInit, SuccessInv, Succeeded
<1>4. StaleInv
    BY DEF Init, StaleInv
<1> QED
    BY <1>1, <1>2, <1>3, <1>4 DEF ServerInv

LEMMA ServerStep == ServerInv /\ [Next]_vars => ServerInv'
<1> SUFFICES ASSUME ServerInv, [Next]_vars PROVE ServerInv'
    OBVIOUS
<1>1. TypeInv
    BY DEF ServerInv
<1>2. TypeInv'
    BY <1>1, TypeQuiet, TypeTask, TypeArrive, TypeFill, TypeRun, TypePoll, TypeWork, TypeStutter
    DEF Next, Serve, Quiet
<1> QED
    BY <1>1, <1>2, HonestStep, RetryStep, SuccessStep, StaleStep DEF ServerInv

\* The strengthening is an invariant of the server.
THEOREM ServerCorrect == Spec => []ServerInv
BY ServerInit, ServerStep, PTL DEF Spec

\* Every variable keeps the type of the code's field.
THEOREM ServerTypes == Spec => []TypeOK
<1>1. ServerInv => TypeOK
    BY DEF ServerInv, TypeInv
<1> QED
    BY <1>1, ServerCorrect, PTL

\* No map, copy or answer says of a task what was never so, or shows it completed
\* without its artifacts.
THEOREM ReportsHonest == Spec => []ReportsAreHonest
<1>1. ServerInv => ReportsAreHonest
    BY DEF ServerInv, HonestInv, Honest, Complete, ReportsAreHonest, CopiesAreHonest,
           CompletedCarriesArtifacts, Copies
<1> QED
    BY <1>1, ServerCorrect, PTL

\* One server completes at most one delegated task in its life.
THEOREM OneSuccess == Spec => []OneSuccessPerServer
<1>1. ServerInv => OneSuccessPerServer
  <2> SUFFICES ASSUME \A r, q \in Succeeded : r = q PROVE Cardinality(Succeeded) <= 1
      BY DEF ServerInv, SuccessInv, OneSuccessPerServer, Succeeded
  <2>1. CASE Succeeded = {}
      BY <2>1, FS_EmptySet
  <2>2. CASE \E r \in Succeeded : TRUE
    <3>1. PICK r \in Succeeded : Succeeded = {r}
        BY <2>2
    <3> QED
        BY <3>1, FS_Singleton
  <2> QED
      BY <2>1, <2>2
<1> QED
    BY <1>1, ServerCorrect, PTL

\* A send that arrives after another of the same id was answered starts no run.
THEOREM RetryIsIdempotent == Spec => []RetryStartsNoRun
<1>1. ServerInv => RetryStartsNoRun
    BY DEF ServerInv, RetryInv, RetryStartsNoRun
<1> QED
    BY <1>1, ServerCorrect, PTL

\* An unfinished task in the cache is being polled for, or there is a reason.
THEOREM CacheIsWatched == Spec => []StaleCacheHasAReason
<1>1. ServerInv => StaleCacheHasAReason
    BY DEF ServerInv, StaleInv, Watches, StaleCacheHasAReason
<1> QED
    BY <1>1, ServerCorrect, PTL
=============================================================================
