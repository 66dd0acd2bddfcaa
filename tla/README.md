# A TLA+ model of Ratchet

Ratchet turns a request into a spec, a spec into a plan (a graph of tasks), and a plan into
changes that an agent makes and a verification judges. This directory holds TLA+ modules that
model how it does so, TLC configurations that check them on small instances, and proofs, checked
by TLAPS, that hold for every value of the constants. Every definition is translated from the
Rust source under `src/`; `PROJECT.json` names the lines.

## 1. The system

| Component | Where | State | Operations |
|---|---|---|---|
| Task graph, plan parser | `ratchet-spec/src/schema.rs`, `ratchet-core/src/plan_parser.rs` | nodes, edges | `dependencies_of`, `validate`, `PlanParser::parse` |
| Task executor | `ratchet-core/src/task_executor.rs`, `delegation.rs` | completed ids, results, turns, review rounds | `execute_task_graph`, `execute_single_task`, `run_agent_loop`, `ask_reviewer`, `run_tool` |
| Agent harness | `ratchet-core/src/agent.rs`, `state.rs` | agent state, plan files, memory | `plan`, `load_or_plan`, `run_with`, `verify`, `draft_spec` |
| Verification, gate plugins | `agent.rs`, `verification.rs`, `ratchet-plugins/src/host.rs` | evidence | `gather_evidence`, `run_gates`, `check_criterion` |
| Interactive session | `ratchet-cli/src/commands/chat.rs` | phase, draft, approved spec | request, answers, feedback, approvals, `/cancel` |
| A2A server | `ratchet-server/src/a2a.rs`, `ratchet-cli/src/commands/dashboard.rs`, `ratchet-a2a` | two maps of tasks, background runs, pollers | `tasks/send`, `tasks/get`, `tasks/cancel` |
| ACP server | `ratchet-acp`, `ratchet-cli/src/commands/serve.rs` | map of runs | `agent/plan`, `agent/run`, `agent/status`, `agent/approve` |
| Model calls | `ratchet-providers/src/resilience.rs`, `ratchet-core/src/routing.rs` | none | routing, retry, failover |
| Provider adapters, recovery | `ratchet-providers/src/adapters`, `recovery.rs` | none | requests, replies, errors and streams of three wire formats; tool calls found in text |
| Tools, sandbox, approval | `ratchet-tools`, `ratchet-sandbox`, `ratchet-cli/src/approval.rs` | session allow and deny sets | file, search, shell, test and git tools |
| MCP client | `ratchet-mcp` | one pipe per server, next id | `initialize`, `tools/list`, `tools/call` |
| Stores | `ratchet-memory`, `ratchet-observability` | `memory.json`, `metrics.jsonl` | `load`, `save`, `append`, `load_all` |
| Spec drafting, spec files | `ratchet-core/src/discovery.rs`, `ratchet-spec` | the spec file | `draft_spec`, `render_spec`, `SpecParser::parse`, `acceptance_criteria` |
| Review delta, configuration, CLI | the rest | none | rendering, start-up, single calls |

How they interact. The session and both servers own an `AgentHarness` and call it through
`&mut self` or a lock, so one harness call is in progress at a time. The harness drafts a spec
from what a model writes, calls the planner, writes the plan file, and creates a `TaskExecutor`
per run. The executor awaits model calls, tool calls and reviewers one after another; a model
call goes through routing, failover and retry to one of the adapters, a tool call through
approval to the sandboxed tools, a plugin or an MCP server. After a run the harness gathers
evidence, asks gate plugins, judges the criteria, and writes report, metrics, memory and review.
The A2A server puts a dispatcher with its own cache of tasks in front of the agent that owns them;
the ACP server is a task per connection over the harness lock. Several processes share `.ratchet`
without a lock.

What is hard to test here: the search in `validate`; waves over graphs in which an id repeats;
the state machine, whose refusals are mostly dropped with `.ok()`; plan files that outlive the
text they were made from and the process that was writing them; an Enter whose meaning depends
on the phase; runs, pollers, cancellations and cache fills that overtake each other; a lock that
is given up between planning and running; verdicts that several parties may give on one criterion;
two decisions about one shell command; pipes whose answers are taken in the order they come; call
ids that are made up; files that are rewritten while somebody else reads; and text that one function
writes and another one takes apart. `PROJECT.json` lists each hazard with its line and the
properties aimed at it.

## 2. Modules

| Module | Models | Kind |
|---|---|---|
| `TaskGraph` | the graph as data, what a valid one is, what a response parses to | operators |
| `GraphValidate` | `TaskGraph::validate` as a depth-first search, one step per edge | state machine |
| `TaskSchedule` | what executing a graph promises | abstract specification |
| `TaskExecutor` | waves, one task's agent loop and reviewer loop; implements `TaskSchedule` | state machine |
| `Wire` | requests, replies, errors and streams of the adapters | operators |
| `Conversation` | the messages of one agent loop over `Wire` | state machine |
| `McpClient` | one pipe per MCP server, and the servers | component, no `Spec` |
| `ToolCalls` | `connect_mcp` and `run_tool` over `McpClient` | state machine |
| `ModelCall` | routing, retry and failover of one model call | state machine |
| `AgentHarness` | state machine, `load_or_plan`, `plan`, `run_with`, plan files | component, no `Spec` |
| `ChatSession` | the session with one `AgentHarness`, kills and restarts | state machine |
| `A2aServer` | dispatcher, agent, runs and pollers with one `AgentHarness` | state machine |
| `AcpServer` | connections and spawned runs with one `AgentHarness` | state machine |
| `Verification` | evidence, gates and judgement | state machine |
| `ProjectStores` | `metrics.jsonl` and `memory.json` under several processes | state machine |
| `ModelText` | the scanners that find JSON in what a model wrote | operators |
| `SpecText` | a spec as draft, as file, and as criteria | operators |
| `Discovery` | `draft_spec`, the approved file, and its reader, over `ModelText` and `SpecText` | state machine |
| `ModelProofs` | theorems about `GraphValidate`, `ModelCall` and `Conversation` with `Wire`, and the lemmas on sequences they use | proofs |
| `RunEndProofs` | theorems about `Verification` and `ProjectStores` | proofs |
| other `*Proofs` | theorems about the module of that name, `ToolCallsProofs` with `McpClient` | proofs |

Where one proof module is about several state machines, all but one carry their own prefix in the
conventional names: `ValidateInit`, `ValidateNext`, `ValidateSpec`, `ValidateTypeOK` in `GraphValidate`;
likewise `Stores...` in `ProjectStores` and `Conversation...` in `Conversation`.

`MC*` modules give the constants small values. Definitions marked *Mutant* are deviations a bug
could make; they are used by no specification and show that a property can fail.

### Graph and validation

A graph is a sequence of ids (a `Vec`, so ids can repeat) and a set of edges. `IntoPlan`
applies the parser's rules: a blank id becomes `T-k`, edges to unknown tasks are dropped;
`Fallback` is the chain built without usable JSON. `Valid` says what `validate` is for without
its algorithm: no non-empty set of ids has a predecessor inside the set for each of its members,
and every edge names existing tasks. `GraphValidate` is the algorithm: `frames` are the calls of
`has_cycle` in progress, and an edge is taken in any order. Its input is a parsed plan or any
graph at all, since `plan.json` may be edited by hand.

### Executor

`phase` is the point at which `execute_task_graph` or `execute_single_task` is. `BeginWave`
computes the ready nodes; `StartTask` takes them in `Vec` order; `Turn` is one model call with
the tool calls it asks for; `Review` a reviewer's verdict with the decision to go round again;
`Record` pushes the result; `CallFails` is every `?` on the way. The refinement maps `results`
to `TaskSchedule!done` and leaves everything else behind.

### Conversation and wire formats

`Conversation` opens one `Turn`: `Ask` picks the adapter that serves it (any, since failover may have
moved on), `Take` turns the server's blocks into a response, executes native calls or those recovered
from the text, and appends the two messages. Texts, outputs and arguments are sequences of pieces, so
that a stream can cut them; arguments may be empty or no JSON, which `Decoded` turns into Null as
`complete` does; `loop` is the point at which `run_agent_loop` is. `Wire` translates the message lists
into the three request formats, block lists into replies and streams, and statuses into errors. What a
server sends, and a consumer of streams (the repository has none yet), are external.

### Tool calls and MCP

`at` is the point `connect_mcp` or `run_tool` has reached. Start-up connects the servers, asks each
for its tools, and drops all of them on the first error. A run has its own session sets. A call
is authorized, perhaps asked about, and then executed; `ShellExec` looks at the allow-list again.
`McpClient` keeps the two directions of each pipe as queues: `Request` writes, `Receive` takes
whatever line is next. A server answers in order, may say something unasked, and may die; `Slip`
counts the unasked lines the client has swallowed. A path has two scopes: `Text` is where it lies as
it is written, joined to the working directory and compared name by name, and `Real` is where the
file system takes it through links and `..`. `Allows` compares the second only for a path that
exists, and accepts either. Commands are names with a flag for the allow-list; the test and git tools
go through `ShellExec` without an approval.

### Model calls

Inputs are the caller, the providers that meet the role's requirements, the place each has under
the routing policy (a score, a price, local or remote, or all equal), and `max_attempts`. `Route`
resolves the settings and builds the candidate list; a hash map's order is any order. `Answer`,
`TransientError` and `PermanentError` are the answers of the provider being asked, with what
`retry_async` and `FailoverProvider::complete` make of them. Backoff delays change nothing but time
and are left out.

### Harness and session

`AgentHarness` splits a call into the steps between which its process can be killed. A plan file holds
the number of the spec text it was made from, nothing, or something unusable. `SavePlan` may stop after
any of its three writes. The executor may also panic, which nothing catches: in the session it ends the
process (`Ran`), in a server the spawned task (`Die`, `RunDies`). `ChatSession` adds what the user does
at each prompt and the continuations after each call; `Restart` forgets everything in memory. A text of
a spec is a number that grows with every proposal of the model; which spec id a proposal gets is the
model's choice, as in the code.

### Servers

In `A2aServer` `tasks` and `cache` are the two maps. Every connection, run and poller is a process
whose steps end where a lock is released: `SendCheck` and `SendCreate` are the two locks of `send`;
`Lookup`, `Fetch` and `Fill` the three of `tasks/get`; `Guard`, `CancelTask` and `Fill` those of
`tasks/cancel`. A run announces itself, waits for the harness, plans, executes and reports. A
poller looks at the cache, fetches, and fills. `past` records every status a task has had.

In `AcpServer` a connection asks, waits for the lock, plans, and gives the lock up; `agent/run`
then announces the run and spawns it, and the run waits for the lock again. Editors save other texts
meanwhile, and the clock, of which run ids are made, ticks when it likes. `shown` and `ran` record
the plans that were answered and run.

### Verification

Inputs are how each criterion is checked, the allow-list (empty, or with entries), the command of the
suite and whether somebody configured it, the scope of each gate (which may name only criteria of
another spec), and which diffs match. The steps collect evidence in the code's order: declared
commands, gates one after another, then the suite, which if it is refused joins the denied commands
behind all others. A gate answers for whatever criteria it likes, or breaks. `Status` and
`OverallPassed` are the judgement.

### Stores

`ProjectStores` is the end of `run_with` in several processes on one directory. A line of the
metrics file is the sequence of records and pieces that was written between two newlines. `torn` says
that a write was cut inside a character of several bytes: the file is then no text any more, and
`load_all` fails as a whole. A save of
the memory truncates the file in one step and writes it in another; if somebody else opened it in
between, the text may end up mixed. Kills and failed writes are `faults`. `promised` is what the
completed saves together said, `blame` what has happened to the file.

### Drafting

A model's text is a sequence of the characters the scanners tell apart, put together from a remark, a
wrapped object and another remark. `Group` is the loop all scanners share; what differs is where they
start and what they do about fences. A proposal is normalized, approved, rendered, perhaps edited by
hand, and parsed. The file's body is a sequence of words, line ends and the marks of bullets and
headings among them, whoever wrote them; `CriteriaSection` cuts it into lines and sections again.
`Discovery` also asks, in the state in which a reply has been read, whether the other two readers of
model text (the review verdict and the recovery of tool calls) would have found the object.

## 3. Runs

| Run | Instance | States | Shows |
|---|---|---|---|
| `validate` | 3 tasks, ids 1..3 | 170k | the search returns and its verdict is the declarative one |
| `executor` | 3 tasks, ids 1..3, 2 turns, 2 rounds | 192k | order, once, budget, review; terminates; implements `TaskSchedule` |
| `conversation` | 2 tools, 2 turns, 2 calls | 75k | calls and results pair up in every format; streams agree but for broken arguments; what is retried |
| `conversation_retry` | same | - | a server error of Anthropic is not retried |
| `tools` | 2 servers, 2 plugins, 2 commands, 4 paths | 596k | approvals and tools that do not ask widen nothing; sticky answers; pipes; calls return |
| `model_call` | 3 providers, 3 attempts | 174k | better first, nobody in vain, fails only when all failed |
| `session` | 2 specs, 3 texts | 8.9k | only approved work is executed, plan files are kept |
| `a2a` | 2 requests, 2 ids, 2 polls | 300k | what peers see; every task settles unless its run panicked |
| `acp` | 2 connections, 2 specs, 2 texts, 2 runs, 2 seconds | 118k | one plan per spec, honest statuses, every run ends unless it panicked |
| `verification` | 2 criteria, 1 command, 2 suites, 2 gates | 7.2M | no pass without a witness; why a failure may be passed over; what changes after the gates |
| `stores` | 2 processes, 3 keys, 3 records, 1 fault | 1.4M | what a fault or a race can cost, and nothing else |
| `discovery` | 7 remarks, objects of 2 members, specs of 2 criteria, 5 lines | 208k | the answer is found; approved criteria come back |

A run's property is often the conjunction of a few named ones, which stand beside it in the module:
`SearchIsSound`, `ScheduleIsSound`, `WorkIsReviewed`, `ApprovalIsInformed`, `ReportsAreHonest`,
`CandidatesInTurn`, `PipesKeepStep`.

Why the bounds are enough. Three tasks with three ids have every shape the scheduler treats differently:
chain, diamond edge, self-loop, two- and three-cycles, a repeated id with and without successors. Two
turns and two rounds separate "last" from "not last" in both loops, and two turns let an id that is made
up repeat behind one that was given, in another format. One unasked line is enough to put a pipe out of
step for good; four requests are start-up and two calls, so an answer can be late for the next. Of the
four paths one is writable, one readable, one leads out of the writable directories and one into them.
Configurations of the shell and of the servers are taken apart because neither reads the other's state.
Three texts of two specs give a revision of the same id, a change of id, and a return to the first id.
Two requests are enough for each pair of send, get and cancel on one or two tasks to interleave with the
runs and pollers they start; the cap of 7200 polls is scaled to 2. Two connections and two runs in one
or two seconds meet at every point at which the lock is free, with equal and different run ids. Two
criteria and two gates that share one command give overlap, disjoint and foreign scopes, and a second
gate that overrules the first; the suite's command is the declared one or another, under an empty
allow-list and under ones with and without it. Three providers can be the preferred one, a capable one
and a fallback at once; three attempts separate the first, a middle and the last of a retry loop.
Compaction at three entries down to one (1000 and 500 in the code) happens within three runs; one fault
and any number of overlaps show what each costs, and the loss is counted per fault. The objects hold
every nesting of brackets, strings, escapes and fences up to two members.

Deadlock checking is off where the system may stop: a function that returned, a user who left.

## 4. Fairness

`GraphValidate` and `TaskExecutor` are functions that run until they return. That, and every liveness
property of the session and the servers, rests on an assumption the code does not enforce everywhere:
each awaited call returns, fails or panics.

- It holds for model calls, which carry the HTTP client's timeout, and for shell commands and plugins,
  which carry their own.
- It does not hold for a verification command that hangs, which has no timeout, nor for an MCP server
  that stays alive and silent. `ToolCalls` states the assumption about servers where it is used: a
  server answers what it is sent or dies, and an answer line that was written is read.
- A panic is not assumed away. A tool that panics (`FileRead`) ends the task its run was spawned in;
  unwinding gives the harness lock back, and nothing is reported. So a delegated task whose own run
  died stays Working, and its run id stays "started", for ever: `EveryTaskSettles` and `EveryRunEnds`
  say that this is the only exception, and that whoever waits behind such a run gets his turn.

`ChatSession` is fair to the continuation of a call, never to the user. `A2aServer`
is fair to the runs that were spawned and to the harness call in progress, never to peers; weak
fairness is enough because whoever holds the harness releases it and every run wants it at most
once. In `AcpServer` connections may ask for ever, so the lock may be taken by others again and again:
strong fairness of the waiting tasks stands for tokio's mutex, which serves them in their order.
`Conversation`, `ModelCall`, `Verification`, `ProjectStores` and `Discovery` state no liveness and no
fairness.

## 5. Proofs

Every theorem is about a module's specification (`Spec`, or with the module's prefix) for every value
of the constants, from the assumptions named in the modules. All but liveness and what is named at the
end of this section is proved: every type invariant and every other state or action property of the
runs, and the refinement. The runs show the same properties on their instances.

`ModelProofs`, the search: `GraphValidateTypes` and `ValidateIsSound`. That the frames are a
path, which shows a reported cycle to be one, is not enough for the other direction: a cycle might
have been missed by an earlier root. `SearchInv` adds that every successor of a finished id
(visited, off the stack) is finished, and that every non-empty set of finished ids has a member
without predecessor in it. When a call returns, its id has no finished predecessor, or it would
itself be finished already; so it closes no cycle. At the end of the outer loop all ids are
finished. The argument needs no induction and holds for infinite sets of ids.

`TaskExecutorProofs`:

- `TypeInvariant`, `ReviewSettled`, `TurnsBounded`, `WorkReviewed`: inductive up to a bound that
  ties `turns` to `spent` and `round`.
- `DependenciesFirst`, `TasksRunOnce`, `SuccessComplete`, `DeadlockNeedsDuplicates` and their
  conjunction `ScheduleSound`: not inductive. `SchedulerInv` strengthens them: `completed` is exactly
  the set of ids of the tasks with a result; the nodes of a wave that have not started were all ready
  when the wave began, so their dependencies have results; no task is at once finished, running and
  waiting; and between waves, if one of the nodes of an id is finished then all of them are. The last
  part is what makes a wave "by id" safe although ids repeat, and it needs the acyclicity that
  `validate` checked only in one place: to show that an empty wave leaves nothing undone, the set of
  ids of the unfinished tasks would be a witness of `Cyclic`.
- `ExecutorImplementsSchedule`: `Record` maps to `Finish`, `AllDone` to `Succeed`, the failing
  steps to `Fail`, all others to stuttering.

`RunEndProofs`, the verification: `VerificationTypes`, `PassedIsWitnessed`, `FailuresAreAnswered` and
`LateEvidence`, all from the inductive `WitnessInv`: gates speak in order, so one that breaks has
not spoken before, no later gate has its number, and whoever objected spoke no later than the one whose
verdict stands; a criterion has a verdict exactly if a gate is behind it; the verdict of a broken gate
is Manual; an outcome is of an allowed command; after the first phase every declared command is denied or
has an outcome; and both, only if it is the suite's and the suite was refused.

`RunEndProofs`, the stores: `StoresKeepTypes`, `MetricsLoss` and `MemoryLoss` from `StoresInv`.

- `MetricsLossIsBounded` speaks of damaged records (`Intact`), and of unreadable ones unless a cut inside
  a character has cost the file (`TornInv`: that takes a fault). It says what is lost; the invariant must
  say what is already bound to be lost. A
  record is `Doomed` if no reader will ever parse it, whether its append has ended or is still in
  progress; the `Reserve` is the one record that an open line will take with it, as long as nobody is
  about to write its newline. Both together never exceed the faults and twice the overlaps: that sum
  is inductive, the loss alone is not. A fault leaves a reserve; the append that joins the cut line
  turns the reserve into a doomed record; two appends that overlap are paid for when the second one's
  record is written.
- `MemoryLossHasAReason`: as long as no race happened, one process saves at a time and every other one
  holds what it last saw (`NoRaceInv`), so no save can drop what another had promised; as long as
  nothing was compacted either, what a completed save said is in the file or about to be written
  (`PromiseInv`). The first step that breaks either leaves its name in `blame`.

`ToolCallsProofs`, the calls: `TypeCorrect` (with the pipes), `NothingIsWidened`, since a command is
asked about only if the list does not permit it and started only if it does, and `AnswersAreFinal`,
which needs that `settled` is exactly what the two session sets hold and that no command is in both:
only an open command is asked about, so an answer never moves one from one set to the other.

`ToolCallsProofs`, the pipes: `PipesCorrect` and `PipesInStep`. "An answer is `Slip` requests old"
speaks of the last answer only; to know the next one, everything on its way must be known. `PipeInv`
says that of a pipe which can still be read the lines carry the answers from `Oldest` up to some
request `due`, and the messages the requests from `due` to `nextId`, rising, without a gap and with
things that have no id anywhere in between (`Carries`). `Oldest` is where the counting is: one line
was read for each request that does not wait, and `Slip` of them were strays. So the head of the
queue is a stray, and `Slip` grows, or it is the answer to `Oldest`. A server that died before a
request could be written is the exception (`Lost`): its pipe has a gap, but is never read again. For
the tools on offer the invariant adds that a server is asked for them once: a line that reads as a
list of tools can only be the answer to that request, and so the pipe is in step (`ListedInStep`).

`AgentHarnessProofs` holds lemmas: what each operation of the harness keeps, whoever calls it, and
how each moves its state machine. Three proofs rest on them. `ChatSessionProofs`: `ApprovalInformed`
and `SavedPlanKept` from `SessionInv`, which says at each phase who is calling and what is under
way: a plan under review is the plan on disk, and nothing but the approved work is handed over.
`AcpServerProofs`: `PlansAgree` and `StatusHonest`; the first needs that a plan kept by a connection
or a run is the one in the plan file, which no other client's call replaces, the second that every
run with an id has set its entry.

`A2aServerProofs`: `ServerTypes`, `ReportsHonest`, `OneSuccess`, `RetryIsIdempotent` and
`CacheIsWatched`, from one `ServerInv`.

- Its base says who holds the harness: the one run that is planning or executing, whose phase is that of
  the call in progress.
- `HonestInv` extends "what is reported was so" from the two maps to the copies that requests and
  pollers carry between two locks; it is those copies that make a report old.
- `RetryInv`: a send that got as far as filling the cache has its task, tasks are never removed, and so
  each request knows the tasks of all sends that had returned when it was made.
- `SuccessInv`: a run that succeeded leaves the one state machine at Done, where every later plan is
  refused. It is what the hazard about the harness's life comes to, seen by a peer.
- `StaleInv`: the cache shows a task as not ended only if some request of that id has a poller that will
  look again or gave up, or is an answered `tasks/get`, whose copy may be old. This holds whether or not
  the task has ended, so `StaleCacheHasAReason` does not ask.

`ModelProofs`, the model call: `CandidatesTakeTurns` from an invariant that keeps the shape of
the route (preferred, ranked, fallback, without repetition) through the whole call, so that "better"
providers are exactly earlier ones; `NothingBurnt` from the same.

`ModelProofs`, sequences. What the wire formats make of messages and replies is joined from sequences
of any length, so it takes induction. The library's induction theorems have a statement as their
parameter, which the provers cannot instantiate; a set takes its place here. `NatSetInduction` says
that a set of naturals which holds 0 and every successor is `Nat`: were `n` the least number outside it,
`k |-> k - 1` would be an injection of `0 .. n`, without what lies in the set, into a smaller finite set.
`SequenceInduction` says the same of sets of sequences and `Append`. By them `FlattenSeq`, defined through
partial results, takes one more sequence at its end, has a type, distributes over concatenation, and
undoes the cutting of a sequence into single elements; `JoinedBy...` are the same facts of `Joined`.

`ModelProofs`, the conversation: `ConversationTypes`, `EveryCallIsAnswered` and `RetriesAreTransient`,
from `ConversationInv`. Both requests distribute over the messages (`OpenAiAppend`,
`AnthropicAppend`), and lists of wire messages that pair up on their own do so one after the other
(`...PairsConcat`). So a turn has to be looked at alone: whether native, numbered by Ollama's adapter or
recovered, no id occurs twice among its calls (`ReplyIds`, `ResponseType`, `RecoveredType`), and the two
messages it adds pair up, in either format (`...Exchange`). Ids that repeat from turn to turn do no
harm, since an answer is sought right behind its call. The type invariant has a part of its own
that this needs: calls are the assistant's only, results a tool message's only. It is the one type
invariant that is proved and no property of a run, where the pairing it serves is checked instead.

`ModelProofs`, the streams: `StreamsAddUp` says of every reply, not only of those the conversation
meets, that its stream adds up to what `complete` returns, but for what becomes of arguments that are no
JSON: the stream of OpenAI hands on their text, `complete` returns Null; `StreamsAlwaysAgree` is the
property of the run. What an event yields is found event by event, and that a stream yields what its
events do is `JoinedByTwice`. The induction over the blocks, or the calls, carries `Matches`: the deltas
so far have opened the calls so far, each at an index of its own below the next one, its arguments are
what was sent for that index, and nothing was sent for an index still to come. For Anthropic the index
is the block's, so blocks of text pass indices over; for OpenAI it is the call's.

Only model-checked:

- all liveness (`Terminates`, `ValidateReturns`, `CallsComeBack`, `EveryTaskSettles`, `EveryRunEnds`,
  `EveryCallReturns`), since fairness and `ENABLED` are out of the prover's reach;
- `AnswerIsFound` and `CriteriaSurvive` of `Discovery`, about what scanners and the spec text compute:
  a fold over the characters of a text, and several rounds of cutting lines into words. Each would
  take an induction of its own over the state of the scanner, for a class of texts that is no simpler to
  describe than the scanner; the run has all texts up to its bounds.

## 6. Disagreements between the code and its documents

One run violates a sentence of the documentation: `conversation_retry`. configuration.md says that
transient failures, 5xx and timeouts among them, are retried; the Anthropic adapter reads the body of
a 500 or a 408 as a message and reports a malformed reply of status 200, which is permanent.
`OnlyTransientIsRetried` says that this is the only exception.

Met while modelling, and built into the modules as the code has it:

- Plans. Validation accepts repeated ids; the scheduler then runs every task and reports a cyclic
  dependency, losing all results (`DeadlockOnlyWithDuplicates`). A planning call that fails, or a run
  that passed, leaves the state machine where it refuses every later plan of the process, though the
  session invites a new request; in `agent/plan` the same makes the second new plan an error. A plan
  file is looked up by spec id, so a revised text gets the old plan.
- A2A. The run of a canceled task overwrites `canceled`, which `is_terminal` calls final.
- Verification. A broken gate speaks for criteria it was not configured for, and its Manual hides a
  failed check. Gates are asked before the suite runs, though the comment says that they run last and
  see the built-in evidence. A detected suite has to be listed even where the list is empty and
  everything may run; its refusal then also covers a command of a criterion that has run, and turns its
  failure into Manual (`FailureIsAnswered`, `LateEvidenceIsTheSuites`).
- Model calls. The planner and the conversation ask one provider once, though configuration.md says
  that every model call is wrapped; a setting that names no provider hides the weaker settings; and
  `--model` is sent to every candidate, also to a provider of other models. Ollama's requests leave
  out the assistant's calls. Arguments that are no JSON reach the tools as Null from `complete` of the
  OpenAI format, and as the text they were from its stream (`StreamsAgree`).
- Tools. Approving a command that is not on the allow-list lets nothing through: `ShellExec` refuses it
  again (`QuestionsWidenNothing`); configuration.md speaks of an "approval gate". "Allow for this
  session" lasts for one run. A file_read far behind the end of a file panics and takes the run's task
  with it. A shell command whose time is over is no longer waited for and goes on. The write to a
  plugin's stdin is outside its timeout. The git and test tools ask nobody, but are bound to the
  allow-list by `ShellExec`. A path is compared as it is written as well as where it leads, and one of
  the two is enough; a new file has only the first.
- MCP. Replies are not matched by id, so one unasked line shifts all later answers; the notification
  carries a null id, which a server may well answer. One server whose tools cannot be listed costs
  the tools of all, though the comment in `AgentHarness::new` calls a failure non-fatal. The registry
  lock is held while a server is awaited, without a timeout.
- ACP. A connection is said to stay responsive during a run; a second plan or run waits for the lock.
  Run ids are made of the second, so two runs of a spec may share one.
- Stores. "Partial writes never corrupt earlier records" holds for earlier records; the next one joins
  the cut line and is lost, and two appends that overlap may cost both. "A truncated tail can't render
  reports unusable", except for one that ends inside a character of several bytes: reading the file as
  text then fails, for every record and for good (`MetricsLossIsBounded`). `memory.json` is truncated and
  rewritten: a kill at that moment keeps every later process from starting, and two processes drop
  what the other has saved.
- Spec text. A hand-written line `Account page [verify: x]` has an AC-word first and its first colon in
  the annotation: its check is lost and the criterion is manual. An id or title that YAML reads as
  something else than a string makes the session end after the file was written. A newline in a
  description, or a bracket in a command, loses the annotation. What follows the newline is a criterion
  more if it begins like a bullet, and takes the remaining criteria out of the section if it begins
  like a heading (`CriteriaSurvive`). Normalized ids may repeat; an intent with the heading
  "Acceptance Criteria" hides those of the draft.
- Model text. A fence after the answer or inside it hides it from `parse_discovery`; a bracket that is
  never closed stops the recovery of tool calls.

## 7. Not modelled, and what is left

Left out for good: prompts, rendering and wording; the HTTP front end and the dashboard's read-only
views; configuration and detection at start-up; argument parsing; the review delta, a report nothing
reads back; search and directory listing, each a single walk; aggregation of metrics; Markdown other
than bullets and headings in a spec's text, such as a fence that hides a heading. `approve_blocked` and
`reject_blocked` have no caller, and no code enters `Blocked`. A restart of a server loses its tasks and
runs, which are only in memory.

What would come next: an abstract specification of a delegated task's life that `A2aServer` implements,
and the scanners of `ModelText` with the induction on sequences of `ModelProofs`.
