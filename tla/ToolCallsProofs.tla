--------------------------- MODULE ToolCallsProofs ---------------------------
(***************************************************************************)
(* Theorems about ToolCalls, for every set of commands, servers, plugins   *)
(* and configurations.                                                     *)
(***************************************************************************)
EXTENDS ToolCalls, SequenceTheorems, FiniteSetTheorems, TLAPS

\* Tools are asked of connected servers only, and approval is asked for shell commands.
PointInv ==
    /\ at \in {"list", "listing"} => todo \subseteq registry
    /\ at = "listing" => wait.server \in registry
    /\ at \in {"authorize", "asking"} => call \in Calls /\ call.tool = "shell_exec"
    /\ at = "asking" => call.arg \in Commands

TypeInv == TypeOK /\ PointInv

\* The two session sets are the user's final answers, and only an asking policy fills them, with
\* commands the allow-list does not let through.
SessionInv ==
    /\ \A c \in Commands : c \in session_allow <=> settled[c] = "allowed"
    /\ \A c \in Commands : c \in session_deny <=> settled[c] = "denied"
    /\ session_deny \cap config.permitted = {}
    /\ session_deny # {} => PolicyAsks

\* Where a shell command is on its way.
AskedInv ==
    /\ at = "asking" =>
         /\ call.arg \notin session_allow \cup session_deny
         /\ ~Permits(call.arg) /\ PolicyAsks
    /\ at = "tool" /\ call.tool = "shell_exec" /\ call.arg # Nothing =>
         call.arg \notin session_deny

ApprovalInv == TypeInv /\ SessionInv /\ AskedInv
-----------------------------------------------------------------------------
\* The steps of the pipes keep their types.
LEMMA WriteType ==
    ASSUME McpTypeOK, NEW s \in Servers, NEW id \in Nat, NEW m \in Methods \cup {"none"}, Write(s, id, m)
    PROVE  stdin' \in [Servers -> Seq(Messages)]
<1>1. [id |-> id, method |-> m] \in Messages
  BY DEF Messages
<1>2. stdin[s] \in Seq(Messages)
  BY DEF McpTypeOK
<1>3. Append(stdin[s], [id |-> id, method |-> m]) \in Seq(Messages)
  BY <1>1, <1>2
<1> QED BY <1>2, <1>3 DEF McpTypeOK, Write

LEMMA RequestType ==
    ASSUME McpTypeOK, NEW s \in Servers, NEW m \in Methods, Request(s, m)
    PROVE  McpTypeOK' /\ wait'.server = s
<1>1. /\ nextId[s] \in Nat \ {0}
      /\ wait' = [server |-> s, id |-> nextId[s], method |-> m, sent |-> s \in up]
      /\ nextId' = [nextId EXCEPT ![s] = nextId[s] + 1]
      /\ UNCHANGED <<stdout, unasked, answer, up>>
  BY DEF McpTypeOK, Request, Await
<1>2. stdin' \in [Servers -> Seq(Messages)]
  BY <1>1, WriteType DEF Request
<1>3. nextId' \in [Servers -> Nat \ {0}]
  BY <1>1 DEF McpTypeOK
<1>4. (s \in up) \in BOOLEAN
  OBVIOUS
<1>5. wait' \in [server : Servers, id : Nat, method : Methods, sent : BOOLEAN]
  BY <1>1, <1>4
<1> QED BY <1>1, <1>2, <1>3, <1>5 DEF McpTypeOK

LEMMA SpawnType ==
    ASSUME McpTypeOK, NEW s \in Servers, Spawn(s)
    PROVE  McpTypeOK' /\ wait'.server = s
<1>1. /\ nextId[s] \in Nat \ {0}
      /\ wait' = [server |-> s, id |-> nextId[s], method |-> "initialize", sent |-> TRUE]
      /\ nextId' = [nextId EXCEPT ![s] = nextId[s] + 1]
      /\ UNCHANGED <<stdout, unasked, answer>>
      /\ up' = up \cup {s}
      /\ stdin' = [stdin EXCEPT ![s] = <<[id |-> nextId[s], method |-> "initialize"]>>]
  BY DEF McpTypeOK, Spawn, Await
<1>2. [id |-> nextId[s], method |-> "initialize"] \in Messages
  BY <1>1 DEF Messages, Methods
<1>3. stdin' \in [Servers -> Seq(Messages)]
  BY <1>1, <1>2 DEF McpTypeOK
<1> QED BY <1>1, <1>3 DEF McpTypeOK, Methods

\* What is read is a line, and the answer is that of the server that was asked.
LEMMA ReceiveType ==
    ASSUME McpTypeOK, Receive
    PROVE  /\ wait \in [server : Servers, id : Nat, method : Methods, sent : BOOLEAN]
           /\ wait' = NoRequest
           /\ answer' \in [server : Servers, id : Nat, to : Nat, ok : BOOLEAN]
           /\ stdout' \in [Servers -> Seq(Lines)]
           /\ UNCHANGED <<nextId, up, unasked>>
<1> DEFINE s == wait.server
<1>1. wait \in [server : Servers, id : Nat, method : Methods, sent : BOOLEAN]
  BY DEF McpTypeOK, Receive
<1>2. ASSUME NEW line \in Lines
      PROVE  Taken(line) \in [server : Servers, id : Nat, to : Nat, ok : BOOLEAN]
  <2>1. line.to \in Nat /\ line.ok \in BOOLEAN /\ Understood(line, wait.method) \in BOOLEAN
    BY DEF Lines, Understood
  <2> QED BY <1>1, <2>1 DEF Taken
<1>3. Unasked \in Lines
  BY DEF Unasked, Lines, NoId
<1>4. stdout[s] \in Seq(Lines)
  BY <1>1 DEF McpTypeOK
<1>5. CASE stdout[s] # <<>> /\ answer' = Taken(Head(stdout[s])) /\ stdout' = [stdout EXCEPT ![s] = Tail(@)]
  <2>1. Head(stdout[s]) \in Lines /\ Tail(stdout[s]) \in Seq(Lines)
    BY <1>4, <1>5
  <2>2. stdout' \in [Servers -> Seq(Lines)]
    BY <1>5, <2>1 DEF McpTypeOK
  <2>3. answer' \in [server : Servers, id : Nat, to : Nat, ok : BOOLEAN]
    BY <1>2, <1>5, <2>1
  <2> QED BY <1>1, <2>2, <2>3 DEF Receive
<1>6. CASE answer' = Taken(Unasked) /\ UNCHANGED stdout
  BY <1>1, <1>2, <1>3, <1>6 DEF Receive, McpTypeOK
<1> QED BY <1>5, <1>6 DEF Receive

LEMMA ServerType ==
    ASSUME McpTypeOK, ServerStep
    PROVE  McpTypeOK' /\ UNCHANGED wait
<1>1. PICK s \in Servers : Answer(s) \/ Volunteer(s) \/ Die(s)
  BY DEF ServerStep
<1>2. Unasked \in Lines
  BY DEF Unasked, Lines, NoId
<1>3. ASSUME NEW line \in Lines, Say(s, line)
      PROVE  stdout' \in [Servers -> Seq(Lines)]
  <2>1. Append(stdout[s], line) \in Seq(Lines)
    BY DEF McpTypeOK
  <2>2. stdout' = [stdout EXCEPT ![s] = Append(stdout[s], line)]
    BY <1>3 DEF Say
  <2> QED BY <2>1, <2>2 DEF McpTypeOK
<1>a. unasked \in [Servers -> Nat]
  BY DEF McpTypeOK
<1>4. CASE Answer(s)
  <2> DEFINE m == Head(stdin[s])
  <2>1. m \in Messages /\ Tail(stdin[s]) \in Seq(Messages)
    BY <1>4 DEF Answer, McpTypeOK
  <2>2. stdin' \in [Servers -> Seq(Messages)]
    BY <1>4, <2>1 DEF Answer, McpTypeOK
  <2>3. ASSUME NEW ok \in BOOLEAN PROVE [to |-> m.id, method |-> m.method, ok |-> ok] \in Lines
    BY <2>1 DEF Messages, Lines
  <2>4. stdout' \in [Servers -> Seq(Lines)] /\ unasked' \in [Servers -> Nat]
    <3>1. CASE UNCHANGED <<stdout, unasked>>
      BY <3>1 DEF McpTypeOK
    <3>2. CASE \E ok \in BOOLEAN : Say(s, [to |-> m.id, method |-> m.method, ok |-> ok]) /\ UNCHANGED unasked
      <4>1. PICK ok \in BOOLEAN : Say(s, [to |-> m.id, method |-> m.method, ok |-> ok]) /\ UNCHANGED unasked
        BY <3>2
      <4>2. stdout' \in [Servers -> Seq(Lines)]
        BY ONLY <1>3, <2>3, <4>1
      <4> QED BY <4>1, <4>2 DEF McpTypeOK
    <3>3. CASE Say(s, Unasked) /\ unasked' = [unasked EXCEPT ![s] = @ + 1]
      <4>1. stdout' \in [Servers -> Seq(Lines)]
        BY ONLY <1>2, <1>3, <3>3
      <4>2. unasked' \in [Servers -> Nat]
        BY ONLY <1>a, <3>3, s \in Servers
      <4> QED BY ONLY <4>1, <4>2
    <3> QED BY ONLY <1>4, <3>1, <3>2, <3>3 DEF Answer
  <2>5. UNCHANGED <<nextId, up, wait, answer>>
    BY <1>4 DEF Answer
  <2> QED BY ONLY McpTypeOK, <2>2, <2>4, <2>5 DEF McpTypeOK
<1>5. CASE Volunteer(s)
  <2>1. stdout' \in [Servers -> Seq(Lines)]
    <3>1. Say(s, Unasked)
      BY <1>5 DEF Volunteer
    <3> QED BY ONLY <1>2, <1>3, <3>1
  <2>2. unasked' = [unasked EXCEPT ![s] = @ + 1] /\ UNCHANGED <<nextId, stdin, up, wait, answer>>
    BY <1>5 DEF Volunteer
  <2>3. unasked' \in [Servers -> Nat]
    BY ONLY <1>a, <2>2, s \in Servers
  <2> QED BY ONLY McpTypeOK, <2>1, <2>2, <2>3 DEF McpTypeOK
<1>6. CASE Die(s)
  BY <1>6 DEF Die, McpTypeOK
<1> QED BY <1>1, <1>4, <1>5, <1>6
-----------------------------------------------------------------------------
\* Every variable keeps its type, and what is offered comes from connected servers.
LEMMA InitType == Init => TypeInv
<1> SUFFICES ASSUME Init PROVE TypeInv
  OBVIOUS
<1>1. McpTypeOK
  BY DEF Init, McpInit, McpTypeOK
<1>2. config \in AllConfigs /\ config.servers \subseteq Servers
  BY ConfigsAreConfigs DEF Init, AllConfigs
<1> QED BY <1>1, <1>2 DEF Init, TypeInv, TypeOK, PointInv, Points

LEMMA StartUpType ==
    ASSUME TypeInv, StartUp
    PROVE  TypeInv'
<1> USE DEF TypeInv, TypeOK, PointInv
<1>c. config.servers \subseteq Servers
  BY ConfigsAreConfigs DEF AllConfigs
<1>1. ASSUME NEW s \in Servers, Connect(s) PROVE TypeInv'
  <2>1. CASE at' = "initialize" /\ Spawn(s)
    BY <1>1, <2>1, SpawnType DEF Connect, Points, runVars
  <2>2. CASE at' = at /\ UNCHANGED mcpVars
    BY <1>1, <2>2 DEF Connect, Points, runVars, mcpVars, McpTypeOK
  <2> QED BY <1>1, <2>1, <2>2 DEF Connect
<1>2. ASSUME NEW s \in Servers, List(s) PROVE TypeInv'
  <2>1. McpTypeOK' /\ wait'.server = s
    BY <1>2, RequestType DEF List, Methods
  <2> QED BY <1>2, <2>1 DEF List, Points, runVars
<1>3. CASE Initialized
  <2>1. /\ wait.server \in Servers /\ wait' = NoRequest
        /\ answer' \in [server : Servers, id : Nat, to : Nat, ok : BOOLEAN]
        /\ stdout' \in [Servers -> Seq(Lines)]
        /\ UNCHANGED <<nextId, up, unasked>>
    BY <1>3, ReceiveType DEF Initialized
  <2>2. CASE Notify(wait.server) /\ registry' = registry \cup {wait.server}
    <3>1. stdin' \in [Servers -> Seq(Messages)]
      BY <2>1, <2>2, WriteType DEF Notify, NoId
    <3>2. McpTypeOK'
      BY <2>1, <3>1 DEF McpTypeOK
    <3> QED BY <1>3, <2>1, <2>2, <3>2 DEF Initialized, Points, runVars
  <2>3. CASE UNCHANGED <<stdin, registry>>
    <3>1. McpTypeOK'
      BY <2>1, <2>3 DEF McpTypeOK
    <3> QED BY <1>3, <2>3, <3>1 DEF Initialized, Points, runVars
  <2> QED BY <1>3, <2>2, <2>3 DEF Initialized
<1>4. CASE Connected
  BY <1>4 DEF Connected, Points, runVars, mcpVars, McpTypeOK
<1>5. CASE Listed
  <2>1. /\ wait' = NoRequest
        /\ answer' \in [server : Servers, id : Nat, to : Nat, ok : BOOLEAN]
        /\ stdout' \in [Servers -> Seq(Lines)]
        /\ UNCHANGED <<nextId, up, unasked>>
    BY <1>5, ReceiveType DEF Listed
  <2>2. McpTypeOK'
    BY <1>5, <2>1 DEF Listed, McpTypeOK
  <2> QED BY <1>5, <2>2 DEF Listed, Points, runVars
<1>6. CASE Ready
  BY <1>6 DEF Ready, Points, runVars, mcpVars, McpTypeOK
<1> QED BY <1>1, <1>2, <1>3, <1>4, <1>5, <1>6 DEF StartUp

\* What a call writes is the path it was given, if it is writable as it is written or followed.
LEMMA PathsWritten ==
    ASSUME TypeInv, Execute
    PROVE  \/ written' = written
           \/ \E p \in Paths :
                 written' = written \cup {p} /\ "writable" \in {Text[p], Real[p]}
<1>1. CASE call.tool \in {"file_write", "file_patch"}
  <2>1. call.arg \in Paths
    BY <1>1 DEF TypeInv, TypeOK, Calls, NoCall
  <2>2. PICK exists \in BOOLEAN : FileWrite(call.arg, exists)
    BY <1>1 DEF Execute
  <2> QED BY <2>1, <2>2 DEF FileWrite, Allows, Writable
<1>2. CASE call.tool \notin {"file_write", "file_patch"}
  BY <1>2 DEF Execute, TestRun, Git, ShellExec, FileRead
<1> QED BY <1>1, <1>2

LEMMA ToolStepType ==
    ASSUME TypeInv, ToolStep
    PROVE  TypeInv'
<1> USE DEF TypeInv, TypeOK, PointInv, Keep, KeepSession, KeepEffects, Return, Points
<1>1. CASE CallPlugin
  BY <1>1 DEF CallPlugin, mcpVars, McpTypeOK
<1>2. CASE CallMcp
  <2>1. CASE call.arg \in registry /\ Request(call.arg, "tools/call") /\ at' = "answer" /\ UNCHANGED call
    <3>1. McpTypeOK'
      BY <2>1, RequestType DEF Methods
    <3> QED BY <1>2, <2>1, <3>1 DEF CallMcp
  <2>2. CASE Return /\ UNCHANGED mcpVars
    BY <1>2, <2>2 DEF CallMcp, mcpVars, McpTypeOK
  <2> QED BY <1>2, <2>1, <2>2 DEF CallMcp
<1>3. CASE McpAnswers
  <2>1. /\ wait' = NoRequest
        /\ answer' \in [server : Servers, id : Nat, to : Nat, ok : BOOLEAN]
        /\ stdout' \in [Servers -> Seq(Lines)]
        /\ UNCHANGED <<nextId, up, unasked>>
    BY <1>3, ReceiveType DEF McpAnswers
  <2>2. McpTypeOK'
    BY <1>3, <2>1 DEF McpAnswers, McpTypeOK
  <2> QED BY <1>3, <2>2 DEF McpAnswers
<1>4. CASE Authorize
  <2>1. at' = "asking" => call.arg \in Commands
    BY <1>4 DEF Authorize, Passes, Unchecked, Calls
  <2>2. asked' \subseteq Commands
    BY <1>4, <2>1 DEF Authorize, Return
  <2> QED BY <1>4, <2>1, <2>2 DEF Authorize, mcpVars, McpTypeOK
<1>5. CASE Execute
  <2>1. config.permitted \subseteq Commands
    BY ConfigsAreConfigs DEF AllConfigs
  <2>2. McpTypeOK'
    BY <1>5 DEF Execute, mcpVars, McpTypeOK
  <2>3. /\ ran' = ran \/ \E c \in config.permitted : ran' = ran \cup {c}
        /\ at' \in {"model", "panicked"} /\ call' \in {call, NoCall}
    BY ONLY <1>5 DEF Execute, TestRun, Git, ShellExec, FileWrite, FileRead, Permits, Return
  <2>w. written' = written \/ \E p \in Paths : written' = written \cup {p}
    BY <1>5, PathsWritten
  <2>4. ran' \subseteq Commands /\ written' \subseteq Paths
    BY ONLY <2>1, <2>3, <2>w, ran \subseteq Commands /\ written \subseteq Paths
  <2>5. UNCHANGED <<config, todo, registry, mcpTools, session_allow, session_deny, settled, asked>>
    BY ONLY <1>5 DEF Execute, Keep, KeepSession
  <2>6. TypeOK'
    BY ONLY TypeOK, <2>2, <2>3, <2>4, <2>5 DEF TypeOK, Points
  <2>7. PointInv'
    BY ONLY <2>3 DEF PointInv
  <2> QED BY ONLY <2>6, <2>7 DEF TypeInv
<1> QED BY <1>1, <1>2, <1>3, <1>4, <1>5 DEF ToolStep

LEMMA NextType == TypeInv /\ [Next]_vars => TypeInv'
<1> SUFFICES ASSUME TypeInv, [Next]_vars PROVE TypeInv'
  OBVIOUS
<1> USE DEF TypeInv, TypeOK, PointInv
<1>1. CASE BeginRun
  BY <1>1 DEF BeginRun, Points, mcpVars, McpTypeOK
<1>2. CASE EndRun
  BY <1>2 DEF EndRun, Points, mcpVars, McpTypeOK, runVars
<1>3. ASSUME NEW c \in Calls, Ask(c) PROVE TypeInv'
  BY <1>3 DEF Ask, Points, mcpVars, McpTypeOK
<1>4. ASSUME NEW d \in Decisions, Decide(d) PROVE TypeInv'
  <2>1. call.arg \in Commands /\ at = "asking"
    BY <1>4 DEF Decide
  <2>2. /\ session_allow' \subseteq Commands /\ session_deny' \subseteq Commands
        /\ settled' \in [Commands -> {"open", "allowed", "denied"}]
    BY <1>4, <2>1 DEF Decide, Remember
  <2>3. McpTypeOK'
    BY <1>4 DEF Decide, mcpVars, McpTypeOK
  <2> QED BY <1>4, <2>1, <2>2, <2>3 DEF Decide, Keep, KeepEffects, Return, Points
<1>5. CASE Serving
  <2>1. McpTypeOK' /\ UNCHANGED wait
    BY <1>5, ServerType DEF Serving
  <2> QED BY <1>5, <2>1 DEF Serving, runVars
<1>6. CASE UNCHANGED vars
  BY <1>6 DEF vars, mcpVars, runVars, McpTypeOK
<1> QED BY <1>1, <1>2, <1>3, <1>4, <1>5, <1>6, StartUpType, ToolStepType DEF Next

\* The type invariant, for every instance.
THEOREM TypeCorrect == Spec => []TypeOK
<1>1. TypeInv => TypeOK
  BY DEF TypeInv
<1> QED BY <1>1, InitType, NextType, PTL DEF Spec
-----------------------------------------------------------------------------
\* Nobody is asked about what the allow-list lets through, and nothing else is started.
EffectsInv ==
    /\ asked \cap config.permitted = {} /\ ran \subseteq config.permitted
    /\ \A p \in written : "writable" \in {Text[p], Real[p]}

LEMMA EffectsStep == TypeInv /\ EffectsInv /\ [Next]_vars => EffectsInv'
<1> SUFFICES ASSUME TypeInv, EffectsInv, [Next]_vars PROVE EffectsInv'
  OBVIOUS
<1> USE DEF EffectsInv
<1>1. CASE Execute
  <2>1. UNCHANGED <<config, asked>>
    BY <1>1 DEF Execute, Keep
  <2>2. ran' = ran \/ \E c \in config.permitted : ran' = ran \cup {c}
    BY ONLY <1>1 DEF Execute, TestRun, Git, ShellExec, FileWrite, FileRead, Permits, Return
  <2>3. \/ written' = written
        \/ \E p \in Paths : written' = written \cup {p} /\ "writable" \in {Text[p], Real[p]}
    BY <1>1, PathsWritten
  <2> QED BY <2>1, <2>2, <2>3
<1>2. CASE Authorize
  <2>1. UNCHANGED <<config, ran, written>>
    BY <1>2 DEF Authorize, Keep
  <2>2. \/ asked' = asked
        \/ asked' = asked \cup {call.arg} /\ call.arg \notin config.permitted
    BY <1>2 DEF Authorize, Passes, Unchecked, Permits
  <2> QED BY <2>1, <2>2
<1>3. CASE ToolStep /\ ~Execute /\ ~Authorize
  BY <1>3 DEF ToolStep, CallPlugin, CallMcp, McpAnswers, Keep, KeepEffects
<1>4. CASE StartUp
  BY <1>4 DEF StartUp, Connect, List, Initialized, Connected, Listed, Ready, runVars
<1>5. CASE BeginRun \/ EndRun
  BY <1>5 DEF BeginRun, EndRun, runVars
<1>6. ASSUME NEW c \in Calls, Ask(c) PROVE EffectsInv'
  BY <1>6 DEF Ask
<1>7. ASSUME NEW d \in Decisions, Decide(d) PROVE EffectsInv'
  BY <1>7 DEF Decide, Keep, KeepEffects
<1>8. CASE Serving
  BY <1>8 DEF Serving, runVars
<1>9. CASE UNCHANGED vars
  BY <1>9 DEF vars, runVars
<1> QED BY <1>1, <1>2, <1>3, <1>4, <1>5, <1>6, <1>7, <1>8, <1>9 DEF Next

\* No answer, policy or order of calls has a tool start a command the user was asked about; no file
\* is written whose path is not writable as it is written, nor as it is followed.
THEOREM NothingIsWidened == Spec => []QuestionsWidenNothing
<1>1. Init => TypeInv /\ EffectsInv
  BY InitType DEF Init, EffectsInv
<1>2. TypeInv /\ EffectsInv /\ [Next]_vars => (TypeInv /\ EffectsInv)'
  BY NextType, EffectsStep
<1>3. EffectsInv => QuestionsWidenNothing
  BY DEF EffectsInv, QuestionsWidenNothing
<1> QED BY <1>1, <1>2, <1>3, PTL DEF Spec
-----------------------------------------------------------------------------
\* Steps that leave the session sets alone, and lead neither to the user nor to a tool.
LEMMA SessionKept ==
    ASSUME SessionInv,
           UNCHANGED <<config, session_allow, session_deny, settled>>,
           \/ UNCHANGED <<at, call>> /\ AskedInv
           \/ at' \notin {"asking", "tool"}
           \/ at' = "tool" /\ call'.tool # "shell_exec"
    PROVE  SessionInv' /\ AskedInv'
  BY DEF SessionInv, AskedInv, PolicyAsks, Permits

\* A command that is not refused, and that the user is not asked about, was not denied for good.
LEMMA AuthorizeSession ==
    ASSUME ApprovalInv, Authorize
    PROVE  SessionInv' /\ AskedInv'
<1> USE DEF ApprovalInv
<1>1. /\ UNCHANGED <<config, session_allow, session_deny, settled>>
    /\ SessionInv
  BY DEF Authorize, Keep, KeepSession
<1>2. CASE Passes(call.arg) /\ at' = "tool" /\ UNCHANGED call
  <2>1. SessionInv'
    BY <1>1 DEF SessionInv, PolicyAsks
  <2>2. call.arg # Nothing => call.arg \notin session_deny
    BY <1>2 DEF SessionInv, PolicyAsks, Passes, Unchecked, Permits
  <2> QED BY <1>1, <1>2, <2>1, <2>2 DEF AskedInv
<1>3. CASE Refused(call.arg) /\ Return
  BY <1>1, <1>3, SessionKept DEF Return
<1>4. CASE ~Passes(call.arg) /\ ~Refused(call.arg) /\ at' = "asking" /\ UNCHANGED call
  <2>1. SessionInv'
    BY <1>1 DEF SessionInv, PolicyAsks
  <2>2. config.policy \in Policies
    BY ConfigsAreConfigs DEF TypeInv, TypeOK, AllConfigs
  <2>3. PolicyAsks /\ ~Permits(call.arg)
    BY <1>4, <2>2 DEF Passes, Refused, Unchecked, Policies, PolicyAsks
  <2>4. call.arg \notin session_allow \cup session_deny
    BY <1>4, <2>3 DEF Passes, Refused
  <2> QED BY <1>1, <1>4, <2>1, <2>3, <2>4 DEF AskedInv, PolicyAsks, Permits
<1> QED BY <1>2, <1>3, <1>4 DEF Authorize

\* The answer goes into the set it belongs to, and nowhere else.
LEMMA DecideSession ==
    ASSUME ApprovalInv, NEW d \in Decisions, Decide(d)
    PROVE  SessionInv' /\ AskedInv'
<1> USE DEF ApprovalInv
<1>1. /\ at = "asking" /\ call.arg \in Commands
      /\ call.arg \notin session_allow \cup session_deny /\ ~Permits(call.arg) /\ PolicyAsks
      /\ config' = config
  BY DEF Decide, TypeInv, PointInv, AskedInv, Keep
<1>2. settled \in [Commands -> {"open", "allowed", "denied"}]
  BY DEF TypeInv, TypeOK
<1>3. at' # "asking"
  BY DEF Decide, Return
<1>4. CASE ~IsSticky(d)
  <2>1. UNCHANGED <<session_allow, session_deny, settled>>
    BY <1>4 DEF Decide, Remember
  <2>2. at' = "tool" => call' = call
    BY DEF Decide, Return
  <2> QED BY <1>1, <1>3, <2>1, <2>2 DEF SessionInv, AskedInv, PolicyAsks
<1>5. CASE d = "ApproveAlways"
  <2>1. /\ session_allow' = session_allow \cup {call.arg} /\ UNCHANGED session_deny
        /\ settled' = [settled EXCEPT ![call.arg] = "allowed"]
        /\ call' = call
    BY <1>5 DEF Decide, Remember, IsSticky, IsApproved
  <2> QED BY <1>1, <1>2, <1>3, <2>1 DEF SessionInv, AskedInv, PolicyAsks
<1>6. CASE d = "RejectAlways"
  <2>1. /\ session_deny' = session_deny \cup {call.arg} /\ UNCHANGED session_allow
        /\ settled' = [settled EXCEPT ![call.arg] = "denied"]
        /\ at' = "model"
    BY <1>6 DEF Decide, Remember, IsSticky, IsApproved, Return
  <2> QED BY <1>1, <1>2, <1>3, <2>1 DEF SessionInv, AskedInv, PolicyAsks, Permits
<1> QED BY <1>4, <1>5, <1>6 DEF IsSticky

LEMMA ApprovalStep == ApprovalInv /\ [Next]_vars => ApprovalInv'
<1> SUFFICES ASSUME ApprovalInv, [Next]_vars PROVE SessionInv' /\ AskedInv'
  BY NextType DEF ApprovalInv
<1> USE DEF ApprovalInv
<1>1. CASE StartUp
  BY <1>1, SessionKept DEF StartUp, Connect, List, Initialized, Connected, Listed, Ready, runVars
<1>2. CASE BeginRun
  BY <1>2 DEF BeginRun, SessionInv, AskedInv
<1>3. CASE EndRun
  BY <1>3, SessionKept DEF EndRun, runVars
<1>4. ASSUME NEW c \in Calls, Ask(c) PROVE SessionInv' /\ AskedInv'
  <2>1. at' \notin {"asking", "tool"} \/ (at' = "tool" /\ call'.tool # "shell_exec")
    BY <1>4 DEF Ask
  <2> QED BY <1>4, <2>1, SessionKept DEF Ask
<1>5. CASE ToolStep
  <2>1. CASE CallPlugin \/ CallMcp \/ McpAnswers
    BY <2>1, SessionKept DEF CallPlugin, CallMcp, McpAnswers, Keep, KeepSession, Return
  <2>2. CASE Execute
    <3>1. at' \in {"model", "panicked"}
      BY ONLY <2>2 DEF Execute, TestRun, Git, ShellExec, FileWrite, FileRead, Return
    <3> QED BY <2>2, <3>1, SessionKept DEF Execute, Keep, KeepSession
  <2> QED BY <1>5, <2>1, <2>2, AuthorizeSession DEF ToolStep
<1>6. ASSUME NEW d \in Decisions, Decide(d) PROVE SessionInv' /\ AskedInv'
  BY <1>6, DecideSession
<1>7. CASE Serving
  BY <1>7, SessionKept DEF Serving, runVars
<1>8. CASE UNCHANGED vars
  BY <1>8, SessionKept DEF vars, runVars
<1> QED BY <1>1, <1>2, <1>3, <1>4, <1>5, <1>6, <1>7, <1>8 DEF Next

\* "For this session" is for the whole run: no later call is asked about again, and none that was
\* denied gets through, under any policy and any allow-list.
THEOREM AnswersAreFinal == Spec => []StickyAnswersHold
<1>1. Init => ApprovalInv
  BY InitType DEF Init, ApprovalInv, SessionInv, AskedInv
<1>2. ApprovalInv => StickyAnswersHold
  <2> SUFFICES ASSUME ApprovalInv PROVE StickyAnswersHold
    OBVIOUS
  <2>1. at = "asking" => settled[call.arg] = "open"
    <3>1. at = "asking" => call.arg \in Commands /\ settled[call.arg] \in {"open", "allowed", "denied"}
      BY DEF ApprovalInv, TypeInv, PointInv, TypeOK
    <3> QED BY <3>1 DEF ApprovalInv, SessionInv, AskedInv
  <2>2. ASSUME at = "tool", call.tool = "shell_exec", call.arg # Nothing
        PROVE  settled[call.arg] # "denied"
    <3>1. call.arg \in Commands
      BY <2>2 DEF ApprovalInv, TypeInv, TypeOK, Calls, NoCall
    <3> QED BY <2>2, <3>1 DEF ApprovalInv, SessionInv, AskedInv
  <2> QED BY <2>1, <2>2 DEF StickyAnswersHold
<1> QED BY <1>1, <1>2, ApprovalStep, PTL DEF Spec
-----------------------------------------------------------------------------
(***************************************************************************)
(* Pipes.  A queue carries the ids from a up to, not including, b, rising, *)
(* with anything that has no id in between.                                *)
(***************************************************************************)
Carries(ids, a, b) ==
    /\ a <= b
    /\ {ids[k] : k \in DOMAIN ids} \ {NoId} = a .. b - 1
    /\ \A j, k \in DOMAIN ids : j < k /\ ids[j] # NoId /\ ids[k] # NoId => ids[j] < ids[k]

AnsweredIds(lines) == [k \in DOMAIN lines |-> lines[k].to]
AskedIds(messages) == [k \in DOMAIN messages |-> messages[k].id]

Waits(s) == wait # NoRequest /\ wait.server = s

\* The oldest request whose answer was not read, if all were sent: one line was
\* read for each request but the one that waits, and Slip of them were strays.
Oldest(s) == nextId[s] - Slip(s) - (IF Waits(s) THEN 1 ELSE 0)

\* What was not read is answered up to a request, and written behind it.
InStep(s) ==
    \E due \in Oldest(s) .. nextId[s] :
        /\ Carries(AnsweredIds(stdout[s]), Oldest(s), due)
        /\ Carries(AskedIds(stdin[s]), due, nextId[s])

\* A dead server's lines are read no more once a request could not be written.
Lost(s) == s \notin up /\ (Waits(s) => ~wait.sent)

WaitInv ==
    wait # NoRequest =>
        /\ wait.id = nextId[wait.server] - 1 /\ wait.id # NoId
        /\ ~wait.sent => wait.server \notin up

Fresh(s) ==
    /\ nextId[s] = 1 /\ unasked[s] = 0 /\ s \notin up
    /\ stdin[s] = <<>> /\ stdout[s] = <<>>

\* The requests for the tools of s that can still be answered or read.
ListIds(s) ==
    {stdin[s][k].id : k \in {j \in DOMAIN stdin[s] : stdin[s][j].method = "tools/list"}}
    \cup {stdout[s][k].to : k \in {j \in DOMAIN stdout[s] : stdout[s][j].method = "tools/list"}}

\* What the client may rely on, whoever calls it.
McpInv == (\A s \in Servers : Lost(s) \/ InStep(s)) /\ WaitInv /\ AnswersSlipByTheUnasked

\* Start-up: every server is spawned once, and asked for its tools once; what
\* is offered came in step.
StartInv ==
    /\ at \in {"connect", "initialize"} =>
          /\ mcpTools = {}
          /\ \A s \in todo : Fresh(s)
          /\ \A s \in Servers : ListIds(s) = {}
    /\ at \in {"list", "listing"} =>
          /\ \A s \in todo : ListIds(s) = {} /\ s \notin mcpTools
          /\ \A s \in mcpTools : Slip(s) = 0 /\ s \in registry
    /\ at = "listing" =>
          /\ wait.server \notin mcpTools \cup todo
          /\ wait # NoRequest /\ wait.method = "tools/list"
          /\ ListIds(wait.server) \subseteq {wait.id}

PipeInv == TypeInv /\ McpInv /\ StartInv

-----------------------------------------------------------------------------
\* The queues: an id, or something without an id, at the end; and the head off.
LEMMA CarriesNext ==
    ASSUME NEW n \in Seq(Nat), NEW a \in Int, NEW b \in Nat \ {NoId}, Carries(n, a, b)
    PROVE  Carries(Append(n, b), a, b + 1)
<1> DEFINE m == Append(n, b)
<1>1. /\ DOMAIN m = 1 .. Len(n) + 1 /\ DOMAIN n = 1 .. Len(n) /\ Len(n) \in Nat
      /\ m[Len(n) + 1] = b
      /\ \A k \in 1 .. Len(n) : m[k] = n[k] /\ n[k] \in Nat
  OBVIOUS
<1>2. \A k \in 1 .. Len(n) : n[k] # NoId => n[k] \in a .. b - 1
  BY <1>1 DEF Carries
<1>3. {m[k] : k \in DOMAIN m} = {n[k] : k \in DOMAIN n} \cup {b}
  <2>1. ASSUME NEW k \in DOMAIN m PROVE m[k] \in {n[i] : i \in DOMAIN n} \cup {b}
    BY <1>1
  <2>2. ASSUME NEW k \in DOMAIN n PROVE n[k] \in {m[i] : i \in DOMAIN m}
    BY <1>1
  <2>3. b \in {m[i] : i \in DOMAIN m}
    BY <1>1
  <2> QED BY <2>1, <2>2, <2>3
<1>4. {m[k] : k \in DOMAIN m} \ {NoId} = a .. (b + 1) - 1
  <2>1. {n[k] : k \in DOMAIN n} \ {NoId} = a .. b - 1 /\ a <= b
    BY DEF Carries
  <2>2. (a .. b - 1) \cup {b} = a .. (b + 1) - 1
    BY <2>1
  <2> HIDE DEF m
  <2> QED BY <1>3, <2>1, <2>2
<1>5. ASSUME NEW j \in DOMAIN m, NEW k \in DOMAIN m, j < k, m[j] # NoId, m[k] # NoId
      PROVE  m[j] < m[k]
  <2>1. CASE k = Len(n) + 1
    BY <1>1, <1>2, <1>5, <2>1
  <2>2. CASE k # Len(n) + 1
    BY <1>1, <1>5, <2>2 DEF Carries
  <2> QED BY <2>1, <2>2
<1>6. a <= b + 1
  BY DEF Carries
<1> HIDE DEF m
<1>7. Carries(m, a, b + 1)
  BY <1>4, <1>5, <1>6 DEF Carries
<1> QED BY <1>7 DEF m

LEMMA CarriesStray ==
    ASSUME NEW n \in Seq(Nat), NEW a \in Int, NEW b \in Int, Carries(n, a, b)
    PROVE  Carries(Append(n, NoId), a, b)
<1> DEFINE m == Append(n, NoId)
<1>1. /\ DOMAIN m = 1 .. Len(n) + 1 /\ DOMAIN n = 1 .. Len(n) /\ Len(n) \in Nat
      /\ m[Len(n) + 1] = NoId
      /\ \A k \in 1 .. Len(n) : m[k] = n[k]
  BY DEF NoId
<1>2. {m[k] : k \in DOMAIN m} \ {NoId} = {n[k] : k \in DOMAIN n} \ {NoId}
  <2>1. ASSUME NEW k \in DOMAIN m, m[k] # NoId PROVE m[k] \in {n[i] : i \in DOMAIN n}
    BY <1>1, <2>1
  <2>2. ASSUME NEW k \in DOMAIN n PROVE n[k] \in {m[i] : i \in DOMAIN m}
    BY <1>1
  <2> QED BY <2>1, <2>2
<1>3. ASSUME NEW j \in DOMAIN m, NEW k \in DOMAIN m, j < k, m[j] # NoId, m[k] # NoId
      PROVE  m[j] < m[k]
  BY <1>1, <1>3 DEF Carries
<1>4. a <= b
  BY DEF Carries
<1> HIDE DEF m
<1>5. Carries(m, a, b)
  BY <1>2, <1>3, <1>4 DEF Carries
<1> QED BY <1>5 DEF m

LEMMA CarriesHead ==
    ASSUME NEW n \in Seq(Nat), n # <<>>, NEW a \in Int, NEW b \in Int, Carries(n, a, b)
    PROVE  /\ Head(n) # NoId => Head(n) = a /\ Carries(Tail(n), a + 1, b)
           /\ Head(n) = NoId => Carries(Tail(n), a, b)
<1> DEFINE t == Tail(n)
<1>1. /\ DOMAIN n = 1 .. Len(n) /\ Len(n) \in Nat \ {0} /\ DOMAIN t = 1 .. Len(n) - 1
      /\ \A k \in 1 .. Len(n) : n[k] \in Nat
      /\ \A k \in 1 .. Len(n) - 1 : t[k] = n[k + 1]
      /\ Head(n) = n[1]
  OBVIOUS
<1>2. /\ \A k \in 1 .. Len(n) : n[k] # NoId => n[k] \in a .. b - 1
      /\ \A i \in a .. b - 1 : i # NoId /\ \E k \in 1 .. Len(n) : n[k] = i
      /\ \A j, k \in 1 .. Len(n) : j < k /\ n[j] # NoId /\ n[k] # NoId => n[j] < n[k]
      /\ a <= b
  BY <1>1 DEF Carries
<1>3. ASSUME NEW j \in DOMAIN t, NEW k \in DOMAIN t, j < k, t[j] # NoId, t[k] # NoId
      PROVE  t[j] < t[k]
  <2>1. /\ j \in Nat /\ j <= Len(n) - 1 /\ k \in Nat /\ k <= Len(n) - 1 /\ j \in 1 .. Len(n) - 1
        /\ k \in 1 .. Len(n) - 1
    BY <1>1, <1>3
  <2>2. j + 1 \in 1 .. Len(n) /\ k + 1 \in 1 .. Len(n) /\ j + 1 < k + 1
    BY ONLY <1>1, <2>1, j < k
  <2>3. t[j] = n[j + 1] /\ t[k] = n[k + 1]
    BY <1>1, <2>1
  <2> QED BY <1>2, <1>3, <2>2, <2>3
<1>4. \A x : x \in {t[k] : k \in DOMAIN t} <=> \E k \in 2 .. Len(n) : x = n[k]
  <2>1. ASSUME NEW k \in DOMAIN t PROVE k + 1 \in 2 .. Len(n) /\ t[k] = n[k + 1]
    BY <1>1
  <2>2. ASSUME NEW k \in 2 .. Len(n) PROVE k - 1 \in DOMAIN t /\ t[k - 1] = n[k]
    BY <1>1
  <2> HIDE DEF t
  <2> QED BY <2>1, <2>2
<1> HIDE DEF t
<1>5. CASE n[1] # NoId
  <2>1. n[1] \in a .. b - 1 /\ a \in a .. b - 1
    BY <1>1, <1>2, <1>5
  <2>2. PICK k \in 1 .. Len(n) : n[k] = a
    BY <1>2, <2>1
  <2>3. k = 1
    BY <1>1, <1>2, <1>5, <2>1, <2>2
  <2>4. n[1] = a
    BY <2>2, <2>3
  <2>5. ASSUME NEW x \in {t[i] : i \in DOMAIN t} \ {NoId} PROVE x \in a + 1 .. b - 1
    <3>1. PICK i \in 2 .. Len(n) : x = n[i]
      BY <1>4, <2>5
    <3>2. n[i] # NoId /\ i \in 1 .. Len(n) /\ 1 \in 1 .. Len(n) /\ 1 < i
      BY <1>1, <2>5, <3>1
    <3>3. n[i] \in a .. b - 1 /\ a < n[i]
      BY <1>2, <1>5, <2>4, <3>2
    <3> QED BY <3>1, <3>3
  <2>6. ASSUME NEW x \in a + 1 .. b - 1 PROVE x \in {t[i] : i \in DOMAIN t} \ {NoId}
    <3>1. x \in a .. b - 1 /\ x # a
      OBVIOUS
    <3>2. PICK i \in 1 .. Len(n) : n[i] = x
      BY <1>2, <3>1
    <3>3. i \in 2 .. Len(n)
      BY <1>1, <2>4, <3>1, <3>2
    <3> QED BY <1>2, <1>4, <3>1, <3>2, <3>3
  <2>7. {t[i] : i \in DOMAIN t} \ {NoId} = a + 1 .. b - 1
    BY <2>5, <2>6
  <2>8. a + 1 <= b
    BY <2>1
  <2>9. Carries(t, a + 1, b)
    BY <1>3, <2>7, <2>8 DEF Carries
  <2> QED BY <1>1, <1>5, <2>4, <2>9 DEF t
<1>6. CASE n[1] = NoId
  <2>1. ASSUME NEW x \in {t[i] : i \in DOMAIN t} \ {NoId} PROVE x \in a .. b - 1
    <3>1. PICK i \in 2 .. Len(n) : x = n[i]
      BY <1>4, <2>1
    <3> QED BY <1>1, <1>2, <2>1, <3>1
  <2>2. ASSUME NEW x \in a .. b - 1 PROVE x \in {t[i] : i \in DOMAIN t} \ {NoId}
    <3>1. PICK i \in 1 .. Len(n) : n[i] = x
      BY <1>2
    <3>2. i \in 2 .. Len(n)
      BY <1>1, <1>2, <1>6, <3>1
    <3> QED BY <1>2, <1>4, <3>1, <3>2
  <2>3. {t[i] : i \in DOMAIN t} \ {NoId} = a .. b - 1
    BY <2>1, <2>2
  <2>4. Carries(t, a, b)
    BY <1>2, <1>3, <2>3 DEF Carries
  <2> QED BY <1>1, <1>6, <2>4 DEF t
<1> QED BY <1>5, <1>6

\* What is written to a pipe, and read from it, as ids.
LEMMA LineIds ==
    ASSUME NEW q \in Seq(Lines)
    PROVE  /\ AnsweredIds(q) \in Seq(Nat) /\ (AnsweredIds(q) = <<>> <=> q = <<>>)
           /\ \A l \in Lines : AnsweredIds(Append(q, l)) = Append(AnsweredIds(q), l.to)
           /\ q # <<>> => /\ Head(AnsweredIds(q)) = Head(q).to
                          /\ AnsweredIds(Tail(q)) = Tail(AnsweredIds(q))
<1>1. \A l \in Lines : l.to \in Nat
  BY DEF Lines
<1>2. AnsweredIds(q) \in Seq(Nat) /\ Len(AnsweredIds(q)) = Len(q)
  BY <1>1 DEF AnsweredIds
<1>3. AnsweredIds(q) = <<>> <=> q = <<>>
  BY <1>2
<1>4. ASSUME NEW l \in Lines PROVE AnsweredIds(Append(q, l)) = Append(AnsweredIds(q), l.to)
  BY <1>1, <1>2 DEF AnsweredIds
<1>5. ASSUME q # <<>> PROVE /\ Head(AnsweredIds(q)) = Head(q).to
                           /\ AnsweredIds(Tail(q)) = Tail(AnsweredIds(q))
  BY <1>1, <1>2, <1>5 DEF AnsweredIds
<1> QED BY <1>2, <1>3, <1>4, <1>5

LEMMA MessageIds ==
    ASSUME NEW q \in Seq(Messages)
    PROVE  /\ AskedIds(q) \in Seq(Nat) /\ (AskedIds(q) = <<>> <=> q = <<>>)
           /\ \A m \in Messages : AskedIds(Append(q, m)) = Append(AskedIds(q), m.id)
           /\ q # <<>> => /\ Head(AskedIds(q)) = Head(q).id
                          /\ AskedIds(Tail(q)) = Tail(AskedIds(q))
<1>1. \A m \in Messages : m.id \in Nat
  BY DEF Messages
<1>2. AskedIds(q) \in Seq(Nat) /\ Len(AskedIds(q)) = Len(q)
  BY <1>1 DEF AskedIds
<1>3. AskedIds(q) = <<>> <=> q = <<>>
  BY <1>2
<1>4. ASSUME NEW m \in Messages PROVE AskedIds(Append(q, m)) = Append(AskedIds(q), m.id)
  BY <1>1, <1>2 DEF AskedIds
<1>5. ASSUME q # <<>> PROVE /\ Head(AskedIds(q)) = Head(q).id
                           /\ AskedIds(Tail(q)) = Tail(AskedIds(q))
  BY <1>1, <1>2, <1>5 DEF AskedIds
<1> QED BY <1>2, <1>3, <1>4, <1>5

\* A stray at the end is one more, a stray at the head one less.
LEMMA StraysCount ==
    ASSUME NEW q \in Seq(Lines)
    PROVE  /\ Cardinality(Strays(q)) \in Nat
           /\ \A l \in Lines : Cardinality(Strays(Append(q, l))) =
                 Cardinality(Strays(q)) + (IF l.to = NoId THEN 1 ELSE 0)
           /\ q # <<>> => Cardinality(Strays(Tail(q))) =
                 Cardinality(Strays(q)) - (IF Head(q).to = NoId THEN 1 ELSE 0)
<1>1. IsFiniteSet(Strays(q)) /\ Strays(q) \subseteq 1 .. Len(q) /\ Len(q) \in Nat
  BY FS_Interval, FS_Subset DEF Strays
<1>2. Cardinality(Strays(q)) \in Nat
  BY <1>1, FS_CardinalityType
<1>3. ASSUME NEW l \in Lines
      PROVE  Cardinality(Strays(Append(q, l))) =
               Cardinality(Strays(q)) + (IF l.to = NoId THEN 1 ELSE 0)
  <2>1. /\ DOMAIN Append(q, l) = 1 .. Len(q) + 1 /\ Append(q, l)[Len(q) + 1] = l
        /\ \A k \in 1 .. Len(q) : Append(q, l)[k] = q[k]
    OBVIOUS
  <2>2. Strays(Append(q, l)) = Strays(q) \cup (IF l.to = NoId THEN {Len(q) + 1} ELSE {})
    BY <1>1, <2>1 DEF Strays
  <2>3. Len(q) + 1 \notin Strays(q)
    BY <1>1
  <2>4. CASE l.to = NoId
    BY <1>1, <2>2, <2>3, <2>4, FS_AddElement
  <2>5. CASE l.to # NoId
    BY <1>2, <2>2, <2>5
  <2> QED BY <2>4, <2>5
<1>4. ASSUME q # <<>>
      PROVE  Cardinality(Strays(Tail(q))) =
               Cardinality(Strays(q)) - (IF Head(q).to = NoId THEN 1 ELSE 0)
  <2> DEFINE S == Strays(Tail(q))
             R == Strays(q) \ {1}
             f == [k \in S |-> k + 1]
  <2>1. /\ Len(q) \in Nat \ {0} /\ DOMAIN Tail(q) = 1 .. Len(q) - 1
        /\ \A k \in 1 .. Len(q) - 1 : Tail(q)[k] = q[k + 1]
        /\ Head(q) = q[1]
    BY <1>4
  <2>2. \A k \in S : k \in 1 .. Len(q) - 1 /\ k + 1 \in R
    BY <2>1 DEF Strays
  <2>3. \A k \in R : k - 1 \in S /\ k \in Nat
    BY <1>1, <2>1 DEF Strays
  <2>4. IsFiniteSet(S)
    <3>1. S \subseteq 1 .. Len(q)
      BY <2>1, <2>2
    <3>2. IsFiniteSet(1 .. Len(q))
      BY <2>1, FS_Interval
    <3> QED BY <3>1, <3>2, FS_Subset
  <2> HIDE DEF S, R
  <2>5. f \in Injection(S, R)
    BY <2>2 DEF Injection, IsInjective
  <2>6. f \in Surjection(S, R)
    <3>1. ASSUME NEW k \in R PROVE \E j \in S : f[j] = k
      BY <2>3
    <3> QED BY <2>2, <3>1 DEF Surjection
  <2>7. ExistsBijection(S, R)
    BY <2>5, <2>6 DEF ExistsBijection, Bijection
  <2>8. Cardinality(R) = Cardinality(S)
    BY <2>4, <2>7, FS_Bijection
  <2>9. 1 \in Strays(q) <=> Head(q).to = NoId
    BY <2>1 DEF Strays
  <2>10. Cardinality(R) = IF 1 \in Strays(q) THEN Cardinality(Strays(q)) - 1
                         ELSE Cardinality(Strays(q))
    BY <1>1, FS_RemoveElement DEF R
  <2>11. Cardinality(S) = Cardinality(Strays(q)) - (IF Head(q).to = NoId THEN 1 ELSE 0)
    BY <1>2, <2>8, <2>9, <2>10
  <2> QED BY <2>11 DEF S
<1> QED BY <1>2, <1>3, <1>4
-----------------------------------------------------------------------------
\* A pipe that a step does not touch.
Untouched(t) ==
    /\ stdin'[t] = stdin[t] /\ stdout'[t] = stdout[t]
    /\ nextId'[t] = nextId[t] /\ unasked'[t] = unasked[t]
    /\ t \in up' <=> t \in up
    /\ Waits(t)' <=> Waits(t)
    /\ Waits(t) => wait' = wait

LEMMA UntouchedKeeps ==
    ASSUME NEW t \in Servers, Untouched(t), Lost(t) \/ InStep(t)
    PROVE  Lost(t)' \/ InStep(t)'
<1>1. CASE Lost(t)
  BY <1>1 DEF Untouched, Lost
<1>2. CASE InStep(t)
  <2>1. Oldest(t)' = Oldest(t)
    BY DEF Untouched, Oldest, Slip
  <2>2. InStep(t)'
    BY <1>2, <2>1 DEF Untouched, InStep
  <2> QED BY <2>2
<1> QED BY <1>1, <1>2

LEMMA SlipType ==
    ASSUME McpTypeOK, NEW s \in Servers
    PROVE  Slip(s) \in Int /\ Oldest(s) \in Int /\ nextId[s] \in Nat \ {NoId}
<1>1. stdout[s] \in Seq(Lines) /\ unasked[s] \in Nat /\ nextId[s] \in Nat \ {NoId}
  BY DEF McpTypeOK, NoId
<1>2. Slip(s) \in Int
  BY <1>1, StraysCount DEF Slip
<1> QED BY <1>1, <1>2 DEF Oldest

\* An answer stays as far behind as it is while nothing is read.
LEMMA AnswerKept ==
    ASSUME McpTypeOK, AnswersSlipByTheUnasked, answer' = answer,
           \A t \in Servers : Slip(t)' = Slip(t)
    PROVE  AnswersSlipByTheUnasked'
<1> SUFFICES ASSUME answer.to # NoId
             PROVE  answer.id - answer.to = Slip(answer.server)'
  BY DEF AnswersSlipByTheUnasked, Slip
<1>1. answer.server \in Servers
  BY DEF McpTypeOK, NoAnswer
<1> QED BY <1>1 DEF AnswersSlipByTheUnasked
-----------------------------------------------------------------------------
LEMMA SpawnPipe ==
    ASSUME McpTypeOK, McpInv, NEW s \in Servers, Fresh(s), Spawn(s)
    PROVE  McpInv' /\ \A t \in Servers : Slip(t)' = Slip(t)
<1>1. /\ wait = NoRequest
      /\ wait' = [server |-> s, id |-> 1, method |-> "initialize", sent |-> TRUE]
      /\ nextId' = [nextId EXCEPT ![s] = 2]
      /\ UNCHANGED <<stdout, unasked, answer>> /\ up' = up \cup {s}
      /\ stdin' = [stdin EXCEPT ![s] = <<[id |-> 1, method |-> "initialize"]>>]
  BY DEF Spawn, Await, Fresh
<1>2. wait' # NoRequest /\ wait'.server = s
  BY <1>1 DEF NoRequest
<1>3. \A t \in Servers : Slip(t)' = Slip(t)
  BY <1>1 DEF Slip
<1>4. ASSUME NEW t \in Servers, t # s PROVE Lost(t)' \/ InStep(t)'
  <2>1. Untouched(t)
    BY <1>1, <1>2, <1>4 DEF Untouched, Waits, McpTypeOK
  <2> QED BY <2>1, UntouchedKeeps DEF McpInv
<1>5. InStep(s)'
  <2>1. Slip(s) = 0
    <3>1. Strays(stdout[s]) = {}
      BY DEF Fresh, Strays
    <3>2. Cardinality({}) = 0
      BY FS_EmptySet
    <3>3. unasked[s] = 0
      BY DEF Fresh
    <3>4. Slip(s) = 0 - 0
      BY <3>1, <3>2, <3>3 DEF Slip
    <3> QED BY <3>4
  <2>2. nextId'[s] = 2 /\ Waits(s)'
    BY <1>1, <1>2 DEF McpTypeOK, Waits
  <2>3. Oldest(s)' = 1
    BY <1>3, <2>1, <2>2 DEF Oldest
  <2>4. AnsweredIds(stdout[s])' = <<>> /\ AskedIds(stdin[s])' = <<1>>
    <3>1. stdout'[s] = <<>> /\ stdin'[s] = <<[id |-> 1, method |-> "initialize"]>>
      BY <1>1 DEF McpTypeOK, Fresh
    <3> QED BY <3>1 DEF AnsweredIds, AskedIds
  <2>5. Carries(<<>>, 1, 1) /\ Carries(<<1>>, 1, 2)
    BY DEF Carries, NoId
  <2> QED BY <2>2, <2>3, <2>4, <2>5 DEF InStep
<1>6. WaitInv'
  <2>1. nextId'[s] = 2
    BY <1>1 DEF McpTypeOK
  <2> QED BY <1>1, <1>2, <2>1 DEF WaitInv, NoId
<1>7. AnswersSlipByTheUnasked'
  BY <1>1, <1>3, AnswerKept DEF McpInv
<1> QED BY <1>3, <1>4, <1>5, <1>6, <1>7 DEF McpInv

LEMMA RequestPipe ==
    ASSUME McpTypeOK, McpInv, NEW s \in Servers, NEW m \in Methods, Request(s, m)
    PROVE  McpInv' /\ \A t \in Servers : Slip(t)' = Slip(t)
<1>1. /\ wait = NoRequest
      /\ wait' = [server |-> s, id |-> nextId[s], method |-> m, sent |-> s \in up]
      /\ nextId' = [nextId EXCEPT ![s] = nextId[s] + 1]
      /\ UNCHANGED <<stdout, unasked, answer, up>>
      /\ stdin' = [stdin EXCEPT ![s] = IF s \in up THEN Append(stdin[s], [id |-> nextId[s], method |-> m])
                                       ELSE stdin[s]]
  BY DEF Request, Await, Write
<1>2. wait' # NoRequest /\ wait'.server = s
  BY <1>1 DEF NoRequest, Methods
<1>3. \A t \in Servers : Slip(t)' = Slip(t)
  BY <1>1 DEF Slip
<1>4. nextId[s] \in Nat \ {NoId} /\ nextId'[s] = nextId[s] + 1 /\ Slip(s) \in Int
  BY <1>1, SlipType DEF McpTypeOK
<1>5. ASSUME NEW t \in Servers, t # s PROVE Lost(t)' \/ InStep(t)'
  <2>1. Untouched(t)
    BY <1>1, <1>2, <1>5 DEF Untouched, Waits, McpTypeOK
  <2> QED BY <2>1, UntouchedKeeps DEF McpInv
<1>6. CASE s \notin up
  <2>1. Lost(s)'
    BY <1>1, <1>6 DEF Lost
  <2>2. WaitInv'
    BY <1>1, <1>4, <1>6 DEF WaitInv
  <2> QED BY <1>1, <1>3, <1>5, <2>1, <2>2, AnswerKept DEF McpInv
<1>7. CASE s \in up
  <2>1. PICK due \in Oldest(s) .. nextId[s] :
          /\ Carries(AnsweredIds(stdout[s]), Oldest(s), due)
          /\ Carries(AskedIds(stdin[s]), due, nextId[s])
    BY <1>7 DEF McpInv, Lost, InStep
  <2>2. Oldest(s)' = Oldest(s) /\ Oldest(s) \in Int
    BY <1>1, <1>2, <1>3, <1>4 DEF Oldest, Waits
  <2>3. [id |-> nextId[s], method |-> m] \in Messages /\ stdin[s] \in Seq(Messages)
    BY <1>4 DEF Messages, McpTypeOK
  <2>4. AskedIds(stdin[s])' = Append(AskedIds(stdin[s]), nextId[s])
    <3>1. stdin'[s] = Append(stdin[s], [id |-> nextId[s], method |-> m])
      BY <1>1, <1>7 DEF McpTypeOK
    <3> QED BY <2>3, <3>1, MessageIds
  <2>5. Carries(Append(AskedIds(stdin[s]), nextId[s]), due, nextId[s] + 1)
    BY <1>4, <2>1, <2>2, <2>3, MessageIds, CarriesNext
  <2>6. due \in Oldest(s) .. nextId[s] + 1
    BY <1>4, <2>1, <2>2
  <2>7. AnsweredIds(stdout[s])' = AnsweredIds(stdout[s])
    BY <1>1
  <2>8. InStep(s)'
    BY <1>4, <2>1, <2>2, <2>4, <2>5, <2>6, <2>7 DEF InStep
  <2>9. WaitInv'
    <3>1. wait'.id = nextId[s] /\ wait'.server = s
      BY <1>1
    <3>2. wait'.sent
      BY <1>1, <1>7
    <3> QED BY <1>4, <3>1, <3>2 DEF WaitInv
  <2> QED BY <1>1, <1>3, <1>5, <2>8, <2>9, AnswerKept DEF McpInv
<1> QED BY <1>6, <1>7
LEMMA AnswerPipe ==
    ASSUME McpTypeOK, McpInv, NEW s \in Servers, Answer(s)
    PROVE  McpInv' /\ \A t \in Servers : Slip(t)' = Slip(t)
<1> DEFINE m == Head(stdin[s])
<1>1. /\ s \in up /\ stdin[s] # <<>> /\ UNCHANGED <<nextId, up, wait, answer>>
      /\ stdin' = [stdin EXCEPT ![s] = Tail(stdin[s])]
      /\ \/ m.id # NoId /\ UNCHANGED unasked /\
              \E ok \in BOOLEAN : Say(s, [to |-> m.id, method |-> m.method, ok |-> ok])
         \/ m.id = NoId /\ UNCHANGED <<stdout, unasked>>
         \/ m.id = NoId /\ Say(s, Unasked) /\ unasked' = [unasked EXCEPT ![s] = unasked[s] + 1]
  BY DEF Answer
<1>2. /\ stdin[s] \in Seq(Messages) /\ stdout[s] \in Seq(Lines) /\ m \in Messages
      /\ nextId[s] \in Nat \ {NoId} /\ Oldest(s) \in Int /\ Slip(s) \in Int /\ unasked[s] \in Nat
  BY <1>1, SlipType DEF McpTypeOK
<1>3. PICK due \in Oldest(s) .. nextId[s] :
        /\ Carries(AnsweredIds(stdout[s]), Oldest(s), due)
        /\ Carries(AskedIds(stdin[s]), due, nextId[s])
  BY <1>1 DEF McpInv, Lost, InStep
<1>4. stdin'[s] = Tail(stdin[s]) /\ AskedIds(stdin[s])' = Tail(AskedIds(stdin[s]))
      /\ Head(AskedIds(stdin[s])) = m.id
  BY <1>1, <1>2, MessageIds DEF McpTypeOK
<1>5. /\ m.id # NoId => m.id = due /\ Carries(AskedIds(stdin[s])', due + 1, nextId[s])
      /\ m.id = NoId => Carries(AskedIds(stdin[s])', due, nextId[s])
  <2> DEFINE n == AskedIds(stdin[s])
  <2>1. n \in Seq(Nat) /\ n # <<>> /\ due \in Int /\ nextId[s] \in Int
    BY <1>1, <1>2, <1>3, MessageIds
  <2>2. Carries(n, due, nextId[s])
    BY <1>3
  <2> HIDE DEF n
  <2>3. /\ Head(n) # NoId => Head(n) = due /\ Carries(Tail(n), due + 1, nextId[s])
        /\ Head(n) = NoId => Carries(Tail(n), due, nextId[s])
    BY <2>1, <2>2, CarriesHead
  <2> QED BY <1>4, <2>3 DEF n
<1>6. ASSUME NEW line \in Lines, Say(s, line)
      PROVE  /\ AnsweredIds(stdout[s])' = Append(AnsweredIds(stdout[s]), line.to)
             /\ Cardinality(Strays(stdout[s]))' =
                  Cardinality(Strays(stdout[s])) + (IF line.to = NoId THEN 1 ELSE 0)
             /\ \A t \in Servers : t # s => stdout'[t] = stdout[t]
  <2>1. /\ stdout'[s] = Append(stdout[s], line)
        /\ \A t \in Servers : t # s => stdout'[t] = stdout[t]
    BY <1>6 DEF Say, McpTypeOK
  <2> QED BY <1>2, <2>1, LineIds, StraysCount
<1>7. Unasked \in Lines /\ Unasked.to = NoId
  BY DEF Unasked, Lines, NoId
<1>8. /\ Slip(s)' = Slip(s)
      /\ \A t \in Servers : t # s => stdout'[t] = stdout[t] /\ unasked'[t] = unasked[t]
      /\ \E d \in Oldest(s) .. nextId[s] :
           /\ Carries(AnsweredIds(stdout[s])', Oldest(s), d)
           /\ Carries(AskedIds(stdin[s])', d, nextId[s])
  <2>1. CASE m.id # NoId
    <3>1. PICK ok \in BOOLEAN : Say(s, [to |-> m.id, method |-> m.method, ok |-> ok])
      BY <1>1, <2>1
    <3> DEFINE line == [to |-> m.id, method |-> m.method, ok |-> ok]
    <3>2. line \in Lines /\ line.to = due /\ due # NoId /\ due \in Nat
      BY <1>2, <1>5, <2>1 DEF Messages, Lines
    <3> HIDE DEF line
    <3>3. AnsweredIds(stdout[s])' = Append(AnsweredIds(stdout[s]), due)
      BY <1>6, <3>1, <3>2 DEF line
    <3>4. Carries(AnsweredIds(stdout[s])', Oldest(s), due + 1)
      BY <1>2, <1>3, <3>2, <3>3, LineIds, CarriesNext
    <3>5. due + 1 \in Oldest(s) .. nextId[s]
      BY <1>2, <1>3, <1>5, <2>1 DEF Carries
    <3>6. UNCHANGED unasked /\ Cardinality(Strays(stdout[s]))' = Cardinality(Strays(stdout[s]))
      <4>1. Say(s, line)
        BY <3>1 DEF line
      <4>2. Cardinality(Strays(stdout[s]))' = Cardinality(Strays(stdout[s])) + 0
        BY <1>6, <2>1, <3>2, <4>1
      <4> QED BY <1>1, <1>2, <2>1, <4>2, StraysCount
    <3>7. Slip(s)' = Slip(s)
      BY <3>6 DEF Slip
    <3>8. \A t \in Servers : t # s => stdout'[t] = stdout[t] /\ unasked'[t] = unasked[t]
      BY <1>6, <3>1, <3>2, <3>6 DEF line
    <3> QED BY <1>5, <2>1, <3>4, <3>5, <3>7, <3>8
  <2>2. CASE m.id = NoId /\ UNCHANGED <<stdout, unasked>>
    BY <1>3, <1>5, <2>2 DEF Slip
  <2>3. CASE m.id = NoId /\ Say(s, Unasked) /\ unasked' = [unasked EXCEPT ![s] = unasked[s] + 1]
    <3>1. AnsweredIds(stdout[s])' = Append(AnsweredIds(stdout[s]), NoId)
      BY <1>6, <1>7, <2>3
    <3>2. Carries(AnsweredIds(stdout[s])', Oldest(s), due)
      BY <1>2, <1>3, <3>1, LineIds, CarriesStray
    <3>3. Cardinality(Strays(stdout[s]))' = Cardinality(Strays(stdout[s])) + 1
      BY <1>6, <1>7, <2>3
    <3>4. /\ unasked'[s] = unasked[s] + 1
          /\ \A t \in Servers : t # s => unasked'[t] = unasked[t]
      BY <2>3 DEF McpTypeOK
    <3>5. Slip(s)' = Slip(s)
      BY <1>2, <3>3, <3>4, StraysCount DEF Slip
    <3>6. \A t \in Servers : t # s => stdout'[t] = stdout[t]
      BY <1>6, <1>7, <2>3
    <3> QED BY <1>3, <1>5, <2>3, <3>2, <3>4, <3>5, <3>6
  <2> QED BY <1>1, <2>1, <2>2, <2>3
<1>9. InStep(s)'
  <2>1. Oldest(s)' = Oldest(s) /\ nextId'[s] = nextId[s]
    BY <1>1, <1>8 DEF Oldest, Waits
  <2> QED BY <1>8, <2>1 DEF InStep
<1>10. ASSUME NEW t \in Servers, t # s PROVE (Lost(t)' \/ InStep(t)') /\ Slip(t)' = Slip(t)
  <2>1. Untouched(t)
    BY <1>1, <1>8, <1>10 DEF Untouched, Waits, McpTypeOK
  <2> QED BY <2>1, UntouchedKeeps DEF McpInv, Untouched, Slip
<1>11. WaitInv'
  BY <1>1 DEF McpInv, WaitInv
<1> QED BY <1>1, <1>8, <1>9, <1>10, <1>11, AnswerKept DEF McpInv

LEMMA VolunteerPipe ==
    ASSUME McpTypeOK, McpInv, NEW s \in Servers, Volunteer(s)
    PROVE  McpInv' /\ \A t \in Servers : Slip(t)' = Slip(t)
<1>1. /\ s \in up /\ UNCHANGED <<nextId, stdin, up, wait, answer>>
      /\ stdout' = [stdout EXCEPT ![s] = Append(stdout[s], Unasked)]
      /\ unasked' = [unasked EXCEPT ![s] = unasked[s] + 1]
  BY DEF Volunteer, Say
<1>2. /\ stdout[s] \in Seq(Lines) /\ Oldest(s) \in Int /\ unasked[s] \in Nat
      /\ nextId[s] \in Nat \ {NoId}
  BY SlipType DEF McpTypeOK
<1>3. PICK due \in Oldest(s) .. nextId[s] :
        /\ Carries(AnsweredIds(stdout[s]), Oldest(s), due)
        /\ Carries(AskedIds(stdin[s]), due, nextId[s])
  BY <1>1 DEF McpInv, Lost, InStep
<1>4. /\ stdout'[s] = Append(stdout[s], Unasked) /\ unasked'[s] = unasked[s] + 1
      /\ \A t \in Servers : t # s => stdout'[t] = stdout[t] /\ unasked'[t] = unasked[t]
  BY <1>1 DEF McpTypeOK
<1>5. Unasked \in Lines /\ Unasked.to = NoId
  BY DEF Unasked, Lines, NoId
<1>6. Slip(s)' = Slip(s)
  <2>1. Cardinality(Strays(stdout[s]))' = Cardinality(Strays(stdout[s])) + 1
    BY <1>2, <1>4, <1>5, StraysCount
  <2> QED BY <1>2, <1>4, <2>1, StraysCount DEF Slip
<1>7. Carries(AnsweredIds(stdout[s])', Oldest(s), due)
  <2>1. AnsweredIds(stdout[s])' = Append(AnsweredIds(stdout[s]), NoId)
    BY <1>2, <1>4, <1>5, LineIds
  <2> QED BY <1>2, <1>3, <2>1, LineIds, CarriesStray
<1>8. InStep(s)'
  <2>1. Oldest(s)' = Oldest(s)
    BY <1>1, <1>6 DEF Oldest, Waits
  <2> QED BY <1>1, <1>3, <1>7, <2>1 DEF InStep
<1>9. ASSUME NEW t \in Servers, t # s PROVE (Lost(t)' \/ InStep(t)') /\ Slip(t)' = Slip(t)
  <2>1. Untouched(t)
    BY <1>1, <1>4, <1>9 DEF Untouched, Waits
  <2> QED BY <2>1, UntouchedKeeps DEF McpInv, Untouched, Slip
<1>10. WaitInv'
  BY <1>1 DEF McpInv, WaitInv
<1> QED BY <1>1, <1>6, <1>8, <1>9, <1>10, AnswerKept DEF McpInv

LEMMA DiePipe ==
    ASSUME McpTypeOK, McpInv, NEW s \in Servers, Die(s)
    PROVE  McpInv' /\ \A t \in Servers : Slip(t)' = Slip(t)
<1>1. s \in up /\ up' = up \ {s} /\ UNCHANGED <<nextId, stdin, stdout, unasked, wait, answer>>
  BY DEF Die
<1>2. \A t \in Servers : Slip(t)' = Slip(t) /\ Oldest(t)' = Oldest(t)
  BY <1>1 DEF Slip, Oldest, Waits
<1>3. ASSUME NEW t \in Servers PROVE Lost(t)' \/ InStep(t)'
  <2>1. CASE Lost(t)
    BY <1>1, <2>1 DEF Lost, Waits
  <2>2. CASE InStep(t)
    BY <1>1, <1>2, <2>2 DEF InStep
  <2> QED BY <2>1, <2>2 DEF McpInv
<1>4. WaitInv'
  BY <1>1 DEF McpInv, WaitInv
<1> QED BY <1>1, <1>2, <1>3, <1>4, AnswerKept DEF McpInv

\* What is read is the oldest answer, or a stray.
LEMMA ReceivePipe ==
    ASSUME McpTypeOK, McpInv, Receive, UNCHANGED stdin \/ Notify(wait.server)
    PROVE  /\ McpInv'
           /\ \A t \in Servers : t # wait.server =>
                 stdin'[t] = stdin[t] /\ stdout'[t] = stdout[t] /\ Slip(t)' = Slip(t)
<1>0. PICK s \in Servers : s = wait.server
  BY ReceiveType
<1>1. /\ wait # NoRequest /\ wait' = NoRequest /\ UNCHANGED <<nextId, up, unasked>>
      /\ wait.id \in Nat
      /\ \/ /\ wait.sent /\ stdout[s] # <<>> /\ answer' = Taken(Head(stdout[s]))
            /\ stdout' = [stdout EXCEPT ![s] = Tail(stdout[s])]
         \/ /\ ~wait.sent \/ s \notin up
            /\ answer' = Taken(Unasked) /\ UNCHANGED stdout
  BY <1>0, ReceiveType DEF Receive
<1>2. \A t \in Servers : t # s => stdin'[t] = stdin[t] /\ stdout'[t] = stdout[t]
  BY <1>0, <1>1 DEF Notify, Write, McpTypeOK
<1>3. \A t \in Servers : t # s => Slip(t)' = Slip(t)
  BY <1>1, <1>2 DEF Slip
<1>4. ASSUME NEW t \in Servers, t # s PROVE Lost(t)' \/ InStep(t)'
  <2>1. Untouched(t)
    BY <1>0, <1>1, <1>2, <1>4 DEF Untouched, Waits
  <2> QED BY <2>1, UntouchedKeeps DEF McpInv
<1>5. WaitInv' /\ ~ Waits(s)'
  BY <1>1 DEF WaitInv, Waits
<1>6. /\ wait.id = nextId[s] - 1 /\ Slip(s) \in Int /\ nextId[s] \in Nat \ {NoId}
      /\ Oldest(s) \in Int /\ Oldest(s) = nextId[s] - Slip(s) - 1
  <2>1. Waits(s)
    BY <1>0, <1>1 DEF Waits
  <2> QED BY <1>0, <1>1, <2>1, SlipType DEF McpInv, WaitInv, Oldest
<1>7. CASE (~wait.sent \/ s \notin up) /\ answer' = Taken(Unasked) /\ UNCHANGED stdout
  <2>1. s \notin up
    BY <1>0, <1>1, <1>7 DEF McpInv, WaitInv
  <2>2. Lost(s)'
    BY <1>1, <1>5, <2>1 DEF Lost
  <2>3. AnswersSlipByTheUnasked'
    BY <1>7 DEF AnswersSlipByTheUnasked, Taken, Unasked
  <2> QED BY <1>0, <1>2, <1>3, <1>4, <1>5, <2>2, <2>3 DEF McpInv
<1>8. CASE /\ wait.sent /\ stdout[s] # <<>> /\ answer' = Taken(Head(stdout[s]))
           /\ stdout' = [stdout EXCEPT ![s] = Tail(stdout[s])]
  <2> DEFINE line == Head(stdout[s])
             n == AnsweredIds(stdout[s])
  <2>1. PICK due \in Oldest(s) .. nextId[s] :
          Carries(n, Oldest(s), due) /\ Carries(AskedIds(stdin[s]), due, nextId[s])
    BY <1>0, <1>1, <1>8 DEF McpInv, Lost, InStep, Waits
  <2>2. /\ stdout[s] \in Seq(Lines) /\ stdin[s] \in Seq(Messages)
        /\ line \in Lines /\ line.to \in Nat
        /\ stdout'[s] = Tail(stdout[s])
    <3>1. stdout[s] \in Seq(Lines) /\ stdin[s] \in Seq(Messages) /\ stdout'[s] = Tail(stdout[s])
      BY <1>8 DEF McpTypeOK
    <3>2. line \in Lines
      BY <1>8, <3>1
    <3>3. line.to \in Nat
      BY <3>2 DEF Lines
    <3> QED BY <3>1, <3>2, <3>3
  <2>3. /\ n \in Seq(Nat) /\ n # <<>> /\ Head(n) = line.to
        /\ AnsweredIds(stdout[s])' = Tail(n)
    BY <1>8, <2>2, LineIds
  <2>4. Cardinality(Strays(stdout[s]))' =
          Cardinality(Strays(stdout[s])) - (IF line.to = NoId THEN 1 ELSE 0)
    BY <1>8, <2>2, StraysCount
  <2>5. Slip(s)' = Slip(s) + (IF line.to = NoId THEN 1 ELSE 0)
    <3>1. unasked'[s] = unasked[s] /\ unasked[s] \in Nat /\ Cardinality(Strays(stdout[s])) \in Nat
      BY <1>1, <2>2, StraysCount DEF McpTypeOK
    <3> QED BY <2>4, <3>1 DEF Slip
  <2> HIDE DEF n, line
  <2>6. /\ line.to # NoId => line.to = Oldest(s) /\ Carries(Tail(n), Oldest(s) + 1, due)
        /\ line.to = NoId => Carries(Tail(n), Oldest(s), due)
    BY <1>6, <2>1, <2>3, CarriesHead
  <2>7. Oldest(s)' = Oldest(s) + (IF line.to = NoId THEN 0 ELSE 1) /\ nextId'[s] = nextId[s]
    BY <1>1, <1>5, <1>6, <2>5 DEF Oldest
  <2>8. Carries(AskedIds(stdin[s])', due, nextId[s])
    <3>1. CASE UNCHANGED stdin
      BY <2>1, <3>1
    <3>2. CASE Notify(wait.server)
      <4>1. stdin'[s] = stdin[s] \/ stdin'[s] = Append(stdin[s], [id |-> NoId, method |-> "none"])
        BY <1>0, <3>2 DEF Notify, Write, McpTypeOK
      <4>2. [id |-> NoId, method |-> "none"] \in Messages
        BY DEF Messages, NoId
      <4>3. CASE stdin'[s] = Append(stdin[s], [id |-> NoId, method |-> "none"])
        <5>1. AskedIds(stdin[s])' = Append(AskedIds(stdin[s]), NoId)
          BY <2>2, <4>2, <4>3, MessageIds
        <5> QED BY <1>6, <2>1, <2>2, <5>1, MessageIds, CarriesStray
      <4> QED BY <2>1, <4>1, <4>3
    <3> QED BY <3>1, <3>2
  <2>9. InStep(s)'
    <3>1. Carries(AnsweredIds(stdout[s])', Oldest(s)', due)
      BY <1>6, <2>3, <2>6, <2>7
    <3>2. due \in Oldest(s)' .. nextId'[s]
      BY <1>6, <2>1, <2>7, <3>1 DEF Carries
    <3> QED BY <2>7, <2>8, <3>1, <3>2 DEF InStep
  <2>10. AnswersSlipByTheUnasked'
    <3>1. answer'.to = line.to /\ answer'.id = wait.id /\ answer'.server = s
      BY <1>0, <1>8 DEF Taken, line
    <3>2. line.to # NoId => wait.id - line.to = Slip(s)'
      BY <1>6, <2>5, <2>6
    <3> QED BY <3>1, <3>2 DEF AnswersSlipByTheUnasked, Slip
  <2> QED BY <1>0, <1>2, <1>3, <1>4, <1>5, <2>9, <2>10 DEF McpInv
<1> QED BY <1>1, <1>7, <1>8
-----------------------------------------------------------------------------
\* What is in a queue after something was added, or taken.
LEMMA QueueItems ==
    ASSUME NEW S, NEW q \in Seq(S)
    PROVE  /\ q # <<>> => \A k \in DOMAIN Tail(q) : \E j \in DOMAIN q : Tail(q)[k] = q[j]
           /\ q # <<>> => \E j \in DOMAIN q : Head(q) = q[j]
           /\ \A x \in S : \A k \in DOMAIN Append(q, x) :
                 Append(q, x)[k] = x \/ \E j \in DOMAIN q : Append(q, x)[k] = q[j]
<1>1. ASSUME q # <<>>, NEW k \in DOMAIN Tail(q) PROVE \E j \in DOMAIN q : Tail(q)[k] = q[j]
  <2>1. k + 1 \in DOMAIN q /\ Tail(q)[k] = q[k + 1]
    BY <1>1
  <2> QED BY <2>1
<1>2. ASSUME q # <<>> PROVE \E j \in DOMAIN q : Head(q) = q[j]
  <2>1. 1 \in DOMAIN q /\ Head(q) = q[1]
    BY <1>2
  <2> QED BY <2>1
<1>3. ASSUME NEW x \in S, NEW k \in DOMAIN Append(q, x)
      PROVE  Append(q, x)[k] = x \/ \E j \in DOMAIN q : Append(q, x)[k] = q[j]
  <2>1. CASE k = Len(q) + 1
    BY <2>1
  <2>2. CASE k # Len(q) + 1
    <3>1. k \in DOMAIN q /\ Append(q, x)[k] = q[k]
      BY <1>3, <2>2
    <3> QED BY <3>1
  <2> QED BY <2>1, <2>2
<1> QED BY <1>1, <1>2, <1>3

\* No step but the request for the tools adds to the requests for them.
LEMMA ReceiveList ==
    ASSUME McpTypeOK, Receive, UNCHANGED stdin \/ Notify(wait.server), NEW t \in Servers
    PROVE  ListIds(t)' \subseteq ListIds(t)
<1>1. stdin[t] \in Seq(Messages) /\ stdout[t] \in Seq(Lines)
  BY DEF McpTypeOK
<1>2. ASSUME NEW k \in DOMAIN stdout'[t] PROVE \E j \in DOMAIN stdout[t] : stdout'[t][k] = stdout[t][j]
  <2>1. stdout'[t] = stdout[t] \/ (stdout[t] # <<>> /\ stdout'[t] = Tail(stdout[t]))
    BY DEF Receive, McpTypeOK
  <2>2. CASE stdout'[t] = stdout[t]
    BY <1>2, <2>2
  <2>3. CASE stdout[t] # <<>> /\ stdout'[t] = Tail(stdout[t])
    <3>1. k \in DOMAIN Tail(stdout[t]) /\ stdout'[t][k] = Tail(stdout[t])[k]
      BY <1>2, <2>3
    <3> QED BY <1>1, <2>3, <3>1, QueueItems
  <2> QED BY <2>1, <2>2, <2>3
<1>3. ASSUME NEW k \in DOMAIN stdin'[t], stdin'[t][k].method = "tools/list"
      PROVE  \E j \in DOMAIN stdin[t] : stdin'[t][k] = stdin[t][j]
  <2>1. stdin'[t] = stdin[t] \/ stdin'[t] = Append(stdin[t], [id |-> NoId, method |-> "none"])
    BY DEF Notify, Write, McpTypeOK
  <2>2. [id |-> NoId, method |-> "none"] \in Messages
    BY DEF Messages, NoId
  <2>3. CASE stdin'[t] = Append(stdin[t], [id |-> NoId, method |-> "none"])
    <3>1. stdin'[t][k] = [id |-> NoId, method |-> "none"] \/ \E j \in DOMAIN stdin[t] : stdin'[t][k] = stdin[t][j]
      BY <1>1, <1>3, <2>2, <2>3, QueueItems
    <3> QED BY <1>3, <3>1
  <2> QED BY <1>3, <2>1, <2>3
<1> QED BY <1>2, <1>3 DEF ListIds

LEMMA ServerList ==
    ASSUME McpTypeOK, ServerStep, NEW t \in Servers
    PROVE  ListIds(t)' \subseteq ListIds(t)
<1> DEFINE m == Head(stdin[t])
<1>1. stdin[t] \in Seq(Messages) /\ stdout[t] \in Seq(Lines)
  BY DEF McpTypeOK
<1>2. /\ stdin'[t] = stdin[t] \/ (stdin[t] # <<>> /\ stdin'[t] = Tail(stdin[t]))
      /\ \/ stdout'[t] = stdout[t]
         \/ stdout'[t] = Append(stdout[t], Unasked)
         \/ /\ stdin[t] # <<>>
            /\ \E ok \in BOOLEAN :
                  stdout'[t] = Append(stdout[t], [to |-> m.id, method |-> m.method, ok |-> ok])
  <2>1. PICK s \in Servers : Answer(s) \/ Volunteer(s) \/ Die(s)
    BY DEF ServerStep
  <2>2. CASE Answer(s)
    BY <2>2 DEF Answer, Say, McpTypeOK
  <2>3. CASE Volunteer(s)
    BY <2>3 DEF Volunteer, Say, McpTypeOK
  <2>4. CASE Die(s)
    BY <2>4 DEF Die
  <2> QED BY <2>1, <2>2, <2>3, <2>4
<1>3. ASSUME NEW k \in DOMAIN stdin'[t] PROVE \E j \in DOMAIN stdin[t] : stdin'[t][k] = stdin[t][j]
  <2>1. CASE stdin'[t] = stdin[t]
    BY <1>3, <2>1
  <2>2. CASE stdin[t] # <<>> /\ stdin'[t] = Tail(stdin[t])
    <3>1. k \in DOMAIN Tail(stdin[t]) /\ stdin'[t][k] = Tail(stdin[t])[k]
      BY <1>3, <2>2
    <3> QED BY <1>1, <2>2, <3>1, QueueItems
  <2> QED BY <1>2, <2>1, <2>2
<1>4. ASSUME NEW k \in DOMAIN stdout'[t], stdout'[t][k].method = "tools/list"
      PROVE  \/ \E j \in DOMAIN stdout[t] : stdout'[t][k] = stdout[t][j]
             \/ \E j \in DOMAIN stdin[t] : /\ stdin[t][j].method = "tools/list"
                                          /\ stdout'[t][k].to = stdin[t][j].id
  <2>1. CASE stdout'[t] = stdout[t]
    BY <1>4, <2>1
  <2>2. CASE stdout'[t] = Append(stdout[t], Unasked)
    <3>1. Unasked \in Lines /\ Unasked.method # "tools/list"
      BY DEF Unasked, Lines, NoId
    <3> QED BY <1>1, <1>4, <2>2, <3>1, QueueItems
  <2>3. CASE stdin[t] # <<>> /\ \E ok \in BOOLEAN :
               stdout'[t] = Append(stdout[t], [to |-> m.id, method |-> m.method, ok |-> ok])
    <3>1. PICK ok \in BOOLEAN :
            stdout'[t] = Append(stdout[t], [to |-> m.id, method |-> m.method, ok |-> ok])
      BY <2>3
    <3>2. m \in Messages /\ \E j \in DOMAIN stdin[t] : m = stdin[t][j]
      BY <1>1, <2>3, QueueItems
    <3>3. [to |-> m.id, method |-> m.method, ok |-> ok] \in Lines
      BY <3>2 DEF Messages, Lines
    <3>4. \/ stdout'[t][k] = [to |-> m.id, method |-> m.method, ok |-> ok]
          \/ \E j \in DOMAIN stdout[t] : stdout'[t][k] = stdout[t][j]
      BY <1>1, <1>4, <3>1, <3>3, QueueItems
    <3> QED BY <1>4, <3>2, <3>4
  <2> QED BY <1>2, <2>1, <2>2, <2>3
<1> QED BY <1>3, <1>4 DEF ListIds

LEMMA SpawnList ==
    ASSUME McpTypeOK, NEW s \in Servers, Fresh(s), Spawn(s), NEW t \in Servers, ListIds(t) = {}
    PROVE  /\ ListIds(t)' = {}
           /\ t # s /\ Fresh(t) => Fresh(t)'
<1>1. /\ UNCHANGED <<stdout, unasked>> /\ up' = up \cup {s}
      /\ nextId' = [nextId EXCEPT ![s] = nextId[s] + 1]
      /\ stdin' = [stdin EXCEPT ![s] = <<[id |-> nextId[s], method |-> "initialize"]>>]
  BY DEF Spawn, Await
<1>2. CASE t # s
  <2>1. stdin'[t] = stdin[t] /\ nextId'[t] = nextId[t] /\ (t \in up' <=> t \in up)
    BY <1>1, <1>2 DEF McpTypeOK
  <2>2. ListIds(t)' = ListIds(t)
    BY <1>1, <2>1 DEF ListIds
  <2>3. Fresh(t) => Fresh(t)'
    BY <1>1, <2>1 DEF Fresh
  <2> QED BY <2>2, <2>3
<1>3. CASE t = s
  <2>1. stdin'[s] = <<[id |-> nextId[s], method |-> "initialize"]>> /\ stdout'[s] = <<>>
    BY <1>1 DEF McpTypeOK, Fresh
  <2>2. \A k \in DOMAIN stdin'[s] : stdin'[s][k].method # "tools/list"
    BY <2>1
  <2>3. DOMAIN stdout'[s] = {}
    BY <2>1
  <2> QED BY <1>3, <2>2, <2>3 DEF ListIds
<1> QED BY <1>2, <1>3

LEMMA RequestList ==
    ASSUME McpTypeOK, NEW s \in Servers, NEW m \in Methods, Request(s, m), NEW t \in Servers
    PROVE  /\ t # s => ListIds(t)' = ListIds(t)
           /\ ListIds(s)' \subseteq ListIds(s) \cup {wait'.id}
<1> DEFINE request == [id |-> nextId[s], method |-> m]
<1>1. /\ UNCHANGED stdout /\ wait'.id = nextId[s]
      /\ stdin' = [stdin EXCEPT ![s] = IF s \in up THEN Append(stdin[s], request) ELSE stdin[s]]
  BY DEF Request, Await, Write
<1>2. t # s => ListIds(t)' = ListIds(t)
  <2>1. t # s => stdin'[t] = stdin[t]
    BY <1>1 DEF McpTypeOK
  <2> QED BY <1>1, <2>1 DEF ListIds
<1>3. stdin[s] \in Seq(Messages) /\ request \in Messages
  BY DEF McpTypeOK, Messages
<1>4. ASSUME NEW k \in DOMAIN stdin'[s]
      PROVE  stdin'[s][k].id = nextId[s] \/ \E j \in DOMAIN stdin[s] : stdin'[s][k] = stdin[s][j]
  <2>1. stdin'[s] = stdin[s] \/ stdin'[s] = Append(stdin[s], request)
    BY <1>1 DEF McpTypeOK
  <2>2. CASE stdin'[s] = stdin[s]
    BY <1>4, <2>2
  <2>3. CASE stdin'[s] = Append(stdin[s], request)
    <3>1. stdin'[s][k] = request \/ \E j \in DOMAIN stdin[s] : stdin'[s][k] = stdin[s][j]
      BY <1>3, <1>4, <2>3, QueueItems
    <3> QED BY <3>1
  <2> QED BY <2>1, <2>2, <2>3
<1>5. ListIds(s)' \subseteq ListIds(s) \cup {wait'.id}
  BY <1>1, <1>4 DEF ListIds
<1> QED BY <1>2, <1>5
-----------------------------------------------------------------------------
\* A server that was not spawned yet is not touched by the end of another's handshake, or by any
\* server's step.
LEMMA FreshKept ==
    ASSUME McpTypeOK, WaitInv, NEW t \in Servers, Fresh(t),
           \/ Receive /\ (UNCHANGED stdin \/ Notify(wait.server))
           \/ ServerStep
    PROVE  Fresh(t)'
<1>1. CASE Receive /\ (UNCHANGED stdin \/ Notify(wait.server))
  <2>1. wait # NoRequest /\ UNCHANGED <<nextId, up, unasked>>
    BY <1>1 DEF Receive
  <2>2. wait.server # t
    BY <2>1 DEF WaitInv, Fresh, NoId
  <2>3. stdin'[t] = stdin[t] /\ stdout'[t] = stdout[t]
    BY <1>1, <2>2 DEF Receive, Notify, Write, McpTypeOK
  <2> QED BY <2>1, <2>3 DEF Fresh
<1>2. CASE ServerStep
  <2>1. PICK s \in Servers : Answer(s) \/ Volunteer(s) \/ Die(s)
    BY <1>2 DEF ServerStep
  <2>2. s \in up /\ s # t
    BY <2>1 DEF Answer, Volunteer, Die, Fresh
  <2>3. CASE Answer(s)
    BY <2>2, <2>3 DEF Answer, Say, Fresh, McpTypeOK
  <2>4. CASE Volunteer(s)
    BY <2>2, <2>4 DEF Volunteer, Say, Fresh, McpTypeOK
  <2>5. CASE Die(s)
    BY <2>2, <2>5 DEF Die, Fresh
  <2> QED BY <2>1, <2>3, <2>4, <2>5
<1> QED BY <1>1, <1>2

LEMMA ServerPipe ==
    ASSUME McpTypeOK, McpInv, ServerStep
    PROVE  McpInv' /\ wait' = wait /\ \A t \in Servers : Slip(t)' = Slip(t)
<1>1. PICK s \in Servers : Answer(s) \/ Volunteer(s) \/ Die(s)
  BY DEF ServerStep
<1>2. wait' = wait
  BY <1>1 DEF Answer, Volunteer, Die
<1> QED BY <1>1, <1>2, AnswerPipe, VolunteerPipe, DiePipe

\* A list of tools that was understood is the answer to the one request for it: the pipe is in step.
LEMMA ListedInStep ==
    ASSUME McpTypeOK, McpInv, McpInv', Receive, answer'.ok, NEW s \in Servers, s = wait.server,
           wait.method = "tools/list", ListIds(s) \subseteq {wait.id}
    PROVE  Slip(s)' = 0
<1>0. s = wait.server
  OBVIOUS
<1>1. stdout[s] # <<>> /\ answer' = Taken(Head(stdout[s]))
  <2>1. ~ Taken(Unasked).ok
    BY DEF Taken, Understood, Unasked
  <2> QED BY <1>0, <2>1 DEF Receive
<1> DEFINE line == Head(stdout[s])
<1>2. line.method = "tools/list" /\ answer'.to = line.to /\ answer'.id = wait.id /\ answer'.server = s
  BY <1>0, <1>1 DEF Taken, Understood
<1>3. line.to \in ListIds(s)
  <2>1. stdout[s] \in Seq(Lines)
    BY DEF McpTypeOK
  <2>2. 1 \in DOMAIN stdout[s] /\ line = stdout[s][1]
    BY <1>1, <2>1
  <2> QED BY <1>2, <2>2 DEF ListIds
<1>4. wait # NoRequest /\ wait.id # NoId /\ wait.id \in Nat
  BY ReceiveType DEF McpInv, WaitInv, Receive
<1>5. answer'.to = wait.id /\ answer'.to # NoId
  BY <1>0, <1>2, <1>3, <1>4
<1>6. answer'.id - answer'.to = 0
  BY <1>2, <1>4, <1>5
<1>7. AnswersSlipByTheUnasked'
  BY DEF McpInv
<1> HIDE DEF line
<1>8. 0 = Slip(s)'
  BY <1>2, <1>5, <1>6, <1>7 DEF AnswersSlipByTheUnasked, Slip
<1> QED BY <1>8
-----------------------------------------------------------------------------
StartPoints == {"connect", "initialize", "list", "listing"}

LEMMA StartUpPipes ==
    ASSUME PipeInv, StartUp
    PROVE  McpInv' /\ StartInv'
<1>0. /\ McpTypeOK /\ McpInv /\ WaitInv /\ todo \subseteq Servers /\ registry \subseteq Servers
      /\ mcpTools \subseteq Servers
  BY DEF PipeInv, TypeInv, TypeOK, McpInv
<1>1. ASSUME NEW s \in Servers, Connect(s) PROVE McpInv' /\ StartInv'
  <2>1. /\ at = "connect" /\ s \in todo /\ Fresh(s) /\ todo' = todo \ {s}
        /\ mcpTools' = {} /\ \A t \in Servers : ListIds(t) = {}
        /\ \A t \in todo : Fresh(t)
    BY <1>1 DEF Connect, PipeInv, StartInv
  <2>2. CASE at' = "initialize" /\ Spawn(s)
    <3>1. McpInv'
      BY <1>0, <2>1, <2>2, SpawnPipe
    <3>2. \A t \in Servers : ListIds(t)' = {} /\ (t # s /\ Fresh(t) => Fresh(t)')
      BY <1>0, <2>1, <2>2, SpawnList
    <3>3. \A t \in todo' : Fresh(t)'
      BY <1>0, <2>1, <3>2
    <3> QED BY <2>1, <2>2, <3>1, <3>2, <3>3 DEF StartInv
  <2>3. CASE at' = at /\ UNCHANGED mcpVars
    <3>1. McpInv'
      BY <1>0, <2>3 DEF mcpVars, McpInv, WaitInv, Lost, InStep, Oldest, Slip, Waits,
                        AnswersSlipByTheUnasked
    <3>2. \A t \in Servers : ListIds(t)' = ListIds(t) /\ (Fresh(t) => Fresh(t)')
      BY <2>3 DEF mcpVars, ListIds, Fresh
    <3> QED BY <1>0, <2>1, <2>3, <3>1, <3>2 DEF StartInv
  <2> QED BY <1>1, <2>2, <2>3 DEF Connect
<1>2. CASE Initialized
  <2>1. /\ at = "initialize" /\ at' = "connect" /\ Receive /\ todo' = todo /\ mcpTools' = mcpTools
        /\ UNCHANGED stdin \/ Notify(wait.server)
    BY <1>2 DEF Initialized
  <2>2. McpInv'
    BY <1>0, <2>1, ReceivePipe
  <2>3. mcpTools = {} /\ (\A t \in todo : Fresh(t)) /\ (\A t \in Servers : ListIds(t) = {})
    BY <2>1 DEF PipeInv, StartInv
  <2>4. \A t \in Servers : ListIds(t)' = {}
    BY <1>0, <2>1, <2>3, ReceiveList
  <2>5. \A t \in todo : Fresh(t)'
    BY <1>0, <2>1, <2>3, FreshKept
  <2> QED BY <2>1, <2>2, <2>3, <2>4, <2>5 DEF StartInv
<1>3. CASE Connected
  <2>1. /\ at = "connect" /\ at' = "list" /\ todo' \subseteq registry /\ mcpTools' = {}
        /\ UNCHANGED mcpVars /\ \A t \in Servers : ListIds(t) = {}
    BY <1>3 DEF Connected, PipeInv, StartInv
  <2>2. McpInv'
    BY <1>0, <2>1 DEF mcpVars, McpInv, WaitInv, Lost, InStep, Oldest, Slip, Waits,
                      AnswersSlipByTheUnasked
  <2>3. \A t \in Servers : ListIds(t)' = ListIds(t)
    BY <2>1 DEF mcpVars, ListIds
  <2> QED BY <1>0, <2>1, <2>2, <2>3 DEF StartInv
<1>4. ASSUME NEW s \in Servers, List(s) PROVE McpInv' /\ StartInv'
  <2>1. /\ at = "list" /\ s \in todo /\ Request(s, "tools/list") /\ todo' = todo \ {s}
        /\ at' = "listing" /\ registry' = registry /\ mcpTools' = mcpTools
        /\ "tools/list" \in Methods
    BY <1>4 DEF List, Methods
  <2>2. McpInv' /\ \A t \in Servers : Slip(t)' = Slip(t)
    BY <1>0, <2>1, RequestPipe
  <2>3. /\ \A t \in todo : ListIds(t) = {} /\ t \notin mcpTools
        /\ \A t \in mcpTools : Slip(t) = 0 /\ t \in registry
    BY <2>1 DEF PipeInv, StartInv
  <2>4. /\ \A t \in Servers : t # s => ListIds(t)' = ListIds(t)
        /\ ListIds(s)' \subseteq {wait'.id}
    BY <1>0, <2>1, <2>3, RequestList
  <2>5. wait' # NoRequest /\ wait'.server = s /\ wait'.method = "tools/list"
    BY <2>1 DEF Request, Await, NoRequest
  <2>6. \A t \in todo' : ListIds(t)' = {} /\ t \notin mcpTools
    BY <1>0, <2>1, <2>3, <2>4
  <2>7. \A t \in mcpTools : Slip(t)' = 0 /\ t \in registry
    BY <1>0, <2>2, <2>3
  <2> QED BY <2>1, <2>2, <2>3, <2>4, <2>5, <2>6, <2>7 DEF StartInv
<1>5. CASE Listed
  <2>1. at = "listing" /\ Receive /\ UNCHANGED <<stdin, registry>>
    BY <1>5 DEF Listed
  <2>2. McpInv' /\ \A t \in Servers : t # wait.server => Slip(t)' = Slip(t)
    BY <1>0, <2>1, ReceivePipe
  <2>3. CASE answer'.ok
    <3>1. mcpTools' = mcpTools \cup {wait.server} /\ at' = "list" /\ todo' = todo
      BY <1>5, <2>3 DEF Listed
    <3>2. /\ wait.server \notin mcpTools \cup todo /\ wait.method = "tools/list"
          /\ ListIds(wait.server) \subseteq {wait.id}
          /\ \A t \in todo : ListIds(t) = {} /\ t \notin mcpTools
          /\ \A t \in mcpTools : Slip(t) = 0 /\ t \in registry
          /\ wait.server \in registry
      BY <2>1 DEF PipeInv, TypeInv, PointInv, StartInv
    <3>3. PICK s \in Servers : s = wait.server
      BY <1>0, <3>2
    <3>4. \A t \in todo : ListIds(t)' = {}
      BY <1>0, <2>1, <3>2, ReceiveList
    <3>5. Slip(s)' = 0
      BY <1>0, <2>1, <2>2, <2>3, <3>2, <3>3, ListedInStep
    <3>6. ASSUME NEW t \in mcpTools' PROVE Slip(t)' = 0 /\ t \in registry'
      <4>1. CASE t \in mcpTools
        BY <1>0, <2>1, <2>2, <3>2, <4>1
      <4>2. CASE t = s
        BY <2>1, <3>2, <3>3, <3>5, <4>2
      <4> QED BY <3>1, <3>3, <4>1, <4>2
    <3> QED BY <2>2, <3>1, <3>2, <3>4, <3>6 DEF StartInv
  <2>4. CASE ~ answer'.ok
    BY <1>5, <2>2, <2>4 DEF Listed, StartInv
  <2> QED BY <2>3, <2>4
<1>6. CASE Ready
  BY <1>0, <1>6 DEF Ready, StartInv, mcpVars, McpInv, WaitInv, Lost, InStep, Oldest, Slip, Waits,
                    AnswersSlipByTheUnasked
<1> QED BY <1>1, <1>2, <1>3, <1>4, <1>5, <1>6 DEF StartUp

\* Once the harness is ready it does not go back to its start-up.
LEMMA RunLeavesStart ==
    ASSUME BeginRun \/ EndRun \/ (\E c \in Calls : Ask(c)) \/ ToolStep \/ (\E d \in Decisions : Decide(d))
    PROVE  at' \notin StartPoints
<1> USE DEF StartPoints
<1>1. CASE BeginRun \/ EndRun
  BY <1>1 DEF BeginRun, EndRun
<1>2. ASSUME NEW c \in Calls, Ask(c) PROVE at' \notin StartPoints
  BY <1>2 DEF Ask
<1>3. CASE ToolStep /\ ~Execute
  BY <1>3 DEF ToolStep, CallPlugin, CallMcp, McpAnswers, Authorize, Return
<1>4. CASE Execute
  <2>1. at' \in {"model", "panicked"}
    BY ONLY <1>4 DEF Execute, TestRun, Git, ShellExec, FileWrite, FileRead, Return
  <2> QED BY <2>1
<1>5. ASSUME NEW d \in Decisions, Decide(d) PROVE at' \notin StartPoints
  BY <1>5 DEF Decide, Return
<1> QED BY <1>1, <1>2, <1>3, <1>4, <1>5

LEMMA ToolStepPipes ==
    ASSUME PipeInv, ToolStep
    PROVE  McpInv'
<1>0. McpTypeOK /\ McpInv /\ registry \subseteq Servers
  BY DEF PipeInv, TypeInv, TypeOK
<1>1. CASE CallMcp /\ call.arg \in registry
  <2>1. Request(call.arg, "tools/call") /\ "tools/call" \in Methods
    BY <1>1 DEF CallMcp, Methods
  <2> QED BY <1>0, <1>1, <2>1, RequestPipe
<1>2. CASE McpAnswers
  BY <1>0, <1>2, ReceivePipe DEF McpAnswers
<1>3. CASE UNCHANGED mcpVars
  BY <1>0, <1>3 DEF mcpVars, McpInv, WaitInv, Lost, InStep, Oldest, Slip, Waits,
                    AnswersSlipByTheUnasked
<1>4. (CallMcp /\ call.arg \notin registry) \/ CallPlugin \/ Authorize \/ Execute => UNCHANGED mcpVars
  BY DEF CallMcp, CallPlugin, Authorize, Execute
<1> QED BY <1>1, <1>2, <1>3, <1>4 DEF ToolStep

LEMMA ServingPipes ==
    ASSUME PipeInv, Serving
    PROVE  McpInv' /\ StartInv'
<1>0. /\ McpTypeOK /\ McpInv /\ WaitInv /\ StartInv /\ todo \subseteq Servers /\ registry \subseteq Servers
      /\ mcpTools \subseteq Servers /\ (at = "listing" => wait.server \in Servers)
  BY DEF PipeInv, TypeInv, TypeOK, PointInv, McpInv
<1>1. ServerStep /\ UNCHANGED <<at, todo, registry, mcpTools>>
  BY DEF Serving
<1>2. McpInv' /\ wait' = wait /\ \A t \in Servers : Slip(t)' = Slip(t)
  BY <1>0, <1>1, ServerPipe
<1>3. \A t \in Servers : ListIds(t)' \subseteq ListIds(t) /\ (Fresh(t) => Fresh(t)')
  BY <1>0, <1>1, ServerList, FreshKept
<1>4. at \in {"connect", "initialize"} => (\A s \in todo : Fresh(s)') /\ (\A s \in Servers : ListIds(s)' = {})
  BY <1>0, <1>3 DEF StartInv
<1>5. at \in {"list", "listing"} => /\ \A s \in todo : ListIds(s)' = {}
                                    /\ \A s \in mcpTools : Slip(s)' = 0
  BY <1>0, <1>2, <1>3 DEF StartInv
<1>6. PICK w : w = wait.server
  OBVIOUS
<1>7. at = "listing" => ListIds(w)' \subseteq {wait.id} /\ wait'.server = w
  BY <1>0, <1>2, <1>3, <1>6 DEF StartInv
<1>8. StartInv'
  BY <1>0, <1>1, <1>2, <1>4, <1>5, <1>6, <1>7 DEF StartInv
<1> QED BY <1>2, <1>8

LEMMA PipeInit == Init => PipeInv
<1> SUFFICES ASSUME Init PROVE McpInv /\ StartInv
  BY InitType DEF PipeInv
<1>1. /\ McpTypeOK /\ up = {} /\ wait = NoRequest /\ answer = NoAnswer
      /\ \A s \in Servers : Fresh(s)
      /\ at = "connect" /\ mcpTools = {} /\ todo \subseteq Servers
  BY InitType DEF Init, McpInit, Fresh, TypeInv, TypeOK
<1>2. \A s \in Servers : Lost(s)
  BY <1>1 DEF Lost, Waits
<1>3. WaitInv /\ AnswersSlipByTheUnasked
  BY <1>1 DEF WaitInv, AnswersSlipByTheUnasked, NoAnswer
<1>4. \A s \in Servers : ListIds(s) = {}
  <2>1. ASSUME NEW s \in Servers PROVE DOMAIN stdin[s] = {} /\ DOMAIN stdout[s] = {}
    BY <1>1 DEF Fresh
  <2> QED BY <2>1 DEF ListIds
<1> QED BY <1>1, <1>2, <1>3, <1>4 DEF McpInv, StartInv

LEMMA PipeStep == PipeInv /\ [Next]_vars => PipeInv'
<1> SUFFICES ASSUME PipeInv, [Next]_vars PROVE McpInv' /\ StartInv'
  BY NextType DEF PipeInv
<1>1. CASE StartUp
  BY <1>1, StartUpPipes
<1>2. CASE ToolStep
  <2>1. StartInv'
    BY <1>2, RunLeavesStart DEF StartPoints, StartInv
  <2> QED BY <1>2, <2>1, ToolStepPipes
<1>3. CASE BeginRun \/ EndRun \/ (\E c \in Calls : Ask(c)) \/ \E d \in Decisions : Decide(d)
  <2>1. StartInv'
    BY <1>3, RunLeavesStart DEF StartPoints, StartInv
  <2>2. UNCHANGED mcpVars
    BY <1>3 DEF BeginRun, EndRun, Ask, Decide
  <2>3. McpInv'
    BY <2>2 DEF PipeInv, mcpVars, McpInv, WaitInv, Lost, InStep, Oldest, Slip, Waits,
                AnswersSlipByTheUnasked
  <2> QED BY <2>1, <2>3
<1>4. CASE Serving
  BY <1>4, ServingPipes
<1>5. CASE UNCHANGED vars
  <2>1. McpInv'
    BY <1>5 DEF PipeInv, vars, mcpVars, McpInv, WaitInv, Lost, InStep, Oldest, Slip, Waits,
                AnswersSlipByTheUnasked
  <2>2. \A s : /\ (Fresh(s) => Fresh(s)') /\ ListIds(s)' = ListIds(s) /\ Slip(s)' = Slip(s)
    BY <1>5 DEF vars, mcpVars, Fresh, ListIds, Slip
  <2>3. StartInv /\ UNCHANGED <<at, todo, registry, mcpTools, wait>>
    BY <1>5 DEF PipeInv, vars, mcpVars
  <2>4. PICK w : w = wait.server
    OBVIOUS
  <2>5. at = "listing" => ListIds(w)' \subseteq {wait.id} /\ wait'.server = w
    BY <2>2, <2>3, <2>4 DEF StartInv
  <2>6. StartInv'
    BY <2>2, <2>3, <2>4, <2>5 DEF StartInv
  <2> QED BY <2>1, <2>6
<1> QED BY <1>1, <1>2, <1>3, <1>4, <1>5 DEF Next

\* A pipe that can still be read carries, in order and without a gap, what is owed: answers up to some
\* request, and behind it the requests; no line is lost or repeated, and strays are the only disorder.
THEOREM PipesCorrect == Spec => []PipeInv
<1> QED BY PipeInit, PipeStep, PTL DEF Spec

\* Whatever servers say unasked and however they die: an answer is exactly as many requests old as
\* lines were read that answered nothing, and only a pipe in step gave its tools to the offer.
THEOREM PipesInStep == Spec => []PipesKeepStep
<1>1. PipeInv => PipesKeepStep
  BY DEF PipeInv, McpInv, StartInv, PipesKeepStep, ToolsComeFromPipesInStep
<1> QED BY <1>1, PipesCorrect, PTL
=============================================================================
