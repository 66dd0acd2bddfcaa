--------------------------- MODULE ToolCalls ---------------------------
(***************************************************************************)
(* The tool calls of one harness: AgentHarness::connect_mcp, and then, for *)
(* every run, TaskExecutor::run_tool with what it calls: authorize_shell   *)
(* and the approval handler, the dispatch to plugins and MCP servers, the  *)
(* built-in tools behind the sandbox.                                      *)
(*                                                                         *)
(* `at' is the point the call in progress has reached.  A model may ask    *)
(* for any tool, offered or not.  What it is told is any text, so results  *)
(* and errors are not told apart; what a call does is.                     *)
(***************************************************************************)
EXTENDS McpClient

CONSTANTS
    Commands,    \* command lines
    Plugins,     \* names a tool plugin may have
    Paths,       \* paths a file tool may be given
    Text, Real,  \* where a path lies as it is written, and where it leads
    Nothing,     \* no command
    Configs,     \* the configurations considered
    MaxRequests  \* bound: requests to a server

ASSUME CommandsAreReal == Nothing \notin Commands
ASSUME MaxRequestsIsNat == MaxRequests \in Nat

\* Within fs_writable, within fs_read_only, or outside of both.  As it is written a path is joined to
\* the working directory; the file system takes it through links and `..'.
Scopes == {"writable", "readable", "outside"}
ASSUME PathsLie == Text \in [Paths -> Scopes] /\ Real \in [Paths -> Scopes]

\* ratchet.toml, the terminal and the project.
Policies == {"Interactive", "AutoApproveSafe", "AutoApproveAll", "DenyAll"}
AllConfigs ==
    [policy : Policies,
     permitted : SUBSET Commands,         \* what check_shell lets through
     terminal : BOOLEAN,                  \* is anyone there to ask
     suite : Commands \cup {Nothing},     \* what for_context resolves test_run to
     plugins : SUBSET Plugins,            \* tool plugins
     servers : SUBSET Servers]            \* MCP servers

ASSUME ConfigsAreConfigs == Configs \subseteq AllConfigs

VARIABLES
    config,      \* constant
    at,          \* program point
    todo,        \* servers connect_mcp has still to visit
    registry,    \* McpClientRegistry::clients
    mcpTools,    \* servers whose tools are offered
    call,        \* the tool call in progress
    session_allow, session_deny,
    settled,     \* what the user has answered for good in this run
    asked,       \* history: commands the user was asked about
    ran,         \* history: commands that were started
    written      \* history: paths that were written

runVars == <<call, session_allow, session_deny, settled, asked, ran, written>>
vars == <<mcpVars, config, at, todo, registry, mcpTools, runVars>>

Decisions == {"Approve", "ApproveAlways", "Reject", "RejectAlways"}
IsApproved(d) == d \in {"Approve", "ApproveAlways"}
IsSticky(d) == d \in {"ApproveAlways", "RejectAlways"}

Points == {"connect", "initialize", "list", "listing", "end", "model", "authorize", "asking",
           "tool", "plugin", "mcp", "answer", "panicked"}
NoCall == [tool |-> "none", arg |-> Nothing]

Calls ==
    [tool : {"shell_exec"}, arg : Commands \cup {Nothing}] \cup
    [tool : {"test_run"}, arg : {Nothing}] \cup
    [tool : {"git"}, arg : Commands] \cup
    [tool : {"file_read", "file_write", "file_patch"}, arg : Paths] \cup
    [tool : {"dotted"}, arg : Servers \cup Plugins]

TypeOK ==
    /\ McpTypeOK
    /\ config \in Configs
    /\ at \in Points
    /\ todo \subseteq Servers /\ registry \subseteq Servers /\ mcpTools \subseteq registry
    /\ call \in Calls \cup {NoCall}
    /\ session_allow \subseteq Commands /\ session_deny \subseteq Commands
    /\ settled \in [Commands -> {"open", "allowed", "denied"}]
    /\ asked \subseteq Commands /\ ran \subseteq Commands /\ written \subseteq Paths

Init ==
    /\ McpInit
    /\ config \in Configs
    /\ at = "connect"
    /\ todo = config.servers /\ registry = {} /\ mcpTools = {}
    /\ call = NoCall
    /\ session_allow = {} /\ session_deny = {}
    /\ settled = [c \in Commands |-> "open"]
    /\ asked = {} /\ ran = {} /\ written = {}

-----------------------------------------------------------------------------
(* connect_mcp. *)

Connect(s) ==
    /\ at = "connect" /\ s \in todo
    /\ todo' = todo \ {s}
    /\ \/ at' = "initialize" /\ Spawn(s)
       \/ at' = at /\ UNCHANGED mcpVars                   \* the command could not be spawned
    /\ UNCHANGED <<config, registry, mcpTools, runVars>>

\* A server that does not answer as it should is left out; its process is forgotten.
Initialized ==
    LET s == wait.server IN
    /\ at = "initialize"
    /\ Receive
    /\ IF answer'.ok /\ s \in up
         THEN Notify(s) /\ registry' = registry \cup {s}
         ELSE UNCHANGED <<stdin, registry>>
    /\ at' = "connect"
    /\ UNCHANGED <<config, todo, mcpTools, runVars>>

\* Mutant: the configured servers are asked, not the connected ones.
ConnectedAll ==
    /\ at = "connect" /\ todo = {}
    /\ at' = "list"
    /\ todo' \in SUBSET config.servers
    /\ UNCHANGED <<mcpVars, config, registry, mcpTools, runVars>>

\* list_all_tools asks the servers that have the capability, one after another.
Connected ==
    /\ at = "connect" /\ todo = {}
    /\ at' = "list"
    /\ todo' \in SUBSET registry
    /\ UNCHANGED <<mcpVars, config, registry, mcpTools, runVars>>

List(s) ==
    /\ at = "list" /\ s \in todo
    /\ Request(s, "tools/list")
    /\ todo' = todo \ {s}
    /\ at' = "listing"
    /\ UNCHANGED <<config, registry, mcpTools, runVars>>

\* Mutant: a server stays on the list when its tools could not be read.
ListedAnyway ==
    /\ at = "listing"
    /\ Receive
    /\ mcpTools' = mcpTools \cup {wait.server}
    /\ at' = "list"
    /\ UNCHANGED <<todo, stdin, config, registry, runVars>>

\* The first error is returned, and with it no tool of any server is offered.
Listed ==
    /\ at = "listing"
    /\ Receive
    /\ IF answer'.ok
         THEN /\ mcpTools' = mcpTools \cup {wait.server}
              /\ at' = "list"
              /\ UNCHANGED todo
         ELSE mcpTools' = {} /\ at' = "end" /\ todo' = {}
    /\ UNCHANGED <<stdin, config, registry, runVars>>

Ready ==
    /\ at = "list" /\ todo = {}
    /\ at' = "end"
    /\ UNCHANGED <<mcpVars, config, todo, registry, mcpTools, runVars>>

-----------------------------------------------------------------------------
(* run_with makes an executor of its own for each run. *)

BeginRun ==
    /\ at = "end"
    /\ at' = "model"
    /\ session_allow' = {} /\ session_deny' = {}
    /\ settled' = [c \in Commands |-> "open"]
    /\ UNCHANGED <<mcpVars, config, todo, registry, mcpTools, call, asked, ran, written>>

EndRun ==
    /\ at = "model"
    /\ at' = "end"
    /\ UNCHANGED <<mcpVars, config, todo, registry, mcpTools, runVars>>

\* run_tool returns its output, which the firewall may cut and save, or an error.
Return ==
    /\ at' = "model"
    /\ call' = NoCall

Ask(c) ==
    /\ at = "model"
    /\ c.arg \in Servers => nextId[c.arg] <= MaxRequests
    /\ call' = c
    /\ at' = CASE c.tool = "shell_exec" -> "authorize"
               [] c.tool = "dotted" /\ c.arg \in config.plugins -> "plugin"
               [] c.tool = "dotted" /\ c.arg \notin config.plugins /\ config.servers # {} -> "mcp"
               [] OTHER -> "tool"
    /\ UNCHANGED <<mcpVars, config, todo, registry, mcpTools, session_allow, session_deny,
                   settled, asked, ran, written>>

(* Everything below is a step of the call in progress. *)
Keep == UNCHANGED <<config, todo, registry, mcpTools>>
KeepSession == UNCHANGED <<session_allow, session_deny, settled>>
KeepEffects == UNCHANGED <<asked, ran, written>>

-----------------------------------------------------------------------------
(* Plugins and MCP servers. *)

\* One process per call, killed when its time is over: an answer or an error in any case.
CallPlugin ==
    /\ at = "plugin"
    /\ Return
    /\ Keep /\ KeepSession /\ KeepEffects
    /\ UNCHANGED mcpVars

CallMcp ==
    /\ at = "mcp"
    /\ IF call.arg \in registry
         THEN Request(call.arg, "tools/call") /\ at' = "answer" /\ UNCHANGED call
         ELSE Return /\ UNCHANGED mcpVars
    /\ Keep /\ KeepSession /\ KeepEffects

\* An answer that was understood may still report an error of the tool.
McpAnswers ==
    /\ at = "answer"
    /\ Receive
    /\ Return
    /\ Keep /\ KeepSession /\ KeepEffects
    /\ UNCHANGED stdin

-----------------------------------------------------------------------------
(* shell_exec: the approval. *)

\* What check_shell lets through: an entry of the allow-list begins the command, or the list is empty.
Permits(c) == c \in config.permitted

\* Without a command there is nothing to authorize; the tool itself will complain.
Unchecked(c) == c = Nothing \/ Permits(c)
PolicyAsks == config.policy \in {"Interactive", "AutoApproveSafe"}

Passes(c) ==
    \/ Unchecked(c)
    \/ config.policy = "AutoApproveAll"
    \/ PolicyAsks /\ c \in session_allow \ session_deny

Refused(c) == ~Unchecked(c) /\ (config.policy = "DenyAll" \/ (PolicyAsks /\ c \in session_deny))

Authorize ==
    /\ at = "authorize"
    /\ \/ Passes(call.arg) /\ at' = "tool" /\ UNCHANGED <<call, asked>>
       \/ Refused(call.arg) /\ Return /\ UNCHANGED asked
       \/ /\ ~Passes(call.arg) /\ ~Refused(call.arg)
          /\ at' = "asking" /\ asked' = asked \cup {call.arg} /\ UNCHANGED call
    /\ Keep /\ KeepSession
    /\ UNCHANGED <<mcpVars, ran, written>>

\* CliApprovalHandler, which rejects without a terminal and when the menu is left; AutoDeny rejects.
Answers == IF config.terminal THEN Decisions ELSE {"Reject"}

\* Mutant: only an approval is remembered.
RememberApproval(c, d) ==
    /\ session_allow' = IF d = "ApproveAlways" THEN session_allow \cup {c} ELSE session_allow
    /\ UNCHANGED session_deny

Remember(c, d) ==
    /\ session_allow' = IF IsSticky(d) /\ IsApproved(d) THEN session_allow \cup {c} ELSE session_allow
    /\ session_deny' = IF IsSticky(d) /\ ~IsApproved(d) THEN session_deny \cup {c} ELSE session_deny

Decide(d) ==
    /\ at = "asking" /\ d \in Answers
    /\ Remember(call.arg, d)
    /\ settled' = IF IsSticky(d)
                    THEN [settled EXCEPT ![call.arg] = IF IsApproved(d) THEN "allowed" ELSE "denied"]
                    ELSE settled
    /\ IF IsApproved(d) THEN at' = "tool" /\ UNCHANGED call ELSE Return
    /\ Keep /\ KeepEffects
    /\ UNCHANGED mcpVars

-----------------------------------------------------------------------------
(* ToolExecutor::execute. *)

\* Mutant: the tool relies on the approval.
ShellExecTrusting(c) ==
    /\ IF c # Nothing
         THEN ran' = ran \cup {c} /\ Return
         ELSE UNCHANGED ran /\ Return
    /\ UNCHANGED written

\* ShellExec looks at the allow-list again.  A command may succeed, fail, or outlive its timeout.
ShellExec(c) ==
    /\ IF c # Nothing /\ Permits(c)
         THEN ran' = ran \cup {c} /\ Return
         ELSE UNCHANGED ran /\ Return
    /\ UNCHANGED written

\* TestRunner: the configured or detected command, run by ShellExec.
TestRun == ShellExec(config.suite)

\* GitDiff, GitStatus, GitCommit: fixed command lines, run by ShellExec without an approval; a commit
\* of files counts as two.
Git(c) == ShellExec(c)

Writable == {"writable"}
Readable == Writable \cup {"readable"}

\* Mutant: writing is checked against the readable paths.
AllowsReadable(scope, p, exists) == Text[p] \in Readable \/ (exists /\ Real[p] \in Readable)

\* FileSystemScope::allows: a path that exists is followed; as it is written it is enough in any case.
Allows(scope, p, exists) == Text[p] \in scope \/ (exists /\ Real[p] \in scope)

\* FileWrite, FilePatch: the check, then the file system, which may refuse.  A file is there or not:
\* commands and others come between the calls.  What is patched has to be there.
FileWrite(p, exists) ==
    /\ \/ Allows(Writable, p, exists) /\ written' = written \cup {p} /\ Return
       \/ UNCHANGED written /\ Return
    /\ UNCHANGED ran

\* FileRead: an offset more than a line behind the end of the file is a slice out of range.
FileRead(p, exists) ==
    /\ \/ exists /\ Allows(Readable, p, exists) /\ at' = "panicked" /\ UNCHANGED call
       \/ Return
    /\ UNCHANGED <<ran, written>>

Execute ==
    /\ at = "tool"
    /\ \/ call.tool = "shell_exec" /\ ShellExec(call.arg)
       \/ call.tool = "test_run" /\ TestRun
       \/ call.tool = "git" /\ Git(call.arg)
       \/ call.tool = "file_write" /\ \E exists \in BOOLEAN : FileWrite(call.arg, exists)
       \/ call.tool = "file_patch" /\ FileWrite(call.arg, TRUE)
       \/ call.tool = "file_read" /\ \E exists \in BOOLEAN : FileRead(call.arg, exists)
       \/ call.tool = "dotted" /\ Return /\ UNCHANGED <<ran, written>>     \* NotFound
    /\ Keep /\ KeepSession
    /\ UNCHANGED <<mcpVars, asked>>

-----------------------------------------------------------------------------
StartUp == (\E s \in Servers : Connect(s) \/ List(s)) \/ Initialized \/ Connected \/ Listed \/ Ready
ToolStep == CallPlugin \/ CallMcp \/ McpAnswers \/ Authorize \/ Execute
Serving == ServerStep /\ UNCHANGED <<config, at, todo, registry, mcpTools, runVars>>

Next ==
    \/ StartUp
    \/ BeginRun
    \/ EndRun
    \/ \E c \in Calls : Ask(c)
    \/ ToolStep
    \/ \E d \in Decisions : Decide(d)
    \/ Serving

\* The functions run until they return, and a server answers or dies.  Users and models may stop.
Fairness ==
    /\ WF_vars(StartUp)
    /\ WF_vars(ToolStep)
    /\ \A s \in Servers :
         WF_vars((Answer(s) \/ Die(s)) /\ UNCHANGED <<config, at, todo, registry, mcpTools, runVars>>)

Spec == Init /\ [][Next]_vars /\ Fairness

-----------------------------------------------------------------------------
\* A question to the user widens nothing.  A command he was asked about is started by no tool, in this
\* run or a later one, whatever he answers -- shell_exec is refused by its own check, test_run and git
\* do not ask and are refused alike: an approval changes only the words of the refusal.  And a file is
\* written only if its path lies within fs_writable as it is written or as it is followed; not both,
\* as a path that passes through another directory is compared before it is followed.
\* Aims at run_tool, where the approval and the check inside ShellExec are two decisions, and at the
\* two readings of a path in FileSystemScope::allows.
QuestionsWidenNothing ==
    /\ asked \cap ran = {}
    /\ \A p \in written : "writable" \in {Text[p], Real[p]}

\* Within a run a "for this session" answer is final: the user is not asked about that command again,
\* and once it is denied it gets no further than the refusal.
\* Aims at the two session sets of authorize_shell and the order in which they are looked at.
StickyAnswersHold ==
    /\ at = "asking" => settled[call.arg] = "open"
    /\ at = "tool" /\ call.tool = "shell_exec" /\ call.arg # Nothing => settled[call.arg] # "denied"

\* If any tool is offered, every server had answered all its requests in step when the list was made:
\* the calls of a model go astray only because of lines that came later.
\* Aims at list_all_tools, which drops all tools on an error, and so also those of a pipe out of step.
ToolsComeFromPipesInStep ==
    at = "list" => \A s \in mcpTools : Slip(s) = 0 /\ s \in registry

\* The two sides of a pipe: what goes wrong on it later, and that nothing had gone wrong before.
PipesKeepStep == AnswersSlipByTheUnasked /\ ToolsComeFromPipesInStep

\* Every call that is not waiting for the user comes to its result, or takes the process down.
\* Aims at the awaits of run_tool; a server that is alive and silent for ever is assumed away.
EveryCallReturns == (at \in {"authorize", "tool", "plugin", "mcp", "answer"}) ~> (at \in {"model", "asking", "panicked"})
=============================================================================
