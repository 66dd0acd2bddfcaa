---------------------------- MODULE Verification -----------------------------
(***************************************************************************)
(* AgentHarness::verify: gather_evidence and run_gate_plugins of           *)
(* ratchet-core/src/agent.rs, PluginHost::run_gates of                     *)
(* ratchet-plugins/src/host.rs, and the judgement of VerificationEngine    *)
(* (ratchet-core/src/verification.rs) over the evidence they collect.      *)
(* One sequential function whose commands, gates and test suite answer as  *)
(* they like.                                                              *)
(***************************************************************************)
EXTENDS Naturals, Sequences

CONSTANTS
    Criteria,       \* ids of the acceptance criteria
    Commands,       \* commands their test and lint steps declare
    SuiteCommands,  \* what test_command names, or the manifest files suggest
    Elsewhere,      \* an acceptance criterion of another spec
    MaxGates        \* bound: gate plugins installed

Nothing == "nothing"
AllCommands == Commands \cup SuiteCommands

ASSUME VerificationAssumption ==
    /\ MaxGates \in Nat
    /\ Elsewhere \notin Criteria
    /\ Nothing \notin AllCommands

\* How a criterion is checked.  "optional" is a lint with must_pass off; a
\* criterion without a step is judged like a manual one.
Checks ==
    [kind : {"test", "lint", "optional"}, command : Commands]
        \cup [kind : {"diff", "manual"}, command : {Nothing}]

\* shell_allowlist: is it empty, and which commands have an entry as prefix.
AllowLists == [empty : {TRUE}, listed : {{}}] \cup [empty : {FALSE}, listed : SUBSET AllCommands]

\* What TestRunner resolves to, and whether test_command is set at all: one that
\* is blank is, though the command is then detected.
Suites == [command : SuiteCommands, configured : BOOLEAN]
    \cup [command : {Nothing}, configured : {FALSE}]

CommandResults == {"passed", "empty", "failed"}     \* "empty": exit 0, no test ran
GateVerdicts   == {"passed", "failed", "manual"}

\* Gate plugins are installed for a project, not for a spec: a scope may name
\* criteria of this spec, or none of them.
Scopes == (SUBSET Criteria) \cup {{Elsewhere}}

VARIABLES
    check,      \* the spec: how each criterion is checked
    allow,      \* the shell allow-list
    suite,      \* the project's test suite
    gates,      \* scope of each gate plugin; {} is every criterion
    changed,    \* criteria whose diff pattern matches a changed file
    step,       \* "commands", "gates", "suite" or "judged"
    denied,     \* denied_commands
    outcome,    \* command_results, and what could not be started
    gate,       \* position of the next gate
    verdict,    \* plugin_results
    speaker,    \* history: gates that are behind each verdict, 0 if none
    objected,   \* history: the gates that said Failed of each criterion
    broken,     \* history: gates that crashed, timed out or wrote nonsense
    tests       \* test_output and test_passed

project == <<check, allow, suite, gates, changed>>
commandVars == <<denied, outcome>>
gateVars == <<gate, verdict, speaker, objected, broken>>
vars == <<project, step, commandVars, gateVars, tests>>

GateIds == 1 .. MaxGates

TypeOK ==
    /\ check \in [Criteria -> Checks]
    /\ allow \in AllowLists /\ suite \in Suites
    /\ gates \in Seq(Scopes)
    /\ changed \in SUBSET Criteria
    /\ step \in {"commands", "gates", "suite", "judged"}
    /\ denied \in SUBSET AllCommands
    /\ outcome \in [Commands -> CommandResults \cup {Nothing, "not_started"}]
    /\ gate \in 1 .. MaxGates + 1
    /\ verdict \in [Criteria -> GateVerdicts \cup {Nothing}]
    /\ speaker \in [Criteria -> GateIds \cup {0}]
    /\ objected \in [Criteria -> SUBSET GateIds]
    /\ broken \in SUBSET GateIds
    /\ tests \in {"pending", "not_run", "passed", "failed"}

Declared == {check[c].command : c \in Criteria} \ {Nothing}

\* Entries that no command of the spec or the project meets are left out.
Init ==
    /\ check \in [Criteria -> Checks]
    /\ suite \in Suites
    /\ allow \in {a \in AllowLists : a.listed \subseteq Declared \cup {suite.command}}
    /\ gates \in UNION {[1 .. n -> Scopes] : n \in 0 .. MaxGates}
    /\ changed \in SUBSET {c \in Criteria : check[c].kind = "diff"}
    /\ step = "commands"
    /\ denied = {} /\ outcome = [c \in Commands |-> Nothing]
    /\ gate = 1
    /\ verdict = [c \in Criteria |-> Nothing]
    /\ speaker = [c \in Criteria |-> 0] /\ objected = [c \in Criteria |-> {}]
    /\ broken = {}
    /\ tests = "pending"
-----------------------------------------------------------------------------
(***************************************************************************)
(* gather_evidence.                                                        *)
(***************************************************************************)
Untried  == {c \in Declared : outcome[c] = Nothing /\ c \notin denied}

\* ShellScope::check_allowed: an empty list allows everything.
Allowed(c) == allow.empty \/ c \in allow.listed

RunCommand(c) ==
    /\ outcome' \in {[outcome EXCEPT ![c] = o] : o \in CommandResults \cup {"not_started"}}
    /\ UNCHANGED denied

\* Mutant: the allow-list is not asked.
TryUnchecked(c) == RunCommand(c)

\* A declared command, through the allow-list.
Try(c) ==
    IF Allowed(c) THEN RunCommand(c) ELSE denied' = denied \cup {c} /\ UNCHANGED outcome

\* Every distinct command is tried once.
TryCommand ==
    /\ step = "commands"
    /\ \E c \in Untried : Try(c)
    /\ UNCHANGED <<project, step, gateVars, tests>>

CommandsDone ==
    /\ step = "commands" /\ Untried = {}
    /\ step' = "gates"
    /\ UNCHANGED <<project, commandVars, gateVars, tests>>

AppliesTo(g, c) == gates[g] = {} \/ c \in gates[g]
InScope(g) == {c \in Criteria : AppliesTo(g, c)}

\* The results of gate g go into plugin_results over those of earlier gates.
Record(g, answers) ==
    /\ verdict' = [c \in Criteria |-> IF c \in DOMAIN answers THEN answers[c] ELSE verdict[c]]
    /\ speaker' = [c \in Criteria |-> IF c \in DOMAIN answers THEN g ELSE speaker[c]]
    /\ objected' = [c \in Criteria |->
          IF c \in DOMAIN answers /\ answers[c] = "failed" THEN objected[c] \cup {g} ELSE objected[c]]

\* A gate that has nothing to judge is not started.
SkipGate ==
    /\ step = "gates" /\ gate <= Len(gates) /\ InScope(gate) = {}
    /\ gate' = gate + 1
    /\ UNCHANGED <<project, step, commandVars, verdict, speaker, objected, broken, tests>>

\* A gate that answers: its verdicts are taken for whatever criteria it names.
GateAnswers ==
    /\ step = "gates" /\ gate <= Len(gates) /\ InScope(gate) # {}
    /\ \E named \in SUBSET Criteria : \E answers \in [named -> GateVerdicts] :
         Record(gate, answers)
    /\ gate' = gate + 1
    /\ UNCHANGED <<project, step, commandVars, broken, tests>>

\* Mutant: the gate's error is put down as its verdict.
BreakError(g) == Record(g, [c \in Criteria |-> "error"])

\* A gate that breaks: Manual, for every criterion of the request and not only
\* for those of the gate's scope.
BreakAll(g) == Record(g, [c \in Criteria |-> "manual"])

GateBreaks ==
    /\ step = "gates" /\ gate <= Len(gates) /\ InScope(gate) # {}
    /\ BreakAll(gate)
    /\ broken' = broken \cup {gate}
    /\ gate' = gate + 1
    /\ UNCHANGED <<project, step, commandVars, tests>>

GatesDone ==
    /\ step = "gates" /\ gate > Len(gates)
    /\ step' = "suite"
    /\ UNCHANGED <<project, commandVars, gateVars, tests>>

\* Mutant: the baseline's own look at the allow-list takes a configured command
\* for one that has to be listed.
RefusedThoughConfigured == suite.command # Nothing /\ suite.command \notin allow.listed

\* The baseline's own look at the allow-list, at its entries only: where the
\* list is empty, and check_allowed lets everything run, nothing is listed.
Refused ==
    /\ suite.command # Nothing /\ ~ suite.configured
    /\ suite.command \notin allow.listed

\* A suite that is refused joins denied_commands, also when it is a command that
\* a criterion declared and that was run.  A configured one meets the allow-list
\* inside the shell tool; if that refuses it, or it cannot start or times out,
\* the suite was not run.
RunSuite ==
    /\ step = "suite" /\ step' = "judged"
    /\ IF Refused
       THEN denied' = denied \cup {suite.command} /\ tests' = "not_run"
       ELSE /\ tests' \in {"not_run"} \cup
                  (IF suite.command # Nothing /\ Allowed(suite.command)
                   THEN {"passed", "failed"} ELSE {})
            /\ UNCHANGED denied
    /\ UNCHANGED <<project, outcome, gateVars>>

Next ==
    \/ TryCommand \/ CommandsDone
    \/ SkipGate \/ GateAnswers \/ GateBreaks \/ GatesDone
    \/ RunSuite

Spec == Init /\ [][Next]_vars
-----------------------------------------------------------------------------
(***************************************************************************)
(* VerificationEngine.                                                     *)
(***************************************************************************)
\* A test step: its command's exit status, else the project's test suite.
TestStatus(command) ==
    IF command \in denied THEN "manual"
    ELSE CASE outcome[command] \in {"passed", "failed"} -> outcome[command]
           [] outcome[command] = "empty" -> "manual"
           [] OTHER -> IF tests \in {"passed", "failed"} THEN tests ELSE "manual"

\* Mutant: no lint has to pass.
LintAdvisory(command, mustPass) ==
    IF command \notin denied /\ outcome[command] \in {"passed", "empty"} THEN "passed" ELSE "manual"

LintStatus(command, mustPass) ==
    IF command \in denied THEN "manual"
    ELSE CASE outcome[command] \in {"passed", "empty"} -> "passed"
           [] outcome[command] = "failed" /\ mustPass -> "failed"
           [] OTHER -> "manual"

BuiltIn(c) ==
    CASE check[c].kind = "test"     -> TestStatus(check[c].command)
      [] check[c].kind = "lint"     -> LintStatus(check[c].command, TRUE)
      [] check[c].kind = "optional" -> LintStatus(check[c].command, FALSE)
      [] check[c].kind = "diff"     -> IF c \in changed THEN "passed" ELSE "failed"
      [] OTHER -> "manual"

\* check_criterion: a gate's verdict wins over the built-in check.
Status(c) == IF verdict[c] = Nothing THEN BuiltIn(c) ELSE verdict[c]

OverallPassed ==
    /\ \A c \in Criteria : Status(c) # "failed"
    /\ tests # "failed"
-----------------------------------------------------------------------------
(***************************************************************************)
(* Properties.                                                             *)
(***************************************************************************)
Ran(c, results) == check[c].command \in DOMAIN outcome /\ outcome[check[c].command] \in results

\* "Everything else is reported as Manual, never silently passed", and a gate
\* that breaks "can never masquerade as verified": behind a criterion reported
\* as passed there is a gate that worked, or a command that the allow-list let
\* run and that passed, or a test suite that passed, or a changed file.
PassedHasAWitness ==
    \A c \in Criteria : step = "judged" /\ Status(c) = "passed" =>
        IF speaker[c] # 0 THEN speaker[c] \notin broken
        ELSE \/ c \in changed
             \/ /\ Allowed(check[c].command)
                /\ \/ Ran(c, {"passed"})
                   \/ Ran(c, {"empty"}) /\ check[c].kind # "test"
                   \/ Ran(c, {"not_started"}) /\ tests = "passed"

\* The command of the suite was run for a criterion and counts as denied: this
\* takes an empty allow-list and a suite nobody configured.
Withdrawn(c) ==
    /\ check[c].command = suite.command
    /\ allow.empty /\ ~ suite.configured

\* What the evidence holds against a criterion, whoever overrules it later.
Failure(c) ==
    \/ check[c].kind \in {"test", "lint"} /\ Ran(c, {"failed"})
    \/ check[c].kind = "test" /\ Ran(c, {"not_started"}) /\ tests = "failed"
    \/ check[c].kind = "diff" /\ c \notin changed

\* A run passes over a failure for these reasons and no other: a gate spoke about
\* the criterion later, and said Manual if it broke; or the failed command is
\* also the suite's and was withdrawn with it.  So a project that installs no
\* gates and lists or configures its commands has no failure passed over.
FailureIsAnswered ==
    step = "judged" /\ OverallPassed =>
        \A c \in Criteria :
            /\ Failure(c) => speaker[c] # 0 \/ Withdrawn(c)
            /\ \A g \in objected[c] : speaker[c] > g
            /\ speaker[c] \in broken => Status(c) = "manual"

\* "External gate plugins run last so they can see the built-in evidence": the
\* suite still runs behind them.  What they cannot see is its result, which
\* judges the tests that could not be started, and the withdrawal of its
\* command; nothing else changes once the gates are asked.
LateEvidenceIsTheSuites ==
    [][\A c \in Criteria : step # "commands" /\ BuiltIn(c)' # BuiltIn(c) =>
          /\ step = "suite"
          /\ \/ BuiltIn(c)' = "manual" /\ Withdrawn(c)
             \/ BuiltIn(c)' = tests' /\ Ran(c, {"not_started"})]_vars
=============================================================================
