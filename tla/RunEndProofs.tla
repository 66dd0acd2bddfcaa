---------------------------- MODULE RunEndProofs -----------------------------
(***************************************************************************)
(* Theorems about the end of run_with: its verification (Verification),    *)
(* for every set of criteria and commands and every number of gate         *)
(* plugins, and the metrics and the memory it leaves (ProjectStores), for  *)
(* any number of processes, entries, records and faults.                   *)
(***************************************************************************)
EXTENDS Verification, ProjectStores, FiniteSetTheorems, TLAPS

\* Gates are asked in order and once: who spoke, and who broke, came before.
GatesAreBehind ==
    /\ Len(gates) <= MaxGates
    /\ gate <= Len(gates) + 1
    /\ \A c \in Criteria : speaker[c] < gate
    /\ \A g \in broken : g < gate

\* Behind every verdict there is a gate, and a broken one says Manual.  Of the
\* gates that said Failed, only the last speaker is still heard.
BrokenSaysManual ==
    \A c \in Criteria :
        /\ speaker[c] = 0 <=> verdict[c] = Nothing
        /\ speaker[c] \in broken => verdict[c] = "manual"
        /\ \A g \in objected[c] : g < speaker[c] \/ (g = speaker[c] /\ verdict[c] = "failed")

\* A command that was tried was allowed, all were tried before the gates, and
\* only the suite's joins the denied ones later.
OutcomesAreEarned ==
    /\ \A c \in Commands : outcome[c] # Nothing => Allowed(c)
    /\ step # "commands" => \A c \in Declared : outcome[c] # Nothing \/ c \in denied
    /\ \A c \in denied : ~ Allowed(c) \/ (step = "judged" /\ Refused /\ c = suite.command)
    /\ step # "judged" => tests = "pending"

WitnessInv ==
    /\ TypeOK
    /\ GatesAreBehind
    /\ BrokenSaysManual
    /\ OutcomesAreEarned
-----------------------------------------------------------------------------
\* A recorded result has the type of the evidence.
LEMMA RecordType ==
    ASSUME TypeOK, gate \in GateIds,
           NEW named \in SUBSET Criteria, NEW answers \in [named -> GateVerdicts],
           Record(gate, answers)
    PROVE  /\ verdict' \in [Criteria -> GateVerdicts \cup {Nothing}]
           /\ speaker' \in [Criteria -> GateIds \cup {0}]
           /\ objected' \in [Criteria -> SUBSET GateIds]
           /\ \A c \in Criteria :
                 \/ /\ verdict'[c] = verdict[c] /\ speaker'[c] = speaker[c]
                    /\ objected'[c] = objected[c]
                 \/ /\ verdict'[c] \in GateVerdicts /\ speaker'[c] = gate
                    /\ objected'[c] \in {objected[c], objected[c] \cup {gate}}
                    /\ objected'[c] # objected[c] => verdict'[c] = "failed"
  BY DEF TypeOK, Record

\* The initial states.
LEMMA WitnessInit == Init => WitnessInv
<1> SUFFICES ASSUME Init PROVE WitnessInv
  OBVIOUS
<1>n. PICK n \in 0 .. MaxGates : gates \in [1 .. n -> Scopes]
  BY DEF Init
<1>g. gates \in Seq(Scopes) /\ Len(gates) = n
  <2>1. n \in Nat
    BY <1>n, VerificationAssumption
  <2> QED BY <1>n, <2>1
<1>1. TypeOK
  BY <1>g, VerificationAssumption DEF Init, TypeOK, GateIds
<1>2. GatesAreBehind
  BY <1>n, <1>g, VerificationAssumption DEF Init, GatesAreBehind
<1>3. BrokenSaysManual
  BY DEF Init, BrokenSaysManual
<1>4. OutcomesAreEarned
  BY DEF Init, OutcomesAreEarned
<1> QED BY <1>1, <1>2, <1>3, <1>4 DEF WitnessInv

\* A step of the gates leaves the commands and the suite alone.
LEMMA GatesKeepOutcomes ==
    ASSUME OutcomesAreEarned, UNCHANGED <<project, commandVars, tests>>,
           step \in {"gates", "suite"} /\ step' \in {"gates", "suite"}
    PROVE  OutcomesAreEarned'
  BY DEF OutcomesAreEarned, project, commandVars, Declared, Allowed, Refused

\* Every step preserves the invariant.
LEMMA WitnessStep == WitnessInv /\ [Next]_vars => WitnessInv'
<1> SUFFICES ASSUME WitnessInv, [Next]_vars PROVE WitnessInv'
  OBVIOUS
<1> USE DEF WitnessInv
<1>t. MaxGates \in Nat /\ gate \in Nat /\ Len(gates) \in Nat
  BY VerificationAssumption DEF TypeOK
<1>1. CASE TryCommand
  <2>1. PICK c \in Untried : Try(c)
    BY <1>1 DEF TryCommand
  <2>2. c \in Commands /\ c \notin denied /\ step = "commands"
    BY <1>1 DEF TryCommand, Untried, Declared, TypeOK, Checks, Nothing
  <2>3. UNCHANGED <<project, step, gateVars, tests>>
    BY <1>1 DEF TryCommand
  <2>4. \/ /\ Allowed(c) /\ UNCHANGED denied
           /\ \E o \in CommandResults \cup {"not_started"} : outcome' = [outcome EXCEPT ![c] = o]
        \/ ~ Allowed(c) /\ denied' = denied \cup {c} /\ UNCHANGED outcome
    BY <2>1 DEF Try, RunCommand
  <2>5. TypeOK'
    BY <2>2, <2>3, <2>4 DEF TypeOK, project, gateVars, AllCommands
  <2>6. OutcomesAreEarned'
    BY <2>2, <2>3, <2>4 DEF TypeOK, OutcomesAreEarned, project, Declared, Allowed, Refused
  <2> QED BY <2>3, <2>5, <2>6 DEF project, gateVars, GatesAreBehind, BrokenSaysManual
<1>2. CASE CommandsDone
  <2>1. OutcomesAreEarned'
    BY <1>2 DEF CommandsDone, project, commandVars, OutcomesAreEarned, Untried, Declared,
                Allowed, Refused
  <2> QED BY <1>2, <2>1 DEF CommandsDone, project, commandVars, gateVars, TypeOK,
                            GatesAreBehind, BrokenSaysManual
<1>3. CASE SkipGate
  <2>1. OutcomesAreEarned'
    BY <1>3, GatesKeepOutcomes DEF SkipGate
  <2> QED BY <1>3, <1>t, <2>1 DEF SkipGate, project, commandVars, TypeOK,
                                  GatesAreBehind, BrokenSaysManual, GateIds
<1>4. CASE GateAnswers
  <2>1. gate \in GateIds
    BY <1>4, <1>t DEF GateAnswers, GatesAreBehind, TypeOK, GateIds
  <2>0. PICK named \in SUBSET Criteria : \E answers \in [named -> GateVerdicts] : Record(gate, answers)
    BY <1>4 DEF GateAnswers
  <2>2. PICK answers \in [named -> GateVerdicts] : Record(gate, answers)
    BY <2>0
  <2>3. /\ verdict' \in [Criteria -> GateVerdicts \cup {Nothing}]
        /\ speaker' \in [Criteria -> GateIds \cup {0}]
        /\ objected' \in [Criteria -> SUBSET GateIds]
        /\ \A c \in Criteria :
              \/ /\ verdict'[c] = verdict[c] /\ speaker'[c] = speaker[c]
                 /\ objected'[c] = objected[c]
              \/ /\ verdict'[c] \in GateVerdicts /\ speaker'[c] = gate
                 /\ objected'[c] \in {objected[c], objected[c] \cup {gate}}
                 /\ objected'[c] # objected[c] => verdict'[c] = "failed"
    BY <2>1, <2>2, RecordType
  <2>u. /\ UNCHANGED <<check, allow, suite, gates, changed, step, denied, outcome, broken, tests>>
        /\ gate' = gate + 1 /\ step = "gates"
    BY <1>4 DEF GateAnswers, project, commandVars
  <2>4. TypeOK'
    BY <2>u, <1>t, <2>1, <2>3 DEF TypeOK, GateIds
  <2>5. GatesAreBehind'
    <3>1. \A c \in Criteria : speaker'[c] = speaker[c] \/ speaker'[c] = gate
      BY <2>3
    <3>2. \A c \in Criteria : speaker[c] \in Nat /\ speaker[c] < gate
      BY DEF GatesAreBehind, TypeOK, GateIds
    <3>3. \A c \in Criteria : speaker'[c] < gate'
      BY <2>u, <1>t, <3>1, <3>2
    <3>4. \A g \in broken : g \in Nat /\ g < gate'
      BY <2>u, <1>t DEF GatesAreBehind, TypeOK, GateIds
    <3>5. gate <= Len(gates)
      BY <1>4 DEF GateAnswers
    <3> QED BY <2>u, <1>t, <3>3, <3>4, <3>5 DEF GatesAreBehind
  <2>6. BrokenSaysManual'
    <3>1. gate \notin broken /\ gate # 0
      BY <1>t, <2>1 DEF GatesAreBehind, GateIds
    <3>2. \A c \in Criteria : speaker[c] \in Nat /\ speaker[c] < gate /\ objected[c] \subseteq Nat
      BY <1>t DEF GatesAreBehind, TypeOK, GateIds
    <3>3. ASSUME NEW c \in Criteria, NEW g \in objected'[c]
          PROVE  g < speaker'[c] \/ (g = speaker'[c] /\ verdict'[c] = "failed")
      BY <1>t, <2>1, <2>3, <3>2 DEF BrokenSaysManual
    <3> QED BY <2>u, <2>3, <3>1, <3>3 DEF BrokenSaysManual, GateVerdicts, Nothing
  <2>7. OutcomesAreEarned'
    BY <2>u, GatesKeepOutcomes DEF project, commandVars
  <2> QED BY <2>4, <2>5, <2>6, <2>7
<1>5. CASE GateBreaks
  <2>1. gate \in GateIds
    BY <1>5, <1>t DEF GateBreaks, GatesAreBehind, TypeOK, GateIds
  <2>2. \A c \in Criteria : /\ verdict'[c] = "manual" /\ speaker'[c] = gate
                            /\ objected'[c] = objected[c]
    BY <1>5 DEF GateBreaks, BreakAll, Record, TypeOK
  <2>3. TypeOK'
    BY <1>5, <1>t, <2>1
    DEF GateBreaks, BreakAll, Record, TypeOK, GateIds, GateVerdicts, project, commandVars
  <2>4. GatesAreBehind'
    BY <1>5, <1>t, <2>2 DEF GateBreaks, TypeOK, GatesAreBehind, GateIds, project
  <2>5. BrokenSaysManual'
    <3>1. \A c \in Criteria : \A g \in objected[c] : g < gate
      BY <1>t DEF GatesAreBehind, BrokenSaysManual, TypeOK, GateIds
    <3> QED BY <2>1, <2>2, <3>1 DEF BrokenSaysManual, GateIds, Nothing
  <2>6. OutcomesAreEarned'
    BY <1>5, GatesKeepOutcomes DEF GateBreaks
  <2> QED BY <2>3, <2>4, <2>5, <2>6
<1>6. CASE GatesDone
  <2>1. OutcomesAreEarned'
    BY <1>6, GatesKeepOutcomes DEF GatesDone
  <2> QED BY <1>6, <2>1 DEF GatesDone, project, commandVars, gateVars, TypeOK,
                            GatesAreBehind, BrokenSaysManual
<1>7. CASE RunSuite
  <2>1. UNCHANGED <<check, allow, suite, gates, changed, outcome, gateVars>> /\ step = "suite" /\ step' = "judged"
    BY <1>7 DEF RunSuite, project
  <2>2. CASE Refused
    <3>1. denied' = denied \cup {suite.command} /\ tests' = "not_run"
      BY <1>7, <2>2 DEF RunSuite
    <3>2. suite.command \in AllCommands
      BY <2>2 DEF Refused, TypeOK, Suites, AllCommands
    <3>3. TypeOK'
      BY <2>1, <3>1, <3>2 DEF TypeOK, gateVars
    <3> QED BY <2>1, <2>2, <3>1, <3>3
            DEF gateVars, GatesAreBehind, BrokenSaysManual, OutcomesAreEarned, Declared, Allowed, Refused
  <2>3. CASE ~ Refused
    <3>1. UNCHANGED denied /\ tests' \in {"not_run", "passed", "failed"}
      BY <1>7, <2>3 DEF RunSuite
    <3> QED BY <2>1, <2>3, <3>1
            DEF TypeOK, gateVars, GatesAreBehind, BrokenSaysManual, OutcomesAreEarned, Declared, Allowed, Refused
  <2> QED BY <2>2, <2>3
<1>8. CASE UNCHANGED vars
  BY <1>8 DEF vars, project, commandVars, gateVars, TypeOK, GatesAreBehind, BrokenSaysManual,
              OutcomesAreEarned, Declared, Allowed, Refused
<1> QED BY <1>1, <1>2, <1>3, <1>4, <1>5, <1>6, <1>7, <1>8 DEF Next

\* The type of the evidence and where it comes from, in every reachable state.
THEOREM WitnessCorrect == Spec => []WitnessInv
  BY WitnessInit, WitnessStep, PTL DEF Spec

\* A criterion with a command declares it.
LEMMA CommandShape ==
    ASSUME TypeOK, NEW c \in Criteria
    PROVE  /\ check[c].kind \in {"test", "lint", "optional"} =>
                 /\ check[c].command \in Commands /\ check[c].command \in Declared
                 /\ DOMAIN outcome = Commands
           /\ check[c].kind \in {"test", "lint", "optional", "diff", "manual"}
  BY VerificationAssumption DEF TypeOK, Checks, Declared, AllCommands

\* A command that ran and counts as denied is the suite's, under an empty list.
LEMMA RunAndDenied ==
    ASSUME WitnessInv, NEW c \in Criteria, check[c].kind \in {"test", "lint", "optional"},
           outcome[check[c].command] # Nothing, check[c].command \in denied
    PROVE  Withdrawn(c)
<1>1. Allowed(check[c].command)
  BY CommandShape DEF WitnessInv, OutcomesAreEarned
<1>2. Refused /\ check[c].command = suite.command
  BY <1>1 DEF WitnessInv, OutcomesAreEarned
<1> QED BY <1>1, <1>2 DEF Refused, Withdrawn, Allowed

\* A criterion reported as passed has a gate that worked, an allowed command
\* that passed, a suite that passed or a changed file behind it.
THEOREM PassedIsWitnessed == Spec => []PassedHasAWitness
<1>1. WitnessInv => PassedHasAWitness
  <2> SUFFICES ASSUME WitnessInv, NEW c \in Criteria, step = "judged", Status(c) = "passed"
               PROVE  IF speaker[c] # 0 THEN speaker[c] \notin broken
                      ELSE \/ c \in changed
                           \/ /\ Allowed(check[c].command)
                              /\ \/ Ran(c, {"passed"})
                                 \/ Ran(c, {"empty"}) /\ check[c].kind # "test"
                                 \/ Ran(c, {"not_started"}) /\ tests = "passed"
    BY DEF PassedHasAWitness
  <2> DEFINE command == check[c].command
  <2> USE DEF WitnessInv
  <2>1. CASE speaker[c] # 0
    BY <2>1 DEF BrokenSaysManual, Status
  <2>2. CASE speaker[c] = 0
    <3>1. BuiltIn(c) = "passed"
      BY <2>2 DEF BrokenSaysManual, Status
    <3>2. CASE check[c].kind \in {"diff", "manual"}
      BY <2>2, <3>1, <3>2 DEF BuiltIn
    <3>3. CASE check[c].kind \in {"test", "lint", "optional"}
      <4>1. command \in Commands /\ command \in Declared /\ DOMAIN outcome = Commands
        BY <3>3, CommandShape
      <4>2. command \notin denied
        <5>1. command \in denied =>
                 {TestStatus(command), LintStatus(command, TRUE), LintStatus(command, FALSE)} = {"manual"}
          BY DEF TestStatus, LintStatus
        <5>2. BuiltIn(c) \in {TestStatus(command), LintStatus(command, TRUE), LintStatus(command, FALSE)}
          BY <3>3 DEF BuiltIn
        <5> HIDE DEF command
        <5> QED BY <3>1, <5>1, <5>2
      <4>3. outcome[command] # Nothing /\ Allowed(command)
        BY <4>1, <4>2 DEF OutcomesAreEarned
      <4>4. outcome[command] \in {"passed", "empty", "failed", "not_started"}
        BY <4>1, <4>3 DEF TypeOK, CommandResults
      <4>5. \/ outcome[command] = "passed"
            \/ outcome[command] = "empty" /\ check[c].kind # "test"
            \/ outcome[command] = "not_started" /\ tests = "passed"
        <5>1. CASE check[c].kind = "test"
          BY <3>1, <4>2, <4>4, <5>1 DEF BuiltIn, TestStatus
        <5>2. CASE check[c].kind \in {"lint", "optional"}
          BY <3>1, <4>2, <4>4, <5>2 DEF BuiltIn, LintStatus
        <5> QED BY <3>3, <5>1, <5>2
      <4> QED BY <2>2, <4>1, <4>3, <4>5 DEF Ran
    <3> QED BY <3>2, <3>3, CommandShape
  <2> QED BY <2>1, <2>2
<1> QED BY <1>1, WitnessCorrect, PTL

\* A run passes over a failure only if a gate spoke about the criterion later, or
\* if the command is the suite's and was withdrawn with it.
THEOREM FailuresAreAnswered == Spec => []FailureIsAnswered
<1>1. WitnessInv => FailureIsAnswered
  <2> SUFFICES ASSUME WitnessInv, OverallPassed, NEW c \in Criteria
               PROVE  /\ Failure(c) => speaker[c] # 0 \/ Withdrawn(c)
                      /\ \A g \in objected[c] : speaker[c] > g
                      /\ speaker[c] \in broken => Status(c) = "manual"
    BY DEF FailureIsAnswered
  <2> USE DEF WitnessInv
  <2>1. Status(c) # "failed" /\ tests # "failed"
    BY DEF OverallPassed
  <2>2. ASSUME Failure(c), speaker[c] = 0 PROVE Withdrawn(c)
    <3>1. BuiltIn(c) # "failed"
      BY <2>1, <2>2 DEF BrokenSaysManual, Status
    <3>2. check[c].kind \in {"test", "lint"} /\ Ran(c, {"failed"})
      BY <2>1, <2>2, <3>1 DEF Failure, BuiltIn
    <3>3. outcome[check[c].command] = "failed"
      BY <3>2 DEF Ran
    <3>4. check[c].command \in denied
      BY <3>1, <3>2, <3>3 DEF BuiltIn, TestStatus, LintStatus
    <3> QED BY <3>2, <3>3, <3>4, RunAndDenied DEF Nothing
  <2>3. \A g \in objected[c] : speaker[c] > g
    <3>1. speaker[c] \in Nat /\ objected[c] \subseteq Nat
      BY VerificationAssumption DEF TypeOK, GateIds
    <3> QED BY <2>1, <3>1 DEF BrokenSaysManual, Status, Nothing
  <2>4. speaker[c] \in broken => Status(c) = "manual"
    BY DEF BrokenSaysManual, Status, Nothing
  <2> QED BY <2>2, <2>3, <2>4
<1> QED BY <1>1, WitnessCorrect, PTL

\* What the gates are not shown of the evidence is what the suite makes of it.
THEOREM LateEvidence == Spec => LateEvidenceIsTheSuites
<1>1. WitnessInv /\ [Next]_vars
        => [\A c \in Criteria : step # "commands" /\ BuiltIn(c)' # BuiltIn(c) =>
              /\ step = "suite"
              /\ \/ BuiltIn(c)' = "manual" /\ Withdrawn(c)
                 \/ BuiltIn(c)' = tests' /\ Ran(c, {"not_started"})]_vars
  <2> SUFFICES ASSUME WitnessInv, [Next]_vars, NEW c \in Criteria,
                      step # "commands", BuiltIn(c)' # BuiltIn(c)
               PROVE  /\ step = "suite"
                      /\ \/ BuiltIn(c)' = "manual" /\ Withdrawn(c)
                         \/ BuiltIn(c)' = tests' /\ Ran(c, {"not_started"})
    OBVIOUS
  <2> DEFINE command == check[c].command
  <2> USE DEF WitnessInv
  <2>1. ~ UNCHANGED <<check, changed, denied, outcome, tests>>
    BY DEF BuiltIn, TestStatus, LintStatus
  <2>2. RunSuite
    BY <2>1 DEF Next, TryCommand, CommandsDone, SkipGate, GateAnswers, GateBreaks, GatesDone,
                vars, project, commandVars
  <2>3. step = "suite" /\ UNCHANGED <<check, changed, suite, allow, outcome>> /\ tests = "pending"
    BY <2>2 DEF RunSuite, project, OutcomesAreEarned
  <2>4. check[c].kind \in {"test", "lint", "optional"}
    BY <2>3, CommandShape DEF BuiltIn
  <2>5. command \notin denied
    <3>1. denied \subseteq denied'
      BY <2>2 DEF RunSuite
    <3> QED BY <2>3, <2>4, <3>1 DEF BuiltIn, TestStatus, LintStatus
  <2>6. /\ outcome[command] # Nothing /\ Allowed(command)
        /\ outcome[command] \in {"passed", "empty", "failed", "not_started"}
        /\ command \in DOMAIN outcome
    BY <2>3, <2>4, <2>5, CommandShape DEF OutcomesAreEarned, TypeOK, CommandResults
  <2>7. CASE command \in denied'
    <3>1. Refused /\ command = suite.command
      BY <2>2, <2>5, <2>7 DEF RunSuite
    <3>2. Withdrawn(c)
      BY <2>6, <3>1 DEF Refused, Withdrawn, Allowed
    <3>3. BuiltIn(c)' = "manual"
      BY <2>3, <2>4, <2>7 DEF BuiltIn, TestStatus, LintStatus
    <3> QED BY <2>3, <3>2, <3>3
  <2>8. CASE command \notin denied'
    <3>1. check[c].kind = "test" /\ outcome[command] = "not_started"
      BY <2>3, <2>4, <2>5, <2>6, <2>8 DEF BuiltIn, TestStatus, LintStatus
    <3>2. BuiltIn(c)' = tests'
      BY <2>3, <2>5, <2>8, <3>1 DEF BuiltIn, TestStatus
    <3> QED BY <2>3, <2>6, <3>1, <3>2 DEF Ran
  <2> QED BY <2>7, <2>8
<1> QED BY <1>1, WitnessCorrect, PTL DEF Spec, LateEvidenceIsTheSuites

\* The evidence keeps its types.
THEOREM VerificationTypes == Spec => []TypeOK
<1>1. WitnessInv => TypeOK
  BY DEF WitnessInv
<1> QED BY <1>1, WitnessCorrect, PTL
-----------------------------------------------------------------------------
(***************************************************************************)
(* ProjectStores: types.                                                   *)
(***************************************************************************)
Files == [is : {"missing", "garbled", "whole"}, entries : SUBSET Entry]

Process ==
    [at : {"off", "idle", "record", "newline", "memory", "saving", "review"},
     entries : SUBSET Entry, forgot : SUBSET Entry, rec : Nat, seen : Files,
     alone : BOOLEAN]

\* What a process holds of the memory, and may write.
Storable(E) == E \subseteq Entry /\ Keyed(E) /\ Cardinality(E) <= MaxEntries

StoresTypes ==
    /\ metrics \in Seq(Seq(0 .. records)) /\ Len(metrics) >= 1
    /\ memory \in Files /\ Storable(memory.entries)
    /\ proc \in [Procs -> Process]
    /\ \A p \in Procs : Storable(proc[p].entries) /\ proc[p].forgot \cap proc[p].entries = {}
    /\ records \in Nat /\ faults \in Nat /\ overlaps \in Nat
    /\ ended \subseteq 1 .. records
    /\ promised \subseteq Entry
    /\ blame \subseteq {"fault", "race", "compaction"}

(***************************************************************************)
(* Metrics.  Doomed records will never be read; a line left open by nobody *)
(* will cost one more, which is held in reserve.                           *)
(***************************************************************************)
OpenLine == metrics[Len(metrics)]
AtNewline == {p \in Procs : proc[p].at = "newline"}
Pending == {proc[p].rec : p \in AtNewline}
Doomed == (ended \cup Pending) \ Intact
Reserve == IF OpenLine # <<>> /\ AtNewline = {} THEN 1 ELSE 0

\* Every record is one process's, and is not in a line that ended before it did.
RecordsInv ==
    /\ \A p \in Procs : proc[p].at \in {"record", "newline"} =>
          /\ proc[p].rec \in 1 .. records /\ proc[p].rec \notin ended
          /\ \A q \in Procs \ {p} : proc[q].at \in {"record", "newline"} =>
                proc[q].rec # proc[p].rec
    /\ \A k \in DOMAIN OpenLine : OpenLine[k] \notin ended

LossInv == Cardinality(Doomed) + Reserve <= faults + 2 * overlaps

\* Only a fault cuts a record, between two characters or not.
TornInv == torn \in BOOLEAN /\ (torn => faults > 0)

(***************************************************************************)
(* Memory.  Without a race one process saves at a time, and all others     *)
(* hold what they last saw -- unless the file stays garbled for good.      *)
(***************************************************************************)
NoRaceInv ==
    "race" \notin blame =>
        /\ \A p \in Procs : proc[p].seen.is # "garbled"
        /\ \A p \in Procs : proc[p].at = "saving" =>
              memory.is = "garbled" /\ \A q \in Procs : proc[q].at = "saving" => q = p
        /\ \/ memory.is = "garbled" /\ ~ Saving
           \/ \A p \in Procs : proc[p].at \notin {"off", "saving"} =>
                 proc[p].entries = proc[p].seen.entries

\* Nor compacted: what a save promised is in the file, or about to be.
PromiseInv ==
    blame \subseteq {"fault"} =>
        /\ memory.is # "garbled" => promised \subseteq memory.entries
        /\ \A p \in Procs : proc[p].at = "saving" =>
              \A d \in promised : \E e \in proc[p].entries : e.key = d.key

\* A garbled file has an author, and compaction kept the more important ones.
BlameInv ==
    /\ memory.is = "garbled" => Saving \/ blame \cap {"fault", "race"} # {}
    /\ \A p \in Procs : \A d \in proc[p].forgot, e \in proc[p].entries :
          d.importance <= e.importance

StoresInv ==
    StoresTypes /\ RecordsInv /\ LossInv /\ TornInv /\ NoRaceInv /\ PromiseInv /\ BlameInv
-----------------------------------------------------------------------------
\* The shapes of files, entries and processes.
LEMMA StoreShapes ==
    /\ Missing \in Files /\ Garbled \in Files /\ Off \in Process
    /\ Missing.is = "missing" /\ Garbled.is = "garbled"
    /\ Missing.entries = {} /\ Garbled.entries = {} /\ Storable({})
    /\ Off.at = "off" /\ Off.entries = {} /\ Off.forgot = {} /\ Off.seen = Missing
    /\ \A E \in SUBSET Entry : /\ Whole(E) \in Files /\ Whole(E).is = "whole"
                              /\ Whole(E).entries = E
<1>1. Cardinality({}) = 0 /\ 0 <= MaxEntries
  BY FS_EmptySet, StoresAssumption
<1> QED BY <1>1 DEF Missing, Garbled, Off, Files, Process, Storable, Keyed, Whole

\* One process takes a step.
LEMMA ProcessMoves ==
    ASSUME StoresTypes, NEW p \in Procs, NEW x \in Process, proc' = [proc EXCEPT ![p] = x]
    PROVE  /\ proc' \in [Procs -> Process] /\ proc'[p] = x
           /\ \A q \in Procs : q # p => proc'[q] = proc[q]
BY DEF StoresTypes

LEMMA GotoMoves ==
    ASSUME StoresTypes, NEW p \in Procs, Goto(p, "newline") \/ Goto(p, "memory") \/ Goto(p, "idle")
    PROVE  /\ proc' \in [Procs -> Process]
           /\ \A q \in Procs : q # p => proc'[q] = proc[q]
           /\ proc'[p].at \in {"newline", "memory", "idle"}
           /\ Goto(p, "newline") => proc'[p].at = "newline"
           /\ Goto(p, "memory") => proc'[p].at = "memory"
           /\ Goto(p, "idle") => proc'[p].at = "idle"
           /\ proc'[p].entries = proc[p].entries /\ proc'[p].forgot = proc[p].forgot
           /\ proc'[p].rec = proc[p].rec /\ proc'[p].seen = proc[p].seen
<1>1. proc \in [Procs -> Process] /\ proc[p] \in Process
  BY DEF StoresTypes
<1>2. ASSUME NEW at \in {"newline", "memory", "idle"}, Goto(p, at)
      PROVE  /\ proc' \in [Procs -> Process]
             /\ \A q \in Procs : q # p => proc'[q] = proc[q]
             /\ proc'[p].at = at
             /\ proc'[p].entries = proc[p].entries /\ proc'[p].forgot = proc[p].forgot
             /\ proc'[p].rec = proc[p].rec /\ proc'[p].seen = proc[p].seen
  <2>1. PICK x : x = [proc[p] EXCEPT !.at = at]
    OBVIOUS
  <2>2. /\ x \in Process /\ x.at = at
        /\ x.entries = proc[p].entries /\ x.forgot = proc[p].forgot
        /\ x.rec = proc[p].rec /\ x.seen = proc[p].seen
    BY <1>1, <2>1 DEF Process
  <2>3. proc' = [proc EXCEPT ![p] = x]
    BY <1>2, <2>1 DEF Goto
  <2> QED BY <2>2, <2>3, ProcessMoves
<1>3. \A a, b \in {"newline", "memory", "idle"} : Goto(p, a) /\ Goto(p, b) => a = b
  BY <1>2
<1> QED BY <1>2, <1>3

LEMMA AddedShape ==
    ASSUME NEW E, E \subseteq Entry, Keyed(E), NEW e \in Entry
    PROVE  /\ Added(E, e) \subseteq Entry /\ Keyed(Added(E, e))
           /\ \A d \in E : \E c \in Added(E, e) : c.key = d.key
BY DEF Added, Keyed

LEMMA CompactedShape ==
    ASSUME NEW E, E \subseteq Entry, Keyed(E), NEW K \in Compacted(E)
    PROVE  /\ Storable(K) /\ K \subseteq E
           /\ \A d \in E \ K, e \in K : d.importance <= e.importance
<1>1. CASE Cardinality(E) <= MaxEntries
  BY <1>1 DEF Compacted, Storable
<1>2. CASE ~ Cardinality(E) <= MaxEntries
  <2>1. /\ K \in SUBSET E /\ Cardinality(K) = KeptEntries
        /\ \A e \in K, d \in E \ K : d.importance <= e.importance
    BY <1>2 DEF Compacted
  <2> QED BY <2>1, StoresAssumption DEF Storable, Keyed
<1> QED BY <1>1, <1>2

LEMMA SequencesGrow == ASSUME NEW A, NEW B, A \subseteq B PROVE Seq(A) \subseteq Seq(B)
<1> SUFFICES ASSUME NEW s \in Seq(A) PROVE s \in Seq(B)
  OBVIOUS
<1>1. s \in [1 .. Len(s) -> A] /\ Len(s) \in Nat
  OBVIOUS
<1>2. s \in [1 .. Len(s) -> B]
  BY <1>1
<1> QED BY <1>1, <1>2

\* The open line gets longer: of what was readable it may spoil itself.
LEMMA LineGrows ==
    ASSUME StoresTypes, NEW x \in 0 .. records, records' = records,
           metrics' = [metrics EXCEPT ![Len(metrics)] = Append(@, x)]
    PROVE  /\ metrics' \in Seq(Seq(0 .. records)) /\ Len(metrics') = Len(metrics)
           /\ OpenLine' = Append(OpenLine, x) /\ OpenLine' # <<>>
           /\ \A r \in Intact : r \in Intact' \/ OpenLine = <<r>>
           /\ OpenLine = <<>> /\ x \in 1 .. records => x \in Intact'
           /\ \A k \in DOMAIN OpenLine' :
                 (k \in DOMAIN OpenLine /\ OpenLine'[k] = OpenLine[k]) \/ OpenLine'[k] = x
<1>1. /\ metrics \in Seq(Seq(0 .. records)) /\ Len(metrics) \in DOMAIN metrics
      /\ OpenLine \in Seq(0 .. records)
  BY DEF StoresTypes, OpenLine
<1>2. PICK line : line = Append(OpenLine, x)
  OBVIOUS
<1>3. /\ line \in Seq(0 .. records) /\ line # <<>>
      /\ \A k \in DOMAIN line : (k \in DOMAIN OpenLine /\ line[k] = OpenLine[k]) \/ line[k] = x
      /\ OpenLine = <<>> => line = <<x>>
  <2>1. Len(line) = Len(OpenLine) + 1 /\ line \in Seq(0 .. records) /\ Len(OpenLine) \in Nat
    BY <1>1, <1>2
  <2>2. line # <<>>
    BY <2>1
  <2>3. \A k \in 1 .. Len(OpenLine) + 1 :
          (k \in 1 .. Len(OpenLine) /\ line[k] = OpenLine[k]) \/ line[k] = x
    BY <1>1, <1>2, <2>1
  <2>4. DOMAIN line = 1 .. Len(OpenLine) + 1 /\ DOMAIN OpenLine = 1 .. Len(OpenLine)
    BY <1>1, <2>1
  <2>5. OpenLine = <<>> => line = <<x>>
    BY <1>2
  <2> QED BY <2>1, <2>2, <2>3, <2>4, <2>5
<1>4. metrics' = [metrics EXCEPT ![Len(metrics)] = line]
  BY <1>2 DEF OpenLine
<1>5. /\ metrics' \in Seq(Seq(0 .. records)) /\ Len(metrics') = Len(metrics)
      /\ DOMAIN metrics' = DOMAIN metrics /\ metrics'[Len(metrics)] = line
      /\ \A n \in DOMAIN metrics : n # Len(metrics) => metrics'[n] = metrics[n]
  BY <1>1, <1>3, <1>4
<1>6. OpenLine' = line
  BY <1>5 DEF OpenLine
<1>7. \A r \in Intact : r \in Intact' \/ OpenLine = <<r>>
  BY <1>5 DEF Intact, OpenLine
<1>8. OpenLine = <<>> /\ x \in 1 .. records => x \in Intact'
  BY <1>1, <1>3, <1>5 DEF Intact
<1> QED BY <1>2, <1>3, <1>5, <1>6, <1>7, <1>8

\* The open line ends.
LEMMA LineEnds ==
    ASSUME StoresTypes, records' = records, metrics' = Append(metrics, <<>>)
    PROVE  /\ metrics' \in Seq(Seq(0 .. records)) /\ Len(metrics') >= 1
           /\ OpenLine' = <<>> /\ Intact \subseteq Intact'
<1>1. metrics \in Seq(Seq(0 .. records)) /\ <<>> \in Seq(0 .. records)
  BY DEF StoresTypes
<1>2. /\ metrics' \in Seq(Seq(0 .. records)) /\ Len(metrics') = Len(metrics) + 1
      /\ metrics'[Len(metrics')] = <<>>
      /\ \A n \in DOMAIN metrics : n \in DOMAIN metrics' /\ metrics'[n] = metrics[n]
  BY <1>1
<1>3. Len(metrics) \in Nat
  BY <1>1
<1> QED BY <1>2, <1>3 DEF OpenLine, Intact
-----------------------------------------------------------------------------
\* What the steps that write memory.json do.
LEMMA OpenEffect ==
    ASSUME StoresTypes, NEW p \in Procs, OpenMemory(p)
    PROVE  /\ proc[p].at = "memory" /\ memory' = Garbled
           /\ UNCHANGED <<metrics, ended, overlaps, records, faults, promised>>
           /\ proc' \in [Procs -> Process]
           /\ \A q \in Procs :
                 /\ proc'[q].rec = proc[q].rec /\ proc'[q].seen = proc[q].seen
                 /\ q # p => /\ proc'[q].at = proc[q].at
                             /\ proc'[q].entries = proc[q].entries
                             /\ proc'[q].forgot = proc[q].forgot
           /\ proc'[p].at = "saving" /\ Storable(proc'[p].entries)
           /\ proc'[p].forgot \cap proc'[p].entries = {}
           /\ \A d \in proc'[p].forgot, e \in proc'[p].entries : d.importance <= e.importance
           /\ blame \subseteq blame' /\ blame' \subseteq {"fault", "race", "compaction"}
           /\ memory # proc[p].seen => "race" \in blame'
           /\ "compaction" \in blame' \/
                 \A d \in proc[p].entries : \E e \in proc'[p].entries : e.key = d.key
<1>1. PICK grown \in {proc[p].entries} \cup {Added(proc[p].entries, e) : e \in Entry} :
        \E kept \in Compacted(grown) :
          /\ proc' = [q \in Procs |->
                IF q = p THEN [proc[p] EXCEPT !.at = "saving", !.entries = kept,
                                              !.forgot = grown \ kept, !.alone = TRUE]
                ELSE [proc[q] EXCEPT !.alone = @ /\ proc[q].at # "saving"]]
          /\ blame' = blame
               \cup (IF kept # grown THEN {"compaction"} ELSE {})
               \cup (IF memory # proc[p].seen THEN {"race"} ELSE {})
  BY DEF OpenMemory
<1>2. PICK kept \in Compacted(grown) :
          /\ proc' = [q \in Procs |->
                IF q = p THEN [proc[p] EXCEPT !.at = "saving", !.entries = kept,
                                              !.forgot = grown \ kept, !.alone = TRUE]
                ELSE [proc[q] EXCEPT !.alone = @ /\ proc[q].at # "saving"]]
          /\ blame' = blame
               \cup (IF kept # grown THEN {"compaction"} ELSE {})
               \cup (IF memory # proc[p].seen THEN {"race"} ELSE {})
  BY <1>1
<1>t. \A q \in Procs : proc[q] \in Process
  BY DEF StoresTypes
<1>3. /\ grown \subseteq Entry /\ Keyed(grown)
      /\ \A d \in proc[p].entries : \E c \in grown : c.key = d.key
  <2>1. proc[p].entries \subseteq Entry /\ Keyed(proc[p].entries)
    BY DEF StoresTypes, Storable
  <2> QED BY <2>1, AddedShape
<1>4. /\ Storable(kept) /\ kept \subseteq grown
      /\ \A d \in grown \ kept, e \in kept : d.importance <= e.importance
  BY <1>3, CompactedShape
<1>5. PICK x : x = [proc[p] EXCEPT !.at = "saving", !.entries = kept,
                                   !.forgot = grown \ kept, !.alone = TRUE]
  OBVIOUS
<1>6. /\ x \in Process /\ x.at = "saving" /\ x.entries = kept /\ x.forgot = grown \ kept
      /\ x.rec = proc[p].rec /\ x.seen = proc[p].seen
  <2>1. kept \in SUBSET Entry /\ grown \ kept \in SUBSET Entry
    BY <1>3, <1>4
  <2> QED BY <1>5, <1>t, <2>1 DEF Process
<1>7. \A q \in Procs : q # p => /\ proc'[q] \in Process /\ proc'[q].at = proc[q].at
                              /\ proc'[q].entries = proc[q].entries
                              /\ proc'[q].forgot = proc[q].forgot
                              /\ proc'[q].rec = proc[q].rec /\ proc'[q].seen = proc[q].seen
  <2> SUFFICES ASSUME NEW q \in Procs, q # p
               PROVE  /\ proc'[q] \in Process /\ proc'[q].at = proc[q].at
                      /\ proc'[q].entries = proc[q].entries
                      /\ proc'[q].forgot = proc[q].forgot
                      /\ proc'[q].rec = proc[q].rec /\ proc'[q].seen = proc[q].seen
    OBVIOUS
  <2>1. PICK alone \in BOOLEAN : proc'[q] = [proc[q] EXCEPT !.alone = alone]
    BY <1>2
  <2> QED BY <1>t, <2>1 DEF Process
<1>8. proc'[p] = x
  BY <1>2, <1>5
<1>9. proc' \in [Procs -> Process]
  <2>1. proc' = [q \in Procs |-> proc'[q]]
    BY <1>2
  <2>2. \A q \in Procs : proc'[q] \in Process
    BY <1>6, <1>7, <1>8
  <2> QED BY <2>1, <2>2
<1>10. /\ blame \subseteq blame' /\ blame' \subseteq {"fault", "race", "compaction"}
       /\ memory # proc[p].seen => "race" \in blame'
       /\ kept # grown => "compaction" \in blame'
  BY <1>2 DEF StoresTypes
<1> QED BY <1>3, <1>4, <1>6, <1>7, <1>8, <1>9, <1>10 DEF OpenMemory, MetricsKept

LEMMA WriteEffect ==
    ASSUME StoresTypes, NEW p \in Procs, WriteMemory(p)
    PROVE  /\ proc[p].at = "saving"
           /\ UNCHANGED <<metrics, ended, overlaps, records, faults>>
           /\ proc' \in [Procs -> Process]
           /\ \A q \in Procs : q # p => proc'[q] = proc[q]
           /\ proc'[p].at = "review" /\ proc'[p].seen = memory' /\ proc'[p].rec = proc[p].rec
           /\ proc'[p].entries = proc[p].entries /\ proc'[p].forgot = proc[p].forgot
           /\ promised' = Promise(proc[p].entries) /\ promised' \subseteq Entry
           /\ \/ memory' = Whole(proc[p].entries) /\ blame' = blame
              \/ memory' = Garbled /\ blame' = blame \cup {"race"}
           /\ memory' \in Files /\ Storable(memory'.entries)
<1>1. /\ proc[p].at = "saving" /\ promised' = Promise(proc[p].entries)
      /\ UNCHANGED <<metrics, ended, overlaps, records, faults>>
      /\ \/ memory' = Whole(proc[p].entries) /\ blame' = blame
         \/ memory' = Garbled /\ blame' = blame \cup {"race"}
  BY DEF WriteMemory, MetricsKept
<1>2. proc[p] \in Process /\ proc[p].entries \in SUBSET Entry /\ Storable(proc[p].entries)
  BY DEF StoresTypes, Process
<1>3. memory' \in Files /\ Storable(memory'.entries)
  BY <1>1, <1>2, StoreShapes
<1>4. PICK x : x = [proc[p] EXCEPT !.at = "review", !.seen = memory']
  OBVIOUS
<1>5. /\ x \in Process /\ x.at = "review" /\ x.seen = memory' /\ x.rec = proc[p].rec
      /\ x.entries = proc[p].entries /\ x.forgot = proc[p].forgot
  BY <1>2, <1>3, <1>4 DEF Process
<1>6. proc' = [proc EXCEPT ![p] = x]
  BY <1>4 DEF WriteMemory
<1>7. promised' \subseteq Entry
  BY <1>1, <1>2 DEF Promise, StoresTypes
<1> QED BY <1>1, <1>3, <1>5, <1>6, <1>7, ProcessMoves

\* A process ends in the middle of its step, or the step fails.
GivesUp(p) == Stop(p) \/ AppendFails(p) \/ SaveFails(p)

LEMMA GiveUpEffect ==
    ASSUME StoresTypes, NEW p \in Procs, GivesUp(p)
    PROVE  /\ UNCHANGED <<memory, records, ended, overlaps, promised>>
           /\ proc' \in [Procs -> Process]
           /\ \A q \in Procs : q # p => proc'[q] = proc[q]
           /\ proc[p].at # "off" /\ proc'[p].at \in {"off", "idle", "memory"}
           /\ \/ proc'[p] = Off
              \/ /\ proc'[p].entries = proc[p].entries /\ proc'[p].forgot = proc[p].forgot
                 /\ proc'[p].seen = proc[p].seen
           /\ proc[p].at = "saving" => proc'[p].at # "memory" /\ blame' = blame \cup {"fault"}
           /\ proc[p].at # "saving" => blame' = blame
           /\ faults' \in {faults, faults + 1}
           /\ proc[p].at \in {"record", "newline"} => faults' = faults + 1
           /\ metrics' = metrics \/ (proc[p].at = "record" /\ CutRecord)
<1>1. CASE Stop(p)
  <2>1. /\ proc[p].at # "off" /\ proc' = [proc EXCEPT ![p] = Off]
        /\ UNCHANGED <<memory, records, ended, overlaps, promised>>
        /\ metrics' = metrics \/ (proc[p].at = "record" /\ CutRecord)
        /\ blame' = IF proc[p].at = "saving" THEN blame \cup {"fault"} ELSE blame
        /\ IF proc[p].at = "idle" THEN UNCHANGED faults ELSE faults' = faults + 1
    BY <1>1 DEF Stop, Fault
  <2> QED BY <2>1, ProcessMoves, StoreShapes
<1>2. CASE AppendFails(p)
  <2>1. /\ proc[p].at \in {"record", "newline"} /\ Goto(p, "memory")
        /\ faults' = faults + 1
        /\ UNCHANGED <<memory, records, ended, overlaps, promised, blame>>
        /\ metrics' = metrics \/ (proc[p].at = "record" /\ CutRecord)
    BY <1>2 DEF AppendFails, Fault, MemoryKept
  <2> QED BY <2>1, GotoMoves
<1>3. CASE SaveFails(p)
  <2>1. /\ proc[p].at = "saving" /\ Goto(p, "idle")
        /\ faults' = faults + 1 /\ blame' = blame \cup {"fault"}
        /\ UNCHANGED <<metrics, memory, records, ended, overlaps, promised>>
    BY <1>3 DEF SaveFails, Fault, MetricsKept
  <2> QED BY <2>1, GotoMoves
<1> QED BY <1>1, <1>2, <1>3 DEF GivesUp

\* The steps that leave the memory alone.
Proceeds(p) == Start(p) \/ Report(p) \/ AppendRecord(p) \/ AppendNewline(p) \/ Review(p)

LEMMA ProceedEffect ==
    ASSUME StoresTypes, NEW p \in Procs, Proceeds(p)
    PROVE  /\ UNCHANGED <<memory, promised, blame, faults>>
           /\ proc' \in [Procs -> Process]
           /\ \A q \in Procs : q # p => proc'[q] = proc[q]
           /\ proc[p].at # "saving" /\ proc'[p].at \notin {"off", "saving"}
           /\ \/ /\ proc[p].at = "off" /\ memory.is # "garbled"
                 /\ proc'[p].entries = memory.entries /\ proc'[p].forgot = {}
                 /\ proc'[p].seen = memory
              \/ /\ proc[p].at # "off"
                 /\ proc'[p].entries = proc[p].entries /\ proc'[p].forgot = proc[p].forgot
                 /\ proc'[p].seen = proc[p].seen
           /\ \/ /\ UNCHANGED <<metrics, ended, overlaps, records>>
                 /\ proc[p].at \notin {"record", "newline"}
                 /\ proc'[p].at \notin {"record", "newline"}
              \/ /\ UNCHANGED <<metrics, ended, overlaps>> /\ records' = records + 1
                 /\ proc[p].at = "idle" /\ proc'[p].at = "record"
                 /\ proc'[p].rec = records'
              \/ /\ UNCHANGED <<ended, records>>
                 /\ metrics' = [metrics EXCEPT ![Len(metrics)] = Append(@, proc[p].rec)]
                 /\ overlaps' = IF \E q \in Others(p) : proc[q].at = "newline"
                                THEN overlaps + 1 ELSE overlaps
                 /\ proc[p].at = "record" /\ proc'[p].at = "newline"
                 /\ proc'[p].rec = proc[p].rec
              \/ /\ UNCHANGED <<overlaps, records>>
                 /\ metrics' = Append(metrics, <<>>) /\ ended' = ended \cup {proc[p].rec}
                 /\ proc[p].at = "newline" /\ proc'[p].at = "memory"
<1>t. proc[p] \in Process /\ memory \in Files /\ records \in Nat
  BY DEF StoresTypes
<1>1. CASE Start(p)
  <2>1. PICK x : x = [Off EXCEPT !.at = "idle", !.entries = memory.entries, !.seen = memory]
    OBVIOUS
  <2>2. /\ x \in Process /\ x.at = "idle" /\ x.entries = memory.entries
        /\ x.forgot = {} /\ x.seen = memory
    <3>1. memory.entries \in SUBSET Entry /\ Off \in Process /\ Off.forgot = {}
      BY <1>t, StoreShapes DEF Files
    <3> QED BY <1>t, <2>1, <3>1 DEF Process
  <2>3. /\ proc' = [proc EXCEPT ![p] = x] /\ proc[p].at = "off" /\ memory.is # "garbled"
        /\ UNCHANGED <<metrics, ended, overlaps, records, faults, memory, promised, blame>>
    BY <1>1, <2>1 DEF Start, MetricsKept, MemoryKept
  <2> QED BY <2>2, <2>3, ProcessMoves
<1>2. CASE Report(p)
  <2>1. PICK x : x = [proc[p] EXCEPT !.at = "record", !.rec = records']
    OBVIOUS
  <2>2. /\ proc[p].at = "idle"
        /\ UNCHANGED <<metrics, ended, overlaps, faults, memory, promised, blame>>
        /\ \/ records' = records + 1 /\ proc' = [proc EXCEPT ![p] = x]
           \/ UNCHANGED <<records, proc>>
    BY <1>2, <2>1 DEF Report, MetricsKept, MemoryKept, StoresTypes
  <2>3. CASE UNCHANGED <<records, proc>>
    BY <2>2, <2>3 DEF StoresTypes
  <2>4. CASE records' = records + 1 /\ proc' = [proc EXCEPT ![p] = x]
    <3>1. /\ x \in Process /\ x.at = "record" /\ x.rec = records'
          /\ x.entries = proc[p].entries /\ x.forgot = proc[p].forgot
          /\ x.seen = proc[p].seen
      <4>1. PICK n \in Nat : n = records'
        BY <1>t, <2>4
      <4> QED BY <1>t, <2>1, <4>1 DEF Process
    <3> QED BY <2>2, <2>4, <3>1, ProcessMoves
  <2> QED BY <2>2, <2>3, <2>4
<1>3. CASE AppendRecord(p)
  <2>1. /\ proc[p].at = "record" /\ Goto(p, "newline")
        /\ metrics' = [metrics EXCEPT ![Len(metrics)] = Append(@, proc[p].rec)]
        /\ overlaps' = IF \E q \in Others(p) : proc[q].at = "newline"
                       THEN overlaps + 1 ELSE overlaps
        /\ UNCHANGED <<memory, promised, blame, faults, ended, records>>
    BY <1>3 DEF AppendRecord, MemoryKept
  <2> QED BY <2>1, GotoMoves
<1>4. CASE AppendNewline(p)
  <2>1. /\ proc[p].at = "newline" /\ Goto(p, "memory")
        /\ metrics' = Append(metrics, <<>>) /\ ended' = ended \cup {proc[p].rec}
        /\ UNCHANGED <<memory, promised, blame, faults, overlaps, records>>
    BY <1>4 DEF AppendNewline, MemoryKept
  <2> QED BY <2>1, GotoMoves
<1>5. CASE Review(p)
  <2>1. /\ proc[p].at = "review" /\ Goto(p, "idle")
        /\ UNCHANGED <<metrics, ended, overlaps, records, memory, promised, blame, faults>>
    BY <1>5 DEF Review, MemoryKept, MetricsKept
  <2> QED BY <2>1, GotoMoves
<1> QED BY <1>1, <1>2, <1>3, <1>4, <1>5 DEF Proceeds
-----------------------------------------------------------------------------
LEMMA StoresTypesInit == StoresInit => StoresTypes
<1> SUFFICES ASSUME StoresInit PROVE StoresTypes
  OBVIOUS
<1>1. metrics \in Seq(Seq(0 .. records)) /\ Len(metrics) >= 1
  BY DEF StoresInit
<1> QED BY <1>1, StoreShapes DEF StoresInit, StoresTypes

LEMMA StoresTypesStep ==
    ASSUME StoresTypes, RecordsInv, [StoresNext]_storesVars
    PROVE  StoresTypes'
<1>1. ASSUME NEW p \in Procs, Proceeds(p) PROVE StoresTypes'
  <2>1. /\ UNCHANGED <<memory, promised, blame, faults>>
        /\ proc' \in [Procs -> Process]
        /\ \A q \in Procs : q # p => proc'[q] = proc[q]
    BY <1>1, ProceedEffect
  <2>2. \A q \in Procs : Storable(proc'[q].entries) /\ proc'[q].forgot \cap proc'[q].entries = {}
    <3>1. Storable(proc'[p].entries) /\ proc'[p].forgot \cap proc'[p].entries = {}
      BY <1>1, ProceedEffect DEF StoresTypes
    <3> QED BY <2>1, <3>1 DEF StoresTypes
  <2>3. /\ records' \in Nat /\ overlaps' \in Nat /\ records' >= records
        /\ metrics' \in Seq(Seq(0 .. records')) /\ Len(metrics') >= 1
        /\ ended' \subseteq 1 .. records'
    <3>1. CASE UNCHANGED <<metrics, ended, overlaps, records>>
      BY <3>1 DEF StoresTypes
    <3>2. CASE UNCHANGED <<metrics, ended, overlaps>> /\ records' = records + 1
      <4>1. 0 .. records \subseteq 0 .. records + 1
        BY DEF StoresTypes
      <4>2. Seq(0 .. records) \subseteq Seq(0 .. records + 1)
        BY <4>1, SequencesGrow
      <4>3. Seq(Seq(0 .. records)) \subseteq Seq(Seq(0 .. records + 1))
        BY <4>2, SequencesGrow
      <4>4. metrics' \in Seq(Seq(0 .. records'))
        BY <3>2, <4>3 DEF StoresTypes
      <4> QED BY <3>2, <4>4 DEF StoresTypes
    <3>3. CASE /\ UNCHANGED <<ended, records>>
               /\ metrics' = [metrics EXCEPT ![Len(metrics)] = Append(@, proc[p].rec)]
               /\ overlaps' \in {overlaps, overlaps + 1}
               /\ proc[p].at = "record"
      <4>1. proc[p].rec \in 0 .. records
        BY <3>3 DEF RecordsInv, StoresTypes
      <4>2. metrics' \in Seq(Seq(0 .. records)) /\ Len(metrics') = Len(metrics)
        BY <3>3, <4>1, LineGrows
      <4> QED BY <3>3, <4>2 DEF StoresTypes
    <3>4. CASE /\ UNCHANGED <<overlaps, records>>
               /\ metrics' = Append(metrics, <<>>) /\ ended' = ended \cup {proc[p].rec}
               /\ proc[p].at = "newline"
      <4>1. metrics' \in Seq(Seq(0 .. records)) /\ Len(metrics') >= 1
        BY <3>4, LineEnds
      <4>2. proc[p].rec \in 1 .. records
        BY <3>4 DEF RecordsInv
      <4>3. ended' \subseteq 1 .. records
        BY <3>4, <4>2 DEF StoresTypes
      <4>4. records' = records /\ overlaps' = overlaps /\ records \in Nat /\ overlaps \in Nat
        BY <3>4 DEF StoresTypes
      <4> QED BY <4>1, <4>3, <4>4
    <3>5. \/ UNCHANGED <<metrics, ended, overlaps, records>>
          \/ UNCHANGED <<metrics, ended, overlaps>> /\ records' = records + 1
          \/ /\ UNCHANGED <<ended, records>>
             /\ metrics' = [metrics EXCEPT ![Len(metrics)] = Append(@, proc[p].rec)]
             /\ overlaps' \in {overlaps, overlaps + 1}
             /\ proc[p].at = "record"
          \/ /\ UNCHANGED <<overlaps, records>>
             /\ metrics' = Append(metrics, <<>>) /\ ended' = ended \cup {proc[p].rec}
             /\ proc[p].at = "newline"
      BY <1>1, ProceedEffect
    <3> QED BY <3>1, <3>2, <3>3, <3>4, <3>5
  <2> QED BY <2>1, <2>2, <2>3 DEF StoresTypes
<1>2. ASSUME NEW p \in Procs, GivesUp(p) PROVE StoresTypes'
  <2>1. /\ UNCHANGED <<memory, records, ended, overlaps, promised>>
        /\ proc' \in [Procs -> Process] /\ faults' \in {faults, faults + 1}
        /\ \A q \in Procs : q # p => proc'[q] = proc[q]
        /\ \/ proc'[p] = Off
           \/ proc'[p].entries = proc[p].entries /\ proc'[p].forgot = proc[p].forgot
        /\ blame' \in {blame, blame \cup {"fault"}}
        /\ metrics' = metrics \/ CutRecord
    BY <1>2, GiveUpEffect
  <2>2. \A q \in Procs : Storable(proc'[q].entries) /\ proc'[q].forgot \cap proc'[q].entries = {}
    <3>1. Storable(proc'[p].entries) /\ proc'[p].forgot \cap proc'[p].entries = {}
      BY <2>1, StoreShapes DEF StoresTypes
    <3> QED BY <2>1, <3>1 DEF StoresTypes
  <2>3. metrics' \in Seq(Seq(0 .. records)) /\ Len(metrics') >= 1
    <3>1. CASE metrics' = metrics
      BY <3>1 DEF StoresTypes
    <3>2. CASE CutRecord
      <4>1. Piece \in 0 .. records
        BY DEF Piece, StoresTypes
      <4>2. metrics' = [metrics EXCEPT ![Len(metrics)] = Append(@, Piece)]
        BY <3>2 DEF CutRecord
      <4>3. metrics' \in Seq(Seq(0 .. records)) /\ Len(metrics') = Len(metrics)
        BY <2>1, <4>1, <4>2, LineGrows
      <4> QED BY <4>3 DEF StoresTypes
    <3> QED BY <2>1, <3>1, <3>2
  <2> QED BY <2>1, <2>2, <2>3 DEF StoresTypes
<1>3. ASSUME NEW p \in Procs, OpenMemory(p) PROVE StoresTypes'
  <2>1. /\ memory' = Garbled
        /\ UNCHANGED <<metrics, ended, overlaps, records, faults, promised>>
        /\ proc' \in [Procs -> Process]
        /\ \A q \in Procs : q # p => /\ proc'[q].entries = proc[q].entries
                                    /\ proc'[q].forgot = proc[q].forgot
        /\ Storable(proc'[p].entries) /\ proc'[p].forgot \cap proc'[p].entries = {}
        /\ blame' \subseteq {"fault", "race", "compaction"}
    BY <1>3, OpenEffect
  <2> QED BY <2>1, StoreShapes DEF StoresTypes
<1>4. ASSUME NEW p \in Procs, WriteMemory(p) PROVE StoresTypes'
  <2>1. /\ UNCHANGED <<metrics, ended, overlaps, records, faults>>
        /\ proc' \in [Procs -> Process]
        /\ \A q \in Procs : q # p => proc'[q] = proc[q]
        /\ proc'[p].entries = proc[p].entries /\ proc'[p].forgot = proc[p].forgot
        /\ promised' \subseteq Entry /\ blame' \in {blame, blame \cup {"race"}}
        /\ memory' \in Files /\ Storable(memory'.entries)
    BY <1>4, WriteEffect
  <2> QED BY <2>1 DEF StoresTypes
<1>5. CASE UNCHANGED storesVars
  BY <1>5 DEF storesVars, StoresTypes
<1> QED BY <1>1, <1>2, <1>3, <1>4, <1>5 DEF StoresNext, Proceeds, GivesUp
-----------------------------------------------------------------------------
\* Each record belongs to one process until its append has ended.
LEMMA RecordsStep ==
    ASSUME StoresTypes, RecordsInv, [StoresNext]_storesVars
    PROVE  RecordsInv'
<1>t. ended \subseteq 1 .. records /\ records \in Nat
  BY DEF StoresTypes
<1>1. ASSUME UNCHANGED <<metrics, ended, records>>,
             \A q \in Procs : proc'[q].at \in {"record", "newline"} =>
                proc[q].at \in {"record", "newline"} /\ proc'[q].rec = proc[q].rec
      PROVE  RecordsInv'
  BY <1>1 DEF RecordsInv, OpenLine
<1>2. ASSUME NEW p \in Procs, Proceeds(p) PROVE RecordsInv'
  <2>1. \A q \in Procs : q # p => proc'[q] = proc[q]
    BY <1>2, ProceedEffect
  <2>2. CASE /\ UNCHANGED <<metrics, ended, records>>
             /\ proc'[p].at \notin {"record", "newline"}
    BY <1>1, <2>1, <2>2
  <2>3. CASE /\ UNCHANGED <<metrics, ended>> /\ records' = records + 1
             /\ proc'[p].at = "record" /\ proc'[p].rec = records'
    <3>1. records' \notin 1 .. records /\ records' \in 1 .. records'
          /\ 1 .. records \subseteq 1 .. records'
      BY <1>t, <2>3
    <3>2. \A q \in Procs : q # p /\ proc'[q].at \in {"record", "newline"} =>
            proc'[q].rec = proc[q].rec /\ proc[q].rec \in 1 .. records /\ proc[q].rec \notin ended
      BY <2>1 DEF RecordsInv
    <3>3. proc'[p].rec \in 1 .. records' /\ proc'[p].rec \notin ended
      BY <1>t, <2>3, <3>1
    <3> QED BY <2>1, <2>3, <3>1, <3>2, <3>3 DEF RecordsInv, OpenLine
  <2>4. CASE /\ UNCHANGED <<ended, records>>
             /\ metrics' = [metrics EXCEPT ![Len(metrics)] = Append(@, proc[p].rec)]
             /\ proc[p].at = "record" /\ proc'[p].at = "newline"
             /\ proc'[p].rec = proc[p].rec
    <3>1. proc[p].rec \in 0 .. records /\ proc[p].rec \notin ended
      BY <2>4, <1>t DEF RecordsInv
    <3>2. \A k \in DOMAIN OpenLine' :
            (k \in DOMAIN OpenLine /\ OpenLine'[k] = OpenLine[k]) \/ OpenLine'[k] = proc[p].rec
      BY <2>4, <3>1, LineGrows
    <3>3. \A k \in DOMAIN OpenLine' : OpenLine'[k] \notin ended'
      BY <2>4, <3>1, <3>2 DEF RecordsInv
    <3>4. \A q \in Procs : proc'[q].at \in {"record", "newline"} =>
            proc[q].at \in {"record", "newline"} /\ proc'[q].rec = proc[q].rec
      BY <2>1, <2>4
    <3> QED BY <2>4, <3>3, <3>4 DEF RecordsInv
  <2>5. CASE /\ records' = records
             /\ metrics' = Append(metrics, <<>>) /\ ended' = ended \cup {proc[p].rec}
             /\ proc[p].at = "newline" /\ proc'[p].at = "memory"
    <3>1. OpenLine' = <<>>
      BY <2>5, LineEnds
    <3>2. \A k \in DOMAIN OpenLine' : OpenLine'[k] \notin ended'
      BY <3>1
    <3>3. \A q \in Procs : proc'[q].at \in {"record", "newline"} =>
            q # p /\ proc'[q] = proc[q]
      BY <2>1, <2>5
    <3> QED BY <2>5, <3>2, <3>3 DEF RecordsInv
  <2> QED BY <1>2, <2>2, <2>3, <2>4, <2>5, ProceedEffect
<1>3. ASSUME NEW p \in Procs, GivesUp(p) PROVE RecordsInv'
  <2>1. /\ UNCHANGED <<records, ended>>
        /\ \A q \in Procs : q # p => proc'[q] = proc[q]
        /\ proc'[p].at \in {"off", "idle", "memory"}
        /\ metrics' = metrics \/ CutRecord
    BY <1>3, GiveUpEffect
  <2>2. CASE metrics' = metrics
    BY <1>1, <2>1, <2>2
  <2>3. CASE CutRecord
    <3>1. Piece \in 0 .. records /\ Piece \notin ended
      BY <1>t DEF Piece
    <3>2. metrics' = [metrics EXCEPT ![Len(metrics)] = Append(@, Piece)]
      BY <2>3 DEF CutRecord
    <3>3. \A k \in DOMAIN OpenLine' :
            (k \in DOMAIN OpenLine /\ OpenLine'[k] = OpenLine[k]) \/ OpenLine'[k] = Piece
      BY <2>1, <3>1, <3>2, LineGrows
    <3>4. \A k \in DOMAIN OpenLine' : OpenLine'[k] \notin ended'
      BY <2>1, <3>1, <3>3 DEF RecordsInv
    <3>5. \A q \in Procs : proc'[q].at \in {"record", "newline"} =>
            proc'[q] = proc[q]
      BY <2>1
    <3> QED BY <2>1, <3>4, <3>5 DEF RecordsInv
  <2> QED BY <2>1, <2>2, <2>3
<1>4. ASSUME NEW p \in Procs, OpenMemory(p) PROVE RecordsInv'
  BY <1>1, <1>4, OpenEffect
<1>5. ASSUME NEW p \in Procs, WriteMemory(p) PROVE RecordsInv'
  BY <1>1, <1>5, WriteEffect
<1>6. CASE UNCHANGED storesVars
  BY <1>1, <1>6 DEF storesVars
<1> QED BY <1>2, <1>3, <1>4, <1>5, <1>6 DEF StoresNext, Proceeds, GivesUp
-----------------------------------------------------------------------------
\* A set that gains at most one element, or two.
LEMMA AddOne ==
    ASSUME NEW S, IsFiniteSet(S), NEW a, NEW T, T \subseteq S \cup {a}
    PROVE  /\ IsFiniteSet(T) /\ Cardinality(T) \in Nat /\ Cardinality(S) \in Nat
           /\ Cardinality(T) <= Cardinality(S) + 1
<1>1. /\ IsFiniteSet(S \cup {a}) /\ Cardinality(S) \in Nat
      /\ Cardinality(S \cup {a}) \in {Cardinality(S), Cardinality(S) + 1}
  BY FS_AddElement, FS_CardinalityType
<1>2. IsFiniteSet(T) /\ Cardinality(T) <= Cardinality(S \cup {a})
  BY <1>1, FS_Subset
<1>3. Cardinality(T) \in Nat
  BY <1>2, FS_CardinalityType
<1> QED BY <1>1, <1>2, <1>3

LEMMA AddTwo ==
    ASSUME NEW S, IsFiniteSet(S), NEW a, NEW b, NEW T, T \subseteq S \cup {a, b}
    PROVE  /\ Cardinality(T) \in Nat /\ Cardinality(S) \in Nat
           /\ Cardinality(T) <= Cardinality(S) + 2
<1>1. /\ IsFiniteSet(S \cup {a}) /\ Cardinality(S \cup {a}) \in Nat
      /\ Cardinality(S \cup {a}) <= Cardinality(S) + 1 /\ Cardinality(S) \in Nat
  BY AddOne
<1>2. Cardinality(T) <= Cardinality(S \cup {a}) + 1 /\ Cardinality(T) \in Nat
  <2>1. T \subseteq (S \cup {a}) \cup {b}
    OBVIOUS
  <2> QED BY <1>1, <2>1, AddOne
<1> QED BY <1>1, <1>2

LEMMA DoomedFinite ==
    ASSUME StoresTypes, RecordsInv
    PROVE  IsFiniteSet(Doomed) /\ Cardinality(Doomed) \in Nat /\ Reserve \in {0, 1}
<1>1. Doomed \subseteq 1 .. records
  BY DEF StoresTypes, RecordsInv, Doomed, Pending, AtNewline
<1>2. IsFiniteSet(1 .. records)
  BY FS_Interval DEF StoresTypes
<1>3. IsFiniteSet(Doomed)
  BY <1>1, <1>2, FS_Subset
<1> QED BY <1>3, FS_CardinalityType DEF Reserve

\* Every record that is lost was paid for: by the reserve, a fault or an overlap.
LEMMA LossStep ==
    ASSUME StoresTypes, RecordsInv, LossInv, [StoresNext]_storesVars
    PROVE  LossInv'
<1>t. /\ IsFiniteSet(Doomed) /\ Cardinality(Doomed) \in Nat /\ Reserve \in {0, 1}
      /\ faults \in Nat /\ overlaps \in Nat
      /\ Cardinality(Doomed) + Reserve <= faults + 2 * overlaps
  BY DoomedFinite DEF LossInv, StoresTypes
<1>r. Reserve' \in {0, 1}
  BY DEF Reserve
<1>0. ASSUME Doomed' \subseteq Doomed, Reserve' <= Reserve \/ faults' = faults + 1,
             faults' \in {faults, faults + 1}, overlaps' \in {overlaps, overlaps + 1}
      PROVE  LossInv'
  <2>1. Cardinality(Doomed') \in Nat /\ Cardinality(Doomed') <= Cardinality(Doomed)
    BY <1>0, <1>t, FS_Subset, FS_CardinalityType
  <2> QED BY <2>1, <1>0, <1>t, <1>r DEF LossInv
<1>1. ASSUME UNCHANGED <<metrics, ended, overlaps>>, records' \in {records, records + 1},
             faults' \in {faults, faults + 1}, AtNewline' = AtNewline,
             \A q \in AtNewline : proc'[q].rec = proc[q].rec
      PROVE  LossInv'
  <2>1. Pending' = Pending
    BY <1>1 DEF Pending
  <2>2. Intact \subseteq Intact'
    BY <1>1 DEF Intact, StoresTypes
  <2>3. Doomed' \subseteq Doomed
    BY <1>1, <2>1, <2>2 DEF Doomed
  <2>4. Reserve' = Reserve
    BY <1>1 DEF Reserve, OpenLine
  <2> QED BY <1>0, <1>1, <1>r, <1>t, <2>3, <2>4
<1>2. ASSUME NEW p \in Procs, proc[p].at = "record", proc'[p].at = "newline",
             proc'[p].rec = proc[p].rec, \A q \in Procs : q # p => proc'[q] = proc[q],
             UNCHANGED <<ended, records, faults>>,
             metrics' = [metrics EXCEPT ![Len(metrics)] = Append(@, proc[p].rec)],
             overlaps' = IF \E q \in Others(p) : proc[q].at = "newline"
                         THEN overlaps + 1 ELSE overlaps
      PROVE  LossInv'
  <2>1. proc[p].rec \in 1 .. records /\ proc[p].rec \in 0 .. records
    BY <1>2 DEF RecordsInv, StoresTypes
  <2>2. /\ \A r \in Intact : r \in Intact' \/ OpenLine = <<r>>
        /\ OpenLine = <<>> => proc[p].rec \in Intact'
    BY <1>2, <2>1, LineGrows
  <2>3. AtNewline' = AtNewline \cup {p} /\ p \notin AtNewline
    BY <1>2 DEF AtNewline
  <2>4. Pending' = Pending \cup {proc[p].rec}
    BY <1>2, <2>3 DEF Pending, AtNewline
  <2>5. Reserve' = 0
    BY <2>3 DEF Reserve
  <2>6. overlaps' \in {overlaps, overlaps + 1} /\ (AtNewline # {} => overlaps' = overlaps + 1)
    <3>1. AtNewline # {} => \E q \in Others(p) : proc[q].at = "newline"
      BY <1>2 DEF AtNewline, Others
    <3> QED BY <1>2, <3>1
  <2>7. CASE OpenLine = <<>>
    <3>1. Doomed' \subseteq Doomed
      BY <1>2, <2>2, <2>4, <2>7 DEF Doomed
    <3> QED BY <1>0, <1>2, <1>t, <2>5, <2>6, <3>1
  <2>8. CASE OpenLine # <<>> /\ AtNewline = {}
    <3>1. \A d \in ended : OpenLine # <<d>>
      BY DEF RecordsInv
    <3>2. Pending = {}
      BY <2>8 DEF Pending
    <3>3. Doomed' \subseteq Doomed \cup {proc[p].rec}
      BY <1>2, <2>2, <2>4, <3>1, <3>2 DEF Doomed
    <3>4. Reserve = 1
      BY <2>8 DEF Reserve
    <3>5. Cardinality(Doomed') \in Nat /\ Cardinality(Doomed') <= Cardinality(Doomed) + 1
      BY <1>t, <3>3, AddOne
    <3> QED BY <1>2, <1>t, <2>5, <2>6, <3>4, <3>5 DEF LossInv
  <2>9. CASE AtNewline # {}
    <3>1. Doomed' \subseteq Doomed \cup {proc[p].rec, OpenLine[1]}
      BY <1>2, <2>2, <2>4 DEF Doomed
    <3>2. Cardinality(Doomed') \in Nat /\ Cardinality(Doomed') <= Cardinality(Doomed) + 2
      BY <1>t, <3>1, AddTwo
    <3> QED BY <1>2, <1>t, <2>5, <2>6, <2>9, <3>2 DEF LossInv
  <2> QED BY <2>7, <2>8, <2>9
<1>3. ASSUME NEW p \in Procs, proc[p].at = "newline", proc'[p].at = "memory",
             \A q \in Procs : q # p => proc'[q] = proc[q],
             UNCHANGED <<overlaps, records, faults>>,
             metrics' = Append(metrics, <<>>), ended' = ended \cup {proc[p].rec}
      PROVE  LossInv'
  <2>1. OpenLine' = <<>> /\ Intact \subseteq Intact'
    BY <1>3, LineEnds
  <2>2. Pending' \subseteq Pending /\ proc[p].rec \in Pending
    BY <1>3 DEF Pending, AtNewline
  <2>3. Doomed' \subseteq Doomed
    BY <1>3, <2>1, <2>2 DEF Doomed
  <2>4. Reserve' <= Reserve
    BY <2>1, <1>t DEF Reserve
  <2> QED BY <1>0, <1>3, <1>t, <2>3, <2>4
<1>4. ASSUME NEW p \in Procs, proc[p].at \in {"record", "newline"},
             proc'[p].at \in {"off", "idle", "memory"},
             \A q \in Procs : q # p => proc'[q] = proc[q],
             UNCHANGED <<ended, overlaps, records>>, faults' = faults + 1,
             metrics' = metrics \/ (proc[p].at = "record" /\ CutRecord)
      PROVE  LossInv'
  <2>1. Pending' \subseteq Pending
    BY <1>4 DEF Pending, AtNewline
  <2>2. CASE metrics' = metrics
    <3>1. Doomed' \subseteq Doomed
      BY <1>4, <2>1, <2>2 DEF Doomed, Intact
    <3> QED BY <1>0, <1>4, <1>t, <3>1
  <2>3. CASE proc[p].at = "record" /\ CutRecord
    <3>1. metrics' = [metrics EXCEPT ![Len(metrics)] = Append(@, Piece)] /\ Piece \in 0 .. records
      BY <2>3 DEF CutRecord, Piece, StoresTypes
    <3>2. \A r \in Intact : r \in Intact' \/ OpenLine = <<r>>
      BY <1>4, <3>1, LineGrows
    <3>3. AtNewline' = AtNewline
      BY <1>4, <2>3 DEF AtNewline
    <3>4. CASE AtNewline = {}
      <4>1. \A d \in ended : OpenLine # <<d>>
        BY DEF RecordsInv
      <4>2. Pending' = {}
        BY <3>3, <3>4 DEF Pending
      <4>3. Doomed' \subseteq Doomed
        BY <1>4, <3>2, <4>1, <4>2 DEF Doomed
      <4> QED BY <1>0, <1>4, <1>t, <4>3
    <3>5. CASE AtNewline # {}
      <4>1. Doomed' \subseteq Doomed \cup {OpenLine[1]}
        BY <1>4, <2>1, <3>2 DEF Doomed
      <4>2. Cardinality(Doomed') \in Nat /\ Cardinality(Doomed') <= Cardinality(Doomed) + 1
        BY <1>t, <4>1, AddOne
      <4>3. Reserve' = 0
        BY <3>3, <3>5 DEF Reserve
      <4> QED BY <1>4, <1>t, <4>2, <4>3 DEF LossInv
    <3> QED BY <3>4, <3>5
  <2> QED BY <1>4, <2>2, <2>3
<1>5. ASSUME NEW p \in Procs, Proceeds(p) PROVE LossInv'
  <2>1. UNCHANGED faults /\ \A q \in Procs : q # p => proc'[q] = proc[q]
    BY <1>5, ProceedEffect
  <2>2. CASE /\ UNCHANGED <<metrics, ended, overlaps>> /\ records' \in {records, records + 1}
             /\ proc[p].at # "newline" /\ proc'[p].at # "newline"
    <3>1. AtNewline' = AtNewline /\ \A q \in AtNewline : proc'[q] = proc[q]
      BY <2>1, <2>2 DEF AtNewline
    <3> QED BY <1>1, <2>1, <2>2, <3>1
  <2> QED BY <1>2, <1>3, <1>5, <2>1, <2>2, ProceedEffect
<1>6. ASSUME NEW p \in Procs, GivesUp(p) PROVE LossInv'
  <2>1. /\ UNCHANGED <<records, ended, overlaps>>
        /\ \A q \in Procs : q # p => proc'[q] = proc[q]
        /\ proc'[p].at \in {"off", "idle", "memory"} /\ faults' \in {faults, faults + 1}
        /\ proc[p].at \in {"record", "newline"} => faults' = faults + 1
        /\ metrics' = metrics \/ (proc[p].at = "record" /\ CutRecord)
    BY <1>6, GiveUpEffect
  <2>2. CASE proc[p].at \in {"record", "newline"}
    BY <1>4, <2>1, <2>2
  <2>3. CASE proc[p].at \notin {"record", "newline"}
    <3>1. AtNewline' = AtNewline /\ \A q \in AtNewline : proc'[q] = proc[q]
      BY <2>1, <2>3 DEF AtNewline
    <3> QED BY <1>1, <2>1, <2>3, <3>1
  <2> QED BY <2>2, <2>3
<1>7. ASSUME NEW p \in Procs, OpenMemory(p) PROVE LossInv'
  <2>1. AtNewline' = AtNewline
    BY <1>7, OpenEffect DEF AtNewline
  <2> QED BY <1>1, <1>7, <2>1, OpenEffect DEF AtNewline
<1>8. ASSUME NEW p \in Procs, WriteMemory(p) PROVE LossInv'
  <2>1. AtNewline' = AtNewline /\ \A q \in AtNewline : proc'[q] = proc[q]
    BY <1>8, WriteEffect DEF AtNewline
  <2> QED BY <1>1, <1>8, <2>1, WriteEffect
<1>9. CASE UNCHANGED storesVars
  <2>1. AtNewline' = AtNewline
    BY <1>9 DEF storesVars, AtNewline
  <2> QED BY <1>1, <1>9, <2>1 DEF storesVars
<1> QED BY <1>5, <1>6, <1>7, <1>8, <1>9 DEF StoresNext, Proceeds, GivesUp
-----------------------------------------------------------------------------
\* What the steps do to the memory, as its invariants see it.
LEMMA MemoryStep ==
    ASSUME StoresTypes, NoRaceInv, PromiseInv, BlameInv, [StoresNext]_storesVars
    PROVE  NoRaceInv' /\ PromiseInv' /\ BlameInv'
<1>1. ASSUME NEW p \in Procs, Proceeds(p) PROVE NoRaceInv' /\ PromiseInv' /\ BlameInv'
  <2>1. /\ UNCHANGED <<memory, promised, blame>>
        /\ \A q \in Procs : q # p => proc'[q] = proc[q]
        /\ proc[p].at # "saving" /\ proc'[p].at # "saving"
        /\ \/ /\ memory.is # "garbled" /\ proc'[p].entries = memory.entries
              /\ proc'[p].forgot = {} /\ proc'[p].seen = memory
           \/ /\ proc[p].at # "off"
              /\ proc'[p].entries = proc[p].entries /\ proc'[p].forgot = proc[p].forgot
              /\ proc'[p].seen = proc[p].seen
    BY <1>1, ProceedEffect
  <2>2. Saving' <=> Saving
    BY <2>1 DEF Saving
  <2>3. NoRaceInv'
    BY <2>1, <2>2 DEF NoRaceInv
  <2>4. PromiseInv'
    BY <2>1 DEF PromiseInv
  <2>5. BlameInv'
    BY <2>1, <2>2 DEF BlameInv
  <2> QED BY <2>3, <2>4, <2>5
<1>2. ASSUME NEW p \in Procs, GivesUp(p) PROVE NoRaceInv' /\ PromiseInv' /\ BlameInv'
  <2>1. /\ UNCHANGED <<memory, promised>>
        /\ \A q \in Procs : q # p => proc'[q] = proc[q]
        /\ proc[p].at # "off" /\ proc'[p].at # "saving"
        /\ \/ proc'[p].at = "off" /\ proc'[p].seen.is # "garbled" /\ proc'[p].forgot = {}
           \/ /\ proc'[p].entries = proc[p].entries /\ proc'[p].forgot = proc[p].forgot
              /\ proc'[p].seen = proc[p].seen
        /\ proc[p].at = "saving" => blame' = blame \cup {"fault"}
        /\ proc[p].at # "saving" => blame' = blame
    BY <1>2, GiveUpEffect, StoreShapes
  <2>2. proc[p].at # "saving" => (Saving' <=> Saving)
    BY <2>1 DEF Saving
  <2>3. NoRaceInv'
    <3> SUFFICES ASSUME "race" \notin blame
                 PROVE  /\ \A q \in Procs : proc'[q].seen.is # "garbled"
                        /\ \A q \in Procs : proc'[q].at = "saving" =>
                              memory.is = "garbled" /\ \A r \in Procs : proc'[r].at = "saving" => r = q
                        /\ \/ memory.is = "garbled" /\ ~ Saving'
                           \/ \A q \in Procs : proc'[q].at \notin {"off", "saving"} =>
                                 proc'[q].entries = proc'[q].seen.entries
      BY <2>1 DEF NoRaceInv
    <3>1. CASE proc[p].at = "saving"
      <4>1. memory.is = "garbled" /\ ~ Saving'
        BY <2>1, <3>1 DEF NoRaceInv, Saving
      <4> QED BY <2>1, <4>1 DEF NoRaceInv, Saving
    <3>2. CASE proc[p].at # "saving"
      BY <2>1, <2>2, <3>2 DEF NoRaceInv
    <3> QED BY <3>1, <3>2
  <2>4. PromiseInv'
    <3>1. blame \subseteq blame'
      BY <2>1
    <3>2. ASSUME NEW q \in Procs, proc'[q].at = "saving"
          PROVE  proc[q].at = "saving" /\ proc'[q].entries = proc[q].entries
      BY <2>1, <3>2
    <3> QED BY <2>1, <3>1, <3>2 DEF PromiseInv
  <2>5. BlameInv'
    BY <2>1, <2>2 DEF BlameInv
  <2> QED BY <2>3, <2>4, <2>5
<1>3. ASSUME NEW p \in Procs, OpenMemory(p) PROVE NoRaceInv' /\ PromiseInv' /\ BlameInv'
  <2>1. /\ memory' = Garbled /\ promised' = promised
        /\ proc[p].at = "memory" /\ proc'[p].at = "saving"
        /\ memory # proc[p].seen => "race" \in blame'
        /\ blame \subseteq blame'
    BY <1>3, OpenEffect
  <2>2. memory'.is = "garbled"
    BY <2>1, StoreShapes
  <2>3. \A q \in Procs : proc'[q].seen = proc[q].seen
    BY <1>3, OpenEffect
  <2>4. \A q \in Procs : q # p => /\ proc'[q].at = proc[q].at
                                   /\ proc'[q].entries = proc[q].entries
                                   /\ proc'[q].forgot = proc[q].forgot
    BY <1>3, OpenEffect
  <2>5. "race" \notin blame' =>
          /\ "race" \notin blame /\ memory = proc[p].seen /\ memory.is # "garbled"
          /\ \A q \in Procs : proc[q].seen.is # "garbled"
          /\ \A q \in Procs : proc[q].at # "saving"
          /\ \A q \in Procs : proc[q].at \notin {"off", "saving"} =>
                proc[q].entries = proc[q].seen.entries
    <3> SUFFICES ASSUME "race" \notin blame'
                 PROVE  /\ memory = proc[p].seen /\ "race" \notin blame
                        /\ memory.is # "garbled"
                        /\ \A q \in Procs : proc[q].at # "saving"
      BY DEF NoRaceInv
    <3>1. memory = proc[p].seen /\ "race" \notin blame
      BY <2>1
    <3>2. memory.is # "garbled"
      BY <3>1 DEF NoRaceInv
    <3> QED BY <3>1, <3>2 DEF NoRaceInv
  <2>6. NoRaceInv'
    <3> SUFFICES ASSUME "race" \notin blame'
                 PROVE  /\ \A q \in Procs : proc'[q].seen.is # "garbled"
                        /\ \A q \in Procs : proc'[q].at = "saving" => q = p
                        /\ \A q \in Procs : proc'[q].at \notin {"off", "saving"} =>
                              proc'[q].entries = proc'[q].seen.entries
      BY <2>2 DEF NoRaceInv
    <3>1. \A q \in Procs : proc'[q].seen.is # "garbled"
      BY <2>3, <2>5
    <3>2. \A q \in Procs : proc'[q].at = "saving" => q = p
      BY <2>4, <2>5
    <3>3. ASSUME NEW q \in Procs, proc'[q].at \notin {"off", "saving"}
          PROVE  proc'[q].entries = proc'[q].seen.entries
      <4>1. q # p
        BY <2>1, <3>3
      <4>2. proc'[q].at = proc[q].at /\ proc'[q].entries = proc[q].entries
        BY <2>4, <4>1
      <4>3. proc[q].entries = proc[q].seen.entries
        BY <2>5, <3>3, <4>2
      <4> QED BY <2>3, <4>2, <4>3
    <3> QED BY <3>1, <3>2, <3>3
  <2>7. PromiseInv'
    <3> SUFFICES ASSUME blame' \subseteq {"fault"}
                 PROVE  \A q \in Procs : proc'[q].at = "saving" =>
                          \A d \in promised : \E e \in proc'[q].entries : e.key = d.key
      BY <2>1, <2>2 DEF PromiseInv
    <3>1. "race" \notin blame' /\ "compaction" \notin blame' /\ blame \subseteq {"fault"}
      BY <2>1
    <3>2. promised \subseteq proc[p].entries
      BY <2>1, <2>5, <3>1 DEF PromiseInv
    <3>3. \A d \in proc[p].entries : \E e \in proc'[p].entries : e.key = d.key
      BY <1>3, <3>1, OpenEffect
    <3>4. \A d \in promised : \E e \in proc'[p].entries : e.key = d.key
      BY <3>2, <3>3
    <3>5. \A q \in Procs : q # p => proc'[q].at # "saving"
      BY <2>4, <2>5, <3>1
    <3> QED BY <3>4, <3>5
  <2>8. BlameInv'
    <3>1. Saving'
      BY <2>1 DEF Saving
    <3>2. ASSUME NEW q \in Procs
          PROVE  \A d \in proc'[q].forgot, e \in proc'[q].entries : d.importance <= e.importance
      <4>1. CASE q = p
        BY <1>3, <4>1, OpenEffect
      <4>2. CASE q # p
        <5>1. proc'[q].entries = proc[q].entries /\ proc'[q].forgot = proc[q].forgot
          BY <2>4, <4>2
        <5> QED BY <5>1 DEF BlameInv
      <4> QED BY <4>1, <4>2
    <3> QED BY <3>1, <3>2 DEF BlameInv
  <2> QED BY <2>6, <2>7, <2>8
<1>4. ASSUME NEW p \in Procs, WriteMemory(p) PROVE NoRaceInv' /\ PromiseInv' /\ BlameInv'
  <2>1. /\ proc[p].at = "saving" /\ proc'[p].at = "review" /\ proc'[p].seen = memory'
        /\ \A q \in Procs : q # p => proc'[q] = proc[q]
        /\ proc'[p].entries = proc[p].entries /\ proc'[p].forgot = proc[p].forgot
        /\ promised' = Promise(proc[p].entries)
        /\ \/ /\ memory'.is = "whole" /\ memory'.entries = proc[p].entries /\ blame' = blame
           \/ memory'.is = "garbled" /\ blame' = blame \cup {"race"}
    <3>1. proc[p].entries \in SUBSET Entry
      BY DEF StoresTypes, Storable
    <3> QED BY <1>4, <3>1, WriteEffect, StoreShapes
  <2>2. "race" \notin blame' =>
          /\ blame' = blame /\ memory'.is = "whole" /\ memory'.entries = proc[p].entries
          /\ \A q \in Procs : q # p => proc'[q].at # "saving"
          /\ \A q \in Procs : proc[q].at \notin {"off", "saving"} =>
                proc[q].entries = proc[q].seen.entries
    BY <2>1 DEF NoRaceInv, Saving
  <2>3. NoRaceInv'
    BY <2>1, <2>2 DEF NoRaceInv
  <2>4. PromiseInv'
    <3> SUFFICES ASSUME blame' \subseteq {"fault"}
                 PROVE  promised' \subseteq memory'.entries
      BY <2>1, <2>2 DEF PromiseInv
    <3>1. \A d \in promised : \E e \in proc[p].entries : e.key = d.key
      BY <2>1, <2>2 DEF PromiseInv
    <3>2. promised' = proc[p].entries
      BY <2>1, <3>1 DEF Promise
    <3> QED BY <2>2, <3>2
  <2>5. BlameInv'
    BY <2>1 DEF BlameInv
  <2> QED BY <2>3, <2>4, <2>5
<1>5. CASE UNCHANGED storesVars
  BY <1>5 DEF storesVars, NoRaceInv, PromiseInv, BlameInv, Saving
<1> QED BY <1>1, <1>2, <1>3, <1>4, <1>5 DEF StoresNext, Proceeds, GivesUp
-----------------------------------------------------------------------------
LEMMA StoresInitially == StoresInit => StoresInv
<1> SUFFICES ASSUME StoresInit PROVE StoresInv
  OBVIOUS
<1>1. StoresTypes
  BY StoresTypesInit
<1>2. \A p \in Procs : proc[p] = Off
  BY DEF StoresInit
<1>3. OpenLine = <<>> /\ AtNewline = {}
  BY <1>2, StoreShapes DEF StoresInit, OpenLine, AtNewline
<1>4. RecordsInv
  BY <1>2, <1>3, StoreShapes DEF RecordsInv
<1>5. LossInv
  <2>1. Doomed = {} /\ Reserve = 0
    BY <1>3 DEF StoresInit, Doomed, Pending, Reserve
  <2> QED BY <2>1, FS_EmptySet DEF StoresInit, LossInv
<1>6. NoRaceInv /\ PromiseInv /\ BlameInv
  BY <1>2, StoreShapes DEF StoresInit, NoRaceInv, PromiseInv, BlameInv
<1>7. TornInv
  BY DEF StoresInit, TornInv
<1> QED BY <1>1, <1>4, <1>5, <1>6, <1>7 DEF StoresInv

LEMMA TornStep ==
    ASSUME StoresTypes, TornInv, [StoresNext]_storesVars
    PROVE  TornInv'
<1>t. faults \in Nat
  BY DEF StoresTypes
<1>1. ASSUME NEW p \in Procs, GivesUp(p) PROVE TornInv'
  <2>1. faults' \in {faults, faults + 1}
    BY <1>1, GiveUpEffect
  <2>2. \/ torn' = torn
        \/ torn' \in {torn, TRUE} /\ proc[p].at = "record"
    BY <1>1 DEF GivesUp, Stop, AppendFails, SaveFails, MetricsKept, CutRecord
  <2>3. proc[p].at = "record" => faults' = faults + 1
    BY <1>1, GiveUpEffect
  <2>4. CASE torn' = torn
    <3>1. faults > 0 => faults' > 0
      BY <1>t, <2>1
    <3> QED BY <2>4, <3>1 DEF TornInv
  <2>5. CASE torn' \in {torn, TRUE} /\ proc[p].at = "record"
    <3>1. torn' \in BOOLEAN
      BY <2>5 DEF TornInv
    <3>2. faults' > 0
      BY <1>t, <2>3, <2>5
    <3> QED BY <3>1, <3>2 DEF TornInv
  <2> QED BY <2>2, <2>4, <2>5
<1>2. ASSUME NEW p \in Procs, Proceeds(p) PROVE TornInv'
  <2>1. faults' = faults
    BY <1>2, ProceedEffect
  <2>2. torn' = torn
    BY <1>2 DEF Proceeds, Start, Report, AppendRecord, AppendNewline, Review, MetricsKept
  <2> QED BY <2>1, <2>2 DEF TornInv
<1>3. ASSUME NEW p \in Procs, OpenMemory(p) \/ WriteMemory(p) PROVE TornInv'
  <2>1. torn' = torn /\ faults' = faults
    BY <1>3 DEF OpenMemory, WriteMemory, MetricsKept
  <2> QED BY <2>1 DEF TornInv
<1>4. CASE UNCHANGED storesVars
  BY <1>4 DEF storesVars, TornInv
<1> QED BY <1>1, <1>2, <1>3, <1>4 DEF StoresNext, Proceeds, GivesUp

\* What the processes know of their own records and saves, in every reachable state.
THEOREM StoresCorrect == StoresSpec => []StoresInv
<1>1. StoresInv /\ [StoresNext]_storesVars => StoresInv'
  BY StoresTypesStep, RecordsStep, LossStep, TornStep, MemoryStep DEF StoresInv
<1> QED BY <1>1, StoresInitially, PTL DEF StoresSpec

\* The stores keep their types, and the memory its keys and its limit.
THEOREM StoresKeepTypes == StoresSpec => []StoresTypeOK
<1>1. StoresInv => StoresTypeOK
  <2> SUFFICES ASSUME StoresInv PROVE StoresTypeOK
    OBVIOUS
  <2> USE DEF StoresInv, StoresTypes
  <2>1. \A n \in DOMAIN metrics : \A k \in DOMAIN metrics[n] : metrics[n][k] \in 0 .. records
    <3>1. \A n \in DOMAIN metrics : metrics[n] \in Seq(0 .. records)
      OBVIOUS
    <3> QED BY <3>1
  <2>2. /\ memory.is \in {"missing", "garbled", "whole"} /\ memory.entries \in SUBSET Entry
        /\ Keyed(memory.entries) /\ Cardinality(memory.entries) <= MaxEntries
    BY DEF Files, Storable
  <2>3. \A p \in Procs :
          /\ proc[p].at \in {"off", "idle", "record", "newline", "memory", "saving", "review"}
          /\ Keyed(proc[p].entries) /\ proc[p].forgot \cap proc[p].entries = {}
    BY DEF Process, Storable
  <2>4. torn \in BOOLEAN
    BY DEF TornInv
  <2> QED BY <2>1, <2>2, <2>3, <2>4 DEF StoresTypeOK
<1> QED BY <1>1, StoresCorrect, PTL

\* A kill or a failed write spoils the line of one appended record, two
\* overlapping appends those of both; the others are all read, unless a cut went
\* through a character.
THEOREM MetricsLoss == StoresSpec => []MetricsLossIsBounded
<1>1. StoresInv => MetricsLossIsBounded
  <2> SUFFICES ASSUME StoresInv
               PROVE  /\ Cardinality(ended \ Intact) <= faults + 2 * overlaps
                      /\ torn => faults > 0
    BY DEF MetricsLossIsBounded, Lost, Readable, StoresInv, TornInv
  <2>1. /\ IsFiniteSet(Doomed) /\ Cardinality(Doomed) \in Nat /\ Reserve \in {0, 1}
        /\ faults \in Nat /\ overlaps \in Nat
    BY DoomedFinite DEF StoresInv, StoresTypes
  <2>2. ended \ Intact \subseteq Doomed
    BY DEF Doomed
  <2>3. Cardinality(ended \ Intact) <= Cardinality(Doomed) /\ Cardinality(ended \ Intact) \in Nat
    BY <2>1, <2>2, FS_Subset, FS_CardinalityType
  <2> QED BY <2>1, <2>3 DEF StoresInv, LossInv, TornInv
<1> QED BY <1>1, StoresCorrect, PTL

\* An entry that a save left is there unless it was compacted away, the file was
\* caught in a save, or a process saved over another one's.
THEOREM MemoryLoss == StoresSpec => []MemoryLossHasAReason
<1>1. StoresInv => MemoryLossHasAReason
  BY DEF StoresInv, PromiseInv, BlameInv, MemoryLossHasAReason
<1> QED BY <1>1, StoresCorrect, PTL
=============================================================================
