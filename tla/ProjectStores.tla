---------------------------- MODULE ProjectStores ----------------------------
(***************************************************************************)
(* What a run leaves under .ratchet: metrics.jsonl (MetricsStore of        *)
(* ratchet-observability/src/store.rs) and memory.json (ProjectMemory of   *)
(* ratchet-memory/src/store.rs), written by the end of run_with and read   *)
(* by AgentHarness::new (ratchet-core/src/agent.rs).  Several processes -- *)
(* a chat, a server, a run from the command line -- share the directory    *)
(* without a lock, and each may be killed at any point.  The definitions   *)
(* every specification has are prefixed, as RunEndProofs extends this      *)
(* module next to Verification.                                            *)
(***************************************************************************)
EXTENDS Naturals, Sequences, FiniteSets

CONSTANTS
    Procs,          \* processes on one project
    Keys,           \* ids of memory entries: "<spec>-<task>"
    MaxEntries,     \* entries that compact leaves alone (1000 in the code)
    KeptEntries,    \* entries left when there are more (500 in the code)
    MaxRecords,     \* bound: metrics records
    MaxFaults       \* bound: kills in the middle of a run, and writes that fail

ASSUME StoresAssumption ==
    /\ MaxEntries \in Nat /\ KeptEntries \in Nat /\ KeptEntries <= MaxEntries
    /\ MaxRecords \in Nat /\ MaxFaults \in Nat

VARIABLES
    metrics,    \* the lines of metrics.jsonl; the last one is still open
    torn,       \* metrics.jsonl holds part of a character: it is not UTF-8
    memory,     \* memory.json
    proc,       \* the processes
    records,    \* metrics records made so far; they are numbered
    faults,
    ended,      \* history: records whose append got to its end
    overlaps,   \* history: appends begun while another one had no newline yet
    promised,   \* history: the entries that completed saves have left, by key
    blame       \* history: what has happened to memory.json

storesVars == <<metrics, torn, memory, proc, records, faults, ended, overlaps, promised, blame>>

Piece == 0      \* what a cut write leaves of a record, up to its last whole character

Importance == {5, 8}        \* of a passed and of a failed run's entries
Entry == [key : Keys, importance : Importance]
Missing  == [is |-> "missing", entries |-> {}]
Garbled  == [is |-> "garbled", entries |-> {}]
Whole(E) == [is |-> "whole", entries |-> E]

Off == [at |-> "off", entries |-> {}, forgot |-> {}, rec |-> 0, seen |-> Missing, alone |-> TRUE]

\* One entry per key, as in the HashMap they come from.
Keyed(E) == \A d, e \in E : d.key = e.key => d = e

\* at: "idle" is between runs; the others are the steps of a run's end.
\* seen: the file this process loaded or saved last.  alone: nobody else has
\* opened the file since this process truncated it.
StoresTypeOK ==
    /\ Len(metrics) >= 1
    /\ \A n \in DOMAIN metrics : \A k \in DOMAIN metrics[n] : metrics[n][k] \in 0 .. records
    /\ torn \in BOOLEAN
    /\ memory.is \in {"missing", "garbled", "whole"}
    /\ memory.entries \in SUBSET Entry /\ Keyed(memory.entries)
    /\ Cardinality(memory.entries) <= MaxEntries
    /\ \A p \in Procs :
         /\ proc[p].at \in {"off", "idle", "record", "newline", "memory", "saving", "review"}
         /\ Keyed(proc[p].entries) /\ proc[p].forgot \cap proc[p].entries = {}
    /\ ended \subseteq 1 .. records
    /\ blame \subseteq {"fault", "race", "compaction"}

StoresInit ==
    /\ metrics = << <<>> >> /\ torn = FALSE
    /\ memory = Missing
    /\ proc = [p \in Procs |-> Off]
    /\ records = 0 /\ faults = 0 /\ ended = {} /\ overlaps = 0
    /\ promised = {} /\ blame = {}

\* Names of tasks and models are free text, and serde_json writes them as they
\* are: the cut may go through a character.
CutRecord ==
    /\ metrics' = [metrics EXCEPT ![Len(metrics)] = Append(@, Piece)]
    /\ torn' \in {torn, TRUE}

Goto(p, at) == proc' = [proc EXCEPT ![p].at = at]
MetricsKept == UNCHANGED <<metrics, torn, ended, overlaps>>
MemoryKept  == UNCHANGED <<memory, promised, blame>>
-----------------------------------------------------------------------------
\* AgentHarness::new: a memory.json that does not parse keeps the process from
\* starting.
Start(p) ==
    /\ proc[p].at = "off" /\ memory.is # "garbled"
    /\ proc' = [proc EXCEPT ![p] = [Off EXCEPT !.at = "idle", !.entries = memory.entries,
                                              !.seen = memory]]
    /\ MetricsKept /\ MemoryKept /\ UNCHANGED <<records, faults>>

Fault == faults < MaxFaults /\ faults' = faults + 1

\* The process ends, or is killed: a write in progress is cut short.
Stop(p) ==
    /\ proc[p].at # "off"
    /\ IF proc[p].at = "idle" THEN UNCHANGED faults ELSE Fault
    /\ proc' = [proc EXCEPT ![p] = Off]
    /\ UNCHANGED <<metrics, torn>> \/ (proc[p].at = "record" /\ CutRecord)
    /\ blame' = IF proc[p].at = "saving" THEN blame \cup {"fault"} ELSE blame
    /\ UNCHANGED <<memory, records, ended, overlaps, promised>>

\* A run is verified and its report written.  One metric per task; here a task.
\* Without the report the run ends in an error and leaves no metric.
Report(p) ==
    /\ proc[p].at = "idle" /\ records < MaxRecords
    /\ \/ /\ records' = records + 1
          /\ proc' = [proc EXCEPT ![p].at = "record", ![p].rec = records']
       \/ UNCHANGED <<records, proc>>
    /\ MetricsKept /\ MemoryKept /\ UNCHANGED faults
-----------------------------------------------------------------------------
(***************************************************************************)
(* MetricsStore::append: the record and its newline are two writes to a    *)
(* file opened for appending.  persist_metrics drops its error.            *)
(***************************************************************************)
Others(p) == Procs \ {p}

AppendRecord(p) ==
    /\ proc[p].at = "record"
    /\ metrics' = [metrics EXCEPT ![Len(metrics)] = Append(@, proc[p].rec)]
    /\ overlaps' = IF \E q \in Others(p) : proc[q].at = "newline" THEN overlaps + 1 ELSE overlaps
    /\ Goto(p, "newline")
    /\ MemoryKept /\ UNCHANGED <<torn, records, faults, ended>>

AppendNewline(p) ==
    /\ proc[p].at = "newline"
    /\ metrics' = Append(metrics, <<>>)
    /\ ended' = ended \cup {proc[p].rec}
    /\ Goto(p, "memory")
    /\ MemoryKept /\ UNCHANGED <<torn, records, faults, overlaps>>

AppendFails(p) ==
    /\ proc[p].at \in {"record", "newline"} /\ Fault
    /\ Goto(p, "memory")
    /\ UNCHANGED <<metrics, torn>> \/ (proc[p].at = "record" /\ CutRecord)
    /\ MemoryKept /\ UNCHANGED <<records, ended, overlaps>>

\* The records that have a line to themselves.
Intact == {r \in 1 .. records : \E n \in DOMAIN metrics : metrics[n] = <<r>>}

\* Mutant: reading stops at the first malformed line.
ReadableUpToDamage ==
    IF torn THEN {}
    ELSE {r \in Intact : \E n \in DOMAIN metrics :
             metrics[n] = <<r>> /\ \A m \in 1 .. n : Len(metrics[m]) <= 1}

\* load_all: the file is read as one string, which fails for all of it if any of
\* it is not UTF-8; then a line that is not one record is skipped.
Readable == IF torn THEN {} ELSE Intact
-----------------------------------------------------------------------------
(***************************************************************************)
(* record_memory: the run's entry replaces the one of its key, compact     *)
(* drops the least important ones, and save truncates and rewrites.        *)
(***************************************************************************)
Added(E, e) == {d \in E : d.key # e.key} \cup {e}

\* Mutant: the limit is off by one.
CompactedLate(E) ==
    IF Cardinality(E) <= MaxEntries + 1 THEN {E}
    ELSE {K \in SUBSET E : /\ Cardinality(K) = KeptEntries
                           /\ \A e \in K, d \in E \ K : d.importance <= e.importance}

\* compact: which of equally important entries go is up to the hash map.
Compacted(E) ==
    IF Cardinality(E) <= MaxEntries THEN {E}
    ELSE {K \in SUBSET E : /\ Cardinality(K) = KeptEntries
                           /\ \A e \in K, d \in E \ K : d.importance <= e.importance}

\* The file is truncated.  A task without output adds no entry.
OpenMemory(p) ==
    /\ proc[p].at = "memory"
    /\ \E grown \in {proc[p].entries} \cup {Added(proc[p].entries, e) : e \in Entry} :
         \E kept \in Compacted(grown) :
            /\ proc' = [q \in Procs |->
                  IF q = p THEN [proc[p] EXCEPT !.at = "saving", !.entries = kept,
                                                !.forgot = grown \ kept, !.alone = TRUE]
                  ELSE [proc[q] EXCEPT !.alone = @ /\ proc[q].at # "saving"]]
            /\ blame' = blame
                 \cup (IF kept # grown THEN {"compaction"} ELSE {})
                 \cup (IF memory # proc[p].seen THEN {"race"} ELSE {})
    /\ memory' = Garbled
    /\ MetricsKept /\ UNCHANGED <<records, faults, promised>>

\* Everything saves have left, each key in its last version.
Promise(E) == {d \in promised : \A e \in E : d.key # e.key} \cup E

\* Mutant: what was loaded is not written back.
WriteNewOnly(p) ==
    /\ proc[p].at = "saving"
    /\ memory' = Whole(proc[p].entries \ proc[p].seen.entries)
    /\ promised' = Promise(proc[p].entries)
    /\ proc' = [proc EXCEPT ![p].at = "review", ![p].seen = memory']
    /\ blame' = blame
    /\ MetricsKept /\ UNCHANGED <<records, faults>>

\* The text is written from the start of the file.  If somebody else has opened
\* the file in between, the end of his longer text may show behind it.
WriteMemory(p) ==
    /\ proc[p].at = "saving"
    /\ \/ memory' = Whole(proc[p].entries) /\ blame' = blame
       \/ ~ proc[p].alone /\ memory' = Garbled /\ blame' = blame \cup {"race"}
    /\ promised' = Promise(proc[p].entries)
    /\ proc' = [proc EXCEPT ![p].at = "review", ![p].seen = memory']
    /\ MetricsKept /\ UNCHANGED <<records, faults>>

\* The write fails; run_with returns the error.
SaveFails(p) ==
    /\ proc[p].at = "saving" /\ Fault
    /\ Goto(p, "idle")
    /\ blame' = blame \cup {"fault"}
    /\ MetricsKept /\ UNCHANGED <<memory, records, promised>>

\* The review is written, or cannot be: the run is over either way.
Review(p) ==
    /\ proc[p].at = "review"
    /\ Goto(p, "idle")
    /\ MetricsKept /\ MemoryKept /\ UNCHANGED <<records, faults>>

StoresNext == \E p \in Procs :
    \/ Start(p) \/ Stop(p) \/ Report(p)
    \/ AppendRecord(p) \/ AppendNewline(p) \/ AppendFails(p)
    \/ OpenMemory(p) \/ WriteMemory(p) \/ SaveFails(p) \/ Review(p)

StoresSpec == StoresInit /\ [][StoresNext]_storesVars
-----------------------------------------------------------------------------
(***************************************************************************)
(* Properties.                                                             *)
(***************************************************************************)
Lost == ended \ Readable

\* What damage costs.  Of the records that were appended, a kill or a failed
\* write spoils the line of one -- the next, which joins it -- and two appends
\* that overlap spoil both, never more; and load_all finds all the others, as
\* its comment says ("a truncated tail can't render reports unusable"), as long
\* as every cut fell between two characters.  One cut through a character is
\* enough to leave nothing readable, for ever: there the comment is wrong.  It
\* takes a fault.
MetricsLossIsBounded ==
    /\ Cardinality(ended \ Intact) <= faults + 2 * overlaps
    /\ Cardinality(Lost) <= faults + 2 * overlaps \/ (torn /\ faults > 0)

Saving == \E p \in Procs : proc[p].at = "saving"

\* Project memory is durable: an entry that a save has left is there, in its
\* last version, unless it was compacted away, the file was caught in a save,
\* or a process saved over what another one had saved since it last looked; a
\* file that cannot be read owes that to the last two.  Compaction forgets no
\* entry for the sake of a less important one.
MemoryLossHasAReason ==
    /\ memory.is # "garbled" /\ blame \subseteq {"fault"} => promised \subseteq memory.entries
    /\ memory.is = "garbled" => Saving \/ blame \cap {"fault", "race"} # {}
    /\ \A p \in Procs : \A d \in proc[p].forgot, e \in proc[p].entries :
          d.importance <= e.importance
=============================================================================
