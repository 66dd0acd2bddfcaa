------------------------------ MODULE Discovery ------------------------------
(***************************************************************************)
(* What a model writes, on its way into the harness: AgentHarness::        *)
(* draft_spec with parse_discovery (ratchet-core/src/discovery.rs), the    *)
(* spec file the chat session saves and SpecParser reads back, and beside  *)
(* it the two other readers of model text, parse_review_verdict and        *)
(* recover_tool_calls.  ChatSession is the session around it, which takes  *)
(* the texts as they come.                                                 *)
(***************************************************************************)
EXTENDS ModelText, SpecText, FiniteSets

CONSTANTS
    Remarks,      \* what a model may write around its answer
    Objects,      \* JSON objects it may answer with
    Drafts,       \* specs it may propose
    HandWritten,  \* lines a user may add to the criteria of a spec file
    MaxRound      \* bound: rounds of questions

ASSUME RemarksAreTexts == Remarks \subseteq Seq(Chars)
ASSUME ObjectsAreObjects == \A o \in Objects : o \in Seq(Chars) /\ o[1] = "{" /\ Last(o) = "}"
ASSUME MaxRoundIsNat == MaxRound \in Nat

VARIABLES
    step,      \* program point
    round,     \* rounds of questions, the one that goes on included
    tries,     \* model calls of this round
    reply,     \* the model's text, and how it was put together
    draft,     \* the proposed spec
    intent,    \* the user's request; "open" until it matters
    byHand,    \* the line the user has added, if any
    file,      \* the spec file
    criteria   \* what SpecExtractor makes of it

vars == <<step, round, tries, reply, draft, intent, byHand, file, criteria>>

Intents == {"plain", "headed"}
Wraps == {"bare", "fenced", "inline"}
NoReply == [text |-> <<>>, object |-> <<>>, before |-> <<>>, wrap |-> "bare", after |-> <<>>]
NoDraft == [id |-> "", title |-> "", criteria |-> <<>>]
NoFile == [id |-> "", title |-> "", body |-> <<>>]
MaxTries == 2

TypeOK ==
    /\ step \in {"call", "read", "parsed", "asking", "proposed", "saved", "loaded", "failed", "gone"}
    /\ round \in 1 .. MaxRound
    /\ tries \in 0 .. MaxTries
    /\ \A i \in DOMAIN reply.text : reply.text[i] \in Chars
    /\ draft = NoDraft \/ (draft.id # "" /\ draft.criteria # <<>>)
    /\ intent \in Intents \cup {"open"}
    /\ \A i \in DOMAIN criteria : criteria[i].verification.kind \in Kinds

Init ==
    /\ step = "call" /\ round = 1 /\ tries = 0
    /\ reply = NoReply /\ draft = NoDraft
    /\ intent = "open"
    /\ byHand = <<>> /\ file = NoFile /\ criteria = <<>>

-----------------------------------------------------------------------------
(* draft_spec. *)

Wrapped(object, wrap) ==
    CASE wrap = "bare" -> object
      [] wrap = "fenced" -> <<"newline", "fence", "newline">> \o object \o <<"newline", "fence", "newline">>
      [] wrap = "inline" -> <<"fence">> \o object \o <<"fence">>

\* The model answers with an object among its remarks.
ModelWrites ==
    /\ step = "call"
    /\ \E before, after \in Remarks, o \in Objects, wrap \in Wraps :
         reply' = [text |-> before \o Wrapped(o, wrap) \o after,
                   object |-> o, before |-> before, wrap |-> wrap, after |-> after]
    /\ tries' = tries + 1
    /\ step' = "read"
    /\ UNCHANGED <<round, draft, intent, byHand, file, criteria>>

\* converse fails.
ModelFails ==
    /\ step = "call"
    /\ step' = "failed"
    /\ UNCHANGED <<round, tries, reply, draft, intent, byHand, file, criteria>>

\* The reply is not kept.
Forget == reply' = NoReply

\* Another call with a reminder, in the first rounds; otherwise the session is told.
Retry == step' = IF round <= 3 /\ tries < MaxTries THEN "call" ELSE "failed"

\* parse_discovery looks for an object.
Read ==
    /\ step = "read"
    /\ IF DiscoveryObject(reply.text) # <<>> THEN step' = "parsed" ELSE Retry
    /\ Forget
    /\ UNCHANGED <<round, tries, draft, intent, byHand, file, criteria>>

\* The object holds questions,
Questions ==
    /\ step = "parsed"
    /\ step' = "asking"
    /\ UNCHANGED <<round, tries, reply, draft, intent, byHand, file, criteria>>

\* or a spec,
Proposal ==
    /\ step = "parsed"
    /\ \E d \in Drafts : draft' = Normalized(d)
    /\ step' = "proposed"
    /\ UNCHANGED <<round, tries, reply, intent, byHand, file, criteria>>

\* or neither, or is not one at all.
Unparseable ==
    /\ step = "parsed"
    /\ Retry
    /\ UNCHANGED <<round, tries, reply, draft, intent, byHand, file, criteria>>

\* The session asks the questions, and the model again.
NextRound ==
    /\ step = "asking" /\ round < MaxRound
    /\ round' = round + 1 /\ tries' = 0
    /\ step' = "call"
    /\ UNCHANGED <<reply, draft, intent, byHand, file, criteria>>

-----------------------------------------------------------------------------
(* run_spec_approved: the file is written before it is known to parse. *)
Approve ==
    /\ step = "proposed"
    /\ intent' \in Intents
    /\ file' = Rendered(draft, intent')
    /\ step' = IF Parses(file') THEN "saved" ELSE "gone"
    /\ UNCHANGED <<round, tries, reply, draft, byHand, criteria>>

\* ratchet spec edit: a bullet more at the end of the file, which should be the end of the criteria.
EditSpec ==
    /\ step = "saved" /\ byHand = <<>>
    /\ \E line \in HandWritten :
         /\ byHand' = line
         /\ file' = [file EXCEPT !.body = @ \o Bullet(line)]
    /\ UNCHANGED <<step, round, tries, reply, draft, intent, criteria>>

\* Whoever plans or verifies parses the file.
Load ==
    /\ step = "saved"
    /\ criteria' = AcceptanceCriteria(file)
    /\ step' = "loaded"
    /\ UNCHANGED <<round, tries, reply, draft, intent, byHand, file>>

Next ==
    \/ ModelWrites
    \/ ModelFails
    \/ Read
    \/ Questions
    \/ Proposal
    \/ Unparseable
    \/ NextRound
    \/ Approve
    \/ EditSpec
    \/ Load

Spec == Init /\ [][Next]_vars

-----------------------------------------------------------------------------
Free(text, chars) == FirstOf(text, chars) = 0

\* Every reader finds the whole answer, and nothing but it, unless the remarks are in its way: an
\* opening brace before it for the review, another fence for the discovery, an opening bracket that is
\* not part of JSON for the tool calls, which are also lost on the line of a fence.
\* Aims at the three scanners, whose strings, escapes and nesting are easy to get wrong, and at the
\* different ways they treat fences.
AnswerIsFound ==
    step = "read" =>
        LET text == reply.text  object == reply.object
            before == reply.before  wrap == reply.wrap IN
        /\ Free(before, {"{"}) => ReviewObject(text) = object
        /\ \/ wrap = "bare" /\ Free(text, {"fence"}) /\ Free(before, {"{"})
           \/ wrap # "bare" /\ Free(before \o object, {"fence"})
           => DiscoveryObject(text) = object
        /\ /\ wrap # "inline" \/ (before # <<>> /\ ~(Last(before) = "newline"))
           /\ Free(before, Openers) \/ before \in Objects
           => Contains(CandidateGroups(text), object)

\* A criterion whose words are plain says after planning what the user approved: the same id and
\* description, and the same check; its own words replace nothing.
\* An id that does not begin with AC becomes a number, and stays in front of the description.
Plain(c) ==
    /\ \A w \in ToSet(c.id \o c.description) : w \notin Tags \cup {":", "newline"}
    /\ \A w \in ToSet(c.verify \o c.verify_diff) : w \notin {"]", "newline"}

\* A description of several lines may add bullets, and may end the section.
Extra(c) ==
    LET text == CriterionText(c)
    IN Cardinality({j \in 1 .. Len(text) - 2 :
                      text[j] = "newline" /\ text[j + 1] = "-" /\ text[j + 2] # "newline"})
EndsSection(c) ==
    \E j \in 1 .. Len(c.description) - 1 : c.description[j] = "newline" /\ c.description[j + 1] = "#"

Approved(c, i) ==
    IF c.id[1] \in AcWords
      THEN [id |-> c.id, description |-> c.description, verification |-> VerificationOf(c)]
      ELSE [id |-> <<AcId[i]>>, description |-> c.id \o <<":">> \o c.description,
            verification |-> VerificationOf(c)]

\* A hand-written line keeps its annotation, unless what stands before the annotation's own colon
\* passes for an id.
Annotated(line) ==
    \E i \in DOMAIN line : line[i] = "[verify" /\ i < Len(line) /\ line[i + 1] = ":"
Mistaken(line) ==
    line[1] \in AcWords /\ line[WordAt(line, {":"}) - 1] \in Tags

\* If the intent has no headings: a plain criterion is verified as it was approved, in its place behind
\* what the descriptions before it have added, unless one of those holds a heading; and without a
\* heading there are as many criteria as were approved, added and written by hand.
\* Aims at render_spec and parse_criterion, which meet only in the text of the file.
CriteriaSurvive ==
    step = "loaded" /\ intent = "plain" =>
        LET n == Len(draft.criteria)
            Place(i) == i + SumFunction([j \in 1 .. i - 1 |-> Extra(draft.criteria[j])])
            Reached(i) == \A j \in 1 .. i - 1 : ~EndsSection(draft.criteria[j])
        IN
        /\ \A i \in 1 .. n :
             Plain(draft.criteria[i]) /\ Reached(i) =>
                criteria[Place(i)] = Approved(draft.criteria[i], Place(i))
        /\ Reached(n + 1) => Len(criteria) + 1 = Place(n + 1) + (IF byHand = <<>> THEN 0 ELSE 1)
        /\ Reached(n + 1) /\ byHand # <<>> /\ Annotated(byHand) =>
             (Last(criteria).verification = Manual <=> Mistaken(byHand))
=============================================================================
