------------------------------- MODULE SpecText -------------------------------
(***************************************************************************)
(* A spec on its way from the model's draft through the spec file to the   *)
(* criteria that are verified: SpecDraft and render_spec of                *)
(* ratchet-core/src/discovery.rs, SpecParser and SpecExtractor of          *)
(* ratchet-spec/src (parser.rs, format.rs, extract.rs).                    *)
(*                                                                         *)
(* A text is a sequence of words.  A word is what the code's searches tell *)
(* apart: an id, a colon, the opening of an annotation, a bracket, the end *)
(* of a line, and at the beginning of one the marks of a bullet ("-", for  *)
(* "*" as well) and of a heading ("#").  Markdown of other kinds, such as  *)
(* a fence, which hides a heading, is not among the texts.                 *)
(***************************************************************************)
EXTENDS Naturals, Sequences, SequencesExt

AcId == <<"AC-1", "AC-2", "AC-3", "AC-4", "AC-5", "AC-6", "AC-7">>
AcWords == ToSet(AcId) \cup {"Account"}         \* words that begin with AC, in any case
Tags == {"[verify", "[verify-diff", "[verify-lint"}
Kinds == {"test", "diff", "lint", "manual"}
Manual == [kind |-> "manual", what |-> <<>>]

WordAt(line, words) == SelectInSeq(line, LAMBDA w : w \in words)      \* 0: none
Before(line, i) == SubSeq(line, 1, i - 1)
After(line, i) == SubSeq(line, i + 1, Len(line))

-----------------------------------------------------------------------------
(* SpecDraft. *)

\* Names a draft may have, and kebab_case of each: "symbols" has no letter or digit, "number"
\* consists of digits, and "path" has a backslash that YAML does not know as an escape.
Names == {"name", "symbols", "number", "path"}
KebabCase(n) == CASE n = "symbols" -> "" [] n = "path" -> "name" [] OTHER -> n

VerificationOf(c) ==
    IF c.verify # <<>> THEN [kind |-> "test", what |-> c.verify]
    ELSE IF c.verify_diff # <<>> THEN [kind |-> "diff", what |-> c.verify_diff]
    ELSE Manual

\* normalize, and the criterion parse_discovery adds to a spec without any.
Normalized(d) ==
    LET id == IF KebabCase(d.id) # "" THEN KebabCase(d.id)
              ELSE IF KebabCase(d.title) # "" THEN KebabCase(d.title) ELSE "spec"
        Default == [id |-> <<AcId[1]>>, description |-> <<"works">>, verify |-> <<>>, verify_diff |-> <<>>]
    IN [d EXCEPT !.id = id,
                 !.criteria = IF @ = <<>> THEN <<Default>>
                              ELSE [i \in DOMAIN @ |->
                                      IF @[i].id = <<>> THEN [@[i] EXCEPT !.id = <<AcId[i]>>] ELSE @[i]]]

-----------------------------------------------------------------------------
(* render_spec. *)

\* Mutant: the criterion is rendered without what is to be checked.
AnnotationOfTests(v) == IF v.kind = "test" THEN <<"[verify", ":">> \o v.what \o <<"]">> ELSE <<>>

Annotation(v) ==
    CASE v.kind = "test" -> <<"[verify", ":">> \o v.what \o <<"]">>
      [] v.kind = "diff" -> <<"[verify-diff", ":">> \o v.what \o <<"]">>
      [] OTHER -> <<>>

Heading(title) == <<"#", title, "newline">>
Bullet(text) == <<"-">> \o text \o <<"newline">>

CriterionText(c) == c.id \o <<":">> \o c.description \o Annotation(VerificationOf(c))

\* An intent may have headings of its own, and so may goals of several lines.
IntentText(intent) ==
    IF intent = "headed" THEN Heading("Acceptance Criteria") \o Bullet(<<"x">>) ELSE <<"x", "newline">>

Rendered(d, intent) ==
    [id |-> d.id,
     title |-> d.title,
     body |-> Heading("Intent") \o IntentText(intent) \o Heading("Goals") \o Heading("Acceptance Criteria") \o
              FlattenSeq([i \in DOMAIN d.criteria |-> Bullet(CriterionText(d.criteria[i]))])]

-----------------------------------------------------------------------------
(* SpecParser::parse and SpecExtractor::acceptance_criteria. *)

\* YAML reads an id of digits as a number, which is no String.
Parses(file) == file.id # "number" /\ file.title # "path"

LinesOf(text) ==
    LET Step(lines, w) ==
            IF w = "newline" THEN Append(lines, <<>>) ELSE [lines EXCEPT ![Len(lines)] = Append(@, w)]
    IN FoldLeft(Step, << <<>> >>, text)

Starts(line, w) == line # <<>> /\ line[1] = w

\* From the first heading of that name to the next heading of any name, whoever has written it.
CriteriaSection(file) ==
    LET lines == LinesOf(file.body)
        rest == After(lines, SelectInSeq(lines, LAMBDA l : l = <<"#", "Acceptance Criteria">>))
        next == SelectInSeq(rest, LAMBDA l : Starts(l, "#"))
    IN IF next = 0 THEN rest ELSE Before(rest, next)

\* annotation_value: what stands between the tag with its colon and the next bracket.
AnnotationValue(line, tag) ==
    LET Opens(i) == line[i] = tag /\ i < Len(line) /\ line[i + 1] = ":"
        at == IF \E i \in DOMAIN line : Opens(i)
                THEN CHOOSE i \in DOMAIN line : Opens(i) /\ \A j \in 1 .. i - 1 : ~Opens(j) ELSE 0
        rest == After(line, at + 1)
        end == WordAt(rest, {"]"})
    IN IF at = 0 \/ end = 0 THEN <<>> ELSE Before(rest, end)

\* The longer tags first.
Extracted(line) ==
    LET diff == AnnotationValue(line, "[verify-diff")
        lint == AnnotationValue(line, "[verify-lint")
        test == AnnotationValue(line, "[verify")
    IN IF diff # <<>> THEN [kind |-> "diff", what |-> diff]
       ELSE IF lint # <<>> THEN [kind |-> "lint", what |-> lint]
       ELSE IF test # <<>> THEN [kind |-> "test", what |-> test]
       ELSE Manual

\* strip_verify_annotation: from each tag, with a colon or without, to the next bracket, if there is one.
Stripped(line) ==
    LET Step(s, w) ==
            IF s.held = <<>> /\ w \notin Tags THEN [s EXCEPT !.out = Append(@, w)]
            ELSE [s EXCEPT !.held = IF w = "]" THEN <<>> ELSE Append(@, w)]
        end == FoldLeft(Step, [out |-> <<>>, held |-> <<>>], line)
    IN end.out \o end.held

\* parse_criterion: the colon may be the one of an annotation.
ParseCriterion(line, i) ==
    LET colon == WordAt(line, {":"})
        named == colon > 1 /\ line[1] \in AcWords
        text == IF named THEN After(line, colon) ELSE line
    IN [id |-> IF named THEN Before(line, colon) ELSE <<AcId[i]>>,
        description |-> Stripped(text),
        verification |-> Extracted(text)]

\* Mutant: a bullet without text counts.
AcceptanceCriteriaOfAnyBullet(file) ==
    LET bullets == SelectSeq(CriteriaSection(file), LAMBDA l : Starts(l, "-"))
    IN [i \in DOMAIN bullets |-> ParseCriterion(Tail(bullets[i]), i)]

\* Every line of the section that is a bullet with some text.
AcceptanceCriteria(file) ==
    LET bullets == SelectSeq(CriteriaSection(file), LAMBDA l : Starts(l, "-") /\ Len(l) > 1)
    IN [i \in DOMAIN bullets |-> ParseCriterion(Tail(bullets[i]), i)]
=============================================================================
