------------------------------ MODULE ModelText ------------------------------
(***************************************************************************)
(* How the harness finds JSON in what a model wrote: first_json_object of  *)
(* ratchet-core/src/discovery.rs and of delegation.rs, json_candidates and *)
(* strip_fences of ratchet-providers/src/recovery.rs.                      *)
(*                                                                         *)
(* A text is a sequence of tokens.  "fence" is three backticks with the    *)
(* language tag, "x" anything that none of the scanners looks at.          *)
(***************************************************************************)
EXTENDS Naturals, Sequences, SequencesExt

Openers == {"{", "["}
Chars == Openers \cup {"}", "]", "quote", "escape", "fence", "newline", "x"}

FirstOf(text, chars) == SelectInSeq(text, LAMBDA c : c \in chars)     \* 0: none
From(text, i) == SubSeq(text, i, Len(text))

\* Mutant: an escaped quote ends the string.
ScanStepUnescaped(open, close, s, c) ==
    IF s.closed THEN s
    ELSE IF s.string THEN [s EXCEPT !.at = @ + 1, !.string = c # "quote"]
    ELSE LET depth == IF c = open THEN s.depth + 1 ELSE IF c = close THEN s.depth - 1 ELSE s.depth
         IN [s EXCEPT !.at = @ + 1, !.string = c = "quote", !.depth = depth,
                      !.closed = c = close /\ depth = 0]

\* One byte of the loop all three scanners share: depth is counted outside strings.
ScanStep(open, close, s, c) ==
    IF s.closed THEN s
    ELSE IF s.string
      THEN [s EXCEPT !.at = @ + 1,
                     !.string = s.escaped \/ c # "quote",
                     !.escaped = ~@ /\ c = "escape"]
    ELSE LET depth == IF c = open THEN s.depth + 1 ELSE IF c = close THEN s.depth - 1 ELSE s.depth
         IN [s EXCEPT !.at = @ + 1, !.string = c = "quote", !.depth = depth,
                      !.closed = c = close /\ depth = 0]

\* The group a text begins with, opened and closed by these two; empty if it is never closed.
Group(open, close, text) ==
    LET start == [at |-> 0, depth |-> 0, string |-> FALSE, escaped |-> FALSE, closed |-> FALSE]
        s == FoldLeft(LAMBDA t, c : ScanStep(open, close, t, c), start, text)
    IN IF s.closed THEN SubSeq(text, 1, s.at) ELSE <<>>

FirstObject(text) ==
    LET start == FirstOf(text, {"{"})
    IN IF start = 0 THEN <<>> ELSE Group("{", "}", From(text, start))

\* parse_review_verdict looks at the whole text.
ReviewObject(text) == FirstObject(text)

\* parse_discovery looks into the first fence, wherever it is.
Fenced(text) ==
    LET start == FirstOf(text, {"fence"})
        after == From(text, start + 1)
        end == FirstOf(after, {"fence"})
    IN IF start = 0 THEN text ELSE IF end = 0 THEN after ELSE SubSeq(after, 1, end - 1)

DiscoveryObject(text) == FirstObject(Fenced(text))

\* strip_fences drops the lines that begin with a fence, whatever else they hold.
Unfenced(text) ==
    LET Step(s, c) ==
            IF c = "newline" THEN [out |-> Append(s.out, c), begin |-> TRUE, drop |-> FALSE]
            ELSE IF s.drop \/ (s.begin /\ c = "fence") THEN [s EXCEPT !.begin = FALSE, !.drop = TRUE]
            ELSE [out |-> Append(s.out, c), begin |-> FALSE, drop |-> FALSE]
    IN FoldLeft(Step, [out |-> <<>>, begin |-> TRUE, drop |-> FALSE], text).out

\* The groups of the text in their order; one that is not closed ends the search.
Groups(text) ==
    LET rest[i \in 1 .. Len(text) + 1] ==
            IF i > Len(text) THEN <<>>
            ELSE IF text[i] \notin Openers THEN rest[i + 1]
            ELSE LET g == Group(text[i], IF text[i] = "{" THEN "}" ELSE "]", From(text, i))
                 IN IF g = <<>> THEN <<>> ELSE <<g>> \o rest[i + Len(g)]
    IN rest[1]

\* json_candidates, but for the groups that are no JSON, which it leaves out.
CandidateGroups(text) == Groups(Unfenced(text))
=============================================================================
