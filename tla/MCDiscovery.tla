----------------------------- MODULE MCDiscovery -----------------------------
EXTENDS Discovery

String(body) == <<"quote">> \o body \o <<"quote">>
Strings ==
    {String(body) : body \in {<<>>, <<"{">>, <<"}", "]">>, <<"escape", "quote", "}">>,
                              <<"escape", "escape">>, <<"fence">>}}
Members == Strings \cup {<<>>, <<"newline">>, <<"{", "x", "}">>, <<"[">> \o String(<<"]">>) \o <<"]">>}
MCObjects == {<<"{">> \o m \o n \o <<"}">> : m, n \in Members}

MCRemarks ==
    {<<>>, <<"x">>, <<"{", "}">>, <<"quote", "]", "newline">>, <<"{", "x", "}">>, <<"[">>,
     <<"fence", "newline", "x", "newline", "fence", "newline">>}

Descriptions ==
    {<<"x">>, <<"x", ":", "x">>, <<"[verify", "]", "x">>, <<"x", "newline", "x">>,
     <<"x", "newline", "-", "x", "newline", "-">>, <<"x", "newline", "newline", "#", "x">>}
Checks == {[v |-> <<>>, d |-> <<>>], [v |-> <<"run">>, d |-> <<"src">>], [v |-> <<>>, d |-> <<"src">>],
           [v |-> <<"[", "]">>, d |-> <<>>]}
Criteria ==
    {[id |-> id, description |-> text, verify |-> c.v, verify_diff |-> c.d] :
        id \in {<<>>, <<"AC-2">>, <<"R1">>}, text \in Descriptions, c \in Checks}
MCDrafts ==
    {[id |-> n, title |-> t, criteria |-> <<>>] : n, t \in Names}
        \cup {[id |-> "name", title |-> "name", criteria |-> <<c>>] : c \in Criteria}
        \cup {[id |-> "name", title |-> "name", criteria |-> <<c, d>>] :
                c \in {e \in Criteria : e.id # <<"R1">>},
                d \in {e \in Criteria : e.description \in {<<"x">>, <<"x", "newline", "x">>} /\ e.verify # <<"[", "]">>}}

MCHandWritten ==
    {<<"x">>, <<"x", "[verify", ":", "run", "]">>, <<"AC-3", ":", "x", "[verify", ":", "run", "]">>,
     <<"Account", "x", "[verify", ":", "run", "]">>, <<"Account", ":", "x", "[verify", ":", "run", "]">>}
=============================================================================
