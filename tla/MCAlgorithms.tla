----------------------------- MODULE MCAlgorithms -----------------------------
(***************************************************************************)
(* Algorithms on bounded inputs.  Those of the calls of Decisions are      *)
(* below; the others are definitions of Algorithms, and what a call is     *)
(* asked does not depend on the run.                                       *)
(***************************************************************************)
EXTENDS Algorithms, Corpus

-----------------------------------------------------------------------------
(* Answers of a backend, samples and generations.                          *)

Source == <<"The", "operator", "shall", "provide", "parking", ".">>

MCSources == {Source, <<>>}

MCFragments == {Source}

MCBackendItems ==
    [text : {SubSeq(Source, 1, 5), <<"No", "parking">>, NotAString, <<>>, None},
     subjects : {{"parking"}, {"gadgets"}, {}, None},
     modality : {"obligation", "duty", None}, bearer : {"regulator", "anyone", None}]

\* An item alone, and after one that is good.
MCPayloads ==
    LET good == [text |-> SubSeq(Source, 1, 5), subjects |-> {"parking"},
                 modality |-> "obligation", bearer |-> None]
    IN [obligations : {<<>>} \cup {<<i>> : i \in MCBackendItems}
                        \cup {<<good, i>> : i \in MCBackendItems},
        declined : {<<>>, <<Source>>}]

\* What an unstable extractor may return: the last two differ in which norm
\* has which subject and not in their words.
MCSampled ==
    LET Of(norms) == [obligations |-> norms]
        Says(modality, subject) == Norm("regulated_party", modality, {subject}, <<>>)
    IN {Of(<<>>), Of(<<Says("obligation", "noise")>>), Of(<<Says("prohibition", "noise")>>),
        Of(<<Says("obligation", "noise"), Says("permission", "parking")>>),
        Of(<<Says("permission", "noise"), Says("obligation", "parking")>>)}

\* Three samples, and the default number of them.
MCRepetitions == [1..3 -> MCSampled] \cup [1..5 -> MCSampled]

\* Short texts, and one that is as long as it takes for its negation to be
\* nine tenths of it and more.
MCMeanings ==
    LET long == 1..9
    IN {{"void"}, {"not", "void"}, {"void", "now"}, {}, {ToString(n) : n \in long},
        {"not"} \cup {ToString(n) : n \in long}}

MCGenerations == UNION {[1..n -> MCMeanings] : n \in 3..4}

-----------------------------------------------------------------------------
(* Provisions and rules for express preemption and for floors.             *)

MCTowns ==
    {<<"US", "Florida", "Miami">>, <<"US", "Arizona", "Tucson">>, <<"US", "Florida">>,
     <<"US", "Florida", "Florida">>, <<>>}

\* The worked corpus, and the same things and dates in any combination.
MCProvisions ==
    Ordinances \cup
    [tier : {Tier.state, Tier.municipal}, path : MCTowns,
     subjects : SUBSET {"frequency", "parking", "property_valuation"},
     threshold : {None}, adopted : {None, 20110601, 20110602}]

MCWages == {[value |-> v, unit |-> u] : v \in 1..3, u \in {"per hour", "per week"}}

MCWageProvisions ==
    [tier : {Tier.state, Tier.municipal}, path : MCTowns, subjects : {{"wage"}, {"parking"}},
     threshold : MCWages \cup {None}, adopted : {None}]

MCFloors ==
    {[polity |-> "Florida", tier |-> Tier.state, subject |-> "wage", threshold |-> t,
      stringency |-> g] : t \in MCWages, g \in {"higher_is_stricter", "lower_is_stricter"}}

MCRules ==
    LET fl == FloridaVacationRentalPreemption IN
    {fl, [fl EXCEPT !.cutoff = None], [fl EXCEPT !.reserved = {"parking"}],
     [fl EXCEPT !.exemptions[1].requiresAll = FALSE],
     [fl EXCEPT !.polity = "US", !.tier = Tier.federal]}

MCRuleSets == UNION {[1..k -> MCRules] : k \in 0..2}

-----------------------------------------------------------------------------
(* Preference models of three worlds and questions about two atoms.        *)

MCValuations ==
    {[w1 |-> a, w2 |-> b, w3 |-> c] : a \in {{}, {"p"}}, b \in {{"q"}, {"p", "q"}},
                                      c \in SUBSET {"p", "q"}}

MCDrafts ==
    {[worlds |-> Worlds, valuation |-> v,
      betterness |-> {<<"w1", "w1">>, <<"w2", "w2">>, <<"w3", "w3">>} \cup r] :
        v \in MCValuations, r \in SUBSET {<<"w1", "w2">>, <<"w2", "w1">>, <<"w2", "w3">>,
                                        <<"w3", "w2">>, <<"w1", "w3">>, <<"w3", "w1">>}}

MCQuestions ==
    LET p == Atom("p") q == Atom("q") IN
    {<<p, Top>>, <<q, Not(p)>>, <<And(p, q), Or(p, q)>>, <<p, Bottom>>,
     <<Implies(p, q), Top>>, <<Not(q), q>>}

MCRankings == UNION {[1..k -> SUBSET Worlds] : k \in 0..2}

-----------------------------------------------------------------------------
(* Graphs of three nodes, and clauses.                                     *)

MCNodes == {"a", "b", "c"}

MCEdges ==
    {[source |-> s, target |-> t, weight |-> IF s = "a" THEN -2 ELSE 1] : s, t \in MCNodes}

\* Short requests with their repetitions, longer ones without.
MCGraphs ==
    UNION {[1..k -> MCEdges] : k \in 0..3}
      \cup {SetToSeq(edges) : edges \in kSubset(4, MCEdges) \cup kSubset(5, MCEdges)}

\* Sentences over two places and two variables, some of them ill-formed: a
\* place may be missing, repeated, or called like a variable; and predicates
\* called like a place, a variable or a word of the language.
MCSymbols == {"a", "b", "x", "y", "open", "near"}

MCClauses ==
    LET x == Z!Variable("x")
        y == Z!Variable("y")
        Open(t) == Z!Atom("open", <<t>>)
        facts == {Open(x), Open(y), Open(Z!Constant("a")), Open(Z!Constant("b")),
                  Z!Atom("near", <<x, y>>)}
        named == {Z!Atom(n, <<>>) : n \in {"open", "a", "x", "not"}} \cup {Z!Atom("x", <<y>>)}
    IN [exists : {<<>>, <<"x">>, <<"y">>, <<"x", "x">>},
        forall : {<<>>, <<"x">>, <<"y">>, <<"x", "y">>},
        domain : {<<>>, <<"a">>, <<"a", "b">>, <<"a", "a">>, <<"a", "x">>},
        matrix : {<<Z!And(<<>>)>>} \cup {<<f>> : f \in named}
                   \cup UNION {{<<f, g, Z!Not(2), Z!And(<<1, 3>>)>>, <<f, g, Z!Or(<<1, 2>>)>>,
                                <<f, g, Z!Implies(1, 2)>>} : f, g \in facts}]
=============================================================================
