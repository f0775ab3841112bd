------------------------------ MODULE Algorithms ------------------------------
(***************************************************************************)
(* The pure algorithms of the engine behind one front: the calls of        *)
(* Decisions, and reading an ordinance.  Those are asked what the          *)
(* constants say; the ordinances come from the bounded sets below.         *)
(***************************************************************************)
EXTENDS Decisions, SequencesExt

vars == <<call, answer>>

Init == DecisionsInit

-----------------------------------------------------------------------------
(* Ordinances to read.  A provision says who is bound, how and to what; a  *)
(* drafter writes it out, possibly as the lead-in of a list.               *)

Openers ==
    [person |-> <<"No", "person">>, operator |-> <<"The", "operator">>,
     city |-> <<"A", "city">>, agency |-> <<"The", "department">>]

\* What a modal phrase makes of its provision, by the meaning of English.
Modals ==
    {[words |-> <<"shall", "provide">>, force |-> "obligation"],
     [words |-> <<"must", "provide">>, force |-> "obligation"],
     [words |-> <<"is", "subject", "to">>, force |-> "obligation"],
     [words |-> <<"may", "not", "exceed">>, force |-> "prohibition"],
     [words |-> <<"must", "not", "exceed">>, force |-> "prohibition"],
     [words |-> <<"may", "exceed">>, force |-> "permission"],
     [words |-> <<"need", "not", "provide">>, force |-> "permission"],
     [words |-> <<"is", "not", "required", "to", "provide">>, force |-> "permission"],
     [words |-> <<"shall", "not", "be", "required", "to", "provide">>, force |-> "permission"],
     [words |-> <<"is", "exempt", "from">>, force |-> "permission"]}

\* Things a provision is about, with their subjects; "a" "gadget" has none.
Topics ==
    {[words |-> <<"90", "nights", "per", "year">>, subjects |-> {"frequency"}],
     [words |-> <<"a", "permit">>, subjects |-> {"permit_registration"}],
     [words |-> <<"a", "gadget">>, subjects |-> {}]}

Parking == [words |-> <<"parking">>, subjects |-> {"parking"}]

Provision ==
    {p \in [marker : {<<>>, <<"(a)">>}, opener : DOMAIN Openers, modal : Modals,
            topics : {<<t>> : t \in Topics} \cup {<<t, Parking>> : t \in Topics},
            note : {<<>>, <<"[editorial]">>, <<"(Amended">>}] :
        p.opener = "person" => p.modal.words[1] \in {"may", "shall"}
                               /\ p.modal.words[2] # "not"}

Items(topics) ==
    IF Len(topics) = 1 THEN topics[1].words
    ELSE <<":", "(1)">> \o topics[1].words \o <<";", "or", "(2)">> \o topics[2].words

Drafted(p) ==
    p.marker \o Openers[p.opener] \o p.modal.words \o Items(p.topics) \o <<".">> \o p.note

\* The second provision of an ordinance is one of these.
Following ==
    {[marker |-> m, opener |-> "operator",
      modal |-> [words |-> <<"may", "not", "exceed">>, force |-> "prohibition"],
      topics |-> <<Parking>>, note |-> <<>>] : m \in {<<>>, <<"(b)">>, <<"B.">>}}

Documents == {<<p>> : p \in Provision} \cup {<<p, f>> : p \in Provision, f \in Following}

Text(doc) == FlattenSeq([k \in DOMAIN doc |-> Drafted(doc[k])])

\* What the provision says, one norm for each thing it is about.
BearerOf ==
    [person |-> "regulated_party", operator |-> "regulated_party",
     city |-> "subordinate_legislature", agency |-> "regulator"]

ForceOf(p) == IF p.opener = "person" THEN "prohibition" ELSE p.modal.force

Meaning(p) ==
    [k \in DOMAIN p.topics |->
        [bearer |-> BearerOf[p.opener], modality |-> ForceOf(p), subjects |-> p.topics[k].subjects]]

Norms(doc) == FlattenSeq([k \in DOMAIN doc |-> Meaning(doc[k])])

-----------------------------------------------------------------------------
(* The entry point.                                                        *)

\* POST /extraction/analyze
AnalyzeText ==
    /\ call = Idle
    /\ \E doc \in Documents : Answered("text", doc, Response(Extract(Text(doc))))

Next == AnalyzeText \/ Decide

Spec == Init /\ [][Next]_vars

-----------------------------------------------------------------------------
(* Reading is faithful.                                                    *)

\* What the extractor makes of a document, provision by provision.
Reading(doc) ==
    LET sentences == Sentences(Text(doc))
        read == [k \in DOMAIN sentences |-> Read(sentences[k])]
    IN SelectSeq(read, LAMBDA x : x.kind # "ignored")

ReadsAs(outcome, norm) ==
    IF norm.subjects = {} THEN outcome.kind = "unclassified"
    ELSE /\ outcome.kind = "obligation"
         /\ outcome.modality = norm.modality
         /\ outcome.bearer = norm.bearer
         /\ norm.subjects \subseteq outcome.subjects

\* How a document defeats the patterns.  A history block that is not at the
\* end takes what follows it along; a marked provision after a list is read
\* as one more limb; the marker before a leading "No", or before the city
\* that a provision binds, hides it from a pattern anchored at the start;
\* "must not" is no prohibition to any pattern; a city is the bearer of
\* may, shall and must only.
HistoryInside(doc) == \E k \in DOMAIN doc : k < Len(doc) /\ doc[k].note = <<"(Amended">>

SwallowedByList(doc) ==
    \E k \in DOMAIN doc : k < Len(doc) /\ Len(doc[k].topics) > 1 /\ doc[k + 1].marker # <<>>

MarkerHidesStart(p) == p.marker # <<>> /\ p.opener \in {"person", "city"}

MustNot(p) == p.modal.words[1] = "must" /\ p.modal.words[2] = "not"

CityByOtherWords(p) == p.opener = "city" /\ p.modal.words[1] \in {"is", "need"}

Misread(doc) ==
    \/ SwallowedByList(doc)
    \/ \E k \in DOMAIN doc : \/ MarkerHidesStart(doc[k])
                             \/ MustNot(doc[k])
                             \/ CityByOtherWords(doc[k])

(* A provision is never dropped in silence: each norm of a text leaves an  *)
(* obligation or an abstention, in its place.  And it is never turned      *)
(* round: an obligation has the bearer, the force and the subjects of the  *)
(* norm it stands for.  The exceptions are the drafting habits above, each *)
(* of which the code gets wrong (extraction.py, module docstring).         *)
TextsAreReadAsWritten ==
    call.of = "text" /\ ~HistoryInside(call.input) =>
      LET norms == Norms(call.input)
          reading == Reading(call.input)
      IN /\ Len(reading) = Len(norms)
         /\ Misread(call.input) \/ \A k \in DOMAIN norms : ReadsAs(reading[k], norms[k])
         /\ answer.complete <=> \A x \in Range(reading) : x.kind = "obligation"

(* What the comments of the patterns promise without exception: a modality *)
(* is never inverted, so no cap is read as a licence and no exemption as a *)
(* duty (extraction.py:353-359).                                           *)
ModalityIsNeverInverted ==
    call.of = "text" /\ Len(call.input) = 1 =>
      LET norms == Norms(call.input)
          reading == Reading(call.input)
      IN \A k \in DOMAIN norms :
            k \in DOMAIN reading /\ reading[k].kind = "obligation"
              => reading[k].modality = norms[k].modality
=============================================================================
