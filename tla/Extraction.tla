------------------------------ MODULE Extraction ------------------------------
(***************************************************************************)
(* Reading ordinance prose into obligations (obligations/extraction.py),   *)
(* and what POST /extraction/analyze answers (api/routes/extraction.py).   *)
(*                                                                         *)
(* A text is a sequence of words and punctuation, each of them a string.   *)
(* A regular expression of the code is the set of the word sequences it    *)
(* looks for, so two expressions overlap here where they do there; each    *)
(* keeps a few of its alternatives.  Expressions that allow a gap of up to *)
(* 60 characters allow any gap: the provisions read here are shorter.      *)
(* Only the first word of a provision and the letters of a list are        *)
(* capitals; the code ignores case except where it splits sentences.       *)
(***************************************************************************)
EXTENDS Integers, Sequences, SequencesExt, FiniteSetsExt, SemanticEntropy, Doctrine

-----------------------------------------------------------------------------
(* Searching.                                                              *)

Has(s, phrase) ==
    \E i \in 1..Len(s) - Len(phrase) + 1 : SubSeq(s, i, i + Len(phrase) - 1) = phrase

HasAny(s, phrases) == \E phrase \in phrases : Has(s, phrase)

-----------------------------------------------------------------------------
(* _SUBJECT_PATTERNS, by what the subjects are about.                      *)

UseSubjects ==
    [frequency |-> {<<"more", "than", "90", "nights">>, <<"nights", "per", "year">>},
     duration |-> {<<"fewer", "than", "30", "consecutive">>, <<"minimum", "stay">>},
     property_valuation |-> {<<"property", "valuation">>, <<"assessed", "value">>},
     primary_residence |-> {<<"primary", "residence">>, <<"owner-occupied">>},
     permit_registration |-> {<<"license">>, <<"register">>, <<"registration">>},
     occupancy_limit |-> {<<"occupancy">>, <<"number", "of", "guests">>},
     parking |-> {<<"parking">>, <<"off-street", "space">>},
     noise |-> {<<"noise">>, <<"quiet", "hours">>},
     taxation |-> {<<"tax">>, <<"transient", "occupancy">>},
     zoning |-> {<<"zoning", "district">>, <<"residential", "district">>},
     safety_inspection |-> {<<"inspections">>, <<"fire", "code">>, <<"smoke", "alarm">>},
     advertising_disclosure |-> {<<"advertisement">>, <<"listing">>}]

HealthSubjects ==
    [sanitation |-> {<<"sewage">>, <<"food-borne">>, <<"linens">>, <<"drinking", "water">>},
     food_handling |-> {<<"food", "preparation">>, <<"food-borne">>, <<"utensils">>},
     recreational_water |-> {<<"swimming", "pool">>, <<"hot", "tub">>},
     fire_safety |-> {<<"fire", "code">>, <<"smoke", "alarm">>, <<"life", "safety">>}]

ProcedureSubjects ==
    [fees |-> {<<"fee">>, <<"fine">>, <<"penalty">>},
     rulemaking |-> {<<"adopt", "rules">>, <<"by", "rule">>},
     recordkeeping |-> {<<"records">>, <<"shall", "be", "submitted">>},
     enforcement |-> {<<"revoke">>, <<"violation">>, <<"suspension">>},
     administrative_procedure |-> {<<"variance">>, <<"hearing">>, <<"to", "be", "heard">>},
     regulatory_authority |-> {<<"powers", "and", "duties">>, <<"hereby", "granted">>},
     habitability |-> {<<"heated">>, <<"window", "opening">>},
     building_standards |-> {<<"railings">>, <<"stairways">>}]

\* Subjects no pattern looks for: an outright ban has a rule of its own, and
\* the employment subjects are filled in by hand.
OtherSubjects ==
    {"prohibition", "minimum_wage", "maximum_workweek", "overtime_premium", "child_labor"}

Patterns == UseSubjects @@ HealthSubjects @@ ProcedureSubjects

SubjectMatter == DOMAIN Patterns \cup OtherSubjects

\* "permit" is the noun unless a modal comes before it.
PermitIsNoun(s) ==
    \E i \in DOMAIN s : /\ s[i] = "permit"
                        /\ i = 1 \/ s[i - 1] \notin {"not", "shall", "may", "must", "to"}

-----------------------------------------------------------------------------
(* The other patterns.                                                     *)

Regulator(s) == HasAny(s, {<<"the", "department">>, <<"The", "department">>})

\* The polity must be what the modal binds: the pattern starts at the start.
SubordinateLegislature(s) ==
    \E i \in 1..2 : /\ Len(s) > i /\ s[i] \in {"city", "town", "county"}
                    /\ i = 2 => s[1] \in {"A", "The", "Any"}
                    /\ \E k \in i + 1..Len(s) : s[k] \in {"may", "shall", "must"}

Definitional(s) ==
    HasAny(s, {<<"may", "not", "be", "classified">>, <<"as", "defined", "in">>,
               <<"quoted-term", "means">>, <<"may", "be", "cited", "as">>})

OutrightBan(s) ==
    HasAny(s, {<<"is", "prohibited">>, <<"are", "prohibited">>, <<"may", "not", "operate">>,
               <<"shall", "not", "be", "permitted">>, <<"may", "not", "prohibit">>})

LeadingNo(s) ==
    s # <<>> /\ s[1] = "No" /\ \E i \in 2..Len(s) : s[i] \in {"may", "shall", "can"}

Prohibitive(s) ==
    HasAny(s, {<<"may", "not">>, <<"shall", "not">>, <<"prohibited">>}) \/ LeadingNo(s)

NegatedObligation(s) ==
    HasAny(s, {<<"not", "required">>, <<"not", "be", "required">>, <<"need", "not">>,
               <<"is", "exempt">>, <<"is", "not", "subject", "to">>})

Obligatory(s) ==
    HasAny(s, {<<"shall">>, <<"must">>, <<"is", "required">>, <<"required", "to">>})

IndicativeObligation(s) ==
    HasAny(s, {<<"is", "due">>, <<"is", "payable">>, <<"is", "subject", "to">>})

Numbers == {"21", "30", "90"}

\* The modal and not the month: no number follows.
Permissive(s) ==
    \/ \E i \in DOMAIN s : s[i] = "may" /\ (i = Len(s) \/ s[i + 1] \notin Numbers)
    \/ HasAny(s, {<<"is", "permitted">>, <<"is", "allowed">>})

WrittenDates == [d2010 |-> 2010, d2019 |-> 2019]

\* _find_adopted_date: the first date after the word, anywhere in the text.
AdoptedDate(text) ==
    LET found == {i \in 1..Len(text) - 1 :
                     text[i] = "adopted" /\ text[i + 1] \in DOMAIN WrittenDates}
    IN IF found = {} THEN None ELSE WrittenDates[text[Min(found) + 1]]

-----------------------------------------------------------------------------
(* Sentences.                                                              *)

LetterMarkers == {"(a)", "(b)"}
Markers == LetterMarkers \cup {"(1)", "(2)"} \cup {"A.", "B."}
Capitals == {"No", "The", "A", "Any", "Every", "A.", "B."}

\* _strip_editorial: a history block takes the rest of the text with it.
StripEditorial(text) ==
    LET history == {i \in DOMAIN text : text[i] \in {"SECTION-HISTORY", "(Amended"}}
        law == IF history = {} THEN text ELSE SubSeq(text, 1, Min(history) - 1)
    IN SelectSeq(law, LAMBDA word : word # "[editorial]")

\* A new segment starts after word i.
Splits(text, i) ==
    \/ text[i] \in {".", ";"} /\ text[i + 1] \in Capitals \cup LetterMarkers \cup {"(1)", "(2)"}
    \/ /\ text[i + 1] \in LetterMarkers
       /\ i + 2 <= Len(text) /\ text[i + 2] \in Capitals

\* The pieces of a text that start at the given places.
Pieces(text, starts) ==
    LET sorted == SetToSortSeq(starts, <)
        End(k) == IF k = Len(sorted) THEN Len(text) ELSE sorted[k + 1] - 1
    IN [k \in DOMAIN sorted |-> SubSeq(text, sorted[k], End(k))]

Segments(text) ==
    IF text = <<>> THEN <<>>
    ELSE Pieces(text, {1} \cup {i + 1 : i \in {j \in 1..Len(text) - 1 : Splits(text, j)}})

\* Where the lead-in of an enumerated list ends: at a colon before a marker
\* that something follows.
LeadEnd(s) ==
    LET colons == {k \in 2..Len(s) - 2 :
                      /\ s[k] = ":" /\ s[k - 1] \notin {".", ";", ":"}
                      /\ s[k + 1] \in Markers}
    IN IF colons = {} THEN 0 ELSE Min(colons)

WithoutMarker(s) == IF s # <<>> /\ s[1] \in Markers THEN Tail(s) ELSE s

WithoutLast(s, words) == IF s # <<>> /\ Last(s) \in words THEN Front(s) ELSE s

\* (_LIMB_TAIL takes an "or" or "and" off the end of a word as well, so that
\* a limb on an "operator" ends in "operat".  Words are not taken apart here.)
Limbs(list) ==
    LET starts == {1} \cup {i \in 2..Len(list) - 1 : list[i] \in Markers}
        Limb(piece) ==
            WithoutLast(WithoutLast(WithoutMarker(piece), {"or", "and"}), {";", ","})
        pieces == Pieces(list, starts)
    IN SelectSeq([k \in DOMAIN pieces |-> Limb(pieces[k])], LAMBDA limb : limb # <<>>)

Distributed(lead, list) ==
    LET limbs == Limbs(list) IN
    IF limbs = <<>> THEN <<lead>>
    ELSE [k \in DOMAIN limbs |-> lead \o limbs[k]]

\* _distribute_lead_ins: segments that start with a marker continue the list
\* that is open.
DistributeLeadIns(segments) ==
    LET Close(st) == IF st.lead = <<>> THEN st.out ELSE st.out \o Distributed(st.lead, st.list)
        Step(st, s) ==
            IF st.lead # <<>> /\ s[1] \in Markers THEN [st EXCEPT !.list = @ \o s]
            ELSE IF LeadEnd(s) = 0
            THEN [out |-> Append(Close(st), s), lead |-> <<>>, list |-> <<>>]
            ELSE [out |-> Close(st), lead |-> SubSeq(s, 1, LeadEnd(s) - 1),
                  list |-> SubSeq(s, LeadEnd(s) + 1, Len(s))]
    IN Close(FoldLeft(Step, [out |-> <<>>, lead |-> <<>>, list |-> <<>>], segments))

Sentences(text) == DistributeLeadIns(Segments(StripEditorial(text)))

-----------------------------------------------------------------------------
(* Classification.                                                         *)

\* Mutant: the plain modals are looked for first.
ModalityPlainFirst(s) ==
    CASE Obligatory(s) -> "obligation"
      [] ~Obligatory(s) /\ NegatedObligation(s) -> "permission"
      [] ~Obligatory(s) /\ ~NegatedObligation(s) /\ Prohibitive(s) -> "prohibition"
      [] OTHER -> IF IndicativeObligation(s) THEN "obligation"
                  ELSE IF Permissive(s) THEN "permission" ELSE "none"

\* _classify_modality: order is meaning, negation is looked for first.
ClassifyModality(s) ==
    IF NegatedObligation(s) THEN "permission"
    ELSE IF Prohibitive(s) THEN "prohibition"
    ELSE IF Obligatory(s) \/ IndicativeObligation(s) THEN "obligation"
    ELSE IF Permissive(s) THEN "permission"
    ELSE "none"

ClassifyBearer(s) ==
    IF SubordinateLegislature(s) THEN "subordinate_legislature"
    ELSE IF Regulator(s) THEN "regulator"
    ELSE "regulated_party"

ClassifySubjects(s) ==
    LET found == {m \in DOMAIN Patterns : HasAny(s, Patterns[m])}
                    \cup (IF PermitIsNoun(s) THEN {"permit_registration"} ELSE {})
        ban == OutrightBan(s) /\ found \cap {"frequency", "duration"} = {}
    IN found \cup (IF ban THEN {"prohibition"} ELSE {})

\* _TRUNCATED: the sentence stops at a colon, or at the marker after it.
Truncated(s) ==
    LET bare == WithoutLast(WithoutLast(s, {"."}), Markers)
    IN bare # <<>> /\ Last(bare) = ":"

AbstentionReason ==
    {"no_subject_match", "truncated_fragment", "model_declined", "ungrounded", "malformed"}

Ignored == [kind |-> "ignored"]
Abstention(code, text) == [kind |-> "unclassified", code |-> code, text |-> text]
Norm(bearer, modality, subjects, text) ==
    [kind |-> "obligation", bearer |-> bearer, modality |-> modality,
     subjects |-> subjects, text |-> text]

\* The body of the loop in extract: what becomes of one sentence.
Read(s) ==
    IF Definitional(s) \/ ClassifyModality(s) = "none" THEN Ignored
    ELSE IF ClassifySubjects(s) # {}
    THEN Norm(ClassifyBearer(s), ClassifyModality(s), ClassifySubjects(s), s)
    ELSE Abstention(IF Truncated(s) THEN "truncated_fragment" ELSE "no_subject_match", s)

OfKind(outcomes, kind) ==
    LET kept[n \in 0..Len(outcomes)] ==
            IF n = 0 THEN <<>>
            ELSE IF outcomes[n].kind = kind THEN Append(kept[n - 1], outcomes[n])
            ELSE kept[n - 1]
    IN kept[Len(outcomes)]

Result(outcomes, adopted) ==
    [obligations |-> OfKind(outcomes, "obligation"),
     unclassified |-> OfKind(outcomes, "unclassified"),
     ignored |-> Len(OfKind(outcomes, "ignored")), adopted |-> adopted]

\* KeywordObligationExtractor.extract.  (With <<>> before them, TLC computes
\* the outcomes once.)
Extract(text) ==
    LET sentences == Sentences(text)
    IN Result(<<>> \o [k \in DOMAIN sentences |-> Read(sentences[k])], AdoptedDate(text))

-----------------------------------------------------------------------------
(* ExtractionResult.                                                       *)

IsComplete(result) == result.unclassified = <<>>

\* Percent of the provisions recognised as normative.
Coverage(result) ==
    LET read == Len(result.obligations)
        total == read + Len(result.unclassified)
    IN IF total = 0 THEN 100 ELSE (100 * read) \div total

Triage(result) ==
    [code \in {u.code : u \in Range(result.unclassified)} |->
        SelectSeq(result.unclassified, LAMBDA u : u.code = code)]

\* The tokens of canonical_form: bearers, modalities and subjects by name, in
\* the alphabetical order of the provisions and so in no order at all.
CanonicalTokens(result) ==
    IF result.obligations = <<>> THEN {"none"}
    ELSE UNION {{o.bearer, o.modality} \cup o.subjects : o \in Range(result.obligations)}

\* What the route answers: what was not read comes with its remedy.
Remedy ==
    [no_subject_match |-> "classify by hand",
     truncated_fragment |-> "mend the segmentation",
     model_declined |-> "declined",
     ungrounded |-> "fabricated",
     malformed |-> "outside the schema"]

Response(result) ==
    [complete |-> IsComplete(result), coverage |-> Coverage(result),
     unread |-> [k \in DOMAIN result.unclassified |->
                    [code |-> result.unclassified[k].code,
                     remedy |-> Remedy[result.unclassified[k].code]]],
     triage |-> [code \in DOMAIN Triage(result) |-> Len(Triage(result)[code])],
     obligations |-> result.obligations]

-----------------------------------------------------------------------------
(* LlmObligationExtractor: the payload of a backend.  An item has a text   *)
(* (a sequence of words, or something that is no string), subjects, a      *)
(* modality and a bearer, each None where the field is missing.            *)

Bearers == {"regulated_party", "regulator", "subordinate_legislature", "unspecified"}

\* The text of an item that is no string: a number, say, or null.
NotAString == <<"not-a-string">>

Malformed(item) ==
    \/ item.text \in {None, <<>>}
    \/ item.subjects = None \/ item.modality \notin Modality
    \/ item.bearer \notin Bearers \cup {None}
    \/ item.subjects = {} \/ ~(item.subjects \subseteq SubjectMatter)

IsGrounded(fragment, source) == Has(source, fragment)

\* Mutant: a fabricated item is believed when it is well formed.
ReadItemUnchecked(item, source) ==
    IF Malformed(item) THEN Abstention("malformed", item.text)
    ELSE Norm(IF item.bearer = None THEN "regulated_party" ELSE item.bearer,
              item.modality, item.subjects, item.text)

ReadItem(item, source) ==
    IF Malformed(item) THEN Abstention("malformed", item.text)
    ELSE IF source # <<>> /\ ~IsGrounded(item.text, source)
    THEN Abstention("ungrounded", item.text)
    ELSE Norm(IF item.bearer = None THEN "regulated_party" ELSE item.bearer,
              item.modality, item.subjects, item.text)

\* A text that is no string passes the checks of the schema, and folding it
\* for the comparison with the source raises what nothing catches.
Raises(payload, source) ==
    source # <<>> /\ \E i \in DOMAIN payload.obligations :
        payload.obligations[i].text = NotAString /\ ~Malformed(payload.obligations[i])

\* _result_from_payload
ResultFromPayload(payload, source) ==
    Result([i \in DOMAIN payload.obligations |-> ReadItem(payload.obligations[i], source)]
             \o [i \in DOMAIN payload.declined |->
                    Abstention("model_declined", payload.declined[i])],
           None)

-----------------------------------------------------------------------------
(* sample_and_gate, given what the extractor returned each time: the result*)
(* of the largest cluster, the first of the largest, and whether the       *)
(* results agree.                                                          *)
SampleAndGate(results, threshold) ==
    LET forms == [k \in DOMAIN results |-> CanonicalTokens(results[k])]
        verdict == Gate(forms, Len(results), threshold, 100)
    IN IF verdict.error THEN [error |-> TRUE]
       ELSE LET sizes == Sizes(verdict.clusters)
                largest == Min({k \in DOMAIN sizes : sizes[k] = Max(Range(sizes))})
                first == Min({k \in DOMAIN forms : forms[k] = verdict.clusters[largest][1]})
            IN [error |-> FALSE, winner |-> results[first], agreed |-> verdict.pass]
=============================================================================
