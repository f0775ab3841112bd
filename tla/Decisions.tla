------------------------------ MODULE Decisions ------------------------------
(***************************************************************************)
(* The calls that decide something: what a backend is believed about,      *)
(* whether repeated answers agree, the questions of law, which are express *)
(* preemption, floors, and duties in a preference model, the loopholes of  *)
(* a graph of rules, and the text of a clause to verify.  A call names an  *)
(* algorithm and its input, and is answered; every action is one entry     *)
(* point, on the inputs that the constants say.  The promises are stated   *)
(* of the call.                                                            *)
(***************************************************************************)
EXTENDS Extraction, SystemE, Loopholes

CONSTANT Symbols    \* see SmtText

Z == INSTANCE SmtText

CONSTANTS
    BackendItems, Fragments,        \* what a backend may return
    Payloads, Sources,              \* of LlmObligationExtractor.extract
    Sampled, Repetitions,           \* of sample_and_gate: results, and lists of them
    Meanings, Generations,          \* of SemanticEntropyGate(...).evaluate
    SampleCounts, Thresholds, Percents,
    Provisions, RuleSets,           \* of express_preemption.analyze_all
    WageProvisions, Floors,         \* of floors.analyze_floor
    Drafts, Questions,              \* of PreferenceModel(...).evaluate
    Rankings, Valuations,           \* of PreferenceModel.from_ranking(...)
    GraphNodes, Graphs,             \* of detect_loopholes
    Clauses                         \* of verify_clause

ASSUME BackendInputs ==
    Payloads \subseteq [obligations : Seq(BackendItems), declined : Seq(Fragments)]

ASSUME GateInputs ==
    /\ \A r \in Sampled : IsFiniteSet(CanonicalTokens(r))
    /\ Repetitions \subseteq Seq(Sampled)
    /\ \A results \in Repetitions : Len(results) \in 1..Len(XLogX)
    /\ \A text \in Meanings : IsFiniteSet(text)
    /\ Generations \subseteq Seq(Meanings)
    /\ SampleCounts \subseteq 1..Len(XLogX)
    /\ Thresholds \subseteq Int
    /\ Percents \subseteq Int

ASSUME DecisionInputs ==
    /\ Provisions \subseteq Obligations
    /\ RuleSets \subseteq Seq(PreemptionRule)
    /\ WageProvisions \subseteq Obligations
    /\ Floors \subseteq FloorRule
    /\ Drafts \subseteq Draft
    /\ \A question \in Questions : question[1] \in Formula /\ question[2] \in Formula
    /\ Rankings \subseteq Seq(SUBSET Worlds)
    /\ Valuations \subseteq Assignments

ASSUME RequestInputs ==
    /\ Graphs \subseteq Requests(GraphNodes)
    /\ Clauses \subseteq Z!Clause

VARIABLES call, answer

dvars == <<call, answer>>

Idle == [of |-> "idle"]

Failed == [error |-> TRUE]

DecisionsInit == call = Idle /\ answer = Idle

Answered(of, input, result) ==
    /\ call' = [of |-> of, input |-> input]
    /\ answer' = result

-----------------------------------------------------------------------------
\* LlmObligationExtractor.extract
AnalyzeWithModel ==
    /\ call = Idle
    /\ \E payload \in Payloads, source \in Sources :
           Answered("payload", [payload |-> payload, source |-> source],
                    IF Raises(payload, source) THEN Failed
                    ELSE ResultFromPayload(payload, source))

\* sample_and_gate
AnalyzeRepeatedly ==
    /\ call = Idle
    /\ \E results \in Repetitions, threshold \in Thresholds :
           Answered("samples", [results |-> results, threshold |-> threshold],
                    SampleAndGate(results, threshold))

\* SemanticEntropyGate(...).evaluate
MeasureEntropy ==
    /\ call = Idle
    /\ \E texts \in Generations, samples \in SampleCounts, threshold \in Thresholds,
          percent \in Percents :
           Answered("generations",
                    [texts |-> texts, samples |-> samples, threshold |-> threshold,
                     percent |-> percent],
                    Gate(texts, samples, threshold, percent))

\* express_preemption.analyze_all
Preempt ==
    /\ call = Idle
    /\ \E o \in Provisions, rules \in RuleSets :
           Answered("preempt", [o |-> o, rules |-> rules], AnalyzeAll(o, rules))

\* floors.analyze_floor
ApplyFloor ==
    /\ call = Idle
    /\ \E o \in WageProvisions, rule \in Floors :
           Answered("floor", [o |-> o, rule |-> rule], AnalyzeFloor(o, rule))

\* PreferenceModel(...).evaluate
AskModel ==
    /\ call = Idle
    /\ \E draft \in Drafts, question \in Questions :
           Answered("ask", [model |-> draft, question |-> question],
                    IF Model(draft) = Rejected THEN Rejected
                    ELSE Evaluate(draft, question[1], question[2]))

\* PreferenceModel.from_ranking(...).evaluate
AskRanking ==
    /\ call = Idle
    /\ \E tiers \in Rankings, valuation \in Valuations, question \in Questions :
           LET model == FromRanking(tiers, valuation) IN
           Answered("ask", [model |-> model, question |-> question],
                    IF model = Rejected THEN Rejected
                    ELSE Evaluate(model, question[1], question[2]))

\* POST /refactoring/detect-loopholes, without the solver
DetectLoopholes ==
    /\ call = Idle
    /\ \E request \in Graphs :
           Answered("graph", request,
                    [loopholes |-> NegativeCycles(request),
                     rows |-> Basis(NodesOf(request), EdgesOf(request))])

\* POST /verification/verify, up to the solver (SolverPool.tla)
VerifyClause ==
    /\ call = Idle
    /\ \E clause \in Clauses :
           Answered("clause", clause,
                    IF Z!Compiles(clause) THEN [text |-> Z!SmtLib2(clause)] ELSE Failed)

Decide ==
    \/ AnalyzeWithModel \/ AnalyzeRepeatedly \/ MeasureEntropy
    \/ Preempt \/ ApplyFloor \/ AskModel \/ AskRanking
    \/ DetectLoopholes \/ VerifyClause

DecisionsSpec == DecisionsInit /\ [][Decide]_dvars

-----------------------------------------------------------------------------
(* A backend is believed only about what the source says: every item of a  *)
(* payload is answered for, what becomes an obligation fits the schema,    *)
(* is an item of the payload and is found in the source, and what is       *)
(* called a fabrication is not found there (_result_from_payload).  One    *)
(* item alone takes the rest down with it, where the docstrings know of    *)
(* none (extraction.py:507-514, 808-809): one that the schema would hold   *)
(* but for its text, which is no string, when there is a source.           *)
BackendIsNotTakenOnTrust ==
    call.of = "payload" =>
      LET payload == call.input.payload
          source == call.input.source
          takesTheRestDown ==
              source # <<>> /\ \E i \in DOMAIN payload.obligations :
                  LET item == payload.obligations[i] IN
                  item.text = NotAString /\ ~ Malformed(item)
      IN IF answer = Failed THEN takesTheRestDown
         ELSE /\ ~ takesTheRestDown
              /\ Len(answer.obligations) + Len(answer.unclassified)
                   = Len(payload.obligations) + Len(payload.declined)
              /\ \A k \in DOMAIN answer.obligations :
                   LET o == answer.obligations[k] IN
                   /\ \E i \in DOMAIN payload.obligations :
                         LET item == payload.obligations[i] IN
                         o.text = item.text /\ o.modality = item.modality
                           /\ o.subjects = item.subjects
                   /\ source # <<>> => Has(source, o.text)
                   /\ o.subjects # {} /\ o.subjects \subseteq SubjectMatter
              /\ \A k \in DOMAIN answer.unclassified :
                   LET u == answer.unclassified[k] IN
                   u.code = "ungrounded" => ~Has(source, u.text)

\* The entropy, times the samples, of one dissenter: the least there is
\* where samples differ.
OneDissenter(samples) == XLogX[samples] - XLogX[samples - 1]

(* The winner is one of the samples that most agree with; samples of the   *)
(* same tokens agree, and below the entropy of one dissenter, as at the    *)
(* default threshold with up to five samples, no others do.  Tokens are    *)
(* the words of the canonical form, whichever obligation they belong to:   *)
(* the docstring says exact match (extraction.py:716-720, 740), but two    *)
(* obligations that swap their subjects agree.  A gate that can be built   *)
(* can fire, and its clusters are meanings (SemanticEntropyGate).          *)
GateTellsDisagreement ==
    /\ call.of = "samples" /\ ~answer.error =>
         LET results == call.input.results
             samples == Len(results)
             Votes(r) == Cardinality({k \in DOMAIN results :
                             CanonicalTokens(results[k]) = CanonicalTokens(r)})
             unanimous == \A r \in Range(results) :
                             CanonicalTokens(r) = CanonicalTokens(answer.winner)
         IN /\ answer.winner \in Range(results)
            /\ \A r \in Range(results) : Votes(r) <= Votes(answer.winner)
            /\ unanimous => answer.agreed
            /\ samples * call.input.threshold < OneDissenter(samples)
                 => (answer.agreed => unanimous)
    /\ call.of = "generations" /\ ~answer.error =>
         /\ ClustersAreMeanings(call.input.texts, call.input.percent)
         /\ GateCanFire(call.input.texts, call.input.samples, call.input.threshold,
                        call.input.percent)

(* The doctrines decide by the facts: see the laws in Doctrine.tla.        *)
DoctrinesDecideByTheFacts ==
    /\ call.of = "preempt" =>
         /\ HeadlineDecides(call.input.o, call.input.rules)
         /\ \A i \in DOMAIN call.input.rules :
               /\ OpenMeansDateDecides(call.input.o, call.input.rules[i])
               /\ DateMonotone(call.input.o, call.input.rules[i], 20110601, 20110602)
    /\ call.of = "floor" => FloorProtects(call.input.o, call.input.rule)

(* A draft gets an answer exactly when it is a ranking of its worlds and   *)
(* assigns every atom of the question, and the answer is sound: see the    *)
(* laws in SystemE.tla (PreferenceModel.__post_init__, _check_atoms).      *)
DeonticAnswersAreSound ==
    call.of = "ask" =>
      LET m == call.input.model
          psi == call.input.question[1]
          phi == call.input.question[2]
      IN /\ m # Rejected =>
               (answer # Rejected <=> IsRanked(m) /\ Known(m, psi, phi))
         /\ answer # Rejected =>
               /\ VerdictIsClear(m, psi, phi)
               /\ \A a \in Atoms : DutiesSurvivePermittedFacts(m, psi, phi, Atom(a))
               /\ BestIsFewestAbove(m, phi)

(* The equations of the correction reach every loophole: every directed    *)
(* cycle is made of the rows that are answered (detect_loopholes).         *)
CorrectionsReachEveryLoophole ==
    call.of = "graph" => CoverEveryCycle(EdgesOf(call.input), answer.rows)

(* The text kept for the auditor is what the docstring says of it          *)
(* (smt_generator.py, "Provenance/audit"), as far as names allow: a reader *)
(* can take it in unless the names clash or a connective is empty, and     *)
(* what is read has the verdict of the clause unless a variable has the    *)
(* name of a constant.                                                     *)
AuditTextIsFaithful ==
    call.of = "clause" /\ "text" \in DOMAIN answer =>
      /\ Z!Readable(answer.text) <=> ~ Z!HasNoText(call.input)
      /\ Z!Readable(answer.text) /\ ~ Z!Captures(call.input) =>
            Z!Satisfiable(Z!ReadBack(answer.text)) = Z!Satisfiable(call.input)
=============================================================================
