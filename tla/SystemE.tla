-------------------------------- MODULE SystemE --------------------------------
(***************************************************************************)
(* Dyadic deontic logic over finite preference models (deontic/): the      *)
(* formulas of formulas.py and the models and operators of system_e.py.    *)
(*                                                                         *)
(* A formula is what the two functions on it compute: the atoms it         *)
(* mentions (atoms_in) and the sets of true atoms that satisfy it          *)
(* (holds_at).  A model that the constructor refuses is Rejected, and so   *)
(* is a question about atoms that no world assigns.                        *)
(***************************************************************************)
EXTENDS Integers, Sequences, FiniteSets

CONSTANTS Worlds, Atoms, Rejected

ASSUME WorldsAreFinite == IsFiniteSet(Worlds)

Verdicts ==
    [obligation : BOOLEAN, permission : BOOLEAN, prohibition : BOOLEAN,
     optimal : SUBSET Worlds, vacuous : BOOLEAN, dilemma : BOOLEAN]

ASSUME RejectedIsNoVerdict == Rejected \notin Verdicts

-----------------------------------------------------------------------------
(* formulas.py.                                                            *)

Points == SUBSET Atoms

Formula == [atoms : SUBSET Atoms, holds : SUBSET Points]

Top        == [atoms |-> {}, holds |-> Points]
Bottom     == [atoms |-> {}, holds |-> {}]
Atom(a)    == [atoms |-> {a}, holds |-> {p \in Points : a \in p}]
Not(f)     == [atoms |-> f.atoms, holds |-> Points \ f.holds]
And(f, g)  == [atoms |-> f.atoms \cup g.atoms, holds |-> f.holds \cap g.holds]
Or(f, g)   == [atoms |-> f.atoms \cup g.atoms, holds |-> f.holds \cup g.holds]
Implies(f, g) == Or(Not(f), g)

-----------------------------------------------------------------------------
(* PreferenceModel.                                                        *)

\* What the dataclass lets a caller write down.
Assignments == UNION {[W -> Points] : W \in SUBSET Worlds}

Draft ==
    [worlds : SUBSET Worlds, betterness : SUBSET (Worlds \X Worlds),
     valuation : Assignments]

Reflexive(m)  == \A w \in m.worlds : <<w, w>> \in m.betterness
Total(m)      == \A v, w \in m.worlds :
                     <<v, w>> \in m.betterness \/ <<w, v>> \in m.betterness
Transitive(m) == \A u, v, w \in m.worlds :
                     <<u, v>> \in m.betterness /\ <<v, w>> \in m.betterness
                       => <<u, w>> \in m.betterness

\* __post_init__ accepts the draft.
IsModel(m) ==
    /\ m.worlds # {}
    /\ DOMAIN m.valuation = m.worlds
    /\ m.betterness \subseteq m.worlds \X m.worlds
    /\ Reflexive(m) /\ Total(m) /\ Transitive(m)

Model(m) == IF IsModel(m) THEN m ELSE Rejected

\* from_ranking: a world in two tiers, or no world at all, is refused
\* before the relation is built.  (A world that a tier lists twice is refused
\* too; tiers are sets here.)
FromRanking(tiers, valuation) ==
    LET ranked == UNION {tiers[i] : i \in DOMAIN tiers}
        rank == [w \in ranked |-> CHOOSE i \in DOMAIN tiers : w \in tiers[i]]
    IN IF \/ ranked = {}
          \/ \E i, j \in DOMAIN tiers : i # j /\ tiers[i] \cap tiers[j] # {}
       THEN Rejected
       ELSE Model([worlds |-> ranked,
                   betterness |-> {p \in ranked \X ranked : rank[p[1]] <= rank[p[2]]},
                   valuation |-> valuation])

KnownAtoms(m) == UNION {m.valuation[w] : w \in m.worlds}

\* _check_atoms
Known(m, psi, phi) == psi.atoms \cup phi.atoms \subseteq KnownAtoms(m)

Extension(m, f) == {w \in m.worlds : m.valuation[w] \in f.holds}

\* Mutant: a world is best when no world is strictly worse.
OptimalAtLeastOne(m, f) ==
    {w \in Extension(m, f) :
        \E v \in Extension(m, f) : <<w, v>> \in m.betterness}

Optimal(m, f) ==
    {w \in Extension(m, f) :
        \A v \in Extension(m, f) : <<w, v>> \in m.betterness}

Obligation(m, psi, phi)  == Optimal(m, phi) \subseteq Extension(m, psi)
Permission(m, psi, phi)  == ~Obligation(m, Not(psi), phi)
Prohibition(m, psi, phi) == Obligation(m, Not(psi), phi)

\* evaluate: the whole Verdict for one question.
Evaluate(m, psi, phi) ==
    IF ~Known(m, psi, phi) THEN Rejected
    ELSE LET optimal == Optimal(m, phi)
             obliged == \A w \in optimal : m.valuation[w] \in psi.holds
             forbidden == \A w \in optimal : m.valuation[w] \notin psi.holds
         IN [obligation |-> obliged, permission |-> ~forbidden,
             prohibition |-> forbidden, optimal |-> optimal,
             vacuous |-> optimal = {},
             dilemma |-> optimal # {} /\ ~obliged /\ ~forbidden]

-----------------------------------------------------------------------------
(* What the operators promise.                                             *)

(* A draft that is a ranking: every world has a rank and a valuation, and  *)
(* one is at least as good as another when its rank comes no later.        *)
IsRanked(m) ==
    /\ m.worlds # {} /\ DOMAIN m.valuation = m.worlds
    /\ \E rank \in [m.worlds -> 1..Cardinality(m.worlds)] :
          m.betterness = {p \in m.worlds \X m.worlds : rank[p[1]] <= rank[p[2]]}

(* The verdict agrees with the operators, is vacuous exactly when the      *)
(* question's condition holds nowhere, obliges and forbids at once only    *)
(* then, and is never vacuous and a dilemma at once: the flags tell the    *)
(* two failures apart (Verdict, system_e.py).                              *)
VerdictIsClear(m, psi, phi) ==
    LET v == Evaluate(m, psi, phi) IN
    Known(m, psi, phi) =>
      /\ v.obligation <=> Obligation(m, psi, phi)
      /\ v.permission <=> Permission(m, psi, phi)
      /\ v.prohibition <=> Prohibition(m, psi, phi)
      /\ v.obligation /\ v.prohibition <=> v.vacuous
      /\ ~(v.vacuous /\ v.dilemma)
      /\ v.dilemma <=> v.permission /\ ~v.obligation

(* Once something permitted turns out to be the case, every duty that was  *)
(* in force stays in force: the best worlds of the narrower condition are  *)
(* the best worlds of the wider one that satisfy it (optimal).             *)
DutiesSurvivePermittedFacts(m, psi, phi, fact) ==
    /\ Permission(m, fact, phi) =>
         Optimal(m, And(phi, fact)) = Optimal(m, phi) \cap Extension(m, fact)
    /\ Permission(m, fact, phi) /\ Obligation(m, psi, phi)
         => Obligation(m, psi, And(phi, fact))

(* Limitedness, with an independent reading of "best": the optimal worlds  *)
(* are those that the fewest worlds strictly beat, and a condition that    *)
(* holds somewhere has one (the module docstring of system_e.py).          *)
BestIsFewestAbove(m, phi) ==
    LET Above(w) == Cardinality({v \in m.worlds : <<w, v>> \notin m.betterness})
        where == Extension(m, phi)
    IN /\ Optimal(m, phi) = {w \in where : \A v \in where : Above(w) <= Above(v)}
       /\ where # {} => Optimal(m, phi) # {}
=============================================================================
