--------------------------- MODULE Decisions_proofs ---------------------------
(***************************************************************************)
(* What the engine decides, for every input: the statutes of the knowledge *)
(* graph and the resolution of their conflicts (StatuteGraph), the         *)
(* doctrines of preemption and floors (Doctrine), duties in a preference   *)
(* model (SystemE), and the calls that ask for them (Decisions); the calls *)
(* about a graph or a clause are in Loopholes_proofs.                      *)
(***************************************************************************)
EXTENDS Decisions, StatuteGraph, FiniteSetTheorems, WellFoundedInduction, TLAPS

(***************************************************************************)
(* A finite set that a relation orders strictly has a minimal element: one *)
(* with as few predecessors as possible.                                   *)
(***************************************************************************)
LEMMA FiniteOrderHasMinimum ==
    ASSUME NEW S, IsFiniteSet(S), S # {}, NEW R,
           \A x \in S : <<x, x>> \notin R,
           \A x, y, z \in S : <<x, y>> \in R /\ <<y, z>> \in R => <<x, z>> \in R
    PROVE  \E m \in S : \A y \in S : <<y, m>> \notin R
<1> DEFINE below(x) == {y \in S : <<y, x>> \in R}
           T == {below(x) : x \in S}
<1>1. T # {} /\ T \subseteq FiniteSubsetsOf(S)
  <2>1. \A x \in S : below(x) \in SUBSET S /\ IsFiniteSet(below(x))
    BY FS_Subset
  <2>2. PICK x : x \in S
    OBVIOUS
  <2>3. below(x) \in T
    BY <2>2
  <2>4. ASSUME NEW y \in S PROVE below(y) \in FiniteSubsetsOf(S)
    <3> HIDE DEF below
    <3>1. QED
      BY <2>1, <2>4 DEF FiniteSubsetsOf
  <2>5. \A B \in T : \E y \in S : B = below(y)
    OBVIOUS
  <2> HIDE DEF T, below
  <2>6. QED
    BY <2>3, <2>4, <2>5
<1>2. PICK B \in T : \A A \in T : <<A, B>> \notin StrictSubsetOrdering(S)
  <2> HIDE DEF T
  <2>1. QED
    BY <1>1, FS_StrictSubsetOrderingWellFounded, WFMin
<1>3. PICK m \in S : B = below(m)
  BY <1>2
<1>4. SUFFICES ASSUME NEW y \in S, <<y, m>> \in R PROVE FALSE
  BY <1>3
<1>5. below(y) \subseteq below(m) /\ y \in below(m) /\ y \notin below(y)
  BY <1>4
<1>6. <<below(y), below(m)>> \in StrictSubsetOrdering(S)
  BY <1>5 DEF StrictSubsetOrdering
<1>7. QED
  BY <1>2, <1>3, <1>6

-----------------------------------------------------------------------------
(* The statute graph: _defeats is a strict partial order, a survivor that  *)
(* is alone beats every rival, and the edges a graph collects stay right   *)
(* and acyclic.                                                            *)

(***************************************************************************)
(* Tiers are numbers, whatever set of them is in use.                      *)
(***************************************************************************)
LEMMA TiersAreNumbers == \A s \in StatuteSet : s.tier \in Nat
<1>1. Tiers \subseteq Nat
  BY TiersAndDates DEF TiersAndDates
<1>2. QED
  BY <1>1 DEF StatuteSet

(***************************************************************************)
(* Dates are numbers too, Undated among them.                              *)
(***************************************************************************)
LEMMA DatesAreNumbers == \A s \in StatuteSet : s.date \in Nat
<1>1. Dates \cup {Undated} \subseteq Nat
  BY TiersAndDates DEF TiersAndDates, Undated
<1>2. QED
  BY <1>1 DEF StatuteSet

(***************************************************************************)
(* _defeats: no statute defeats itself.                                    *)
(***************************************************************************)
LEMMA DefeatsIsIrreflexive ==
    ASSUME NEW s \in StatuteSet
    PROVE  ~ Defeats(s, s)
<1>1. s.date \in Nat
  BY DatesAreNumbers
<1>2. QED
  BY <1>1 DEF Defeats, LexSpecialis, LexPosterior

(***************************************************************************)
(* Defeat is transitive across the two maxims: "no cycle can form across   *)
(* the two rules" (preemption.py:137-141).                                 *)
(***************************************************************************)
LEMMA DefeatsIsTransitive ==
    ASSUME NEW a \in StatuteSet, NEW b \in StatuteSet, NEW c \in StatuteSet,
           Defeats(a, b), Defeats(b, c)
    PROVE  Defeats(a, c)
<1>1. a.date \in Nat /\ b.date \in Nat /\ c.date \in Nat
  BY DatesAreNumbers
<1>2. CASE LexPosterior(a, b) /\ LexPosterior(b, c)
  BY <1>1, <1>2 DEF Defeats, LexPosterior
<1>3. CASE LexSpecialis(a, b) /\ LexSpecialis(b, c)
  BY <1>3 DEF Defeats, LexSpecialis
<1>4. CASE LexSpecialis(a, b) /\ LexPosterior(b, c)
  BY <1>4 DEF Defeats, LexSpecialis, LexPosterior
<1>5. CASE LexPosterior(a, b) /\ LexSpecialis(b, c)
  BY <1>5 DEF Defeats, LexSpecialis, LexPosterior
<1>6. QED
  BY <1>2, <1>3, <1>4, <1>5 DEF Defeats

IdsAreUnique(S) == \A s, other \in S : s.id = other.id => s = other

(***************************************************************************)
(* In a finite conflict set, whoever is beaten is beaten by a survivor.    *)
(***************************************************************************)
LEMMA BeatenByASurvivor ==
    ASSUME NEW C, C \subseteq StatuteSet, IsFiniteSet(C), IdsAreUnique(C),
           NEW c \in C
    PROVE  \E s \in Undefeated(C) : s = c \/ Defeats(s, c)
<1> DEFINE D == {s \in C : s = c \/ Defeats(s, c)}
           R == {pair \in D \X D : Defeats(pair[1], pair[2])}
<1>1. IsFiniteSet(D) /\ D # {} /\ D \subseteq C
  <2>1. D \in SUBSET C /\ c \in D
    OBVIOUS
  <2>2. QED
    BY <2>1, FS_Subset
<1>2. \A x, y \in D : <<x, y>> \in R <=> Defeats(x, y)
  OBVIOUS
<1> HIDE DEF R
<1>3. \A x \in D : <<x, x>> \notin R
  BY <1>1, <1>2, DefeatsIsIrreflexive
<1>4. \A x, y, z \in D : <<x, y>> \in R /\ <<y, z>> \in R => <<x, z>> \in R
  <2>1. TAKE x, y, z \in D
  <2>2. HAVE <<x, y>> \in R /\ <<y, z>> \in R
  <2>3. x \in StatuteSet /\ y \in StatuteSet /\ z \in StatuteSet
    BY <1>1
  <2>4. Defeats(x, y) /\ Defeats(y, z)
    BY <1>2, <2>2
  <2>5. Defeats(x, z)
    BY <2>3, <2>4, DefeatsIsTransitive
  <2>6. QED
    BY <1>2, <2>5
<1>5. PICK s \in D : \A y \in D : <<y, s>> \notin R
  <2> HIDE DEF D
  <2>1. QED
    BY <1>1, <1>3, <1>4, FiniteOrderHasMinimum
<1>6. ASSUME NEW other \in C, Defeats(other, s) PROVE FALSE
  <2>1. other \in D
    <3>1. CASE s = c
      BY <1>6, <3>1
    <3>2. CASE Defeats(s, c)
      <4>1. Defeats(other, c)
        BY <1>1, <1>6, <3>2, DefeatsIsTransitive
      <4>2. QED
        BY <4>1
    <3>3. QED
      BY <3>1, <3>2
  <2>2. QED
    BY <1>2, <1>5, <1>6, <2>1
<1>7. s \in Undefeated(C)
  BY <1>1, <1>6 DEF Undefeated, Rivals
<1>8. QED
  BY <1>7

(***************************************************************************)
(* A candidate that alone survives has beaten all the others.              *)
(***************************************************************************)
LEMMA LoneSurvivorBeatsRivals ==
    ASSUME NEW C, C \subseteq StatuteSet, IsFiniteSet(C), IdsAreUnique(C),
           NEW s, Undefeated(C) = {s}, NEW other \in C \ {s}
    PROVE  Defeats(s, other)
<1>1. PICK x \in Undefeated(C) : x = other \/ Defeats(x, other)
  BY BeatenByASurvivor
<1>2. x = s
  BY <1>1
<1>3. QED
  BY <1>1, <1>2

-----------------------------------------------------------------------------
(* Lex superior.                                                           *)

(***************************************************************************)
(* "Higher" orders statutes strictly.                                      *)
(***************************************************************************)
LEMMA OutranksIsIrreflexive ==
    ASSUME NEW s \in StatuteSet
    PROVE  ~ Outranks(s, s)
BY TiersAreNumbers, DefeatsIsIrreflexive DEF Outranks

(***************************************************************************)
(* The order by tier, and by defeat within a tier, is transitive.          *)
(***************************************************************************)
LEMMA OutranksIsTransitive ==
    ASSUME NEW a \in StatuteSet, NEW b \in StatuteSet, NEW c \in StatuteSet,
           Outranks(a, b), Outranks(b, c)
    PROVE  Outranks(a, c)
<1>1. a.tier \in Nat /\ b.tier \in Nat /\ c.tier \in Nat
  BY TiersAreNumbers
<1>2. CASE a.tier = b.tier /\ b.tier = c.tier
  <2>1. Defeats(a, b) /\ Defeats(b, c)
    BY <1>1, <1>2 DEF Outranks
  <2>2. Defeats(a, c)
    BY <2>1, DefeatsIsTransitive
  <2>3. QED
    BY <1>2, <2>2 DEF Outranks
<1>3. CASE ~ (a.tier = b.tier /\ b.tier = c.tier)
  <2>1. a.tier <= b.tier /\ b.tier <= c.tier
    BY <1>1 DEF Outranks
  <2>2. a.tier < c.tier
    BY <1>1, <1>3, <2>1
  <2>3. QED
    BY <2>2 DEF Outranks
<1>4. QED
  BY <1>2, <1>3

(***************************************************************************)
(* Whatever governs a conflict set outranks all that it preempts.          *)
(***************************************************************************)
LEMMA GoverningOutranksPreempted ==
    ASSUME NEW S, S \subseteq StatuteSet, IsFiniteSet(S), IdsAreUnique(S),
           NEW w \in Governing(S), NEW p \in Preempted(S)
    PROVE  Outranks(w, p)
<1> DEFINE C == HighestAuthority(S)
<1>1. C \in SUBSET S
  BY DEF HighestAuthority
<1>2. C \subseteq StatuteSet /\ IsFiniteSet(C) /\ IdsAreUnique(C)
  BY <1>1, FS_Subset DEF IdsAreUnique
<1>3. w \in C /\ w \in S /\ p \in S /\ p \notin Governing(S) /\ p # w
  BY <1>1 DEF Governing, SameTierWinner, Preempted
<1>4. w.tier \in Nat /\ p.tier \in Nat /\ w.tier <= p.tier
  BY <1>3, TiersAreNumbers DEF HighestAuthority
<1>5. CASE p \notin C
  <2>1. PICK o \in S : ~ (p.tier <= o.tier)
    BY <1>3, <1>5 DEF HighestAuthority
  <2>2. o.tier \in Nat /\ w.tier <= o.tier
    BY <1>3, TiersAreNumbers DEF HighestAuthority
  <2>3. w.tier < p.tier
    BY <1>4, <2>1, <2>2
  <2>4. QED
    BY <2>3 DEF Outranks
<1>6. CASE p \in C
  <2>1. w.tier = p.tier
    BY <1>3, <1>4, <1>6, TiersAreNumbers DEF HighestAuthority
  <2>2. Cardinality(C) # 1
    BY <1>3, <1>6 DEF Governing
  <2>3. Undefeated(C) = {w}
    BY <1>3, <2>2 DEF Governing, SameTierWinner
  <2>4. Defeats(w, p)
    <3> HIDE DEF C
    <3>1. QED
      BY <1>2, <1>3, <1>6, <2>3, LoneSurvivorBeatsRivals
  <2>5. QED
    BY <2>1, <2>4 DEF Outranks
<1>7. QED
  BY <1>5, <1>6

-----------------------------------------------------------------------------
(* The graph.                                                              *)

(***************************************************************************)
(* The inductive invariant: the graph is finite, its ids were handed out   *)
(* in order, and every edge it has collected is right.                     *)
(***************************************************************************)
GraphInv ==
    /\ TypeOK
    /\ IsFiniteSet(statutes)
    /\ \A s \in statutes : s.id < Cardinality(statutes)
    /\ IdsAreUnique(statutes)
    /\ EdgesFollowTheHierarchy

(***************************************************************************)
(* A new graph is empty.                                                   *)
(***************************************************************************)
LEMMA InitEstablishesGraphInv == Init => GraphInv
BY FS_EmptySet DEF Init, GraphInv, TypeOK, IdsAreUnique, EdgesFollowTheHierarchy

(***************************************************************************)
(* A new statute gets an id no other has, and no edge.                     *)
(***************************************************************************)
LEMMA AddStatutePreservesGraphInv ==
    ASSUME GraphInv, NEW tier \in Tiers, NEW scope \in SUBSET Entities,
           NEW date \in Dates \cup {Undated}, AddStatute(tier, scope, date)
    PROVE  GraphInv'
<1> DEFINE n == Cardinality(statutes)
           new == [id |-> n, tier |-> tier, scope |-> scope, date |-> date]
<1>1. n \in Nat
  BY FS_CardinalityType DEF GraphInv
<1>2. statutes' = statutes \cup {new} /\ preempts' = preempts
  BY DEF AddStatute
<1>3. new \in StatuteSet /\ new.id = n
  BY <1>1 DEF StatuteSet
<1> HIDE DEF new
<1>4. \A s \in statutes : s.id \in Nat /\ s.id < n
  BY DEF GraphInv, TypeOK, StatuteSet
<1>5. new \notin statutes
  BY <1>1, <1>3, <1>4
<1>6. IsFiniteSet(statutes') /\ Cardinality(statutes') = n + 1
  BY <1>2, <1>5, FS_AddElement DEF GraphInv
<1>7. TypeOK'
  BY <1>2, <1>3 DEF GraphInv, TypeOK
<1> HIDE DEF n
<1>8. \A s \in statutes' : s.id < Cardinality(statutes')
  BY <1>1, <1>2, <1>3, <1>4, <1>6
<1>9. IdsAreUnique(statutes')
  BY <1>1, <1>2, <1>3, <1>4 DEF GraphInv, IdsAreUnique
<1>10. EdgesFollowTheHierarchy'
  BY <1>2 DEF GraphInv, EdgesFollowTheHierarchy
<1>11. QED
  BY <1>6, <1>7, <1>8, <1>9, <1>10 DEF GraphInv

(***************************************************************************)
(* The statutes that apply to an entity are a conflict set like any other. *)
(***************************************************************************)
LEMMA ConflictSetFacts ==
    ASSUME GraphInv, NEW e \in Entities
    PROVE  LET S == StatutesFor(statutes, e)
           IN  S \subseteq StatuteSet /\ IsFiniteSet(S) /\ IdsAreUnique(S)
<1>1. StatutesFor(statutes, e) \in SUBSET statutes
  BY DEF StatutesFor
<1>2. QED
  BY <1>1, FS_Subset DEF GraphInv, TypeOK, IdsAreUnique

(***************************************************************************)
(* A resolution adds edges from what governs to what it preempts.          *)
(***************************************************************************)
LEMMA ResolvePreservesGraphInv ==
    ASSUME GraphInv, NEW e \in Entities, ResolvePreemption(e)
    PROVE  GraphInv'
<1> DEFINE S == StatutesFor(statutes, e)
<1>1. statutes' = statutes /\ preempts' = preempts \cup (Governing(S) \X Preempted(S))
  BY DEF ResolvePreemption
<1>2. S \subseteq statutes
  BY DEF StatutesFor
<1>3. Governing(S) \subseteq S /\ Preempted(S) \subseteq S
  BY DEF Governing, SameTierWinner, HighestAuthority, Preempted
<1>4. TypeOK'
  BY <1>1, <1>2, <1>3 DEF GraphInv, TypeOK
<1>5. \A w \in Governing(S), p \in Preempted(S) : Outranks(w, p)
  <2>1. S \subseteq StatuteSet /\ IsFiniteSet(S) /\ IdsAreUnique(S)
    BY ConflictSetFacts
  <2> HIDE DEF S
  <2>2. QED
    BY <2>1, GoverningOutranksPreempted
<1>6. EdgesFollowTheHierarchy'
  <2>1. SUFFICES ASSUME NEW edge \in preempts' PROVE Outranks(edge[1], edge[2])
    BY DEF EdgesFollowTheHierarchy
  <2>2. CASE edge \in preempts
    BY <2>2 DEF GraphInv, EdgesFollowTheHierarchy
  <2>3. CASE edge \in Governing(S) \X Preempted(S)
    BY <1>5, <2>3
  <2>4. QED
    BY <1>1, <2>2, <2>3
<1>7. QED
  BY <1>1, <1>4, <1>6 DEF GraphInv

(***************************************************************************)
(* The graph keeps its invariant for any number of statutes.               *)
(***************************************************************************)
THEOREM GraphInvariantHolds == Spec => []GraphInv
<1>1. GraphInv /\ [Next]_gvars => GraphInv'
  <2>1. SUFFICES ASSUME GraphInv, [Next]_gvars PROVE GraphInv'
    OBVIOUS
  <2>2. CASE Next
    BY <2>1, <2>2, AddStatutePreservesGraphInv, ResolvePreservesGraphInv DEF Next
  <2>3. CASE UNCHANGED gvars
    BY <2>1, <2>3
       DEF GraphInv, TypeOK, EdgesFollowTheHierarchy, gvars
  <2>4. QED
    BY <2>1, <2>2, <2>3
<1>2. QED
  BY <1>1, InitEstablishesGraphInv, PTL DEF Spec

(***************************************************************************)
(* TypeOK, in every state.                                                 *)
(***************************************************************************)
THEOREM GraphTypeCorrect == Spec => []TypeOK
<1>1. GraphInv => TypeOK
  BY DEF GraphInv
<1>2. QED
  BY <1>1, GraphInvariantHolds, PTL

(***************************************************************************)
(* No edge is ever out of step with the hierarchy.                         *)
(***************************************************************************)
THEOREM EdgesAreSound == Spec => []EdgesFollowTheHierarchy
<1>1. GraphInv => EdgesFollowTheHierarchy
  BY DEF GraphInv
<1>2. QED
  BY <1>1, GraphInvariantHolds, PTL

(***************************************************************************)
(* The edges of a graph, collected over its whole life, form no circle.    *)
(***************************************************************************)
THEOREM NoCircularPreemption == Spec => []PreemptionIsAcyclic
<1>1. GraphInv => PreemptionIsAcyclic
  <2>1. SUFFICES ASSUME GraphInv, NEW T \in SUBSET statutes, T # {}
                 PROVE  \E s \in T : \A other \in T : <<other, s>> \notin preempts
    BY DEF PreemptionIsAcyclic
  <2> DEFINE R == {pair \in T \X T : Outranks(pair[1], pair[2])}
  <2>2. T \subseteq StatuteSet /\ IsFiniteSet(T)
    BY <2>1, FS_Subset DEF GraphInv, TypeOK
  <2>3. \A x, y \in T : <<x, y>> \in R <=> Outranks(x, y)
    OBVIOUS
  <2> HIDE DEF R
  <2>4. \A x \in T : <<x, x>> \notin R
    BY <2>2, <2>3, OutranksIsIrreflexive
  <2>5. \A x, y, z \in T : <<x, y>> \in R /\ <<y, z>> \in R => <<x, z>> \in R
    <3>1. TAKE x, y, z \in T
    <3>2. HAVE <<x, y>> \in R /\ <<y, z>> \in R
    <3>3. x \in StatuteSet /\ y \in StatuteSet /\ z \in StatuteSet
      BY <2>2
    <3>4. Outranks(x, y) /\ Outranks(y, z)
      BY <2>3, <3>2
    <3>5. Outranks(x, z)
      BY <3>3, <3>4, OutranksIsTransitive
    <3>6. QED
      BY <2>3, <3>5
  <2>6. PICK m \in T : \A y \in T : <<y, m>> \notin R
    BY <2>1, <2>2, <2>4, <2>5, FiniteOrderHasMinimum
  <2>7. ASSUME NEW other \in T, <<other, m>> \in preempts PROVE FALSE
    <3>1. Outranks(other, m)
      BY <2>1, <2>7 DEF GraphInv, EdgesFollowTheHierarchy
    <3>2. QED
      BY <2>3, <2>6, <3>1
  <2>8. QED
    BY <2>7
<1>2. QED
  BY <1>1, GraphInvariantHolds, PTL

(***************************************************************************)
(* The branch of _resolve_same_tier for a survivor without a principle is  *)
(* dead code, for any number of candidates.                                *)
(***************************************************************************)
THEOREM SurvivorsHavePrinciples == Spec => []SurvivorBeatsEveryRival
<1>1. GraphInv => SurvivorBeatsEveryRival
  <2>1. SUFFICES ASSUME GraphInv, NEW e \in Entities,
                        NEW s \in HighestAuthority(StatutesFor(statutes, e)),
                        Undefeated(HighestAuthority(StatutesFor(statutes, e))) = {s},
                        NEW other \in HighestAuthority(StatutesFor(statutes, e)) \ {s}
                 PROVE  Defeats(s, other)
    BY DEF SurvivorBeatsEveryRival
  <2>2. HighestAuthority(StatutesFor(statutes, e)) \in SUBSET StatutesFor(statutes, e)
    BY DEF HighestAuthority
  <2>3. LET C == HighestAuthority(StatutesFor(statutes, e))
        IN  C \subseteq StatuteSet /\ IsFiniteSet(C) /\ IdsAreUnique(C)
    BY <2>1, <2>2, ConflictSetFacts, FS_Subset DEF IdsAreUnique
  <2>4. QED
    BY <2>1, <2>3, LoneSurvivorBeatsRivals
<1>2. QED
  BY <1>1, GraphInvariantHolds, PTL

(***************************************************************************)
(* What arrives below the level of a statute leaves its answers alone.     *)
(***************************************************************************)
THEOREM SuperiorLawIsUndisturbed == Spec => LowerTiersNeverDisturb
<1>1. ASSUME NEW S, S \subseteq StatuteSet, NEW N, N \subseteq StatuteSet,
             NEW s \in S, \A new \in N : s.tier < new.tier
      PROVE  HighestAuthority(S \cup N) = HighestAuthority(S)
  <2>1. \A x \in S \cup N : x.tier \in Nat
    BY <1>1, TiersAreNumbers
  <2>2. ASSUME NEW x \in HighestAuthority(S \cup N) PROVE x \in HighestAuthority(S)
    BY <1>1, <2>1, <2>2 DEF HighestAuthority
  <2>3. ASSUME NEW x \in HighestAuthority(S) PROVE x \in HighestAuthority(S \cup N)
    BY <1>1, <2>1, <2>3 DEF HighestAuthority
  <2>4. QED
    BY <2>2, <2>3
<1>2. ASSUME GraphInv, GraphInv', [Next]_gvars, NEW e \in Entities,
             NEW s \in statutes, e \in s.scope,
             \A new \in statutes' \ statutes : s.tier < new.tier
      PROVE  Governing(StatutesFor(statutes', e)) = Governing(StatutesFor(statutes, e))
  <2> DEFINE S == StatutesFor(statutes, e)
             N == StatutesFor(statutes', e) \ S
  <2>1. statutes \subseteq statutes'
    BY <1>2 DEF Next, AddStatute, ResolvePreemption, gvars
  <2>2. S \subseteq StatuteSet /\ N \subseteq StatuteSet /\ s \in S
    BY <1>2 DEF GraphInv, TypeOK, StatutesFor
  <2>3. N \subseteq statutes' \ statutes /\ StatutesFor(statutes', e) = S \cup N
    BY <2>1 DEF StatutesFor
  <2>4. \A new \in N : s.tier < new.tier
    BY <1>2, <2>3
  <2> HIDE DEF S, N
  <2>5. HighestAuthority(S \cup N) = HighestAuthority(S)
    BY <1>1, <2>2, <2>4
  <2>6. Governing(S \cup N) = Governing(S)
    BY <2>5 DEF Governing
  <2>7. QED
    BY <2>3, <2>6 DEF S
<1>3. GraphInv /\ GraphInv' /\ [Next]_gvars
      => [\A e \in Entities, s \in statutes :
             /\ e \in s.scope
             /\ \A new \in statutes' \ statutes : s.tier < new.tier
             => Governing(StatutesFor(statutes, e))' = Governing(StatutesFor(statutes, e))]_gvars
  BY <1>2
<1>4. QED
  BY <1>3, GraphInvariantHolds, PTL DEF Spec, LowerTiersNeverDisturb

-----------------------------------------------------------------------------
(* The doctrines, for every provision and every rule.                      *)

(* The preliminaries never answer with a status that only preemption has.  *)
LEMMA PrecheckAnswers ==
    ASSUME NEW o, NEW polity, NEW tier, NEW subjects
    PROVE  Precheck(o, polity, tier, subjects) \in
             {"proceed", "not_subordinate", "outside_jurisdiction", "not_in_scope"}
  BY DEF Precheck

(* Analyze with its date as a parameter: the preliminaries and the         *)
(* exemptions do not read it.                                              *)
LEMMA DateIsReadOnce ==
    ASSUME NEW o \in Obligations, NEW d \in Int \cup {None}, NEW rule \in PreemptionRule
    PROVE  Analyze(Dated(o, d), rule) =
             LET check == Precheck(o, rule.polity, rule.tier, rule.reserved) IN
             IF check # "proceed" THEN check
             ELSE IF IsExempt(o, rule) THEN "exempted"
             ELSE IF rule.cutoff = None THEN "preempted"
             ELSE IF d = None THEN "undetermined"
             ELSE IF d <= rule.cutoff THEN "grandfathered"
             ELSE "preempted"
  <1> DEFINE dated == Dated(o, d)
  <1>1. /\ dated.adopted = d
        /\ dated.path = o.path
        /\ dated.tier = o.tier
        /\ dated.subjects = o.subjects
    BY DEF Dated, Obligations
  <1>2. Precheck(dated, rule.polity, rule.tier, rule.reserved)
          = Precheck(o, rule.polity, rule.tier, rule.reserved)
    BY <1>1 DEF Precheck, JurisdictionName, IsWithin
  <1>3. IsExempt(dated, rule) <=> IsExempt(o, rule)
    BY <1>1 DEF IsExempt, AppliesTo
  <1> HIDE DEF dated
  <1>4. QED
    BY <1>1, <1>2, <1>3 DEF Analyze, dated

(* Earlier adoption never harms, and a provision of unknown date stands    *)
(* only where it would stand with any date (express_preemption.analyze).   *)
THEOREM DateIsMonotone ==
    ASSUME NEW o \in Obligations, NEW rule \in PreemptionRule,
           NEW early \in Int, NEW late \in Int
    PROVE  DateMonotone(o, rule, early, late)
  <1> DEFINE check == Precheck(o, rule.polity, rule.tier, rule.reserved)
  <1>1. rule.cutoff \in Int \cup {None}
    BY DEF PreemptionRule
  <1>2. early # None /\ late # None
    BY NoneIsNoNumber
  <1>3. check \in {"proceed", "not_subordinate", "outside_jurisdiction", "not_in_scope"}
    BY PrecheckAnswers
  <1> HIDE DEF check
  <1>4. \A d \in Int \cup {None} :
          Survives(Analyze(Dated(o, d), rule)) <=>
            \/ check # "proceed"
            \/ IsExempt(o, rule)
            \/ rule.cutoff # None /\ d # None /\ d <= rule.cutoff
    BY <1>3, DateIsReadOnce DEF Survives, check
  <1>5. CASE rule.cutoff = None
    BY <1>2, <1>4, <1>5 DEF DateMonotone
  <1>6. CASE rule.cutoff \in Int
    <2>1. early <= late /\ late <= rule.cutoff => early <= rule.cutoff
      BY <1>6
    <2>2. QED
      BY <1>2, <1>4, <1>6, <2>1 DEF DateMonotone
  <1>7. QED
    BY <1>1, <1>5, <1>6

(* An answer is left open exactly when the missing date decides it         *)
(* (express_preemption.analyze).                                           *)
THEOREM OpenMeansUndecidable ==
    ASSUME NEW o \in Obligations, NEW rule \in PreemptionRule
    PROVE  OpenMeansDateDecides(o, rule)
  <1> DEFINE check == Precheck(o, rule.polity, rule.tier, rule.reserved)
  <1>1. check \in {"proceed", "not_subordinate", "outside_jurisdiction", "not_in_scope"}
    BY PrecheckAnswers
  <1> HIDE DEF check
  <1>2. CASE rule.cutoff = None
    BY <1>1, <1>2, DateIsReadOnce DEF OpenMeansDateDecides, check
  <1>3. CASE rule.cutoff # None
    <2>1. /\ rule.cutoff \in Int
          /\ rule.cutoff + 1 \in Int
          /\ rule.cutoff + 1 # None
      BY <1>3, NoneIsNoNumber DEF PreemptionRule
    <2>2. ~(rule.cutoff + 1 <= rule.cutoff) /\ rule.cutoff <= rule.cutoff
      BY <2>1
    <2>3. Analyze(Dated(o, None), rule) = "undetermined"
            <=> check = "proceed" /\ ~IsExempt(o, rule)
      BY <1>1, <1>3, DateIsReadOnce DEF check
    <2>4. Survives(Analyze(Dated(o, rule.cutoff), rule))
      BY <1>1, <1>3, <2>1, <2>2, DateIsReadOnce DEF check, Survives
    <2>5. Survives(Analyze(Dated(o, rule.cutoff + 1), rule))
            <=> check # "proceed" \/ IsExempt(o, rule)
      BY <1>1, <1>3, <2>1, <2>2, DateIsReadOnce DEF check, Survives
    <2>6. QED
      BY <1>3, <2>3, <2>4, <2>5 DEF OpenMeansDateDecides
  <1>4. QED
    BY <1>2, <1>3

(* What analyze_floor leaves in force, if anything, is the more protective *)
(* of two standards in one unit.                                           *)
LEMMA FloorComparesLikeWithLike ==
    ASSUME NEW o \in Obligations, NEW rule \in FloorRule,
           AnalyzeFloor(o, rule).operative # None
    PROVE  /\ o.threshold # None
           /\ o.threshold.unit = rule.threshold.unit
           /\ Precheck(o, rule.polity, rule.tier, {rule.subject}) = "proceed"
           /\ AnalyzeFloor(o, rule).operative =
                IF Stricter(rule.stringency, o.threshold.value, rule.threshold.value)
                THEN o.threshold ELSE rule.threshold
  BY DEF AnalyzeFloor, Verdict, Stricter, Obligations, FloorRule, Threshold

(* A floor leaves the more protective of the two standards in force, and   *)
(* enacting that standard again changes nothing (floors.analyze_floor).    *)
THEOREM FloorLeavesTheStricter ==
    ASSUME NEW o \in Obligations, NEW rule \in FloorRule
    PROVE  FloorProtects(o, rule)
  <1> DEFINE left == AnalyzeFloor(o, rule).operative
             again == [o EXCEPT !.threshold = left]
  <1> SUFFICES ASSUME left # None
               PROVE  /\ left \in {o.threshold, rule.threshold}
                      /\ ~Stricter(rule.stringency, rule.threshold.value, left.value)
                      /\ ~Stricter(rule.stringency, o.threshold.value, left.value)
                      /\ AnalyzeFloor(again, rule).operative = left
    BY DEF FloorProtects
  <1>1. /\ o.threshold # None
        /\ o.threshold.unit = rule.threshold.unit
        /\ Precheck(o, rule.polity, rule.tier, {rule.subject}) = "proceed"
        /\ left = IF Stricter(rule.stringency, o.threshold.value, rule.threshold.value)
                  THEN o.threshold ELSE rule.threshold
    BY FloorComparesLikeWithLike
  <1>2. /\ o.threshold \in Threshold
        /\ rule.threshold \in Threshold
        /\ left \in Threshold
    BY <1>1 DEF Obligations, FloorRule
  <1>3. /\ left.unit = rule.threshold.unit
        /\ \/ left = rule.threshold
           \/ Stricter(rule.stringency, left.value, rule.threshold.value)
    BY <1>1
  <1>4. /\ ~Stricter(rule.stringency, rule.threshold.value, left.value)
        /\ ~Stricter(rule.stringency, o.threshold.value, left.value)
    BY <1>1, <1>2 DEF Stricter, Threshold
  <1>5. /\ again.threshold = left
        /\ again.path = o.path
        /\ again.tier = o.tier
        /\ again.subjects = o.subjects
    BY DEF Obligations
  <1> HIDE DEF left, again
  <1>6. Precheck(again, rule.polity, rule.tier, {rule.subject}) = "proceed"
    BY <1>1, <1>5 DEF Precheck, JurisdictionName, IsWithin
  <1>7. AnalyzeFloor(again, rule).operative = left
    <2>1. CASE left.value = rule.threshold.value
      <3>1. left = rule.threshold
        BY <2>1, <1>2, <1>3 DEF Threshold
      <3>2. QED
        BY <2>1, <3>1, <1>3, <1>5, <1>6 DEF AnalyzeFloor, Verdict
    <2>2. CASE left.value # rule.threshold.value
      BY <2>2, <1>3, <1>5, <1>6 DEF AnalyzeFloor, Verdict
    <2>3. QED
      BY <2>1, <2>2
  <1>8. QED
    BY <1>1, <1>4, <1>7

(* Every answer of express preemption has a rank, and the two ranks at the *)
(* top are the ones that leave a provision displaced or undecided.         *)
LEMMA StatusesAreRanked ==
    ASSUME NEW o, NEW rule
    PROVE  /\ Severity(Analyze(o, rule)) \in 1..7
           /\ Survives(Analyze(o, rule)) <=> Severity(Analyze(o, rule)) > 2
           /\ ~Engages(o, rule) => Survives(Analyze(o, rule))
  <1> DEFINE status == Analyze(o, rule)
  <1>1. status \in {"preempted", "undetermined", "exempted", "grandfathered",
                    "not_in_scope", "outside_jurisdiction", "not_subordinate"}
    BY PrecheckAnswers DEF Analyze
  <1> HIDE DEF status
  <1>2. /\ DOMAIN Ranking = 1..7
        /\ Ranking[1] = "preempted" /\ Ranking[2] = "undetermined"
        /\ Ranking[3] = "exempted" /\ Ranking[4] = "grandfathered"
        /\ Ranking[5] = "not_in_scope" /\ Ranking[6] = "outside_jurisdiction"
        /\ Ranking[7] = "not_subordinate"
    BY DEF Ranking
  <1>3. \E i \in DOMAIN Ranking : Ranking[i] = status
    BY <1>1, <1>2
  <1>4. Severity(status) \in DOMAIN Ranking /\ Ranking[Severity(status)] = status
    BY <1>3 DEF Severity
  <1>5. Severity(status) \in 1..7
    BY <1>2, <1>4
  <1>6. Survives(status) <=> Severity(status) > 2
    BY <1>2, <1>4, <1>5 DEF Survives
  <1>7. ~Engages(o, rule) => Survives(status)
    BY DEF Engages, Survives, status
  <1>8. QED
    BY <1>5, <1>6, <1>7 DEF status

(* The first finding of analyze_all speaks for all of them, whatever the   *)
(* number and the order of the rules.                                      *)
THEOREM TheHeadlineDecides ==
    ASSUME NEW o, NEW rules \in Seq(PreemptionRule)
    PROVE  HeadlineDecides(o, rules)
  <1> DEFINE engaged == {i \in DOMAIN rules : Engages(o, rules[i])}
             sev(i) == Severity(Analyze(o, rules[i]))
             before(i, j) == sev(i) < sev(j) \/ (sev(i) = sev(j) /\ i < j)
             found == AnalyzeAll(o, rules)
  <1>1. /\ engaged \in SUBSET (1..Len(rules))
        /\ Len(rules) \in Nat
    OBVIOUS
  <1>2. IsFiniteSet(engaged) /\ Cardinality(engaged) \in Nat
    <2>1. IsFiniteSet(1..Len(rules))
      BY <1>1, FS_Interval
    <2> HIDE DEF engaged
    <2>2. QED
      BY <1>1, <2>1, FS_Subset, FS_CardinalityType
  <1>3. \A i \in engaged : i \in Int
    BY <1>1
  <1>4. \A i : sev(i) \in 1..7
    BY StatusesAreRanked
  <1>5. found = [k \in 1..Cardinality(engaged) |->
                    CHOOSE i \in engaged : Cardinality({j \in engaged : before(j, i)}) = k - 1]
    BY DEF AnalyzeAll
  <1>6. \A i \in DOMAIN rules : i \notin engaged => Survives(Analyze(o, rules[i]))
    BY StatusesAreRanked
  <1>7. \A i : Survives(Analyze(o, rules[i])) <=> sev(i) > 2
    BY StatusesAreRanked
  <1>8. engaged \subseteq DOMAIN rules
    OBVIOUS
  <1> HIDE DEF engaged, sev, found
  <1>9. Len(found) = Cardinality(engaged)
    BY <1>2, <1>5
  <1>10. CASE engaged = {}
    <2>1. Len(found) = 0
      BY <1>2, <1>9, <1>10, FS_EmptySet
    <2>2. QED
      BY <1>6, <1>10, <2>1 DEF HeadlineDecides, found
  <1>11. CASE engaged # {}
    <2> DEFINE R == {pair \in engaged \X engaged : before(pair[1], pair[2])}
    <2>1. \A x, y \in engaged : <<x, y>> \in R <=> before(x, y)
      OBVIOUS
    <2> HIDE DEF R
    <2>2. \A x \in engaged : <<x, x>> \notin R
      BY <1>3, <1>4, <2>1
    <2>3. \A x, y, z \in engaged : <<x, y>> \in R /\ <<y, z>> \in R => <<x, z>> \in R
      BY <1>3, <1>4, <2>1
    <2>4. PICK m \in engaged : \A y \in engaged : <<y, m>> \notin R
      BY <1>2, <1>11, <2>2, <2>3, FiniteOrderHasMinimum
    <2> DEFINE ahead(i) == {j \in engaged : before(j, i)}
    <2>5. \A i \in engaged : Cardinality(ahead(i)) = 0 <=> ahead(i) = {}
      <3>1. \A i \in engaged : ahead(i) \in SUBSET engaged
        OBVIOUS
      <3> HIDE DEF ahead
      <3>2. QED
        BY <1>2, <3>1, FS_Subset, FS_EmptySet
    <2>6. ahead(m) = {}
      BY <2>1, <2>4
    <2>7. Cardinality(engaged) # 0
      BY <1>2, <1>11, FS_EmptySet
    <2>8. found[1] = CHOOSE i \in engaged : Cardinality(ahead(i)) = 0
      <3> DEFINE place(n) == CHOOSE i \in engaged : Cardinality(ahead(i)) = n
      <3>1. found = [k \in 1..Cardinality(engaged) |-> place(k - 1)]
        BY <1>5
      <3> HIDE DEF place
      <3>2. found[1] = place(0)
        BY <1>2, <2>7, <3>1
      <3>3. QED
        BY <3>2 DEF place
    <2> DEFINE first == CHOOSE i \in engaged : Cardinality(ahead(i)) = 0
    <2>9. first \in engaged /\ ahead(first) = {}
      <3>1. Cardinality(ahead(m)) = 0
        BY <2>5, <2>6
      <3> HIDE DEF ahead
      <3>2. first \in engaged /\ Cardinality(ahead(first)) = 0
        BY <3>1
      <3>3. QED
        BY <2>5, <3>2
    <2> HIDE DEF first
    <2>10. \A j \in engaged : ~before(j, first)
      BY <2>9
    <2>11. \A j \in engaged : sev(first) <= sev(j)
      BY <1>4, <2>10
    <2>12. sev(first) > 2 <=> \A i \in engaged : sev(i) > 2
      BY <1>4, <2>9, <2>11
    <2>13. sev(first) > 2 <=> \A i \in DOMAIN rules : Survives(Analyze(o, rules[i]))
      BY <1>6, <1>7, <1>8, <2>12
    <2>14. found[1] = first
      BY <2>8 DEF first
    <2>15. QED
      BY <1>7, <1>9, <2>7, <2>13, <2>14 DEF HeadlineDecides, found
  <1>12. QED
    BY <1>10, <1>11

-----------------------------------------------------------------------------
(* System E, for every preference model.                                   *)

(* Worlds carry sets of atoms, so negation is complement and conjunction   *)
(* is intersection of extensions.                                          *)
LEMMA Connectives ==
    ASSUME NEW m \in Draft, IsModel(m), NEW f \in Formula, NEW g \in Formula
    PROVE  /\ Not(f) \in Formula
           /\ Extension(m, Not(f)) = m.worlds \ Extension(m, f)
           /\ And(f, g) \in Formula
           /\ Extension(m, And(f, g)) = Extension(m, f) \cap Extension(m, g)
  <1>1. \A w \in m.worlds : m.valuation[w] \in Points
    BY DEF Draft, Assignments, IsModel
  <1>2. QED
    BY <1>1 DEF Not, And, Formula, Extension

(* Best worlds are worlds of the model where the condition holds.          *)
LEMMA OptimalIsInside ==
    ASSUME NEW m, NEW f
    PROVE  Optimal(m, f) \subseteq Extension(m, f) /\ Extension(m, f) \subseteq m.worlds
  BY DEF Optimal, Extension

(* Disjoint tiers make a model that passes every check of the constructor, *)
(* and one world is at least as good as another exactly when its tier      *)
(* comes no later (from_ranking).                                          *)
THEOREM RankingIsAModel ==
    ASSUME NEW tiers \in Seq(SUBSET Worlds),
           UNION {tiers[i] : i \in DOMAIN tiers} # {},
           \A i, j \in DOMAIN tiers : i # j => tiers[i] \cap tiers[j] = {},
           NEW valuation \in [UNION {tiers[i] : i \in DOMAIN tiers} -> Points]
    PROVE  LET m == FromRanking(tiers, valuation) IN
           /\ IsModel(m)
           /\ \A i, j \in DOMAIN tiers : \A v \in tiers[i], w \in tiers[j] :
                 <<v, w>> \in m.betterness <=> i <= j
  <1> DEFINE ranked == UNION {tiers[i] : i \in DOMAIN tiers}
             rank == [w \in ranked |-> CHOOSE i \in DOMAIN tiers : w \in tiers[i]]
             pairs == {p \in ranked \X ranked : rank[p[1]] <= rank[p[2]]}
             draft == [worlds |-> ranked, betterness |-> pairs, valuation |-> valuation]
  <1>1. DOMAIN tiers \subseteq Int
    OBVIOUS
  <1>2. \A w \in ranked : rank[w] \in DOMAIN tiers /\ w \in tiers[rank[w]]
    OBVIOUS
  <1>3. \A w \in ranked : rank[w] \in Int
    BY <1>1, <1>2
  <1>4. \A w \in ranked, i \in DOMAIN tiers : w \in tiers[i] => rank[w] = i
    BY <1>2
  <1> HIDE DEF rank
  <1>5. \A v, w \in ranked : <<v, w>> \in pairs <=> rank[v] <= rank[w]
    OBVIOUS
  <1>6. /\ draft.worlds = ranked
        /\ draft.betterness = pairs
        /\ draft.valuation = valuation
    OBVIOUS
  <1>7. FromRanking(tiers, valuation) = Model(draft)
    BY DEF FromRanking, rank
  <1>8. pairs \subseteq ranked \X ranked /\ DOMAIN valuation = ranked
    OBVIOUS
  <1> HIDE DEF ranked, pairs, draft
  <1>9. Reflexive(draft)
    BY <1>3, <1>5, <1>6 DEF Reflexive
  <1>10. Total(draft)
    <2>1. \A v, w \in ranked : rank[v] <= rank[w] \/ rank[w] <= rank[v]
      BY <1>3
    <2>2. QED
      BY <2>1, <1>5, <1>6 DEF Total
  <1>11. Transitive(draft)
    BY <1>3, <1>5, <1>6 DEF Transitive
  <1>12. ranked # {}
    BY DEF ranked
  <1>13. IsModel(draft)
    BY <1>6, <1>8, <1>9, <1>10, <1>11, <1>12 DEF IsModel
  <1>14. \A i, j \in DOMAIN tiers : \A v \in tiers[i], w \in tiers[j] :
            <<v, w>> \in pairs <=> i <= j
    <2>1. \A i \in DOMAIN tiers : tiers[i] \subseteq ranked
      BY DEF ranked
    <2>2. SUFFICES ASSUME NEW i \in DOMAIN tiers, NEW j \in DOMAIN tiers,
                          NEW v \in tiers[i], NEW w \in tiers[j]
                   PROVE  <<v, w>> \in pairs <=> i <= j
      OBVIOUS
    <2>3. rank[v] = i /\ rank[w] = j /\ v \in ranked /\ w \in ranked
      BY <1>4, <2>1
    <2>4. QED
      BY <1>5, <2>3
  <1>15. QED
    BY <1>6, <1>7, <1>13, <1>14 DEF Model

(* A verdict says what the operators say, and its two failure flags never  *)
(* come together (Verdict).                                                *)
THEOREM VerdictsAreClear ==
    ASSUME NEW m \in Draft, IsModel(m), NEW psi \in Formula, NEW phi \in Formula
    PROVE  VerdictIsClear(m, psi, phi)
  <1> SUFFICES ASSUME Known(m, psi, phi)
               PROVE  VerdictIsClear(m, psi, phi)
    BY DEF VerdictIsClear
  <1> DEFINE best == Optimal(m, phi)
  <1>1. best \subseteq m.worlds
    BY OptimalIsInside
  <1>2. Obligation(m, psi, phi) <=> \A w \in best : m.valuation[w] \in psi.holds
    BY <1>1 DEF Obligation, Extension
  <1>3. Prohibition(m, psi, phi) <=> \A w \in best : m.valuation[w] \notin psi.holds
    BY <1>1, Connectives DEF Prohibition, Obligation, Extension
  <1>4. Permission(m, psi, phi) <=> ~Prohibition(m, psi, phi)
    BY DEF Permission, Prohibition
  <1> HIDE DEF best
  <1>5. QED
    BY <1>2, <1>3, <1>4 DEF VerdictIsClear, Evaluate, best

(* Learning a permitted fact never ends a duty (rational monotony): the    *)
(* secondary norms of a contrary-to-duty set apply without disturbing the  *)
(* primary ones.                                                           *)
THEOREM DutiesSurvive ==
    ASSUME NEW m \in Draft, IsModel(m), NEW psi \in Formula, NEW phi \in Formula,
           NEW fact \in Formula
    PROVE  DutiesSurvivePermittedFacts(m, psi, phi, fact)
  <1>1. Extension(m, And(phi, fact)) = Extension(m, phi) \cap Extension(m, fact)
    BY Connectives
  <1>2. Extension(m, Not(fact)) = m.worlds \ Extension(m, fact)
    BY Connectives
  <1>3. ASSUME Permission(m, fact, phi)
        PROVE  Optimal(m, And(phi, fact)) = Optimal(m, phi) \cap Extension(m, fact)
    <2>1. PICK best \in Optimal(m, phi) : best \in Extension(m, fact)
      BY <1>2, <1>3, OptimalIsInside DEF Permission, Obligation
    <2>2. \A v \in Extension(m, phi) : <<best, v>> \in m.betterness
      BY <2>1 DEF Optimal
    <2>3. \A w \in Optimal(m, And(phi, fact)) : <<w, best>> \in m.betterness
      BY <1>1, <2>1, OptimalIsInside DEF Optimal
    <2>4. \A w \in Optimal(m, And(phi, fact)), v \in Extension(m, phi) :
             <<w, v>> \in m.betterness
      BY <1>1, <2>1, <2>2, <2>3, OptimalIsInside DEF IsModel, Transitive
    <2>5. QED
      BY <1>1, <2>4, OptimalIsInside DEF Optimal
  <1>4. QED
    BY <1>3 DEF DutiesSurvivePermittedFacts, Obligation

\* The worlds that strictly beat one.
Betters(m, w) == {v \in m.worlds : <<w, v>> \notin m.betterness}

(* A world is at least as good as another exactly when no more worlds beat *)
(* it.                                                                     *)
LEMMA BetterIsFewerAbove ==
    ASSUME NEW m \in Draft, IsModel(m), NEW w \in m.worlds, NEW v \in m.worlds
    PROVE  /\ Cardinality(Betters(m, w)) \in 0..Cardinality(m.worlds) - 1
           /\ <<w, v>> \in m.betterness
                <=> Cardinality(Betters(m, w)) <= Cardinality(Betters(m, v))
  <1> DEFINE better(a, b) == <<a, b>> \in m.betterness
  <1>1. m.worlds \in SUBSET Worlds /\ IsFiniteSet(m.worlds)
    BY WorldsAreFinite, FS_Subset DEF Draft
  <1>2. /\ \A a \in m.worlds : better(a, a)
        /\ \A a, b \in m.worlds : better(a, b) \/ better(b, a)
        /\ \A a, b, c \in m.worlds : better(a, b) /\ better(b, c) => better(a, c)
    BY DEF IsModel, Reflexive, Total, Transitive
  <1>3. \A a : Betters(m, a) \in SUBSET m.worlds
    BY DEF Betters
  <1>4. \A a, b \in m.worlds : b \in Betters(m, a) <=> ~better(a, b)
    BY DEF Betters
  <1> HIDE DEF better
  <1>5. \A a : IsFiniteSet(Betters(m, a)) /\ Cardinality(Betters(m, a)) \in Nat
    BY <1>1, <1>3, FS_Subset, FS_CardinalityType
  <1>6. ASSUME better(w, v)
        PROVE  Cardinality(Betters(m, w)) <= Cardinality(Betters(m, v))
    <2>1. Betters(m, w) \in SUBSET Betters(m, v)
      BY <1>2, <1>3, <1>4, <1>6
    <2>2. QED
      BY <1>5, <2>1, FS_Subset
  <1>7. ASSUME ~better(w, v)
        PROVE  ~(Cardinality(Betters(m, w)) <= Cardinality(Betters(m, v)))
    <2>1. better(v, w)
      BY <1>2, <1>7
    <2>2. Betters(m, v) \in SUBSET Betters(m, w)
      BY <1>2, <1>3, <1>4, <2>1
    <2>3. v \in Betters(m, w) /\ v \notin Betters(m, v)
      BY <1>2, <1>4, <1>7
    <2>4. /\ Cardinality(Betters(m, v)) <= Cardinality(Betters(m, w))
          /\ Cardinality(Betters(m, v)) # Cardinality(Betters(m, w))
      BY <1>5, <2>2, <2>3, FS_Subset
    <2>5. /\ Cardinality(Betters(m, v)) \in Nat
          /\ Cardinality(Betters(m, w)) \in Nat
      BY <1>5
    <2>6. QED
      BY <2>4, <2>5
  <1>8. Cardinality(Betters(m, w)) \in 0..Cardinality(m.worlds) - 1
    <2>1. w \notin Betters(m, w)
      BY <1>2, <1>4
    <2>2. /\ Cardinality(Betters(m, w)) <= Cardinality(m.worlds)
          /\ Cardinality(Betters(m, w)) # Cardinality(m.worlds)
      BY <1>1, <1>3, <2>1, FS_Subset
    <2>3. Cardinality(m.worlds) \in Nat
      BY <1>1, FS_CardinalityType
    <2>4. QED
      BY <1>5, <2>2, <2>3
  <1>9. QED
    BY <1>6, <1>7, <1>8 DEF better

(* The explicit constructor admits exactly the rankings (__post_init__).   *)
THEOREM ModelsAreTheRankings ==
    ASSUME NEW m \in Draft
    PROVE  IsModel(m) <=> IsRanked(m)
  <1>1. ASSUME IsModel(m) PROVE IsRanked(m)
    <2> DEFINE rank == [w \in m.worlds |-> Cardinality(Betters(m, w)) + 1]
    <2>1. IsFiniteSet(m.worlds) /\ Cardinality(m.worlds) \in Nat
      <3>1. m.worlds \in SUBSET Worlds
        BY DEF Draft
      <3>2. QED
        BY <3>1, WorldsAreFinite, FS_Subset, FS_CardinalityType
    <2>2. ASSUME NEW w \in m.worlds
          PROVE  Cardinality(Betters(m, w)) \in 0..Cardinality(m.worlds) - 1
      BY <1>1, BetterIsFewerAbove
    <2>3. rank \in [m.worlds -> 1..Cardinality(m.worlds)]
      <3>1. ASSUME NEW w \in m.worlds
            PROVE  Cardinality(Betters(m, w)) + 1 \in 1..Cardinality(m.worlds)
        BY <2>1, <2>2
      <3>2. QED
        BY <3>1
    <2>4. ASSUME NEW w \in m.worlds, NEW v \in m.worlds
          PROVE  <<w, v>> \in m.betterness <=> rank[w] <= rank[v]
      <3>1. <<w, v>> \in m.betterness
              <=> Cardinality(Betters(m, w)) <= Cardinality(Betters(m, v))
        BY <1>1, BetterIsFewerAbove
      <3>2. Cardinality(Betters(m, w)) \in Int /\ Cardinality(Betters(m, v)) \in Int
        BY <2>2
      <3>3. rank[w] = Cardinality(Betters(m, w)) + 1 /\ rank[v] = Cardinality(Betters(m, v)) + 1
        OBVIOUS
      <3> HIDE DEF rank
      <3>4. QED
        BY <3>1, <3>2, <3>3
    <2> HIDE DEF rank
    <2>5. /\ m.worlds # {} /\ DOMAIN m.valuation = m.worlds
          /\ m.betterness \subseteq m.worlds \X m.worlds
      BY <1>1 DEF IsModel
    <2>6. m.betterness = {p \in m.worlds \X m.worlds : rank[p[1]] <= rank[p[2]]}
      BY <2>4, <2>5
    <2>7. QED
      BY <2>3, <2>5, <2>6 DEF IsRanked
  <1>2. ASSUME IsRanked(m) PROVE IsModel(m)
    <2>1. PICK rank \in [m.worlds -> 1..Cardinality(m.worlds)] :
             m.betterness = {p \in m.worlds \X m.worlds : rank[p[1]] <= rank[p[2]]}
      BY <1>2 DEF IsRanked
    <2>2. \A w \in m.worlds : rank[w] \in Int
      OBVIOUS
    <2>3. \A v, w \in m.worlds : <<v, w>> \in m.betterness <=> rank[v] <= rank[w]
      BY <2>1
    <2>4. Reflexive(m)
      BY <2>2, <2>3 DEF Reflexive
    <2>5. Total(m)
      <3>1. \A v, w \in m.worlds : rank[v] <= rank[w] \/ rank[w] <= rank[v]
        BY <2>2
      <3>2. QED
        BY <2>3, <3>1 DEF Total
    <2>6. Transitive(m)
      BY <2>2, <2>3 DEF Transitive
    <2>7. m.betterness \subseteq m.worlds \X m.worlds
      BY <2>1
    <2>8. QED
      BY <1>2, <2>4, <2>5, <2>6, <2>7 DEF IsModel, IsRanked
  <1>3. QED
    BY <1>1, <1>2

(* What evaluate answers of known atoms is a verdict.                      *)
LEMMA AnswersAreVerdicts ==
    ASSUME NEW m \in Draft, NEW psi, NEW phi
    PROVE  Evaluate(m, psi, phi) # Rejected <=> Known(m, psi, phi)
  <1>1. Optimal(m, phi) \in SUBSET Worlds
    <2>1. m.worlds \in SUBSET Worlds
      BY DEF Draft
    <2>2. QED
      BY <2>1, OptimalIsInside
  <1>2. ASSUME Known(m, psi, phi) PROVE Evaluate(m, psi, phi) \in Verdicts
    BY <1>1, <1>2 DEF Evaluate, Verdicts
  <1>3. QED
    BY <1>2, RejectedIsNoVerdict DEF Evaluate

(* Limitedness: in a finite model the best worlds are the ones that the    *)
(* fewest worlds strictly beat, and there is one wherever the condition    *)
(* holds (the module docstring of system_e.py).                            *)
THEOREM TheBestAreFewestAbove ==
    ASSUME NEW m \in Draft, IsModel(m), NEW phi
    PROVE  BestIsFewestAbove(m, phi)
  <1> DEFINE beaters(w) == {v \in m.worlds : <<w, v>> \notin m.betterness}
             where == Extension(m, phi)
             better(v, w) == <<v, w>> \in m.betterness
  <1>1. m.worlds \in SUBSET Worlds /\ IsFiniteSet(m.worlds)
    BY WorldsAreFinite, FS_Subset DEF Draft
  <1>2. /\ \A w \in m.worlds : better(w, w)
        /\ \A v, w \in m.worlds : better(v, w) \/ better(w, v)
        /\ \A u, v, w \in m.worlds : better(u, v) /\ better(v, w) => better(u, w)
    BY DEF IsModel, Reflexive, Total, Transitive
  <1>3. where \in SUBSET m.worlds
    BY DEF Extension
  <1>6. Optimal(m, phi) = {w \in where : \A v \in where : better(w, v)}
    BY DEF Optimal
  <1>7. BestIsFewestAbove(m, phi) <=>
          /\ Optimal(m, phi) = {w \in where : \A v \in where :
                                   Cardinality(beaters(w)) <= Cardinality(beaters(v))}
          /\ where # {} => Optimal(m, phi) # {}
    BY DEF BestIsFewestAbove
  <1> HIDE DEF beaters, where, better
  <1>9. ASSUME NEW w \in m.worlds, NEW v \in m.worlds
        PROVE  better(w, v) <=> Cardinality(beaters(w)) <= Cardinality(beaters(v))
    BY BetterIsFewerAbove DEF Betters, beaters, better
  <1>10. Optimal(m, phi) = {w \in where : \A v \in where :
                               Cardinality(beaters(w)) <= Cardinality(beaters(v))}
    BY <1>3, <1>6, <1>9
  <1>11. ASSUME where # {} PROVE Optimal(m, phi) # {}
    <2> DEFINE R == {pair \in where \X where : ~better(pair[2], pair[1])}
    <2>1. \A x, y \in where : <<x, y>> \in R <=> ~better(y, x)
      OBVIOUS
    <2> HIDE DEF R
    <2>2. IsFiniteSet(where)
      BY <1>1, <1>3, FS_Subset
    <2>3. \A x \in where : <<x, x>> \notin R
      BY <1>2, <1>3, <2>1
    <2>4. \A x, y, z \in where : <<x, y>> \in R /\ <<y, z>> \in R => <<x, z>> \in R
      <3>1. TAKE x, y, z \in where
      <3>2. HAVE <<x, y>> \in R /\ <<y, z>> \in R
      <3>3. x \in m.worlds /\ y \in m.worlds /\ z \in m.worlds
        BY <1>3
      <3>4. better(x, y) /\ ~better(y, x) /\ ~better(z, y)
        BY <1>2, <2>1, <3>2, <3>3
      <3>5. ~better(z, x)
        BY <1>2, <3>3, <3>4
      <3>6. QED
        BY <2>1, <3>5
    <2>5. PICK w \in where : \A y \in where : <<y, w>> \notin R
      BY <1>11, <2>2, <2>3, <2>4, FiniteOrderHasMinimum
    <2>6. w \in Optimal(m, phi)
      BY <1>6, <2>1, <2>5
    <2>7. QED
      BY <2>6
  <1>12. QED
    BY <1>7, <1>10, <1>11

-----------------------------------------------------------------------------
(* Recursion over a sequence, by its prefixes.                             *)

(* A set of numbers that is not empty has a least one.                     *)
LEMMA LeastElement ==
    ASSUME NEW T, T \subseteq Nat, T # {}
    PROVE  \E m \in T : \A k \in T : m <= k
  <1>1. PICK m \in T : \A k \in T : <<k, m>> \notin OpToRel(<, Nat)
    BY NatLessThanWellFounded, WFMin
  <1>2. \A k \in T : ~ (k < m)
    BY <1>1 DEF OpToRel
  <1>3. QED
    BY <1>2

(* What holds of the empty prefix and goes from each to the next holds of all. *)
LEMMA EveryPrefix ==
    ASSUME NEW N \in Nat, NEW T, 0 \in T, \A n \in 1..N : n - 1 \in T => n \in T
    PROVE  0..N \subseteq T
  <1> DEFINE bad == (0..N) \ T
  <1> SUFFICES ASSUME bad # {} PROVE FALSE
    OBVIOUS
  <1>1. PICK m \in bad : \A k \in bad : m <= k
    <2>1. bad \subseteq Nat
      OBVIOUS
    <2> HIDE DEF bad
    <2>2. QED
      BY <2>1, LeastElement
  <1>2. m \in 1..N /\ m - 1 \in 0..N
    BY <1>1
  <1>3. m - 1 \in T
    BY <1>1, <1>2
  <1>4. QED
    BY <1>1, <1>2, <1>3

IsRecursion(f, N, S, start, next) ==
    /\ f \in [0..N -> S]
    /\ \A n \in 0..N : f[n] = IF n = 0 THEN start ELSE next[n][f[n - 1]]

(* A value for the empty prefix and a step from each prefix to the next    *)
(* define a function on all the prefixes.                                  *)
LEMMA RecursionIsDefined ==
    ASSUME NEW S, NEW N \in Nat, NEW start \in S, NEW next \in [1..N -> [S -> S]]
    PROVE  \E f : IsRecursion(f, N, S, start, next)
  <1> DEFINE Good(f, k) == \A n \in 0..k : f[n] = IF n = 0 THEN start ELSE next[n][f[n - 1]]
             T == {k \in 0..N : \E f \in [0..N -> S] : Good(f, k)}
  <1>1. 0 \in T
    <2> DEFINE f == [n \in 0..N |-> start]
    <2>1. f \in [0..N -> S] /\ Good(f, 0)
      OBVIOUS
    <2>2. 0 \in 0..N
      OBVIOUS
    <2> HIDE DEF f
    <2>3. QED
      BY <2>1, <2>2
  <1>2. ASSUME NEW k \in 1..N, k - 1 \in T PROVE k \in T
    <2>1. PICK f \in [0..N -> S] : Good(f, k - 1)
      BY <1>2
    <2> DEFINE g == [f EXCEPT ![k] = next[k][f[k - 1]]]
    <2>2. k - 1 \in 0..N /\ k \in 0..N /\ k # 0
      OBVIOUS
    <2>3. g \in [0..N -> S]
      BY <2>2
    <2>4. Good(g, k)
      <3> SUFFICES ASSUME NEW n \in 0..k
                   PROVE  g[n] = IF n = 0 THEN start ELSE next[n][g[n - 1]]
        OBVIOUS
      <3>1. CASE n = k
        <4>1. k - 1 # k /\ k - 1 \in DOMAIN f /\ k \in DOMAIN f
          BY <2>2
        <4>2. g[k - 1] = f[k - 1] /\ g[k] = next[k][f[k - 1]]
          BY <4>1
        <4>3. QED
          BY <2>2, <3>1, <4>2
      <3>2. CASE n # k
        <4>1. n \in 0..(k - 1) /\ n \in 0..N /\ (n # 0 => n - 1 \in 0..N /\ n - 1 # k)
          BY <3>2
        <4>2. g[n] = f[n] /\ (n # 0 => g[n - 1] = f[n - 1])
          BY <3>2, <4>1
        <4>3. QED
          BY <2>1, <4>1, <4>2
      <3>3. QED
        BY <3>1, <3>2
    <2>5. QED
      BY <2>2, <2>3, <2>4
  <1>3. N \in T
    <2> HIDE DEF T
    <2>1. 0..N \subseteq T
      BY <1>1, <1>2, EveryPrefix
    <2>2. QED
      BY <2>1
  <1>4. PICK f \in [0..N -> S] : Good(f, N)
    BY <1>3
  <1>5. QED
    BY <1>4 DEF IsRecursion

(* A function that stays in S from each prefix to the next is one into S.  *)
LEMMA RecursionStays ==
    ASSUME NEW S, NEW N \in Nat, NEW f, f[0] \in S, f = [n \in 0..N |-> f[n]],
           \A n \in 1..N : f[n - 1] \in S => f[n] \in S
    PROVE  f \in [0..N -> S]
  <1> DEFINE T == {n \in 0..N : f[n] \in S}
  <1>1. 0 \in T
    OBVIOUS
  <1>2. \A n \in 1..N : n - 1 \in T => n \in T
    OBVIOUS
  <1>3. 0..N \subseteq T
    <2> HIDE DEF T
    <2>1. QED
      BY <1>1, <1>2, EveryPrefix
  <1>4. QED
    BY <1>3

-----------------------------------------------------------------------------
(* What a backend is believed about (Extraction).                          *)

(* OfKind keeps, in order, the outcomes of a kind.                         *)
KeptUpTo(kept, outcomes, kind) ==
    kept = [n \in 0..Len(outcomes) |->
              IF n = 0 THEN <<>>
              ELSE IF outcomes[n].kind = kind THEN Append(kept[n - 1], outcomes[n])
              ELSE kept[n - 1]]

Kept(outcomes, kind) == CHOOSE kept : KeptUpTo(kept, outcomes, kind)

KeptOf(S, outcomes, kind, kept) ==
    /\ kept \in [0..Len(outcomes) -> Seq(S)]
    /\ OfKind(outcomes, kind) = kept[Len(outcomes)]
    /\ kept[0] = <<>>
    /\ \A n \in 1..Len(outcomes) :
         kept[n] = IF outcomes[n].kind = kind THEN Append(kept[n - 1], outcomes[n])
                   ELSE kept[n - 1]

(* The recursion of OfKind is that of a function, and OfKind is its last   *)
(* value.                                                                  *)
LEMMA KeptIsDefined ==
    ASSUME NEW S, NEW outcomes \in Seq(S), NEW kind
    PROVE  \E kept : KeptOf(S, outcomes, kind, kept)
  <1> DEFINE next == [n \in 1..Len(outcomes) |-> [kept \in Seq(S) |->
                        IF outcomes[n].kind = kind THEN Append(kept, outcomes[n]) ELSE kept]]
  <1>1. next \in [1..Len(outcomes) -> [Seq(S) -> Seq(S)]]
    OBVIOUS
  <1>2. Len(outcomes) \in Nat /\ <<>> \in Seq(S)
    OBVIOUS
  <1>3. PICK f : IsRecursion(f, Len(outcomes), Seq(S), <<>>, next)
    <2> HIDE DEF next
    <2>1. QED
      BY <1>1, <1>2, RecursionIsDefined
  <1>4. \A n \in 1..Len(outcomes) : f[n - 1] \in Seq(S)
    BY <1>3 DEF IsRecursion
  <1>5. KeptUpTo(f, outcomes, kind)
    <2>1. ASSUME NEW n \in 0..Len(outcomes)
          PROVE  f[n] = IF n = 0 THEN <<>>
                        ELSE IF outcomes[n].kind = kind THEN Append(f[n - 1], outcomes[n])
                        ELSE f[n - 1]
      <3>1. CASE n = 0
        BY <1>3, <3>1 DEF IsRecursion
      <3>2. CASE n # 0
        <4>1. n \in 1..Len(outcomes)
          BY <3>2
        <4>2. f[n] = next[n][f[n - 1]]
          BY <1>3, <3>2 DEF IsRecursion
        <4>3. QED
          BY <1>4, <3>2, <4>1, <4>2
      <3>3. QED
        BY <3>1, <3>2
    <2>2. QED
      BY <1>3, <2>1 DEF KeptUpTo, IsRecursion
  <1>6. KeptUpTo(Kept(outcomes, kind), outcomes, kind)
    BY <1>5 DEF Kept
  <1>7. ASSUME NEW g, KeptUpTo(g, outcomes, kind) PROVE g \in [0..Len(outcomes) -> Seq(S)]
    <2>1. /\ g = [n \in 0..Len(outcomes) |-> g[n]]
          /\ \A n \in 0..Len(outcomes) :
               g[n] = IF n = 0 THEN <<>>
                      ELSE IF outcomes[n].kind = kind THEN Append(g[n - 1], outcomes[n])
                      ELSE g[n - 1]
      BY <1>7 DEF KeptUpTo
    <2>2. g[0] \in Seq(S)
      <3>1. 0 \in 0..Len(outcomes)
        OBVIOUS
      <3>2. g[0] = <<>>
        BY <2>1, <3>1
      <3>3. QED
        BY <3>2
    <2>3. ASSUME NEW n \in 1..Len(outcomes), g[n - 1] \in Seq(S) PROVE g[n] \in Seq(S)
      <3>1. n \in 0..Len(outcomes) /\ n # 0 /\ outcomes[n] \in S
        OBVIOUS
      <3>2. g[n] = IF outcomes[n].kind = kind THEN Append(g[n - 1], outcomes[n])
                   ELSE g[n - 1]
        BY <2>1, <3>1
      <3>3. QED
        BY <2>3, <3>1, <3>2
    <2>4. QED
      BY <1>2, <2>1, <2>2, <2>3, RecursionStays
  <1>8. OfKind(outcomes, kind) = Kept(outcomes, kind)[Len(outcomes)]
    BY DEF OfKind, Kept, KeptUpTo
  <1> DEFINE kept == Kept(outcomes, kind)
  <1>9. \A n \in 0..Len(outcomes) :
           kept[n] = IF n = 0 THEN <<>>
                     ELSE IF outcomes[n].kind = kind THEN Append(kept[n - 1], outcomes[n])
                     ELSE kept[n - 1]
    BY <1>6 DEF KeptUpTo
  <1>10. kept \in [0..Len(outcomes) -> Seq(S)]
    BY <1>6, <1>7
  <1> HIDE DEF kept
  <1>11. kept[0] = <<>>
    BY <1>2, <1>9
  <1>12. \A n \in 1..Len(outcomes) :
            kept[n] = IF outcomes[n].kind = kind THEN Append(kept[n - 1], outcomes[n])
                      ELSE kept[n - 1]
    BY <1>9
  <1>13. QED
    BY <1>8, <1>10, <1>11, <1>12 DEF kept, KeptOf

(* What is kept is of the kind and is one of the outcomes.                 *)
ChosenFrom(s, outcomes, kind) ==
    \A k \in DOMAIN s : \E i \in DOMAIN outcomes :
        s[k] = outcomes[i] /\ outcomes[i].kind = kind

(* What OfKind returns is of the kind and is one of the outcomes.          *)
LEMMA KeptIsOfTheKind ==
    ASSUME NEW S, NEW outcomes \in Seq(S), NEW kind
    PROVE  ChosenFrom(OfKind(outcomes, kind), outcomes, kind)
  <1>1. PICK kept : KeptOf(S, outcomes, kind, kept)
    BY KeptIsDefined
  <1> DEFINE T == {n \in 0..Len(outcomes) : ChosenFrom(kept[n], outcomes, kind)}
  <1>2. Len(outcomes) \in Nat
    OBVIOUS
  <1>3. 0 \in T
    <2>1. ChosenFrom(kept[0], outcomes, kind) /\ 0 \in 0..Len(outcomes)
      BY <1>1, <1>2 DEF KeptOf, ChosenFrom
    <2>2. QED
      BY <2>1
  <1>4. ASSUME NEW n \in 1..Len(outcomes), n - 1 \in T PROVE n \in T
    <2>1. n \in 0..Len(outcomes) /\ n # 0 /\ n \in DOMAIN outcomes
      OBVIOUS
    <2>2. kept[n - 1] \in Seq(S) /\ ChosenFrom(kept[n - 1], outcomes, kind)
      BY <1>1, <1>4 DEF KeptOf
    <2>3. outcomes[n].kind = kind => ChosenFrom(Append(kept[n - 1], outcomes[n]), outcomes, kind)
      BY <2>1, <2>2 DEF ChosenFrom
    <2>4. kept[n] = IF outcomes[n].kind = kind THEN Append(kept[n - 1], outcomes[n])
                    ELSE kept[n - 1]
      BY <1>1 DEF KeptOf
    <2>5. QED
      BY <2>1, <2>2, <2>3, <2>4
  <1>5. Len(outcomes) \in T
    <2> HIDE DEF T
    <2>1. 0..Len(outcomes) \subseteq T
      BY <1>2, <1>3, <1>4, EveryPrefix
    <2>2. QED
      BY <1>2, <2>1
  <1>6. QED
    BY <1>1, <1>2, <1>5 DEF KeptOf

(* Nothing is lost between two kinds.                                      *)
LEMMA KindsArePartsOfAll ==
    ASSUME NEW S, NEW outcomes \in Seq(S), NEW a, NEW b, a # b,
           \A i \in DOMAIN outcomes : outcomes[i].kind \in {a, b}
    PROVE  Len(OfKind(outcomes, a)) + Len(OfKind(outcomes, b)) = Len(outcomes)
  <1>1. PICK ofA : KeptOf(S, outcomes, a, ofA)
    BY KeptIsDefined
  <1>2. PICK ofB : KeptOf(S, outcomes, b, ofB)
    BY KeptIsDefined
  <1> DEFINE T == {n \in 0..Len(outcomes) : Len(ofA[n]) + Len(ofB[n]) = n}
  <1>3. Len(outcomes) \in Nat
    OBVIOUS
  <1>4. 0 \in T
    <2>1. Len(ofA[0]) + Len(ofB[0]) = 0 /\ 0 \in 0..Len(outcomes)
      BY <1>1, <1>2, <1>3 DEF KeptOf
    <2>2. QED
      BY <2>1
  <1>5. ASSUME NEW n \in 1..Len(outcomes), n - 1 \in T PROVE n \in T
    <2>1. n \in 0..Len(outcomes) /\ n \in DOMAIN outcomes
      OBVIOUS
    <2>2. /\ ofA[n - 1] \in Seq(S) /\ ofB[n - 1] \in Seq(S)
          /\ Len(ofA[n - 1]) + Len(ofB[n - 1]) = n - 1
      BY <1>1, <1>2, <1>5 DEF KeptOf
    <2>3. /\ ofA[n] = IF outcomes[n].kind = a THEN Append(ofA[n - 1], outcomes[n])
                      ELSE ofA[n - 1]
          /\ ofB[n] = IF outcomes[n].kind = b THEN Append(ofB[n - 1], outcomes[n])
                      ELSE ofB[n - 1]
      BY <1>1, <1>2 DEF KeptOf
    <2>4. PICK i \in Nat, j \in Nat : i = Len(ofA[n - 1]) /\ j = Len(ofB[n - 1])
      BY <2>2
    <2>5. i + j = n - 1
      BY <2>2, <2>4
    <2>6. CASE outcomes[n].kind = a
      <3>1. Len(ofA[n]) = i + 1 /\ Len(ofB[n]) = j
        BY <2>2, <2>3, <2>4, <2>6
      <3>2. Len(ofA[n]) + Len(ofB[n]) = n
        BY <2>5, <3>1
      <3>3. QED
        BY <2>1, <3>2
    <2>7. CASE outcomes[n].kind = b
      <3>1. Len(ofB[n]) = j + 1 /\ Len(ofA[n]) = i
        BY <2>2, <2>3, <2>4, <2>7
      <3>2. Len(ofA[n]) + Len(ofB[n]) = n
        BY <2>5, <3>1
      <3>3. QED
        BY <2>1, <3>2
    <2>8. QED
      BY <2>1, <2>6, <2>7
  <1>6. Len(outcomes) \in T
    <2> HIDE DEF T
    <2>1. 0..Len(outcomes) \subseteq T
      BY <1>3, <1>4, <1>5, EveryPrefix
    <2>2. QED
      BY <1>3, <2>1
  <1>7. QED
    BY <1>1, <1>2, <1>6 DEF KeptOf

IsOneAfter(u, s, t) ==
    \A i \in DOMAIN u : \/ i \in DOMAIN s /\ u[i] = s[i]
                        \/ \E j \in DOMAIN t : u[i] = t[j]

(* A concatenation has the elements of both parts and no others.           *)
LEMMA OneAfterTheOther ==
    ASSUME NEW S, NEW s \in Seq(S), NEW t \in Seq(S)
    PROVE  s \o t \in Seq(S) /\ Len(s \o t) = Len(s) + Len(t) /\ IsOneAfter(s \o t, s, t)
  <1>1. \A i \in DOMAIN (s \o t) :
           \/ i \in DOMAIN s /\ (s \o t)[i] = s[i]
           \/ i - Len(s) \in DOMAIN t /\ (s \o t)[i] = t[i - Len(s)]
    OBVIOUS
  <1>2. IsOneAfter(s \o t, s, t)
    BY <1>1 DEF IsOneAfter
  <1>3. QED
    BY <1>2

(* An item is read as it stands, in the source and within the schema, or is*)
(* refused, and it is called a fabrication only if the source does not have*)
(* it (ReadItem).                                                          *)
LEMMA ItemsAreReadOrRefused ==
    ASSUME NEW item, NEW source
    PROVE  LET read == ReadItem(item, source) IN
           \/ /\ read.kind = "obligation"
              /\ read.text = item.text /\ read.modality = item.modality
              /\ read.subjects = item.subjects
              /\ source # <<>> => Has(source, item.text)
              /\ item.subjects # {} /\ item.subjects \subseteq SubjectMatter
           \/ /\ read.kind = "unclassified"
              /\ read.code = "ungrounded" => ~Has(source, read.text)
  <1>1. CASE Malformed(item)
    BY <1>1 DEF ReadItem, Abstention
  <1>2. CASE ~Malformed(item) /\ source # <<>> /\ ~IsGrounded(item.text, source)
    BY <1>2 DEF ReadItem, Abstention, IsGrounded
  <1>3. CASE ~Malformed(item) /\ ~(source # <<>> /\ ~IsGrounded(item.text, source))
    <2>1. item.subjects # {} /\ item.subjects \subseteq SubjectMatter
      BY <1>3 DEF Malformed
    <2>2. source # <<>> => Has(source, item.text)
      BY <1>3 DEF IsGrounded
    <2>3. ReadItem(item, source) =
            Norm(IF item.bearer = None THEN "regulated_party" ELSE item.bearer,
                 item.modality, item.subjects, item.text)
      BY <1>3 DEF ReadItem
    <2>4. QED
      BY <2>1, <2>2, <2>3 DEF Norm
  <1>4. QED
    BY <1>1, <1>2, <1>3

\* What is known of the answer to a payload.
IsAnsweredFor(payload, source, result) ==
    /\ result # [error |-> TRUE]
    /\ Len(result.obligations) + Len(result.unclassified)
         = Len(payload.obligations) + Len(payload.declined)
    /\ \A k \in DOMAIN result.obligations :
         LET o == result.obligations[k] IN
         /\ \E i \in DOMAIN payload.obligations :
               LET item == payload.obligations[i] IN
               o.text = item.text /\ o.modality = item.modality
                 /\ o.subjects = item.subjects
         /\ source # <<>> => Has(source, o.text)
         /\ o.subjects # {} /\ o.subjects \subseteq SubjectMatter
    /\ \A k \in DOMAIN result.unclassified :
         LET u == result.unclassified[k] IN
         u.code = "ungrounded" => ~Has(source, u.text)

(* Every item of a payload is answered for: the core of                    *)
(* BackendIsNotTakenOnTrust.                                               *)
LEMMA PayloadsAreAnsweredFor ==
    ASSUME NEW Items, NEW Texts, NEW source,
           NEW payload \in [obligations : Seq(Items), declined : Seq(Texts)]
    PROVE  IsAnsweredFor(payload, source, ResultFromPayload(payload, source))
  <1> DEFINE items == payload.obligations
             texts == payload.declined
             reads == [i \in DOMAIN items |-> ReadItem(items[i], source)]
             refused == [i \in DOMAIN texts |-> Abstention("model_declined", texts[i])]
             outcomes == reads \o refused
             S == {ReadItem(item, source) : item \in Items}
                    \cup {Abstention("model_declined", text) : text \in Texts}
             result == ResultFromPayload(payload, source)
  <1>1. items \in Seq(Items) /\ texts \in Seq(Texts)
    OBVIOUS
  <1>2. result = [obligations |-> OfKind(outcomes, "obligation"),
                  unclassified |-> OfKind(outcomes, "unclassified"),
                  ignored |-> Len(OfKind(outcomes, "ignored")), adopted |-> None]
    BY DEF ResultFromPayload, Result
  <1>3. /\ reads \in Seq(S) /\ Len(reads) = Len(items)
        /\ refused \in Seq(S) /\ Len(refused) = Len(texts)
    <2>1. \A i \in DOMAIN items : ReadItem(items[i], source) \in S
      BY <1>1
    <2>2. \A i \in DOMAIN texts : Abstention("model_declined", texts[i]) \in S
      BY <1>1
    <2>3. DOMAIN items = 1..Len(items) /\ Len(items) \in Nat
          /\ DOMAIN texts = 1..Len(texts) /\ Len(texts) \in Nat
      BY <1>1
    <2> HIDE DEF S, items, texts
    <2>4. QED
      BY <2>1, <2>2, <2>3
  <1>4. /\ outcomes \in Seq(S) /\ Len(outcomes) = Len(items) + Len(texts)
        /\ \A i \in DOMAIN outcomes :
             \/ i \in DOMAIN items /\ outcomes[i] = ReadItem(items[i], source)
             \/ \E j \in DOMAIN texts :
                   outcomes[i] = Abstention("model_declined", texts[j])
    <2> HIDE DEF S
    <2>1. /\ outcomes \in Seq(S) /\ Len(outcomes) = Len(reads) + Len(refused)
          /\ IsOneAfter(outcomes, reads, refused)
      <3> HIDE DEF reads, refused
      <3>1. QED
        BY <1>3, OneAfterTheOther
    <2>2. Len(outcomes) = Len(items) + Len(texts)
      BY <1>3, <2>1
    <2> HIDE DEF outcomes
    <2>3. QED
      BY <2>1, <2>2 DEF IsOneAfter
  <1>5. \A i \in DOMAIN outcomes : outcomes[i].kind \in {"obligation", "unclassified"}
    BY <1>4, ItemsAreReadOrRefused DEF Abstention
  <1> HIDE DEF outcomes, S, reads, refused
  <1>6. Len(result.obligations) + Len(result.unclassified) = Len(items) + Len(texts)
    <2>1. Len(OfKind(outcomes, "obligation")) + Len(OfKind(outcomes, "unclassified"))
            = Len(outcomes)
      BY <1>4, <1>5, KindsArePartsOfAll
    <2>2. QED
      BY <1>2, <1>4, <2>1
  <1>7. ASSUME NEW k \in DOMAIN result.obligations
        PROVE  /\ \E i \in DOMAIN items :
                     /\ result.obligations[k].text = items[i].text
                     /\ result.obligations[k].modality = items[i].modality
                     /\ result.obligations[k].subjects = items[i].subjects
               /\ source # <<>> => Has(source, result.obligations[k].text)
               /\ result.obligations[k].subjects # {}
               /\ result.obligations[k].subjects \subseteq SubjectMatter
    <2>1. result.obligations = OfKind(outcomes, "obligation")
      BY <1>2
    <2> DEFINE kept == OfKind(outcomes, "obligation")
    <2>2. PICK i \in DOMAIN outcomes : kept[k] = outcomes[i] /\ outcomes[i].kind = "obligation"
      BY <1>4, <2>1, KeptIsOfTheKind DEF ChosenFrom
    <2>3. i \in DOMAIN items /\ outcomes[i] = ReadItem(items[i], source)
      BY <1>4, <2>2 DEF Abstention
    <2>4. QED
      BY <2>1, <2>2, <2>3, ItemsAreReadOrRefused
  <1>8. ASSUME NEW k \in DOMAIN result.unclassified,
               result.unclassified[k].code = "ungrounded"
        PROVE  ~Has(source, result.unclassified[k].text)
    <2>1. result.unclassified = OfKind(outcomes, "unclassified")
      BY <1>2
    <2> DEFINE kept == OfKind(outcomes, "unclassified")
    <2>2. PICK i \in DOMAIN outcomes : kept[k] = outcomes[i] /\ outcomes[i].kind = "unclassified"
      BY <1>4, <2>1, KeptIsOfTheKind DEF ChosenFrom
    <2>3. i \in DOMAIN items /\ outcomes[i] = ReadItem(items[i], source)
      BY <1>4, <1>8, <2>1, <2>2 DEF Abstention
    <2>4. QED
      BY <1>8, <2>1, <2>2, <2>3, ItemsAreReadOrRefused
  <1>9. result # [error |-> TRUE]
    <2>1. "error" \notin DOMAIN result
      BY <1>2
    <2>2. QED
      BY <2>1
  <1>10. QED
    BY <1>6, <1>7, <1>8, <1>9 DEF IsAnsweredFor

-----------------------------------------------------------------------------
(* Sums, and the entropy of a partition (SemanticEntropy).                 *)

SumsTo(f, sum) ==
    sum = [n \in 0..Len(f) |-> IF n = 0 THEN 0 ELSE sum[n - 1] + f[n]]

SumsOf(f) == CHOOSE sum : SumsTo(f, sum)

(* The sums of the prefixes of a sequence, the last of which is its sum.   *)
SumsUp(f, sum) ==
    /\ sum \in [0..Len(f) -> Int]
    /\ SumOf(f) = sum[Len(f)]
    /\ sum[0] = 0
    /\ \A n \in 1..Len(f) : sum[n] = sum[n - 1] + f[n]

(* The recursion of SumOf is that of a function.                           *)
LEMMA SumIsDefined ==
    ASSUME NEW f \in Seq(Int)
    PROVE  \E sum : SumsUp(f, sum)
  <1> DEFINE next == [n \in 1..Len(f) |-> [x \in Int |-> x + f[n]]]
  <1>1. next \in [1..Len(f) -> [Int -> Int]] /\ Len(f) \in Nat /\ 0 \in Int
    OBVIOUS
  <1>2. PICK g : IsRecursion(g, Len(f), Int, 0, next)
    <2> HIDE DEF next
    <2>1. QED
      BY <1>1, RecursionIsDefined
  <1>3. g \in [0..Len(f) -> Int]
    BY <1>2 DEF IsRecursion
  <1>4. SumsTo(f, g)
    <2>1. ASSUME NEW n \in 0..Len(f)
          PROVE  g[n] = IF n = 0 THEN 0 ELSE g[n - 1] + f[n]
      <3>1. g[n] = IF n = 0 THEN 0 ELSE next[n][g[n - 1]]
        BY <1>2 DEF IsRecursion
      <3>2. n # 0 => n \in 1..Len(f) /\ g[n - 1] \in Int
        BY <1>3
      <3>3. QED
        BY <3>1, <3>2
    <2>2. QED
      BY <1>3, <2>1 DEF SumsTo
  <1>5. PICK sum : sum = SumsOf(f) /\ SumsTo(f, sum)
    BY <1>4 DEF SumsOf
  <1>6. /\ sum = [n \in 0..Len(f) |-> sum[n]]
        /\ \A n \in 0..Len(f) : sum[n] = IF n = 0 THEN 0 ELSE sum[n - 1] + f[n]
    BY <1>5 DEF SumsTo
  <1>7. sum[0] = 0 /\ \A n \in 1..Len(f) : sum[n] = sum[n - 1] + f[n]
    <2>1. 0 \in 0..Len(f) /\ 1..Len(f) \subseteq 0..Len(f) /\ 0 \notin 1..Len(f)
      BY <1>1
    <2>2. QED
      BY <1>6, <2>1
  <1>8. sum \in [0..Len(f) -> Int]
    <2>1. ASSUME NEW n \in 1..Len(f), sum[n - 1] \in Int PROVE sum[n] \in Int
      <3>1. f[n] \in Int /\ sum[n] = sum[n - 1] + f[n]
        BY <1>7
      <3>2. QED
        BY <2>1, <3>1
    <2>2. sum[0] \in Int
      BY <1>7
    <2> HIDE DEF next
    <2>3. QED
      BY <1>1, <1>6, <2>1, <2>2, RecursionStays
  <1>9. SumOf(f) = sum[Len(f)]
    BY <1>5 DEF SumOf, SumsOf, SumsTo
  <1>10. QED
    BY <1>7, <1>8, <1>9 DEF SumsUp

(* Nothing adds up to nothing.                                             *)
LEMMA SumOfNothing == SumOf(<<>>) = 0
  <1>1. <<>> \in Seq(Int)
    OBVIOUS
  <1>2. PICK sum : SumsUp(<<>>, sum)
    BY <1>1, SumIsDefined
  <1>3. QED
    BY <1>2 DEF SumsUp

(* One more term adds itself to the sum.                                   *)
LEMMA SumOfOneMore ==
    ASSUME NEW f \in Seq(Int), NEW x \in Int
    PROVE  SumOf(Append(f, x)) = SumOf(f) + x
  <1>1. PICK g \in Seq(Int) : g = Append(f, x)
    <2>1. Append(f, x) \in Seq(Int)
      OBVIOUS
    <2>2. QED
      BY <2>1
  <1>2. PICK before : SumsUp(f, before)
    BY SumIsDefined
  <1>3. PICK after : SumsUp(g, after)
    BY SumIsDefined
  <1>4. /\ Len(f) \in Nat /\ Len(g) = Len(f) + 1 /\ g[Len(f) + 1] = x
        /\ \A n \in 1..Len(f) : g[n] = f[n]
    BY <1>1
  <1> DEFINE T == {n \in 0..Len(f) : after[n] = before[n]}
  <1>5. 0 \in T
    BY <1>2, <1>3, <1>4 DEF SumsUp
  <1>6. ASSUME NEW n \in 1..Len(f), n - 1 \in T PROVE n \in T
    <2>1. after[n] = after[n - 1] + g[n]
      BY <1>3, <1>4 DEF SumsUp
    <2>2. before[n] = before[n - 1] + f[n]
      BY <1>2 DEF SumsUp
    <2>3. QED
      BY <1>4, <1>6, <2>1, <2>2
  <1>7. Len(f) \in T
    <2> HIDE DEF T
    <2>1. 0..Len(f) \subseteq T
      BY <1>4, <1>5, <1>6, EveryPrefix
    <2>2. QED
      BY <1>4, <2>1
  <1>8. SumOf(f) = before[Len(f)] /\ SumOf(g) = after[Len(f) + 1]
    BY <1>2, <1>3, <1>4 DEF SumsUp
  <1>9. after[Len(f) + 1] = after[Len(f)] + x
    BY <1>3, <1>4 DEF SumsUp
  <1>10. QED
    BY <1>1, <1>7, <1>8, <1>9

(* A term that changes changes the sum by the difference.                  *)
LEMMA SumOfAChange ==
    ASSUME NEW f \in Seq(Int), NEW i \in DOMAIN f, NEW x \in Int
    PROVE  SumOf([f EXCEPT ![i] = x]) = SumOf(f) + x - f[i]
  <1>1. PICK g \in Seq(Int) : g = [f EXCEPT ![i] = x]
    <2>1. [f EXCEPT ![i] = x] \in Seq(Int)
      OBVIOUS
    <2>2. QED
      BY <2>1
  <1>2. PICK before : SumsUp(f, before)
    BY SumIsDefined
  <1>3. PICK after : SumsUp(g, after)
    BY SumIsDefined
  <1>4. /\ Len(f) \in Nat /\ Len(g) = Len(f) /\ i \in 1..Len(f) /\ f[i] \in Int
        /\ \A n \in 1..Len(f) : f[n] \in Int /\ g[n] = IF n = i THEN x ELSE f[n]
    BY <1>1
  <1>5. before \in [0..Len(f) -> Int] /\ after \in [0..Len(f) -> Int]
    BY <1>2, <1>3, <1>4 DEF SumsUp
  <1> DEFINE T == {n \in 0..Len(f) : /\ n < i => after[n] = before[n]
                                     /\ i <= n => after[n] = before[n] + x - f[i]}
  <1>6. 0 \in T
    <2>1. after[0] = 0 /\ before[0] = 0 /\ 0 < i /\ 0 \in 0..Len(f)
      BY <1>2, <1>3, <1>4 DEF SumsUp
    <2>2. QED
      BY <2>1
  <1>7. ASSUME NEW n \in 1..Len(f), n - 1 \in T PROVE n \in T
    <2>1. after[n] = after[n - 1] + g[n]
      BY <1>3, <1>4 DEF SumsUp
    <2>2. before[n] = before[n - 1] + f[n]
      BY <1>2 DEF SumsUp
    <2>3. n \in Nat /\ n \in 0..Len(f) /\ n - 1 \in 0..Len(f)
      OBVIOUS
    <2>4. before[n - 1] \in Int
      BY <1>5, <2>3
    <2>5. /\ n - 1 < i => after[n - 1] = before[n - 1]
          /\ i <= n - 1 => after[n - 1] = before[n - 1] + x - f[i]
      BY <1>7
    <2>6. ASSUME n < i PROVE after[n] = before[n]
      <3>1. n - 1 < i /\ g[n] = f[n]
        BY <1>4, <2>6
      <3>2. QED
        BY <2>1, <2>2, <2>5, <3>1
    <2>7. ASSUME i <= n PROVE after[n] = before[n] + x - f[i]
      <3>1. CASE n = i
        <4>1. n - 1 < i /\ g[n] = x
          BY <1>4, <3>1
        <4>2. QED
          BY <1>4, <2>1, <2>2, <2>4, <2>5, <3>1, <4>1
      <3>2. CASE n # i
        <4>1. i <= n - 1 /\ g[n] = f[n] /\ f[n] \in Int
          BY <1>4, <2>7, <3>2
        <4>2. QED
          BY <1>4, <2>1, <2>2, <2>4, <2>5, <4>1
      <3>3. QED
        BY <3>1, <3>2
    <2>8. QED
      BY <2>3, <2>6, <2>7
  <1>8. Len(f) \in T
    <2> HIDE DEF T
    <2>1. 0..Len(f) \subseteq T
      BY <1>4, <1>6, <1>7, EveryPrefix
    <2>2. QED
      BY <1>4, <2>1
  <1>9. SumOf(f) = before[Len(f)] /\ SumOf(g) = after[Len(f)]
    BY <1>2, <1>3, <1>4 DEF SumsUp
  <1>10. before[Len(f)] \in Int /\ i <= Len(f)
    BY <1>4, <1>5
  <1>11. QED
    BY <1>1, <1>4, <1>8, <1>9, <1>10

(* n ln n of one sample is nothing, grows with n, and grows faster together*)
(* than apart.                                                             *)
LEMMA TableGrows ==
    /\ \A a \in 1..6 : XLogX[a] \in Nat
    /\ XLogX[1] = 0
    /\ \A a, b \in 1..6 : a < b => XLogX[a] < XLogX[b]
    /\ \A a, b \in 1..6 : a + b <= 7 => XLogX[a] + XLogX[b] <= XLogX[a + b - 1]
  <1>1. /\ XLogX[1] = 0 /\ XLogX[2] = 13863 /\ XLogX[3] = 32958
        /\ XLogX[4] = 55452 /\ XLogX[5] = 80472 /\ XLogX[6] = 107506
    BY SMT DEF XLogX
  <1>2. \A a \in 1..6 : a \in {1, 2, 3, 4, 5, 6}
    OBVIOUS
  <1>3. \A a \in 1..6 : XLogX[a] \in Nat
    BY <1>1, <1>2, SMT
  <1>4. \A a, b \in 1..6 : a < b => XLogX[a] < XLogX[b]
    BY <1>1, <1>2, SMT
  <1>5. \A a, b \in 1..6 : a + b <= 7 => XLogX[a] + XLogX[b] <= XLogX[a + b - 1]
    BY <1>1, <1>2, SMT
  <1>6. QED
    BY <1>1, <1>3, <1>4, <1>5

(* A part of a whole is no larger than the whole, nor are the first parts.  *)
LEMMA PartsAreSmaller ==
    ASSUME NEW sizes \in Seq(Nat \ {0}), NEW sum, SumsUp(sizes, sum)
    PROVE  \A n \in 1..Len(sizes) : /\ sizes[n] \in 1..SumOf(sizes)
                                    /\ sum[n] \in 1..SumOf(sizes)
  <1>1. /\ sum \in [0..Len(sizes) -> Int] /\ sum[0] = 0
        /\ \A n \in 1..Len(sizes) : sum[n] = sum[n - 1] + sizes[n]
        /\ SumOf(sizes) = sum[Len(sizes)] /\ Len(sizes) \in Nat
        /\ \A n \in 1..Len(sizes) : sizes[n] \in Nat \ {0}
    BY DEF SumsUp
  <1> DEFINE Below(n, total) == sizes[n] \in 1..total /\ sum[n] \in 1..total
             T == {m \in 0..Len(sizes) : /\ sum[m] \in Nat
                                         /\ \A n \in 1..m : Below(n, sum[m])}
  <1>2. 0 \in T
    BY <1>1
  <1>3. ASSUME NEW m \in 1..Len(sizes), m - 1 \in T PROVE m \in T
    <2>1. /\ m \in Nat /\ m \in 0..Len(sizes)
          /\ sum[m - 1] \in Nat /\ sizes[m] \in Nat \ {0} /\ sum[m] = sum[m - 1] + sizes[m]
      BY <1>1, <1>3
    <2>2. sum[m] \in Nat /\ sum[m - 1] <= sum[m] /\ Below(m, sum[m])
      BY <2>1
    <2>3. ASSUME NEW n \in 1..m PROVE Below(n, sum[m])
      <3>1. CASE n = m
        BY <2>2, <3>1
      <3>2. CASE n # m
        <4>1. n \in 1..(m - 1)
          BY <2>1, <3>2
        <4>2. Below(n, sum[m - 1])
          BY <1>3, <4>1
        <4>3. QED
          BY <2>1, <2>2, <4>2
      <3>3. QED
        BY <3>1, <3>2
    <2> HIDE DEF Below
    <2>4. QED
      BY <2>1, <2>2, <2>3
  <1>4. Len(sizes) \in T
    <2> HIDE DEF T
    <2>1. 0..Len(sizes) \subseteq T
      BY <1>1, <1>2, <1>3, EveryPrefix
    <2>2. QED
      BY <1>1, <2>1
  <1>5. QED
    BY <1>1, <1>4

(* What is known of s samples in n clusters whose terms add up to p.       *)
EntropyOf(n, s, p) ==
    /\ s >= n
    /\ n = 0 => s = 0 /\ p = 0
    /\ s = n => p = 0
    /\ n = 1 => p = XLogX[s]
    /\ n > 1 => p <= XLogX[s - 1]

(* One more cluster keeps what is known of the entropy.                    *)
LEMMA OneMoreCluster ==
    ASSUME NEW n \in Nat, NEW s \in Nat, NEW p \in Int, NEW a \in 1..6,
           EntropyOf(n, s, p), s + a <= 6
    PROVE  EntropyOf(n + 1, s + a, p + XLogX[a])
  <1>1. /\ s >= n /\ a \in Nat /\ a >= 1 /\ s + a \in 1..6
        /\ n = 0 => s = 0 /\ p = 0
        /\ s = n => p = 0
    BY DEF EntropyOf
  <1>2. s + a >= n + 1 /\ n + 1 # 0 /\ s + a - 1 \in Nat
    BY <1>1
  <1>3. ASSUME s + a = n + 1 PROVE p + XLogX[a] = 0
    <2>1. a = 1 /\ s = n
      BY <1>1, <1>3
    <2>2. QED
      BY <1>1, <2>1, TableGrows
  <1>4. ASSUME n + 1 = 1 PROVE p + XLogX[a] = XLogX[s + a]
    <2>1. s = 0 /\ p = 0 /\ s + a = a
      BY <1>1, <1>4
    <2>2. XLogX[a] \in Nat
      BY TableGrows
    <2>3. QED
      BY <2>1, <2>2
  <1>5. ASSUME n + 1 > 1 PROVE p + XLogX[a] <= XLogX[s + a - 1]
    <2>1. s \in 1..6 /\ s + a <= 7 /\ n >= 1
      BY <1>1, <1>5
    <2>2. PICK x \in Nat : x = XLogX[s]
      BY <2>1, TableGrows
    <2>3. PICK y \in Nat : y = XLogX[a]
      BY TableGrows
    <2>4. PICK z \in Nat : z = XLogX[s + a - 1] /\ x + y <= z
      <3>1. s + a - 1 \in 1..6
        BY <1>1, <2>1
      <3>2. XLogX[s + a - 1] \in Nat /\ XLogX[s] + XLogX[a] <= XLogX[s + a - 1]
        BY <2>1, <3>1, TableGrows
      <3>3. QED
        BY <2>2, <2>3, <3>2
    <2>5. p <= x
      <3>1. CASE n = 1
        BY <2>2, <3>1 DEF EntropyOf
      <3>2. CASE n > 1
        <4>1. s - 1 \in 1..6 /\ s - 1 < s
          BY <1>1, <2>1, <3>2
        <4>2. XLogX[s - 1] < XLogX[s] /\ XLogX[s - 1] \in Nat
          BY <2>1, <4>1, TableGrows
        <4>3. p <= XLogX[s - 1]
          BY <3>2 DEF EntropyOf
        <4>4. QED
          BY <2>2, <4>2, <4>3
      <3>3. QED
        BY <2>1, <3>1, <3>2
    <2>6. QED
      BY <2>3, <2>4, <2>5
  <1>6. QED
    BY <1>2, <1>3, <1>4, <1>5 DEF EntropyOf

(* The entropy of a partition of up to six samples: none if they are       *)
(* together, all there is if they are apart, and that of one dissenter at   *)
(* least if they are not together.                                         *)
LEMMA EntropyOfAPartition ==
    ASSUME NEW sizes \in Seq(Nat \ {0}), SumOf(sizes) \in 1..6,
           NEW terms \in Seq(Int), Len(terms) = Len(sizes),
           \A n \in 1..Len(sizes) : terms[n] = XLogX[sizes[n]]
    PROVE  SumOf(terms) \in Int /\ EntropyOf(Len(sizes), SumOf(sizes), SumOf(terms))
  <1>1. PICK sum : SumsUp(sizes, sum)
    <2>1. sizes \in Seq(Int)
      OBVIOUS
    <2>2. QED
      BY <2>1, SumIsDefined
  <1>2. PICK part : SumsUp(terms, part)
    BY SumIsDefined
  <1>3. /\ sum \in [0..Len(sizes) -> Int] /\ sum[0] = 0
        /\ \A n \in 1..Len(sizes) : sum[n] = sum[n - 1] + sizes[n]
        /\ SumOf(sizes) = sum[Len(sizes)] /\ Len(sizes) \in Nat
    BY <1>1 DEF SumsUp
  <1>4. /\ part \in [0..Len(sizes) -> Int] /\ part[0] = 0
        /\ \A n \in 1..Len(sizes) : part[n] = part[n - 1] + terms[n]
        /\ SumOf(terms) = part[Len(sizes)]
    BY <1>2 DEF SumsUp
  <1>5. \A n \in 1..Len(sizes) : sizes[n] \in 1..6 /\ sum[n] \in 1..6
    <2>1. PICK total \in 1..6 : total = SumOf(sizes)
      OBVIOUS
    <2>2. \A n \in 1..Len(sizes) : sizes[n] \in 1..total /\ sum[n] \in 1..total
      BY <1>1, <2>1, PartsAreSmaller
    <2>3. 1..total \subseteq 1..6
      OBVIOUS
    <2>4. QED
      BY <2>2, <2>3
  <1> DEFINE T == {n \in 0..Len(sizes) : EntropyOf(n, sum[n], part[n])}
  <1>6. 0 \in T
    <2>1. EntropyOf(0, 0, 0)
      BY DEF EntropyOf
    <2>2. QED
      BY <1>3, <1>4, <2>1
  <1>7. ASSUME NEW n \in 1..Len(sizes), n - 1 \in T PROVE n \in T
    <2>1. PICK m \in Nat : n = m + 1 /\ m = n - 1
      OBVIOUS
    <2>2. m \in 0..Len(sizes) /\ n \in 0..Len(sizes) /\ (m = 0 \/ m \in 1..Len(sizes))
      BY <1>3, <2>1
    <2>3. PICK s \in Nat, p \in Int : s = sum[m] /\ p = part[m] /\ EntropyOf(m, s, p)
      <3>1. sum[m] \in Nat
        <4>1. m \in 1..Len(sizes) => sum[m] \in 1..6
          BY <1>5
        <4>2. QED
          BY <1>3, <2>2, <4>1
      <3>2. part[m] \in Int /\ EntropyOf(m, sum[m], part[m])
        BY <1>4, <1>7, <2>1, <2>2
      <3>3. QED
        BY <3>1, <3>2
    <2>4. PICK a \in 1..6 : a = sizes[n]
      BY <1>5
    <2>5. sum[n] = s + a /\ part[n] = p + XLogX[a]
      BY <1>3, <1>4, <2>1, <2>3, <2>4
    <2>6. s + a <= 6
      <3>1. sum[n] \in 1..6
        BY <1>5
      <3>2. QED
        BY <2>5, <3>1
    <2>7. EntropyOf(n, sum[n], part[n])
      BY <2>1, <2>3, <2>5, <2>6, OneMoreCluster
    <2>8. QED
      BY <2>2, <2>7
  <1>8. Len(sizes) \in T
    <2> HIDE DEF T
    <2>1. 0..Len(sizes) \subseteq T
      BY <1>3, <1>6, <1>7, EveryPrefix
    <2>2. QED
      BY <1>3, <2>1
  <1>9. QED
    BY <1>3, <1>4, <1>8

-----------------------------------------------------------------------------
(* Clusters of the same meaning, for any texts.                            *)

(* Min of numbers is the least of them.                                    *)
LEMMA MinIsLeast ==
    ASSUME NEW T, T \subseteq Nat, T # {}
    PROVE  Min(T) \in T /\ \A k \in T : Min(T) <= k
  <1>1. \E m \in T : \A k \in T : m <= k
    BY LeastElement
  <1>2. QED
    BY <1>1 DEF Min

GroupedUpTo(f, texts, percent) ==
    f = [n \in 0..Len(texts) |-> IF n = 0 THEN <<>> ELSE Joined(f[n - 1], texts[n], percent)]

GroupingOf(texts, percent) == CHOOSE f : GroupedUpTo(f, texts, percent)

Partition(T) == Seq(Seq(T) \ {<<>>})

(* The clusters after each of the texts.                                   *)
Groups(texts, percent, T, f) ==
    /\ f \in [0..Len(texts) -> Partition(T)]
    /\ Clusters(texts, percent) = f[Len(texts)]
    /\ f[0] = <<>>
    /\ \A n \in 1..Len(texts) : f[n] = Joined(f[n - 1], texts[n], percent)

(* A text is put into one cluster: a new one if it means what no cluster    *)
(* means.                                                                  *)
LEMMA ATextJoins ==
    ASSUME NEW T, NEW cs \in Partition(T), NEW g \in T, NEW percent
    PROVE  \/ /\ \A i \in DOMAIN cs : ~SameMeaning(cs[i][1], g, percent)
              /\ Joined(cs, g, percent) = Append(cs, <<g>>)
           \/ \E i \in DOMAIN cs :
                /\ SameMeaning(cs[i][1], g, percent)
                /\ Joined(cs, g, percent) = [cs EXCEPT ![i] = Append(cs[i], g)]
  <1> DEFINE hits == {i \in DOMAIN cs : SameMeaning(cs[i][1], g, percent)}
  <1>1. Joined(cs, g, percent) =
          IF hits = {} THEN Append(cs, <<g>>)
          ELSE [cs EXCEPT ![Min(hits)] = Append(cs[Min(hits)], g)]
    BY DEF Joined
  <1>2. CASE hits = {}
    <2>1. \A i \in DOMAIN cs : ~SameMeaning(cs[i][1], g, percent)
      BY <1>2
    <2>2. QED
      BY <1>1, <1>2, <2>1
  <1>3. CASE hits # {}
    <2>1. hits \subseteq Nat
      BY DEF Partition
    <2>2. Min(hits) \in hits
      <3> HIDE DEF hits
      <3>1. QED
        BY <1>3, <2>1, MinIsLeast
    <2>3. PICK i \in DOMAIN cs : i = Min(hits) /\ SameMeaning(cs[i][1], g, percent)
      BY <2>2
    <2>4. Joined(cs, g, percent) = [cs EXCEPT ![i] = Append(cs[i], g)]
      BY <1>1, <1>3, <2>3
    <2>5. QED
      BY <2>3, <2>4
  <1>4. QED
    BY <1>2, <1>3

(* Clusters with one text more are clusters.                               *)
LEMMA JoinedIsAPartition ==
    ASSUME NEW T, NEW cs \in Partition(T), NEW g \in T, NEW percent
    PROVE  Joined(cs, g, percent) \in Partition(T)
  <1> DEFINE C == Seq(T) \ {<<>>}
  <1>1. Append(cs, <<g>>) \in Seq(C)
    <2>1. <<g>> \in C
      OBVIOUS
    <2>2. cs \in Seq(C)
      BY DEF Partition
    <2> HIDE DEF C
    <2>3. QED
      BY <2>1, <2>2
  <1>2. ASSUME NEW i \in DOMAIN cs PROVE [cs EXCEPT ![i] = Append(cs[i], g)] \in Seq(C)
    <2>1. cs \in Seq(C)
      BY DEF Partition
    <2>2. cs[i] \in Seq(T)
      BY <2>1
    <2>3. Append(cs[i], g) \in Seq(T) /\ Append(cs[i], g) # <<>>
      BY <2>2
    <2>4. Append(cs[i], g) \in C
      BY <2>3
    <2> HIDE DEF C
    <2>5. QED
      BY <2>1, <2>4
  <1>3. CASE Joined(cs, g, percent) = Append(cs, <<g>>)
    BY <1>1, <1>3 DEF Partition
  <1>4. CASE \E i \in DOMAIN cs : Joined(cs, g, percent) = [cs EXCEPT ![i] = Append(cs[i], g)]
    <2>1. PICK i \in DOMAIN cs : Joined(cs, g, percent) = [cs EXCEPT ![i] = Append(cs[i], g)]
      BY <1>4
    <2>2. [cs EXCEPT ![i] = Append(cs[i], g)] \in Seq(C)
      BY <1>2
    <2>3. QED
      BY <2>1, <2>2 DEF Partition
  <1>5. QED
    <2> HIDE DEF C
    <2>1. QED
      BY <1>3, <1>4, ATextJoins

(* The recursion of Clusters is that of a function.                        *)
LEMMA GroupsAreDefined ==
    ASSUME NEW T, NEW texts \in Seq(T), NEW percent
    PROVE  \E f : Groups(texts, percent, T, f)
  <1> DEFINE next == [n \in 1..Len(texts) |->
                        [cs \in Partition(T) |-> Joined(cs, texts[n], percent)]]
  <1>1. /\ next \in [1..Len(texts) -> [Partition(T) -> Partition(T)]]
        /\ Len(texts) \in Nat /\ <<>> \in Partition(T)
    <2>1. \A n \in 1..Len(texts) : texts[n] \in T
      OBVIOUS
    <2>2. \A n \in 1..Len(texts), cs \in Partition(T) :
             Joined(cs, texts[n], percent) \in Partition(T)
      BY <2>1, JoinedIsAPartition
    <2>3. <<>> \in Partition(T)
      BY DEF Partition
    <2>4. QED
      BY <2>2, <2>3
  <1>2. PICK g : IsRecursion(g, Len(texts), Partition(T), <<>>, next)
    <2> HIDE DEF next
    <2>1. QED
      BY <1>1, RecursionIsDefined
  <1>3. g \in [0..Len(texts) -> Partition(T)]
    BY <1>2 DEF IsRecursion
  <1>4. GroupedUpTo(g, texts, percent)
    <2>1. ASSUME NEW n \in 0..Len(texts)
          PROVE  g[n] = IF n = 0 THEN <<>> ELSE Joined(g[n - 1], texts[n], percent)
      <3>1. g[n] = IF n = 0 THEN <<>> ELSE next[n][g[n - 1]]
        BY <1>2 DEF IsRecursion
      <3>2. n # 0 => n \in 1..Len(texts) /\ g[n - 1] \in Partition(T)
        BY <1>3
      <3>3. QED
        BY <3>1, <3>2
    <2>2. QED
      BY <1>3, <2>1 DEF GroupedUpTo
  <1>5. PICK f : f = GroupingOf(texts, percent) /\ GroupedUpTo(f, texts, percent)
    BY <1>4 DEF GroupingOf
  <1>6. /\ f = [n \in 0..Len(texts) |-> f[n]]
        /\ \A n \in 0..Len(texts) :
             f[n] = IF n = 0 THEN <<>> ELSE Joined(f[n - 1], texts[n], percent)
    BY <1>5 DEF GroupedUpTo
  <1>7. f[0] = <<>> /\ \A n \in 1..Len(texts) : f[n] = Joined(f[n - 1], texts[n], percent)
    <2>1. 0 \in 0..Len(texts) /\ 1..Len(texts) \subseteq 0..Len(texts) /\ 0 \notin 1..Len(texts)
      BY <1>1
    <2>2. QED
      BY <1>6, <2>1
  <1>8. f \in [0..Len(texts) -> Partition(T)]
    <2>1. ASSUME NEW n \in 1..Len(texts), f[n - 1] \in Partition(T) PROVE f[n] \in Partition(T)
      <3>1. texts[n] \in T
        OBVIOUS
      <3>2. QED
        BY <1>7, <2>1, <3>1, JoinedIsAPartition
    <2>2. f[0] \in Partition(T)
      BY <1>1, <1>7
    <2> HIDE DEF next
    <2>3. QED
      BY <1>1, <1>6, <2>1, <2>2, RecursionStays
  <1>9. Clusters(texts, percent) = f[Len(texts)]
    BY <1>5 DEF Clusters, GroupingOf, GroupedUpTo
  <1>10. QED
    BY <1>7, <1>8, <1>9 DEF Groups

\* What a text does to the clusters: it founds one, or joins the i-th.
Founds(cs, g, percent, new) ==
    /\ \A i \in 1..Len(cs) : ~SameMeaning(cs[i][1], g, percent)
    /\ Len(new) = Len(cs) + 1
    /\ \A i \in 1..Len(cs) : new[i] = cs[i]
    /\ Len(new[Len(cs) + 1]) = 1 /\ new[Len(cs) + 1][1] = g

Joins(cs, g, percent, new, i) ==
    /\ i \in 1..Len(cs) /\ SameMeaning(cs[i][1], g, percent)
    /\ Len(new) = Len(cs)
    /\ \A j \in 1..Len(cs) : j # i => new[j] = cs[j]
    /\ new[i] = Append(cs[i], g)
    /\ Len(new[i]) = Len(cs[i]) + 1
    /\ \A k \in 1..Len(cs[i]) : new[i][k] = cs[i][k]
    /\ new[i][Len(cs[i]) + 1] = g

Moves(cs, g, percent, new) ==
    Founds(cs, g, percent, new) \/ \E i \in 1..Len(cs) : Joins(cs, g, percent, new, i)

(* A text founds a cluster or joins one, and leaves the others alone.      *)
LEMMA ATextMoves ==
    ASSUME NEW T, NEW cs \in Partition(T), NEW g \in T, NEW percent
    PROVE  Moves(cs, g, percent, Joined(cs, g, percent))
  <1> DEFINE C == Seq(T) \ {<<>>}
  <1>1. cs \in Seq(C) /\ Len(cs) \in Nat /\ DOMAIN cs = 1..Len(cs)
    BY DEF Partition
  <1>2. PICK new : new = Joined(cs, g, percent)
    OBVIOUS
  <1>3. CASE /\ \A i \in DOMAIN cs : ~SameMeaning(cs[i][1], g, percent)
             /\ new = Append(cs, <<g>>)
    <2>1. /\ Len(new) = Len(cs) + 1 /\ new[Len(cs) + 1] = <<g>>
          /\ \A i \in 1..Len(cs) : new[i] = cs[i]
      <3> HIDE DEF C
      <3>1. QED
        BY <1>1, <1>3
    <2>2. Len(<<g>>) = 1 /\ <<g>>[1] = g
      OBVIOUS
    <2>3. QED
      BY <1>1, <1>2, <1>3, <2>1, <2>2 DEF Moves, Founds
  <1>4. ASSUME NEW i \in DOMAIN cs, SameMeaning(cs[i][1], g, percent),
               new = [cs EXCEPT ![i] = Append(cs[i], g)]
        PROVE  Moves(cs, g, percent, new)
    <2>1. PICK s \in Seq(T) : s = cs[i]
      BY <1>1
    <2>2. /\ Len(Append(s, g)) = Len(s) + 1
          /\ \A k \in 1..Len(s) : Append(s, g)[k] = s[k]
          /\ Append(s, g)[Len(s) + 1] = g
      BY <2>1
    <2>3. /\ Len(new) = Len(cs) /\ new[i] = Append(s, g)
          /\ \A j \in 1..Len(cs) : j # i => new[j] = cs[j]
      <3> HIDE DEF C
      <3>1. QED
        BY <1>1, <1>4, <2>1
    <2>4. QED
      BY <1>1, <1>4, <2>1, <2>2, <2>3 DEF Moves, Joins
  <1>5. QED
    <2> HIDE DEF C
    <2>1. QED
      BY <1>2, <1>3, <1>4, ATextJoins

\* What is true of the clusters of the first n texts.
TextsInClusters(cs, texts, n) ==
    /\ \A i \in 1..Len(cs) : \A k \in 1..Len(cs[i]) : \E m \in 1..n : cs[i][k] = texts[m]
    /\ \A m \in 1..n : \E i \in 1..Len(cs) : \E k \in 1..Len(cs[i]) : cs[i][k] = texts[m]

OneMeaningEach(cs, percent) ==
    \A i \in 1..Len(cs) : \A k \in 1..Len(cs[i]) : SameMeaning(cs[i][1], cs[i][k], percent)

MeaningsDiffer(cs, percent) ==
    \A i, j \in 1..Len(cs) : i < j => ~SameMeaning(cs[i][1], cs[j][1], percent)

(* A text means what it means, at every threshold.                         *)
LEMMA MeaningOfItself ==
    ASSUME NEW g, IsFiniteSet(g), NEW percent \in 0..100
    PROVE  SameMeaning(g, g, percent)
  <1>1. Cardinality(g) \in Nat /\ g \cap g = g
    BY FS_CardinalityType
  <1>2. PICK c \in Nat : c = Cardinality(g)
    BY <1>1
  <1>3. 100 * c >= percent * c
    <2>1. 100 - percent \in Nat
      OBVIOUS
    <2>2. (100 - percent) * c >= 0
      BY <2>1
    <2>3. QED
      BY <2>2
  <1>4. QED
    BY <1>1, <1>2, <1>3 DEF SameMeaning, Entails

(* Clusters are sequences of texts, and none is empty.                     *)
LEMMA ShapeOfAPartition ==
    ASSUME NEW T, NEW cs \in Partition(T)
    PROVE  /\ Len(cs) \in Nat /\ DOMAIN cs = 1..Len(cs)
           /\ \A i \in 1..Len(cs) :
                /\ cs[i] \in Seq(T) /\ Len(cs[i]) \in Nat \ {0} /\ DOMAIN cs[i] = 1..Len(cs[i])
                /\ cs[i][1] \in T
                /\ \A k \in 1..Len(cs[i]) : cs[i][k] \in T
  <1>1. cs \in Seq(Seq(T) \ {<<>>})
    BY DEF Partition
  <1>2. Len(cs) \in Nat /\ DOMAIN cs = 1..Len(cs)
    BY <1>1
  <1>3. ASSUME NEW i \in 1..Len(cs)
        PROVE  /\ cs[i] \in Seq(T) /\ Len(cs[i]) \in Nat \ {0} /\ DOMAIN cs[i] = 1..Len(cs[i])
               /\ cs[i][1] \in T
               /\ \A k \in 1..Len(cs[i]) : cs[i][k] \in T
    <2>1. cs[i] \in Seq(T) /\ cs[i] # <<>>
      BY <1>1, <1>2
    <2>2. PICK s \in Seq(T) : s = cs[i] /\ s # <<>>
      BY <2>1
    <2>3. Len(s) \in Nat \ {0} /\ DOMAIN s = 1..Len(s) /\ s[1] \in T
          /\ \A k \in 1..Len(s) : s[k] \in T
      BY <2>2
    <2>4. QED
      BY <2>2, <2>3
  <1>4. QED
    BY <1>2, <1>3

(* The clusters hold the texts so far and no others, and go on to.         *)
LEMMA TextsStayInClusters ==
    ASSUME NEW T, NEW cs \in Partition(T), NEW texts \in Seq(T), NEW n \in 1..Len(texts),
           NEW percent, NEW new, Moves(cs, texts[n], percent, new),
           TextsInClusters(cs, texts, n - 1)
    PROVE  TextsInClusters(new, texts, n)
  <1>1. Len(cs) \in Nat /\ \A i \in 1..Len(cs) : Len(cs[i]) \in Nat
    BY ShapeOfAPartition
  <1>2. n \in Nat /\ \A m \in 1..n : m = n \/ m \in 1..(n - 1)
    OBVIOUS
  <1>3. /\ \A i \in 1..Len(cs) : \A k \in 1..Len(cs[i]) : \E m \in 1..n : cs[i][k] = texts[m]
        /\ \A m \in 1..(n - 1) :
             \E i \in 1..Len(cs) : \E k \in 1..Len(cs[i]) : cs[i][k] = texts[m]
    BY <1>2 DEF TextsInClusters
  <1>4. CASE Founds(cs, texts[n], percent, new)
    <2>1. /\ Len(new) = Len(cs) + 1 /\ \A i \in 1..Len(cs) : new[i] = cs[i]
          /\ Len(new[Len(cs) + 1]) = 1 /\ new[Len(cs) + 1][1] = texts[n]
      BY <1>4 DEF Founds
    <2>2. \A i \in 1..Len(new) : i \in 1..Len(cs) \/ i = Len(cs) + 1
      BY <1>1, <2>1
    <2>3. ASSUME NEW i \in 1..Len(new), NEW k \in 1..Len(new[i])
          PROVE  \E m \in 1..n : new[i][k] = texts[m]
      <3>1. CASE i \in 1..Len(cs)
        <4>1. new[i] = cs[i]
          BY <2>1, <3>1
        <4>2. k \in 1..Len(cs[i]) /\ new[i][k] = cs[i][k]
          BY <4>1
        <4>3. QED
          BY <1>3, <3>1, <4>2
      <3>2. CASE i = Len(cs) + 1
        <4>0. Len(new[i]) = 1
          BY <2>1, <3>2
        <4>1. k = 1
          BY <4>0
        <4>2. QED
          BY <1>2, <2>1, <3>2, <4>1
      <3>3. QED
        BY <2>2, <3>1, <3>2
    <2>4. ASSUME NEW m \in 1..n
          PROVE  \E i \in 1..Len(new) : \E k \in 1..Len(new[i]) : new[i][k] = texts[m]
      <3>1. CASE m = n
        <4>1. Len(cs) + 1 \in 1..Len(new) /\ 1 \in 1..Len(new[Len(cs) + 1])
          BY <1>1, <2>1
        <4>2. QED
          BY <2>1, <3>1, <4>1
      <3>2. CASE m \in 1..(n - 1)
        <4>0. PICK i \in 1..Len(cs) : \E k \in 1..Len(cs[i]) : cs[i][k] = texts[m]
          BY <1>3, <3>2
        <4>1. PICK k \in 1..Len(cs[i]) : cs[i][k] = texts[m]
          BY <4>0
        <4>2. i \in 1..Len(new) /\ new[i] = cs[i]
          BY <1>1, <2>1
        <4>3. QED
          BY <4>1, <4>2
      <3>3. QED
        BY <1>2, <3>1, <3>2
    <2>5. QED
      BY <2>3, <2>4 DEF TextsInClusters
  <1>5. ASSUME NEW at \in 1..Len(cs), Joins(cs, texts[n], percent, new, at)
        PROVE  TextsInClusters(new, texts, n)
    <2>1. /\ Len(new) = Len(cs) /\ \A j \in 1..Len(cs) : j # at => new[j] = cs[j]
          /\ Len(new[at]) = Len(cs[at]) + 1
          /\ \A k \in 1..Len(cs[at]) : new[at][k] = cs[at][k]
          /\ new[at][Len(cs[at]) + 1] = texts[n]
      BY <1>5 DEF Joins
    <2>2. ASSUME NEW i \in 1..Len(new), NEW k \in 1..Len(new[i])
          PROVE  \E m \in 1..n : new[i][k] = texts[m]
      <3>1. CASE i # at
        <4>1. i \in 1..Len(cs) /\ new[i] = cs[i]
          BY <2>1, <3>1
        <4>2. k \in 1..Len(cs[i]) /\ new[i][k] = cs[i][k]
          BY <4>1
        <4>3. QED
          BY <1>3, <4>1, <4>2
      <3>2. CASE i = at /\ k \in 1..Len(cs[at])
        BY <1>3, <2>1, <3>2
      <3>3. CASE i = at /\ k = Len(cs[at]) + 1
        BY <1>2, <2>1, <3>3
      <3>4. i = at => k \in 1..Len(cs[at]) \/ k = Len(cs[at]) + 1
        BY <1>1, <2>1
      <3>5. QED
        BY <3>1, <3>2, <3>3, <3>4
    <2>3. ASSUME NEW m \in 1..n
          PROVE  \E i \in 1..Len(new) : \E k \in 1..Len(new[i]) : new[i][k] = texts[m]
      <3>1. CASE m = n
        <4>1. at \in 1..Len(new) /\ Len(cs[at]) + 1 \in 1..Len(new[at])
          BY <1>1, <2>1
        <4>2. QED
          BY <2>1, <3>1, <4>1
      <3>2. CASE m \in 1..(n - 1)
        <4>0. PICK i \in 1..Len(cs) : \E k \in 1..Len(cs[i]) : cs[i][k] = texts[m]
          BY <1>3, <3>2
        <4>1. PICK k \in 1..Len(cs[i]) : cs[i][k] = texts[m]
          BY <4>0
        <4>2. i \in 1..Len(new) /\ k \in 1..Len(new[i]) /\ new[i][k] = cs[i][k]
          BY <1>1, <2>1
        <4>3. QED
          BY <4>1, <4>2
      <3>3. QED
        BY <1>2, <3>1, <3>2
    <2>4. QED
      BY <2>2, <2>3 DEF TextsInClusters
  <1>6. QED
    BY <1>4, <1>5 DEF Moves

(* A cluster has one meaning, no two have the same, and it stays so.       *)
LEMMA MeaningsStay ==
    ASSUME NEW T, \A t \in T : IsFiniteSet(t), NEW cs \in Partition(T), NEW g \in T,
           NEW percent \in 0..100, NEW new, Moves(cs, g, percent, new),
           OneMeaningEach(cs, percent), MeaningsDiffer(cs, percent)
    PROVE  OneMeaningEach(new, percent) /\ MeaningsDiffer(new, percent)
  <1>1. Len(cs) \in Nat /\ \A i \in 1..Len(cs) : Len(cs[i]) \in Nat \ {0}
    BY ShapeOfAPartition
  <1>2. /\ \A i \in 1..Len(cs) : \A k \in 1..Len(cs[i]) :
             SameMeaning(cs[i][1], cs[i][k], percent)
        /\ \A i, j \in 1..Len(cs) : i < j => ~SameMeaning(cs[i][1], cs[j][1], percent)
    BY DEF OneMeaningEach, MeaningsDiffer
  <1>3. CASE Founds(cs, g, percent, new)
    <2>1. /\ Len(new) = Len(cs) + 1 /\ \A i \in 1..Len(cs) : new[i] = cs[i]
          /\ Len(new[Len(cs) + 1]) = 1 /\ new[Len(cs) + 1][1] = g
          /\ \A i \in 1..Len(cs) : ~SameMeaning(cs[i][1], g, percent)
      BY <1>3 DEF Founds
    <2>2. \A i \in 1..Len(new) : i \in 1..Len(cs) \/ i = Len(cs) + 1
      BY <1>1, <2>1
    <2>3. SameMeaning(g, g, percent)
      BY MeaningOfItself
    <2>4. \A k \in 1..1 : k = 1
      OBVIOUS
    <2>5. ASSUME NEW i \in 1..Len(new), NEW k \in 1..Len(new[i])
          PROVE  SameMeaning(new[i][1], new[i][k], percent)
      <3>1. CASE i \in 1..Len(cs)
        BY <1>2, <2>1, <3>1
      <3>2. CASE i = Len(cs) + 1
        <4>1. k = 1
          BY <2>1, <2>4, <3>2
        <4>2. QED
          BY <2>1, <2>3, <2>4, <3>2, <4>1
      <3>3. QED
        BY <2>2, <3>1, <3>2
    <2>6. ASSUME NEW i \in 1..Len(new), NEW j \in 1..Len(new), i < j
          PROVE  ~SameMeaning(new[i][1], new[j][1], percent)
      <3>1. i \in 1..Len(cs)
        BY <1>1, <2>1, <2>6
      <3>2. CASE j \in 1..Len(cs)
        BY <1>2, <2>1, <2>6, <3>1, <3>2
      <3>3. CASE j = Len(cs) + 1
        BY <2>1, <2>4, <3>1, <3>3
      <3>4. QED
        BY <2>2, <3>2, <3>3
    <2>7. QED
      BY <2>5, <2>6 DEF OneMeaningEach, MeaningsDiffer
  <1>4. ASSUME NEW at \in 1..Len(cs), Joins(cs, g, percent, new, at)
        PROVE  OneMeaningEach(new, percent) /\ MeaningsDiffer(new, percent)
    <2>1. /\ Len(new) = Len(cs) /\ \A j \in 1..Len(cs) : j # at => new[j] = cs[j]
          /\ Len(new[at]) = Len(cs[at]) + 1
          /\ \A k \in 1..Len(cs[at]) : new[at][k] = cs[at][k]
          /\ new[at][Len(cs[at]) + 1] = g
          /\ SameMeaning(cs[at][1], g, percent)
      BY <1>4 DEF Joins
    <2>2. \A i \in 1..Len(cs) : new[i][1] = cs[i][1]
      <3>1. 1 \in 1..Len(cs[at])
        BY <1>1
      <3>2. QED
        BY <2>1, <3>1
    <2>3. ASSUME NEW i \in 1..Len(new), NEW k \in 1..Len(new[i])
          PROVE  SameMeaning(new[i][1], new[i][k], percent)
      <3>1. CASE i # at
        BY <1>2, <2>1, <3>1
      <3>2. CASE i = at /\ k \in 1..Len(cs[at])
        BY <1>2, <2>1, <2>2, <3>2
      <3>3. CASE i = at /\ k = Len(cs[at]) + 1
        BY <2>1, <2>2, <3>3
      <3>4. i = at => k \in 1..Len(cs[at]) \/ k = Len(cs[at]) + 1
        BY <1>1, <2>1
      <3>5. QED
        BY <3>1, <3>2, <3>3, <3>4
    <2>4. MeaningsDiffer(new, percent)
      BY <1>2, <2>1, <2>2 DEF MeaningsDiffer
    <2>5. QED
      BY <2>3, <2>4 DEF OneMeaningEach
  <1>5. QED
    BY <1>3, <1>4 DEF Moves

(* The sizes are those of the clusters, and positive.                      *)
LEMMA SizesOfClusters ==
    ASSUME NEW T, NEW cs \in Partition(T)
    PROVE  /\ Sizes(cs) \in Seq(Nat \ {0}) /\ Sizes(cs) \in Seq(Int)
           /\ Len(Sizes(cs)) = Len(cs)
           /\ \A i \in 1..Len(cs) : Sizes(cs)[i] = Len(cs[i])
  <1>1. Len(cs) \in Nat /\ \A i \in 1..Len(cs) : Len(cs[i]) \in Nat \ {0}
    BY ShapeOfAPartition
  <1>2. PICK N \in Nat : N = Len(cs)
    BY <1>1
  <1> DEFINE size(i) == Len(cs[i])
             f == [i \in 1..N |-> size(i)]
  <1>3. \A i \in 1..N : size(i) \in Nat \ {0}
    BY <1>1, <1>2
  <1>4. Sizes(cs) = f
    BY <1>2 DEF Sizes
  <1>5. /\ f \in Seq(Nat \ {0}) /\ f \in Seq(Int) /\ Len(f) = N
        /\ \A i \in 1..N : f[i] = size(i)
    <2> HIDE DEF size
    <2>1. QED
      BY <1>3
  <1>6. QED
    BY <1>2, <1>4, <1>5

(* One more text is one more sample, in one cluster.                       *)
LEMMA SamplesAreCounted ==
    ASSUME NEW T, NEW cs \in Partition(T), NEW g, NEW percent, NEW new \in Partition(T),
           Moves(cs, g, percent, new)
    PROVE  SumOf(Sizes(new)) = SumOf(Sizes(cs)) + 1
  <1>1. /\ Len(cs) \in Nat /\ \A i \in 1..Len(cs) : Len(cs[i]) \in Nat
        /\ Len(new) \in Nat /\ \A i \in 1..Len(new) : Len(new[i]) \in Nat
    BY ShapeOfAPartition
  <1>2. PICK f \in Seq(Int) : f = Sizes(cs) /\ Len(f) = Len(cs)
                                /\ \A i \in 1..Len(cs) : f[i] = Len(cs[i])
    BY SizesOfClusters
  <1>3. PICK h \in Seq(Int) : h = Sizes(new) /\ Len(h) = Len(new)
                                /\ \A i \in 1..Len(new) : h[i] = Len(new[i])
    BY SizesOfClusters
  <1>4. CASE Founds(cs, g, percent, new)
    <2>1. Len(new) = Len(cs) + 1 /\ (\A i \in 1..Len(cs) : new[i] = cs[i])
          /\ Len(new[Len(cs) + 1]) = 1
      BY <1>4 DEF Founds
    <2>2. h = Append(f, 1)
      <3>0. ASSUME NEW i \in 1..Len(f) PROVE h[i] = f[i]
        <4>1. i \in 1..Len(cs) /\ i \in 1..Len(new) /\ new[i] = cs[i]
          BY <1>1, <1>2, <2>1
        <4>2. QED
          BY <1>2, <1>3, <4>1
      <3>1. Len(h) = Len(f) + 1 /\ h[Len(f) + 1] = 1 /\ \A i \in 1..Len(f) : h[i] = f[i]
        <4>1. PICK last \in 1..Len(new) : last = Len(cs) + 1
          BY <1>1, <2>1
        <4>2. h[last] = Len(new[last])
          BY <1>3
        <4>3. Len(new[last]) = 1
          BY <2>1, <4>1
        <4>4. QED
          BY <1>2, <1>3, <2>1, <3>0, <4>1, <4>2, <4>3
      <3>2. QED
        BY <3>1
    <2>3. QED
      BY <1>2, <1>3, <2>2, SumOfOneMore
  <1>5. ASSUME NEW at \in 1..Len(cs), Joins(cs, g, percent, new, at)
        PROVE  SumOf(Sizes(new)) = SumOf(Sizes(cs)) + 1
    <2>1. /\ Len(new) = Len(cs) /\ \A j \in 1..Len(cs) : j # at => new[j] = cs[j]
          /\ Len(new[at]) = Len(cs[at]) + 1
      BY <1>5 DEF Joins
    <2>2. at \in DOMAIN f /\ f[at] \in Int
      BY <1>2
    <2>3. h = [f EXCEPT ![at] = f[at] + 1]
      <3>1. Len(h) = Len(f) /\ \A i \in 1..Len(f) : h[i] = IF i = at THEN f[at] + 1 ELSE f[i]
        BY <1>1, <1>2, <1>3, <2>1
      <3>2. QED
        BY <2>2, <3>1
    <2>4. SumOf([f EXCEPT ![at] = f[at] + 1]) = SumOf(f) + (f[at] + 1) - f[at]
      <3>1. f[at] + 1 \in Int
        BY <2>2
      <3>2. QED
        BY <2>2, <3>1, SumOfAChange
    <2>5. SumOf(f) \in Int
      <3>1. PICK sum : SumsUp(f, sum)
        BY SumIsDefined
      <3>2. QED
        BY <3>1 DEF SumsUp
    <2>6. QED
      BY <1>2, <1>3, <2>2, <2>3, <2>4, <2>5
  <1>6. QED
    BY <1>4, <1>5 DEF Moves

(* At full threshold only the same tokens mean the same.                   *)
LEMMA FullThresholdIsEquality ==
    ASSUME NEW a, NEW b, IsFiniteSet(a), IsFiniteSet(b), SameMeaning(a, b, 100)
    PROVE  a = b
  <1>1. ASSUME NEW x, NEW y, IsFiniteSet(x), IsFiniteSet(y), Entails(x, y, 100)
        PROVE  y \subseteq x
    <2>1. CASE y = {}
      BY <2>1
    <2>2. CASE y # {}
      <3>1. 100 * Cardinality(y \cap x) >= 100 * Cardinality(y)
        BY <1>1, <2>2 DEF Entails
      <3>2. /\ IsFiniteSet(y \cap x) /\ Cardinality(y \cap x) \in Nat
            /\ Cardinality(y) \in Nat /\ Cardinality(y \cap x) <= Cardinality(y)
            /\ Cardinality(y \cap x) = Cardinality(y) => y \cap x = y
        <4>1. y \cap x \in SUBSET y
          OBVIOUS
        <4>2. QED
          BY <1>1, <4>1, FS_Subset, FS_CardinalityType
      <3>3. Cardinality(y \cap x) = Cardinality(y)
        BY <3>1, <3>2
      <3>4. QED
        BY <3>2, <3>3
    <2>3. QED
      BY <2>1, <2>2
  <1>2. Entails(a, b, 100) /\ Entails(b, a, 100)
    BY DEF SameMeaning
  <1>3. QED
    BY <1>1, <1>2

(* Two texts with the meaning of a third, of which one has a token more,   *)
(* are as long as the threshold asks: the longer one is part of the third, *)
(* and so the shorter one has to be enough of it.                          *)
LEMMA OneTokenMoreTakesLength ==
    ASSUME NEW r, NEW a, NEW b, IsFiniteSet(r), IsFiniteSet(a), NEW percent \in Nat,
           SameMeaning(r, a, percent), SameMeaning(r, b, percent), IsOneTokenMore(b, a)
    PROVE  100 * Cardinality(a) >= percent * (Cardinality(a) + 1)
  <1>1. PICK n \in Nat : n = Cardinality(a)
    BY FS_CardinalityType
  <1>2. PICK token \in b \ a : b = a \cup {token}
    BY DEF IsOneTokenMore
  <1>3. IsFiniteSet(b) /\ Cardinality(b) = n + 1 /\ b # {}
    BY <1>1, <1>2, FS_AddElement
  <1> SUFFICES ASSUME percent * (n + 1) > 100 * n PROVE FALSE
    <2>1. percent * (n + 1) \in Nat /\ 100 * n \in Nat
      OBVIOUS
    <2>2. QED
      BY <1>1, <2>1
  <1>4. b \subseteq r
    <2>1. b \cap r \in SUBSET b
      OBVIOUS
    <2>2. /\ Cardinality(b \cap r) \in Nat /\ Cardinality(b \cap r) <= n + 1
          /\ Cardinality(b \cap r) = n + 1 => b \cap r = b
      BY <1>3, <2>1, FS_Subset, FS_CardinalityType
    <2>3. 100 * Cardinality(b \cap r) >= percent * (n + 1)
      BY <1>3 DEF SameMeaning, Entails
    <2>4. Cardinality(b \cap r) > n
      <3>1. PICK k \in Nat : k = Cardinality(b \cap r)
        BY <2>2
      <3>2. 100 * k >= percent * (n + 1) /\ percent * (n + 1) \in Nat
        BY <2>3, <3>1
      <3>3. QED
        BY <3>1, <3>2
    <2>5. QED
      BY <2>2, <2>4
  <1>5. PICK k \in Nat : k = Cardinality(r) /\ n + 1 <= k /\ r # {}
    <2>1. b \in SUBSET r
      BY <1>4
    <2>2. QED
      BY <1>3, <2>1, FS_Subset, FS_CardinalityType
  <1>6. r \cap a = a
    BY <1>2, <1>4
  <1>7. 100 * n >= percent * k
    BY <1>1, <1>5, <1>6 DEF SameMeaning, Entails
  <1>8. percent * k >= percent * (n + 1)
    <2>1. PICK d \in Nat : k = (n + 1) + d
      <3>1. k - (n + 1) \in Nat /\ k = (n + 1) + (k - (n + 1))
        BY <1>5
      <3>2. QED
        BY <3>1
    <2>2. percent * k = percent * (n + 1) + percent * d /\ percent * d \in Nat
      BY <2>1
    <2>3. percent * (n + 1) \in Nat
      OBVIOUS
    <2>4. QED
      BY <2>2, <2>3
  <1>9. QED
    <2>1. percent * k \in Nat /\ percent * (n + 1) \in Nat
      OBVIOUS
    <2>2. QED
      BY <1>7, <1>8, <2>1

\* Those of the first n texts that are g.
SameAs(texts, n, g) == {m \in 1..n : texts[m] = g}

LengthsAreVotes(cs, texts, n) ==
    \A i \in 1..Len(cs) : Len(cs[i]) = Cardinality(SameAs(texts, n, cs[i][1]))

(* The next text votes for itself and for no other.                        *)
LEMMA VotesOfTheNext ==
    ASSUME NEW n \in Nat \ {0}, NEW texts, NEW g
    PROVE  /\ texts[n] # g => SameAs(texts, n, g) = SameAs(texts, n - 1, g)
           /\ texts[n] = g => /\ SameAs(texts, n, g) = SameAs(texts, n - 1, g) \cup {n}
                              /\ Cardinality(SameAs(texts, n, g))
                                   = Cardinality(SameAs(texts, n - 1, g)) + 1
  <1>1. \A m \in 1..n : m = n \/ m \in 1..(n - 1)
    OBVIOUS
  <1>2. n \notin 1..(n - 1) /\ 1..(n - 1) \subseteq 1..n /\ n \in 1..n
    OBVIOUS
  <1>3. texts[n] # g => SameAs(texts, n, g) = SameAs(texts, n - 1, g)
    BY <1>1, <1>2 DEF SameAs
  <1>4. ASSUME texts[n] = g
        PROVE  SameAs(texts, n, g) = SameAs(texts, n - 1, g) \cup {n}
    BY <1>1, <1>2, <1>4 DEF SameAs
  <1>5. /\ IsFiniteSet(SameAs(texts, n - 1, g)) /\ n \notin SameAs(texts, n - 1, g)
        /\ Cardinality(SameAs(texts, n - 1, g)) \in Nat
    <2>1. IsFiniteSet(1..(n - 1))
      BY FS_Interval
    <2>2. SameAs(texts, n - 1, g) \in SUBSET (1..(n - 1))
      BY DEF SameAs
    <2>3. QED
      BY <1>2, <2>1, <2>2, FS_Subset, FS_CardinalityType
  <1>6. Cardinality(SameAs(texts, n - 1, g) \cup {n})
          = Cardinality(SameAs(texts, n - 1, g)) + 1
    BY <1>5, FS_AddElement
  <1>7. QED
    BY <1>3, <1>4, <1>6

(* At full threshold a cluster is as long as its text has votes.           *)
LEMMA VotesAreCounted ==
    ASSUME NEW T, \A t \in T : IsFiniteSet(t), NEW cs \in Partition(T), NEW texts \in Seq(T),
           NEW n \in 1..Len(texts), NEW new, Moves(cs, texts[n], 100, new),
           TextsInClusters(cs, texts, n - 1), OneMeaningEach(cs, 100), MeaningsDiffer(cs, 100),
           LengthsAreVotes(cs, texts, n - 1)
    PROVE  LengthsAreVotes(new, texts, n)
  <1>1. PICK g \in T : g = texts[n]
    OBVIOUS
  <1>2. Len(cs) \in Nat /\ \A i \in 1..Len(cs) : Len(cs[i]) \in Nat \ {0} /\ cs[i][1] \in T
    BY ShapeOfAPartition
  <1>3. \A t \in T : SameMeaning(t, t, 100)
    <2>1. 100 \in 0..100
      OBVIOUS
    <2>2. QED
      BY <2>1, MeaningOfItself
  <1>4. n \in Nat \ {0}
    OBVIOUS
  <1>5. \A i \in 1..Len(cs) : Len(cs[i]) = Cardinality(SameAs(texts, n - 1, cs[i][1]))
    BY DEF LengthsAreVotes
  <1>6. CASE Founds(cs, g, 100, new)
    <2>1. /\ Len(new) = Len(cs) + 1 /\ \A i \in 1..Len(cs) : new[i] = cs[i]
          /\ Len(new[Len(cs) + 1]) = 1 /\ new[Len(cs) + 1][1] = g
          /\ \A i \in 1..Len(cs) : ~SameMeaning(cs[i][1], g, 100)
      BY <1>6 DEF Founds
    <2>2. \A i \in 1..Len(new) : i \in 1..Len(cs) \/ i = Len(cs) + 1
      BY <1>2, <2>1
    <2>3. ASSUME NEW i \in 1..Len(cs)
          PROVE  Len(new[i]) = Cardinality(SameAs(texts, n, new[i][1]))
      <3>1. new[i] = cs[i] /\ texts[n] # cs[i][1]
        BY <1>1, <1>2, <1>3, <2>1
      <3>2. SameAs(texts, n, cs[i][1]) = SameAs(texts, n - 1, cs[i][1])
        BY <1>4, <3>1, VotesOfTheNext
      <3>3. Len(cs[i]) = Cardinality(SameAs(texts, n, cs[i][1]))
        BY <1>5, <3>2
      <3>4. QED
        BY <3>1, <3>3
    <2>4. Cardinality(SameAs(texts, n, g)) = 1
      <3>1. ASSUME NEW m \in 1..(n - 1), texts[m] = g PROVE FALSE
        <4>1. PICK i \in 1..Len(cs) : \E k \in 1..Len(cs[i]) : cs[i][k] = g
          BY <3>1 DEF TextsInClusters
        <4>2. PICK k \in 1..Len(cs[i]) : cs[i][k] = g
          BY <4>1
        <4>3. SameMeaning(cs[i][1], g, 100)
          BY <4>2 DEF OneMeaningEach
        <4>4. QED
          BY <2>1, <4>3
      <3>2. SameAs(texts, n - 1, g) = {}
        BY <3>1 DEF SameAs
      <3>3. Cardinality(SameAs(texts, n, g)) = Cardinality(SameAs(texts, n - 1, g)) + 1
        BY <1>1, <1>4, VotesOfTheNext
      <3>4. Cardinality(SameAs(texts, n - 1, g)) = 0
        BY <3>2, FS_EmptySet
      <3>5. QED
        BY <3>3, <3>4
    <2>5. ASSUME NEW i \in 1..Len(new)
          PROVE  Len(new[i]) = Cardinality(SameAs(texts, n, new[i][1]))
      <3>1. CASE i \in 1..Len(cs)
        BY <2>3, <3>1
      <3>2. CASE i = Len(cs) + 1
        <4>1. Len(new[i]) = 1 /\ new[i][1] = g
          BY <2>1, <3>2
        <4>2. QED
          BY <2>4, <4>1
      <3>3. QED
        BY <2>2, <3>1, <3>2
    <2>6. QED
      BY <2>5 DEF LengthsAreVotes
  <1>7. ASSUME NEW at \in 1..Len(cs), Joins(cs, g, 100, new, at)
        PROVE  LengthsAreVotes(new, texts, n)
    <2>1. /\ Len(new) = Len(cs) /\ \A j \in 1..Len(cs) : j # at => new[j] = cs[j]
          /\ Len(new[at]) = Len(cs[at]) + 1
          /\ \A k \in 1..Len(cs[at]) : new[at][k] = cs[at][k]
          /\ SameMeaning(cs[at][1], g, 100)
      BY <1>7 DEF Joins
    <2>2. cs[at][1] = g /\ new[at][1] = g
      <3>1. cs[at][1] = g
        BY <1>2, <2>1, FullThresholdIsEquality
      <3>2. 1 \in 1..Len(cs[at])
        BY <1>2
      <3>3. QED
        BY <2>1, <3>1, <3>2
    <2>3. ASSUME NEW i \in 1..Len(new)
          PROVE  Len(new[i]) = Cardinality(SameAs(texts, n, new[i][1]))
      <3>1. CASE i = at
        <4>1. Cardinality(SameAs(texts, n, g)) = Cardinality(SameAs(texts, n - 1, g)) + 1
          BY <1>1, <1>4, VotesOfTheNext
        <4>2. Len(cs[at]) = Cardinality(SameAs(texts, n - 1, g))
          BY <1>5, <2>2
        <4>3. Len(new[at]) = Cardinality(SameAs(texts, n, g))
          BY <2>1, <4>1, <4>2
        <4>4. QED
          BY <2>2, <3>1, <4>3
      <3>2. CASE i # at
        <4>1. i \in 1..Len(cs) /\ new[i] = cs[i]
          BY <2>1, <3>2
        <4>2. texts[n] # cs[i][1]
          <5>1. i < at \/ at < i
            BY <1>2, <3>2, <4>1
          <5>2. ~SameMeaning(cs[i][1], g, 100) \/ ~SameMeaning(g, cs[i][1], 100)
            BY <2>2, <4>1, <5>1 DEF MeaningsDiffer
          <5>3. QED
            BY <1>1, <1>3, <5>2
        <4>3. SameAs(texts, n, cs[i][1]) = SameAs(texts, n - 1, cs[i][1])
          BY <1>4, <4>2, VotesOfTheNext
        <4>4. Len(cs[i]) = Cardinality(SameAs(texts, n, cs[i][1]))
          BY <1>5, <4>1, <4>3
        <4>5. QED
          BY <4>1, <4>4
      <3>3. QED
        BY <3>1, <3>2
    <2>4. QED
      BY <2>3 DEF LengthsAreVotes
  <1>8. QED
    BY <1>1, <1>6, <1>7 DEF Moves

\* What is true of the clusters of the first n texts.
WellGrouped(cs, texts, n, percent) ==
    /\ SumOf(Sizes(cs)) = n
    /\ TextsInClusters(cs, texts, n)
    /\ OneMeaningEach(cs, percent)
    /\ MeaningsDiffer(cs, percent)
    /\ percent = 100 => LengthsAreVotes(cs, texts, n)

(* What is true of the clusters is true of none.                           *)
LEMMA NothingIsWellGrouped ==
    ASSUME NEW texts, NEW percent
    PROVE  WellGrouped(<<>>, texts, 0, percent)
  <1>1. Len(<<>>) = 0 /\ 1..0 = {} /\ <<>> \in Partition({})
    BY DEF Partition
  <1>2. SumOf(Sizes(<<>>)) = 0
    <2>1. Sizes(<<>>) \in Seq(Int) /\ Len(Sizes(<<>>)) = 0
      BY <1>1, SizesOfClusters
    <2>2. Sizes(<<>>) = <<>>
      BY <2>1
    <2>3. QED
      BY <2>2, SumOfNothing
  <1>3. QED
    BY <1>1, <1>2 DEF WellGrouped, TextsInClusters, OneMeaningEach, MeaningsDiffer,
                      LengthsAreVotes

(* What is true of the clusters stays true with one text more.             *)
LEMMA NextIsWellGrouped ==
    ASSUME NEW T, \A t \in T : IsFiniteSet(t), NEW texts \in Seq(T), NEW percent \in 0..100,
           NEW n \in 1..Len(texts), NEW cs \in Partition(T),
           WellGrouped(cs, texts, n - 1, percent)
    PROVE  WellGrouped(Joined(cs, texts[n], percent), texts, n, percent)
  <1>1. PICK new : new = Joined(cs, texts[n], percent)
    OBVIOUS
  <1>2. texts[n] \in T /\ n \in Nat
    OBVIOUS
  <1>3. Moves(cs, texts[n], percent, new) /\ new \in Partition(T)
    BY <1>1, <1>2, ATextMoves, JoinedIsAPartition
  <1>4. SumOf(Sizes(new)) = n
    <2>1. SumOf(Sizes(new)) = SumOf(Sizes(cs)) + 1 /\ SumOf(Sizes(cs)) = n - 1
      BY <1>3, SamplesAreCounted DEF WellGrouped
    <2>2. QED
      BY <1>2, <2>1
  <1>5. TextsInClusters(new, texts, n)
    BY <1>3, TextsStayInClusters DEF WellGrouped
  <1>6. OneMeaningEach(new, percent) /\ MeaningsDiffer(new, percent)
    BY <1>2, <1>3, MeaningsStay DEF WellGrouped
  <1>7. ASSUME percent = 100 PROVE LengthsAreVotes(new, texts, n)
    BY <1>3, <1>7, VotesAreCounted DEF WellGrouped
  <1>8. QED
    BY <1>1, <1>4, <1>5, <1>6, <1>7 DEF WellGrouped

(* What is true of the clusters is true of all the texts.                  *)
LEMMA ClustersAreWellGrouped ==
    ASSUME NEW T, \A t \in T : IsFiniteSet(t), NEW texts \in Seq(T), NEW percent \in 0..100
    PROVE  /\ Clusters(texts, percent) \in Partition(T)
           /\ WellGrouped(Clusters(texts, percent), texts, Len(texts), percent)
  <1>1. PICK f : Groups(texts, percent, T, f)
    BY GroupsAreDefined
  <1>2. /\ f \in [0..Len(texts) -> Partition(T)] /\ Len(texts) \in Nat
        /\ Clusters(texts, percent) = f[Len(texts)] /\ f[0] = <<>>
        /\ \A n \in 1..Len(texts) : f[n] = Joined(f[n - 1], texts[n], percent)
    BY <1>1 DEF Groups
  <1> DEFINE U == {n \in 0..Len(texts) : WellGrouped(f[n], texts, n, percent)}
  <1>3. 0 \in U
    BY <1>2, NothingIsWellGrouped
  <1>4. ASSUME NEW n \in 1..Len(texts), n - 1 \in U PROVE n \in U
    <2>1. n - 1 \in 0..Len(texts) /\ n \in 0..Len(texts)
      OBVIOUS
    <2>2. f[n - 1] \in Partition(T) /\ WellGrouped(f[n - 1], texts, n - 1, percent)
      BY <1>2, <1>4, <2>1
    <2>3. WellGrouped(f[n], texts, n, percent)
      BY <1>2, <2>2, NextIsWellGrouped
    <2>4. QED
      BY <2>1, <2>3
  <1>5. Len(texts) \in U
    <2> HIDE DEF U
    <2>1. 0..Len(texts) \subseteq U
      BY <1>2, <1>3, <1>4, EveryPrefix
    <2>2. QED
      BY <1>2, <2>1
  <1>6. QED
    BY <1>2, <1>5

(* The clusters are the meanings of the texts: the core of                 *)
(* ClustersAreMeanings.                                                    *)
LEMMA ClustersKeepMeanings ==
    ASSUME NEW T, \A t \in T : IsFiniteSet(t), NEW texts \in Seq(T), NEW percent \in 0..100
    PROVE  ClustersAreMeanings(texts, percent)
  <1> DEFINE cs == Clusters(texts, percent)
  <1>1. cs \in Partition(T)
    BY ClustersAreWellGrouped
  <1>2. WellGrouped(cs, texts, Len(texts), percent)
    BY ClustersAreWellGrouped
  <1> HIDE DEF cs
  <1>3. /\ DOMAIN texts = 1..Len(texts) /\ Len(texts) \in Nat
        /\ Len(cs) \in Nat /\ DOMAIN cs = 1..Len(cs)
        /\ \A i \in 1..Len(cs) : /\ DOMAIN cs[i] = 1..Len(cs[i])
                                 /\ Len(cs[i]) \in Nat \ {0} /\ cs[i][1] \in T
                                 /\ \A k \in 1..Len(cs[i]) : cs[i][k] \in T
    BY <1>1, ShapeOfAPartition
  <1> DEFINE Inside(i) == {cs[i][k] : k \in DOMAIN cs[i]}
  <1>4. UNION {Inside(i) : i \in DOMAIN cs} = {texts[k] : k \in DOMAIN texts}
    <2>1. ASSUME NEW i \in DOMAIN cs, NEW x \in Inside(i)
          PROVE  x \in {texts[k] : k \in DOMAIN texts}
      <3>1. PICK k \in 1..Len(cs[i]) : x = cs[i][k]
        BY <1>3
      <3>2. \E m \in 1..Len(texts) : cs[i][k] = texts[m]
        BY <1>2, <1>3 DEF WellGrouped, TextsInClusters
      <3>3. QED
        BY <1>3, <3>1, <3>2
    <2>2. ASSUME NEW m \in DOMAIN texts PROVE \E i \in DOMAIN cs : texts[m] \in Inside(i)
      <3>1. \E i \in 1..Len(cs) : \E k \in 1..Len(cs[i]) : cs[i][k] = texts[m]
        BY <1>2, <1>3 DEF WellGrouped, TextsInClusters
      <3>2. QED
        BY <1>3, <3>1
    <2> HIDE DEF Inside
    <2>3. QED
      BY <2>1, <2>2
  <1>5. \A i \in DOMAIN cs : \A g \in Inside(i) : SameMeaning(cs[i][1], g, percent)
    BY <1>2, <1>3 DEF WellGrouped, OneMeaningEach
  <1>6. \A i, j \in DOMAIN cs : i < j => ~SameMeaning(cs[i][1], cs[j][1], percent)
    BY <1>2, <1>3 DEF WellGrouped, MeaningsDiffer
  <1>7. ASSUME percent = 100, NEW i \in DOMAIN cs PROVE Cardinality(Inside(i)) = 1
    <2>1. ASSUME NEW x \in Inside(i) PROVE x = cs[i][1]
      <3>1. SameMeaning(cs[i][1], x, 100)
        BY <1>5, <1>7
      <3>2. IsFiniteSet(x) /\ IsFiniteSet(cs[i][1])
        BY <1>3
      <3>3. QED
        BY <3>1, <3>2, FullThresholdIsEquality
    <2>2. cs[i][1] \in Inside(i)
      BY <1>3
    <2>3. Inside(i) = {cs[i][1]}
      <3> HIDE DEF Inside
      <3>1. QED
        BY <2>1, <2>2
    <2> HIDE DEF Inside
    <2>4. QED
      BY <2>3, FS_Singleton
  <1>8. SumOf(Sizes(cs)) = Len(texts)
    BY <1>2 DEF WellGrouped
  <1>9. ASSUME NEW i \in DOMAIN cs, NEW a \in Inside(i), NEW b \in Inside(i),
               IsOneTokenMore(b, a)
        PROVE  100 * Cardinality(a) >= percent * (Cardinality(a) + 1)
    <2>1. SameMeaning(cs[i][1], a, percent) /\ SameMeaning(cs[i][1], b, percent)
      BY <1>5
    <2>2. a \in T /\ cs[i][1] \in T
      BY <1>3
    <2>3. QED
      BY <1>9, <2>1, <2>2, OneTokenMoreTakesLength
  <1>10. QED
    BY <1>4, <1>5, <1>6, <1>7, <1>8, <1>9 DEF cs, ClustersAreMeanings

(* The entropy of the clusters of up to six texts.                         *)
EntropyIs(cs, samples, e) ==
    /\ e \in Int /\ samples >= Len(cs) /\ Len(cs) >= 1
    /\ Len(cs) = samples => e = XLogX[samples]
    /\ Len(cs) = 1 => e = 0
    /\ Len(cs) > 1 => e >= XLogX[samples] - XLogX[samples - 1]

(* The entropy of the clusters is what a partition of that size allows.    *)
LEMMA EntropyOfClusters ==
    ASSUME NEW T, NEW cs \in Partition(T), NEW samples \in 1..6, SumOf(Sizes(cs)) = samples
    PROVE  EntropyIs(cs, samples, Entropy(cs, samples))
  <1>1. /\ Len(cs) \in Nat /\ Sizes(cs) \in Seq(Nat \ {0}) /\ Len(Sizes(cs)) = Len(cs)
        /\ \A i \in 1..Len(cs) : Sizes(cs)[i] = Len(cs[i])
    BY ShapeOfAPartition, SizesOfClusters
  <1>2. PICK sizes \in Seq(Nat \ {0}) : sizes = Sizes(cs)
    BY <1>1
  <1>3. PICK N \in Nat : N = Len(cs) /\ N = Len(sizes)
    BY <1>1, <1>2
  <1>4. \A i \in 1..N : sizes[i] \in 1..6
    <2>1. PICK sum : SumsUp(sizes, sum)
      <3>1. sizes \in Seq(Int)
        OBVIOUS
      <3>2. QED
        BY <3>1, SumIsDefined
    <2>2. \A i \in 1..N : sizes[i] \in 1..samples
      BY <1>2, <1>3, <2>1, PartsAreSmaller
    <2>3. QED
      BY <2>2
  <1> DEFINE term(i) == XLogX[Len(cs[i])]
             terms == [i \in 1..N |-> term(i)]
  <1>5. \A i \in 1..N : term(i) = XLogX[sizes[i]] /\ term(i) \in Int
    <2>1. ASSUME NEW i \in 1..N PROVE sizes[i] = Len(cs[i])
      BY <1>1, <1>2, <1>3
    <2>2. ASSUME NEW i \in 1..N
          PROVE  XLogX[Len(cs[i])] = XLogX[sizes[i]] /\ XLogX[Len(cs[i])] \in Int
      <3>1. sizes[i] \in 1..6 /\ sizes[i] = Len(cs[i])
        BY <1>4, <2>1
      <3>2. XLogX[sizes[i]] \in Int
        <4>1. PICK x \in Nat : x = XLogX[sizes[i]]
          <5>1. \A a \in 1..6 : XLogX[a] \in Nat
            BY TableGrows
          <5>2. QED
            BY <3>1, <5>1, Zenon
        <4>2. QED
          BY <4>1
      <3>3. XLogX[Len(cs[i])] = XLogX[sizes[i]]
        BY <3>1
      <3>4. QED
        BY <3>2, <3>3
    <2>3. QED
      BY <2>2
  <1>6. terms \in Seq(Int) /\ Len(terms) = Len(sizes)
        /\ \A i \in 1..Len(sizes) : terms[i] = XLogX[sizes[i]]
    <2> HIDE DEF term
    <2>1. QED
      BY <1>3, <1>5
  <1>7. Entropy(cs, samples) = XLogX[samples] - SumOf(terms)
    BY <1>3 DEF Entropy
  <1>8. PICK p \in Int : p = SumOf(terms) /\ EntropyOf(N, samples, p)
    <2> HIDE DEF terms
    <2>1. SumOf(terms) \in Int /\ EntropyOf(Len(sizes), SumOf(sizes), SumOf(terms))
      BY <1>2, <1>6, EntropyOfAPartition
    <2>2. QED
      BY <1>2, <1>3, <2>1
  <1>9. PICK x \in Nat : x = XLogX[samples]
    BY TableGrows
  <1>10. /\ samples >= N /\ N # 0 /\ (samples = N => p = 0) /\ (N = 1 => p = x)
         /\ N > 1 => p <= XLogX[samples - 1]
    BY <1>8, <1>9 DEF EntropyOf
  <1>11. N > 1 => XLogX[samples - 1] \in Nat
    <2>1. N > 1 => samples - 1 \in 1..6
      BY <1>10
    <2>2. QED
      BY <2>1, TableGrows
  <1>12. Entropy(cs, samples) = x - p
    BY <1>7, <1>8, <1>9
  <1>13. /\ x - p \in Int /\ samples >= N /\ N >= 1 /\ (samples = N => x - p = x)
         /\ N = 1 => x - p = 0
    BY <1>10
  <1>14. N > 1 => x - p >= x - XLogX[samples - 1]
    BY <1>10, <1>11
  <1>15. QED
    BY <1>3, <1>9, <1>12, <1>13, <1>14 DEF EntropyIs

-----------------------------------------------------------------------------
(* The gate, and the samples it is asked about.                            *)

\* What is known of a gate that can be built.
Fires(texts, samples, threshold, percent) ==
    /\ Fireable(samples, threshold, percent) /\ Len(texts) = samples
    /\ Gate(texts, samples, threshold, percent) =
         [error |-> FALSE, clusters |-> Clusters(texts, percent),
          pass |-> Entropy(Clusters(texts, percent), samples) <= samples * threshold]
    /\ EntropyIs(Clusters(texts, percent), samples,
                 Entropy(Clusters(texts, percent), samples))
    /\ samples * threshold \in Nat /\ samples * threshold < XLogX[samples]

(* A gate that can be built can fire.                                      *)
LEMMA GatesCanFire ==
    ASSUME NEW T, \A t \in T : IsFiniteSet(t), NEW texts \in Seq(T),
           NEW samples \in 1..6, NEW threshold \in Int, NEW percent \in Int,
           ~Gate(texts, samples, threshold, percent).error
    PROVE  Fires(texts, samples, threshold, percent)
  <1>1. Fireable(samples, threshold, percent) /\ Len(texts) = samples
    <2>1. ASSUME ~(Fireable(samples, threshold, percent) /\ Len(texts) = samples) PROVE FALSE
      <3>1. Gate(texts, samples, threshold, percent) = [error |-> TRUE]
        BY <2>1 DEF Gate
      <3>2. QED
        BY <3>1
    <2>2. QED
      BY <2>1
  <1>2. Gate(texts, samples, threshold, percent) =
           [error |-> FALSE, clusters |-> Clusters(texts, percent),
            pass |-> Entropy(Clusters(texts, percent), samples) <= samples * threshold]
    BY <1>1 DEF Gate
  <1>3. percent \in 0..100 /\ 0 <= threshold /\ samples * threshold < XLogX[samples]
    BY <1>1 DEF Fireable
  <1>4. samples * threshold \in Nat
    BY <1>3
  <1>5. EntropyIs(Clusters(texts, percent), samples,
                  Entropy(Clusters(texts, percent), samples))
    <2>1. /\ Clusters(texts, percent) \in Partition(T)
          /\ WellGrouped(Clusters(texts, percent), texts, Len(texts), percent)
      BY <1>3, ClustersAreWellGrouped
    <2>2. SumOf(Sizes(Clusters(texts, percent))) = samples
      BY <1>1, <2>1 DEF WellGrouped
    <2>3. QED
      BY <2>1, <2>2, EntropyOfClusters
  <1>6. QED
    BY <1>1, <1>2, <1>3, <1>4, <1>5 DEF Fires

(* A gate that answers keeps its promises, for any texts.                  *)
LEMMA GateKeepsItsPromises ==
    ASSUME NEW T, \A t \in T : IsFiniteSet(t), NEW texts \in Seq(T),
           NEW samples \in 1..6, NEW threshold \in Int, NEW percent \in Int,
           ~Gate(texts, samples, threshold, percent).error
    PROVE  ClustersAreMeanings(texts, percent) /\ GateCanFire(texts, samples, threshold, percent)
  <1> DEFINE verdict == Gate(texts, samples, threshold, percent)
             cs == Clusters(texts, percent)
             e == Entropy(cs, samples)
  <1>1. ClustersAreMeanings(texts, percent)
    <2>1. percent \in 0..100
      BY GatesCanFire DEF Fireable, Fires
    <2>2. QED
      BY <2>1, ClustersKeepMeanings
  <1>0. /\ samples * threshold \in Nat /\ samples * threshold < XLogX[samples]
        /\ verdict = [error |-> FALSE, clusters |-> cs, pass |-> e <= samples * threshold]
        /\ EntropyIs(cs, samples, e)
    BY GatesCanFire DEF Fires
  <1>2. PICK t \in Nat : t = samples * threshold /\ t < XLogX[samples]
    BY <1>0
  <1>3. verdict.clusters = cs /\ (verdict.pass <=> e <= samples * threshold)
    <2>1. /\ verdict.clusters = cs /\ verdict.pass = (e <= samples * threshold)
      <3> HIDE DEF e, cs
      <3>1. QED
        BY <1>0
    <2>2. QED
      BY <2>1
  <1>4. /\ e \in Int /\ (Len(cs) = samples => e = XLogX[samples])
        /\ Len(cs) = 1 => e = 0
    BY <1>0 DEF EntropyIs
  <1>5. XLogX[samples] \in Nat
    BY TableGrows
  <1> HIDE DEF e, cs, verdict
  <1>6. Len(verdict.clusters) = samples => ~verdict.pass
    BY <1>2, <1>3, <1>4, <1>5
  <1>7. Len(verdict.clusters) = 1 => verdict.pass
    BY <1>2, <1>3, <1>4
  <1>8. QED
    BY <1>1, <1>6, <1>7 DEF verdict, GateCanFire

(* Max of bounded numbers is the greatest of them.                         *)
LEMMA MaxIsGreatest ==
    ASSUME NEW B \in Nat, NEW S, S \subseteq 0..B, S # {}
    PROVE  Max(S) \in S /\ \A k \in S : k <= Max(S)
  <1> DEFINE U == {B - k : k \in S}
  <1>1. U \subseteq Nat /\ U # {}
    <2>1. \A k \in S : B - k \in Nat
      OBVIOUS
    <2>2. QED
      BY <2>1
  <1>2. PICK m \in U : \A k \in U : m <= k
    <2> HIDE DEF U
    <2>1. QED
      BY <1>1, LeastElement
  <1>3. PICK x \in S : m = B - x
    BY <1>2
  <1>4. \A y \in S : x >= y
    BY <1>2, <1>3
  <1>5. QED
    BY <1>3, <1>4 DEF Max


(* The cluster that is chosen is one of the largest.                       *)
LEMMA TheLargestIsChosen ==
    ASSUME NEW T, NEW cs \in Partition(T), NEW samples \in Nat, SumOf(Sizes(cs)) = samples,
           Len(cs) >= 1
    PROVE  LET sizes == Sizes(cs)
               largest == Min({k \in DOMAIN sizes : sizes[k] = Max(Range(sizes))})
           IN largest \in 1..Len(cs) /\ \A i \in 1..Len(cs) : Len(cs[i]) <= Len(cs[largest])
  <1>1. /\ Len(cs) \in Nat /\ Sizes(cs) \in Seq(Nat \ {0}) /\ Len(Sizes(cs)) = Len(cs)
        /\ \A i \in 1..Len(cs) : Sizes(cs)[i] = Len(cs[i])
    BY ShapeOfAPartition, SizesOfClusters
  <1>2. PICK sizes \in Seq(Nat \ {0}) : sizes = Sizes(cs)
    BY <1>1
  <1>3. DOMAIN sizes = 1..Len(cs) /\ \A i \in 1..Len(cs) : sizes[i] = Len(cs[i])
    BY <1>1, <1>2
  <1>4. \A i \in 1..Len(cs) : sizes[i] \in 1..samples
    <2>1. PICK sum : SumsUp(sizes, sum)
      <3>1. sizes \in Seq(Int)
        OBVIOUS
      <3>2. QED
        BY <3>1, SumIsDefined
    <2>2. \A i \in 1..Len(sizes) : sizes[i] \in 1..samples
      BY <1>2, <2>1, PartsAreSmaller
    <2>3. QED
      BY <1>1, <1>2, <2>2
  <1> DEFINE S == Range(sizes)
             at == {k \in DOMAIN sizes : sizes[k] = Max(S)}
  <1>5. S \subseteq 0..samples /\ S # {}
    <2>1. S = {sizes[i] : i \in 1..Len(cs)}
      BY <1>3 DEF Range
    <2>2. 1 \in 1..Len(cs)
      BY <1>1
    <2>3. QED
      BY <1>4, <2>1, <2>2
  <1>6. Max(S) \in S /\ \A k \in S : k <= Max(S)
    <2> HIDE DEF S
    <2>1. QED
      BY <1>5, MaxIsGreatest
  <1>7. at \subseteq Nat /\ at # {}
    <2>1. \E k \in DOMAIN sizes : sizes[k] = Max(S)
      BY <1>6 DEF Range
    <2>2. QED
      BY <1>3, <2>1
  <1>8. PICK largest : largest = Min(at) /\ largest \in at
    <2> HIDE DEF at
    <2>1. QED
      BY <1>7, MinIsLeast
  <1>9. largest \in 1..Len(cs) /\ sizes[largest] = Max(S)
    BY <1>3, <1>8
  <1>10. ASSUME NEW i \in 1..Len(cs) PROVE Len(cs[i]) <= Len(cs[largest])
    <2>1. sizes[i] \in S
      BY <1>3 DEF Range
    <2>2. sizes[i] <= sizes[largest]
      BY <1>6, <1>9, <2>1
    <2>3. QED
      BY <1>3, <1>9, <2>2
  <1>11. largest = Min({k \in DOMAIN Sizes(cs) : Sizes(cs)[k] = Max(Range(Sizes(cs)))})
    BY <1>2, <1>8
  <1>12. QED
    BY <1>9, <1>10, <1>11

\* Where a text is first.
FirstOf(forms, g) == Min({k \in DOMAIN forms : forms[k] = g})

(* The first text that is g is one of the texts, and is g.                 *)
LEMMA TheFirstIsAResult ==
    ASSUME NEW N \in Nat, NEW forms, DOMAIN forms = 1..N, NEW g, \E m \in 1..N : forms[m] = g
    PROVE  FirstOf(forms, g) \in 1..N /\ forms[FirstOf(forms, g)] = g
  <1> DEFINE at == {k \in DOMAIN forms : forms[k] = g}
  <1>1. at \subseteq Nat /\ at # {}
    OBVIOUS
  <1>2. Min(at) \in at
    <2> HIDE DEF at
    <2>1. QED
      BY <1>1, MinIsLeast
  <1>3. QED
    BY <1>2 DEF FirstOf

\* The tokens of the results, in a named form: what the gate is given.
FormsOf(results) == [k \in DOMAIN results |-> CanonicalTokens(results[k])]

(* The canonical forms of the results are texts, one for each.             *)
LEMMA FormsAreTexts ==
    ASSUME NEW R, NEW results \in Seq(R)
    PROVE  /\ FormsOf(results) \in Seq({CanonicalTokens(r) : r \in R})
           /\ Len(FormsOf(results)) = Len(results)
           /\ Len(results) \in Nat
           /\ DOMAIN results = 1..Len(results) /\ DOMAIN FormsOf(results) = 1..Len(results)
           /\ \A k \in 1..Len(results) : FormsOf(results)[k] = CanonicalTokens(results[k])
  <1>1. Len(results) \in Nat /\ DOMAIN results = 1..Len(results)
        /\ \A k \in 1..Len(results) : results[k] \in R
    OBVIOUS
  <1>2. PICK N \in Nat : N = Len(results)
    BY <1>1
  <1> DEFINE form(k) == CanonicalTokens(results[k])
             T == {CanonicalTokens(r) : r \in R}
             f == [k \in 1..N |-> form(k)]
  <1>3. \A k \in 1..N : form(k) \in T
    BY <1>1, <1>2
  <1>4. FormsOf(results) = f
    BY <1>1, <1>2 DEF FormsOf
  <1>5. f \in Seq(T) /\ Len(f) = N /\ DOMAIN f = 1..N /\ \A k \in 1..N : f[k] = form(k)
    <2> HIDE DEF form, T
    <2>1. QED
      BY <1>3
  <1> HIDE DEF f
  <1>6. QED
    BY <1>1, <1>2, <1>4, <1>5

\* What is known of an answer of sample_and_gate.
IsSampled(R, results, threshold) ==
    LET forms == FormsOf(results)
        cs == Clusters(forms, 100)
        e == Entropy(cs, Len(results))
    IN /\ WellGrouped(cs, forms, Len(results), 100)
       /\ cs \in Partition({CanonicalTokens(r) : r \in R})
       /\ EntropyIs(cs, Len(results), e)
       /\ SampleAndGate(results, threshold).agreed = (e <= Len(results) * threshold)
       /\ Len(results) * threshold \in Nat
       /\ \E largest \in 1..Len(cs) : \E first \in 1..Len(results) :
            /\ \A i \in 1..Len(cs) : Len(cs[i]) <= Len(cs[largest])
            /\ forms[first] = cs[largest][1]
            /\ SampleAndGate(results, threshold).winner = results[first]

(* An answer of sample_and_gate is the result of a largest cluster.        *)
LEMMA SamplesAreChosen ==
    ASSUME NEW R, \A r \in R : IsFiniteSet(CanonicalTokens(r)),
           NEW results \in Seq(R), Len(results) \in 1..6, NEW threshold \in Int,
           ~SampleAndGate(results, threshold).error
    PROVE  IsSampled(R, results, threshold)
  <1> DEFINE T == {CanonicalTokens(r) : r \in R}
  <1>1. PICK forms \in Seq(T) : forms = FormsOf(results) /\ Len(forms) = Len(results)
    BY FormsAreTexts
  <1>2. PICK samples \in 1..6 : samples = Len(results)
    OBVIOUS
  <1>3. DOMAIN forms = 1..samples
    BY <1>1, <1>2
  <1>4. \A t \in T : IsFiniteSet(t)
    OBVIOUS
  <1> DEFINE verdict == Gate(forms, samples, threshold, 100)
             cs == Clusters(forms, 100)
             e == Entropy(cs, samples)
             sizes == Sizes(verdict.clusters)
             largest == Min({k \in DOMAIN sizes : sizes[k] = Max(Range(sizes))})
             first == Min({k \in DOMAIN forms : forms[k] = verdict.clusters[largest][1]})
  <1>5. SampleAndGate(results, threshold) =
          IF verdict.error THEN [error |-> TRUE]
          ELSE [error |-> FALSE, winner |-> results[first], agreed |-> verdict.pass]
    BY <1>1, <1>2 DEF SampleAndGate, FormsOf
  <1>6. ~verdict.error
    <2>1. ASSUME verdict.error PROVE FALSE
      <3>1. SampleAndGate(results, threshold) = [error |-> TRUE]
        BY <1>5, <2>1
      <3>2. QED
        BY <3>1
    <2>2. QED
      BY <2>1
  <1>7. /\ Len(forms) = samples
        /\ verdict = [error |-> FALSE, clusters |-> cs, pass |-> e <= samples * threshold]
        /\ EntropyIs(cs, samples, e) /\ samples * threshold \in Nat
    <2> HIDE DEF T
    <2>1. 100 \in Int /\ ~Gate(forms, samples, threshold, 100).error
      BY <1>6
    <2>2. Fires(forms, samples, threshold, 100)
      BY <1>4, <2>1, GatesCanFire
    <2>3. QED
      BY <2>2 DEF Fires
  <1>8. cs \in Partition(T) /\ WellGrouped(cs, forms, samples, 100)
    <2> HIDE DEF T
    <2>1. 100 \in 0..100
      OBVIOUS
    <2>2. QED
      BY <1>4, <1>7, <2>1, ClustersAreWellGrouped
  <1> HIDE DEF T, cs, e
  <1>9. verdict.clusters = cs /\ verdict.pass = (e <= samples * threshold)
    BY <1>7
  <1>10. largest \in 1..Len(cs) /\ \A i \in 1..Len(cs) : Len(cs[i]) <= Len(cs[largest])
    <2>1. Len(cs) >= 1 /\ SumOf(Sizes(cs)) = samples
      BY <1>7, <1>8 DEF EntropyIs, WellGrouped
    <2>2. samples \in Nat
      OBVIOUS
    <2>3. QED
      BY <1>8, <1>9, <2>1, <2>2, TheLargestIsChosen
  <1> HIDE DEF largest, verdict
  <1>11. first \in 1..samples /\ forms[first] = cs[largest][1]
    <2>1. 1 \in 1..Len(cs[largest])
      BY <1>8, <1>10, ShapeOfAPartition
    <2>2. \E m \in 1..samples : forms[m] = cs[largest][1]
      BY <1>8, <1>10, <2>1 DEF WellGrouped, TextsInClusters
    <2>3. samples \in Nat
      OBVIOUS
    <2>4. PICK g : g = cs[largest][1]
      OBVIOUS
    <2>5. \E m \in 1..samples : forms[m] = g
      BY <2>2, <2>4
    <2>6. FirstOf(forms, g) \in 1..samples /\ forms[FirstOf(forms, g)] = g
      BY <1>3, <2>3, <2>5, TheFirstIsAResult
    <2>7. first = FirstOf(forms, g)
      BY <1>9, <2>4 DEF FirstOf
    <2>8. QED
      BY <2>4, <2>6, <2>7
  <1> HIDE DEF first
  <1>12. /\ SampleAndGate(results, threshold).winner = results[first]
         /\ SampleAndGate(results, threshold).agreed = (e <= samples * threshold)
    <2>1. SampleAndGate(results, threshold) =
             [error |-> FALSE, winner |-> results[first], agreed |-> verdict.pass]
      BY <1>5, <1>6
    <2>2. QED
      BY <1>9, <2>1
  <1>13. QED
    BY <1>1, <1>2, <1>7, <1>8, <1>10, <1>11, <1>12 DEF cs, e, T, IsSampled

\* What is known of the answer to repeated samples.
SamplesAgreeOr(results, threshold, result) ==
    LET samples == Len(results)
        Votes(r) == Cardinality({k \in DOMAIN results :
                        CanonicalTokens(results[k]) = CanonicalTokens(r)})
        unanimous == \A r \in Range(results) :
                        CanonicalTokens(r) = CanonicalTokens(result.winner)
    IN /\ result.winner \in Range(results)
       /\ \A r \in Range(results) : Votes(r) <= Votes(result.winner)
       /\ unanimous => result.agreed
       /\ samples * threshold < OneDissenter(samples) => (result.agreed => unanimous)

(* An answer of sample_and_gate keeps its promises, for any results.       *)
LEMMA SamplesKeepTheirPromises ==
    ASSUME NEW R, \A r \in R : IsFiniteSet(CanonicalTokens(r)),
           NEW results \in Seq(R), Len(results) \in 1..6, NEW threshold \in Int,
           ~SampleAndGate(results, threshold).error
    PROVE  SamplesAgreeOr(results, threshold, SampleAndGate(results, threshold))
  <1> DEFINE T == {CanonicalTokens(r) : r \in R}
             winner == SampleAndGate(results, threshold).winner
             agreed == SampleAndGate(results, threshold).agreed
             Votes(r) == Cardinality({k \in DOMAIN results :
                             CanonicalTokens(results[k]) = CanonicalTokens(r)})
             unanimous == \A r \in Range(results) :
                             CanonicalTokens(r) = CanonicalTokens(winner)
             N == Len(results)
             forms == FormsOf(results)
             cs == Clusters(forms, 100)
             e == Entropy(cs, N)
  <1>1. IsSampled(R, results, threshold)
    BY SamplesAreChosen
  <1>2. /\ WellGrouped(cs, forms, N, 100) /\ cs \in Partition(T)
        /\ EntropyIs(cs, N, e) /\ agreed = (e <= N * threshold) /\ N * threshold \in Nat
        /\ \E largest \in 1..Len(cs) : \E first \in 1..N :
             /\ \A i \in 1..Len(cs) : Len(cs[i]) <= Len(cs[largest])
             /\ forms[first] = cs[largest][1]
             /\ winner = results[first]
    BY <1>1 DEF IsSampled
  <1>3. /\ N \in Nat /\ DOMAIN results = 1..N
        /\ \A k \in 1..N : forms[k] = CanonicalTokens(results[k]) /\ forms[k] \in T
    <2>1. \A k \in 1..N : results[k] \in R
      OBVIOUS
    <2>2. \A k \in 1..N : CanonicalTokens(results[k]) \in T
      BY <2>1
    <2> HIDE DEF T
    <2>3. QED
      BY <2>2, FormsAreTexts
  <1>4. \A t \in T : IsFiniteSet(t)
    OBVIOUS
  <1>5. Range(results) = {results[k] : k \in 1..N}
    BY <1>3 DEF Range
  <1>6. \A r : Votes(r) = Cardinality(SameAs(forms, N, CanonicalTokens(r)))
    <2>1. ASSUME NEW r
          PROVE  {k \in DOMAIN results : CanonicalTokens(results[k]) = CanonicalTokens(r)}
                   = SameAs(forms, N, CanonicalTokens(r))
      <3> HIDE DEF forms
      <3>1. QED
        BY <1>3 DEF SameAs
    <2>2. QED
      BY <2>1
  <1> HIDE DEF T, winner, agreed, Votes, N, forms, cs, e
  <1>7. PICK largest \in 1..Len(cs) :
          \E first \in 1..N :
             /\ \A i \in 1..Len(cs) : Len(cs[i]) <= Len(cs[largest])
             /\ forms[first] = cs[largest][1]
             /\ winner = results[first]
    BY <1>2
  <1>8. PICK first \in 1..N :
             /\ \A i \in 1..Len(cs) : Len(cs[i]) <= Len(cs[largest])
             /\ forms[first] = cs[largest][1]
             /\ winner = results[first]
    BY <1>7
  <1>9. /\ Len(cs) \in Nat
        /\ \A i \in 1..Len(cs) : Len(cs[i]) \in Nat \ {0} /\ cs[i][1] \in T
        /\ \A i \in 1..Len(cs) : \A k \in 1..Len(cs[i]) : cs[i][k] \in T
    BY <1>2, ShapeOfAPartition
  <1>10. CanonicalTokens(winner) = cs[largest][1]
    BY <1>3, <1>8
  <1>11. \A i \in 1..Len(cs) : Len(cs[i]) = Cardinality(SameAs(forms, N, cs[i][1]))
    BY <1>2 DEF WellGrouped, LengthsAreVotes
  (* Every sample is in a cluster of those that are the same.              *)
  <1>12. ASSUME NEW m \in 1..N PROVE \E i \in 1..Len(cs) : forms[m] = cs[i][1]
    <2>1. PICK i \in 1..Len(cs) : \E k \in 1..Len(cs[i]) : cs[i][k] = forms[m]
      BY <1>2 DEF WellGrouped, TextsInClusters
    <2>2. PICK k \in 1..Len(cs[i]) : cs[i][k] = forms[m]
      BY <2>1
    <2>3. SameMeaning(cs[i][1], forms[m], 100)
      BY <1>2, <2>2 DEF WellGrouped, OneMeaningEach
    <2>4. IsFiniteSet(cs[i][1]) /\ IsFiniteSet(forms[m])
      BY <1>3, <1>4, <1>9
    <2>5. QED
      BY <2>3, <2>4, FullThresholdIsEquality
  <1>13. winner \in Range(results)
    BY <1>5, <1>8
  <1>14. ASSUME NEW r \in Range(results) PROVE Votes(r) <= Votes(winner)
    <2>1. PICK m \in 1..N : r = results[m]
      BY <1>5
    <2>2. PICK i \in 1..Len(cs) : forms[m] = cs[i][1]
      BY <1>12
    <2>3. CanonicalTokens(r) = cs[i][1]
      BY <1>3, <2>1, <2>2
    <2>4. Votes(r) = Len(cs[i])
      BY <1>6, <1>11, <2>3
    <2>5. Votes(winner) = Len(cs[largest])
      BY <1>6, <1>10, <1>11
    <2>6. QED
      BY <1>8, <2>4, <2>5
  <1>15. ASSUME unanimous PROVE agreed
    <2>1. \A i \in 1..Len(cs) : cs[i][1] = CanonicalTokens(winner)
      <3>1. ASSUME NEW i \in 1..Len(cs) PROVE cs[i][1] = CanonicalTokens(winner)
        <4>1. 1 \in 1..Len(cs[i])
          BY <1>9
        <4>2. PICK m \in 1..N : cs[i][1] = forms[m]
          BY <1>2, <4>1 DEF WellGrouped, TextsInClusters
        <4>3. results[m] \in Range(results)
          BY <1>5
        <4>4. QED
          BY <1>3, <1>15, <4>2, <4>3
      <3>2. QED
        BY <3>1
    <2>2. Len(cs) = 1
      <3>1. Len(cs) >= 1
        BY <1>2 DEF EntropyIs
      <3>2. ASSUME Len(cs) > 1 PROVE FALSE
        <4>1. 1 \in 1..Len(cs) /\ 2 \in 1..Len(cs) /\ 1 < 2
          BY <1>9, <3>2
        <4>2. ~SameMeaning(cs[1][1], cs[2][1], 100)
          BY <1>2, <4>1 DEF WellGrouped, MeaningsDiffer
        <4>3. cs[1][1] = cs[2][1] /\ IsFiniteSet(cs[1][1]) /\ 100 \in 0..100
          BY <1>4, <1>9, <2>1, <4>1
        <4>4. SameMeaning(cs[1][1], cs[1][1], 100)
          BY <4>3, MeaningOfItself
        <4>5. SameMeaning(cs[1][1], cs[2][1], 100)
          BY <4>3, <4>4, Zenon
        <4>6. QED
          BY <4>2, <4>5
      <3>3. PICK n \in Nat : n = Len(cs)
        BY <1>9
      <3>4. n >= 1 /\ ~(n > 1)
        BY <3>1, <3>2, <3>3
      <3>5. n = 1
        BY <3>4
      <3>6. QED
        BY <3>3, <3>5
    <2>3. e = 0
      BY <1>2, <2>2 DEF EntropyIs
    <2>4. e <= N * threshold
      BY <1>2, <2>3
    <2>5. QED
      BY <1>2, <2>4
  <1>16. ASSUME N * threshold < OneDissenter(N), agreed PROVE unanimous
    <2>1. e <= N * threshold
      BY <1>2, <1>16
    <2>2. Len(cs) = 1
      <3>1. e \in Int /\ Len(cs) >= 1 /\ (Len(cs) > 1 => e >= OneDissenter(N))
        BY <1>2 DEF EntropyIs, OneDissenter
      <3>2. ASSUME Len(cs) > 1 PROVE FALSE
        <4>1. N \in 1..6 /\ N - 1 \in 1..6
          <5>1. N >= Len(cs)
            BY <1>2 DEF EntropyIs
          <5>2. N \in 1..6
            BY DEF N
          <5>3. QED
            BY <1>9, <3>2, <5>1, <5>2
        <4>2. XLogX[N] \in Nat /\ XLogX[N - 1] \in Nat
          BY <4>1, TableGrows
        <4>3. PICK d \in Int : d = OneDissenter(N)
          BY <4>2 DEF OneDissenter
        <4>4. PICK t \in Nat : t = N * threshold
          BY <1>2
        <4>5. PICK x \in Int : x = e
          BY <3>1
        <4>6. x <= t /\ t < d /\ x >= d
          <5>1. x <= t
            BY <2>1, <4>4, <4>5
          <5>2. t < d
            BY <1>16, <4>3, <4>4
          <5>3. x >= d
            BY <3>1, <3>2, <4>3, <4>5
          <5>4. QED
            BY <5>1, <5>2, <5>3
        <4>7. QED
          BY <4>6
      <3>3. PICK n \in Nat : n = Len(cs)
        BY <1>9
      <3>4. n >= 1 /\ ~(n > 1)
        BY <3>1, <3>2, <3>3
      <3>5. n = 1
        BY <3>4
      <3>6. QED
        BY <3>3, <3>5
    <2>3. ASSUME NEW r \in Range(results) PROVE CanonicalTokens(r) = CanonicalTokens(winner)
      <3>1. PICK m \in 1..N : r = results[m]
        BY <1>5
      <3>2. PICK i \in 1..Len(cs) : forms[m] = cs[i][1]
        BY <1>12
      <3>3. i = 1 /\ largest = 1
        BY <2>2
      <3>4. QED
        BY <1>3, <1>10, <3>1, <3>2, <3>3
    <2>4. QED
      BY <2>3
  <1>17. QED
    BY <1>13, <1>14, <1>15, <1>16 DEF winner, agreed, Votes, N, SamplesAgreeOr

-----------------------------------------------------------------------------
(* The calls.                                                              *)

(***************************************************************************)
(* What is known of a call in every state: its inputs have their types,    *)
(* a question that was not refused was put to a preference order, and what *)
(* was asked of a backend or of the gate, or about a graph or a clause,    *)
(* has the answer that the code computes.                                  *)
(***************************************************************************)
PreemptCall ==
    call.of = "preempt" => /\ call.input.o \in Obligations
                           /\ call.input.rules \in Seq(PreemptionRule)

FloorCall ==
    call.of = "floor" => call.input.o \in Obligations /\ call.input.rule \in FloorRule

ModelCall ==
    call.of = "ask" =>
      LET m == call.input.model
          psi == call.input.question[1]
          phi == call.input.question[2]
      IN /\ psi \in Formula /\ phi \in Formula
         /\ m = Rejected => answer = Rejected
         /\ m # Rejected =>
               /\ m \in Draft
               /\ answer = IF IsModel(m) THEN Evaluate(m, psi, phi) ELSE Rejected

PayloadCall ==
    call.of = "payload" =>
      \E payload \in Payloads, source \in Sources :
        /\ call.input = [payload |-> payload, source |-> source]
        /\ answer = IF Raises(payload, source) THEN Failed
                    ELSE ResultFromPayload(payload, source)

SamplesCall ==
    call.of = "samples" =>
      \E results \in Repetitions, threshold \in Thresholds :
        /\ call.input = [results |-> results, threshold |-> threshold]
        /\ answer = SampleAndGate(results, threshold)

GenerationsCall ==
    call.of = "generations" =>
      \E texts \in Generations, samples \in SampleCounts, threshold \in Thresholds,
         percent \in Percents :
        /\ call.input = [texts |-> texts, samples |-> samples, threshold |-> threshold,
                         percent |-> percent]
        /\ answer = Gate(texts, samples, threshold, percent)

GraphCall ==
    call.of = "graph" =>
      \E request \in Graphs :
        /\ call.input = request
        /\ answer.rows = Basis(NodesOf(request), EdgesOf(request))

ClauseCall ==
    call.of = "clause" =>
      \E clause \in Clauses :
        /\ call.input = clause
        /\ answer = IF Z!Compiles(clause) THEN [text |-> Z!SmtLib2(clause)] ELSE Failed

CallInv ==
    /\ PreemptCall /\ FloorCall /\ ModelCall
    /\ PayloadCall /\ SamplesCall /\ GenerationsCall
    /\ GraphCall /\ ClauseCall

(* A ranking that is not refused is a preference order on its worlds.      *)
LEMMA RankingsAreDrafts ==
    ASSUME NEW tiers \in Seq(SUBSET Worlds), NEW valuation \in Assignments,
           FromRanking(tiers, valuation) # Rejected
    PROVE  /\ FromRanking(tiers, valuation) \in Draft
           /\ IsModel(FromRanking(tiers, valuation))
  <1> DEFINE ranked == UNION {tiers[i] : i \in DOMAIN tiers}
             rank == [w \in ranked |-> CHOOSE i \in DOMAIN tiers : w \in tiers[i]]
             pairs == {p \in ranked \X ranked : rank[p[1]] <= rank[p[2]]}
             draft == [worlds |-> ranked, betterness |-> pairs, valuation |-> valuation]
  <1>1. ranked \subseteq Worlds
    OBVIOUS
  <1>2. pairs \subseteq ranked \X ranked
    OBVIOUS
  <1>3. FromRanking(tiers, valuation) = Model(draft)
    BY DEF FromRanking
  <1>4. draft \in Draft
    <2> HIDE DEF ranked, pairs
    <2>1. QED
      BY <1>1, <1>2 DEF Draft
  <1> HIDE DEF draft
  <1>5. QED
    BY <1>3, <1>4 DEF Model

(* Each of the calls establishes what is known of it.                 *)
LEMMA CallsAreTyped == CallInv /\ [Decide]_dvars => CallInv'
  <1> SUFFICES ASSUME CallInv, [Decide]_dvars PROVE CallInv'
    OBVIOUS
  <1>1. CASE Preempt
    <2>1. PICK o \in Provisions, rules \in RuleSets :
             call' = [of |-> "preempt", input |-> [o |-> o, rules |-> rules]]
      BY <1>1 DEF Preempt, Answered
    <2>2. o \in Obligations /\ rules \in Seq(PreemptionRule)
      BY DecisionInputs DEF DecisionInputs
    <2>3. QED
      BY <2>1, <2>2 DEF CallInv, PreemptCall, FloorCall, ModelCall,
                        PayloadCall, SamplesCall, GenerationsCall,
                        GraphCall, ClauseCall
  <1>2. CASE ApplyFloor
    <2>1. PICK o \in WageProvisions, rule \in Floors :
             call' = [of |-> "floor", input |-> [o |-> o, rule |-> rule]]
      BY <1>2 DEF ApplyFloor, Answered
    <2>2. o \in Obligations /\ rule \in FloorRule
      BY DecisionInputs DEF DecisionInputs
    <2>3. QED
      BY <2>1, <2>2 DEF CallInv, PreemptCall, FloorCall, ModelCall,
                        PayloadCall, SamplesCall, GenerationsCall,
                        GraphCall, ClauseCall
  <1>3. CASE AskModel
    <2>1. PICK draft \in Drafts, question \in Questions :
             /\ call' = [of |-> "ask", input |-> [model |-> draft, question |-> question]]
             /\ answer' = IF Model(draft) = Rejected THEN Rejected
                          ELSE Evaluate(draft, question[1], question[2])
      BY <1>3 DEF AskModel, Answered
    <2>2. draft \in Draft /\ question[1] \in Formula /\ question[2] \in Formula
      BY DecisionInputs DEF DecisionInputs
    <2>3. /\ draft = Rejected => answer' = Rejected
          /\ draft # Rejected =>
                answer' = IF IsModel(draft) THEN Evaluate(draft, question[1], question[2])
                          ELSE Rejected
      BY <2>1 DEF Model
    <2>4. QED
      BY <2>1, <2>2, <2>3 DEF CallInv, PreemptCall, FloorCall, ModelCall,
                              PayloadCall, SamplesCall, GenerationsCall,
                              GraphCall, ClauseCall
  <1>4. CASE AskRanking
    <2>1. PICK tiers \in Rankings, valuation \in Valuations, question \in Questions :
             /\ call' = [of |-> "ask", input |-> [model |-> FromRanking(tiers, valuation),
                                                  question |-> question]]
             /\ answer' = IF FromRanking(tiers, valuation) = Rejected THEN Rejected
                          ELSE Evaluate(FromRanking(tiers, valuation),
                                        question[1], question[2])
      BY <1>4 DEF AskRanking, Answered
    <2>2. /\ tiers \in Seq(SUBSET Worlds) /\ valuation \in Assignments
          /\ question[1] \in Formula /\ question[2] \in Formula
      BY DecisionInputs DEF DecisionInputs
    <2>3. FromRanking(tiers, valuation) # Rejected =>
             /\ FromRanking(tiers, valuation) \in Draft
             /\ IsModel(FromRanking(tiers, valuation))
      BY <2>2, RankingsAreDrafts
    <2>4. QED
      BY <2>1, <2>2, <2>3 DEF CallInv, PreemptCall, FloorCall, ModelCall,
                              PayloadCall, SamplesCall, GenerationsCall,
                              GraphCall, ClauseCall
  <1>5. CASE AnalyzeWithModel
    <2>1. /\ call'.of = "payload"
          /\ \E payload \in Payloads, source \in Sources :
               /\ call'.input = [payload |-> payload, source |-> source]
               /\ answer' = IF Raises(payload, source) THEN Failed
                            ELSE ResultFromPayload(payload, source)
      BY <1>5 DEF AnalyzeWithModel, Answered
    <2>2. QED
      BY <2>1 DEF CallInv, PreemptCall, FloorCall, ModelCall,
                  PayloadCall, SamplesCall, GenerationsCall,
                  GraphCall, ClauseCall
  <1>6. CASE AnalyzeRepeatedly
    <2>1. /\ call'.of = "samples"
          /\ \E results \in Repetitions, threshold \in Thresholds :
               /\ call'.input = [results |-> results, threshold |-> threshold]
               /\ answer' = SampleAndGate(results, threshold)
      BY <1>6 DEF AnalyzeRepeatedly, Answered
    <2>2. QED
      BY <2>1 DEF CallInv, PreemptCall, FloorCall, ModelCall,
                  PayloadCall, SamplesCall, GenerationsCall,
                  GraphCall, ClauseCall
  <1>7. CASE MeasureEntropy
    <2>1. /\ call'.of = "generations"
          /\ \E texts \in Generations, samples \in SampleCounts, threshold \in Thresholds,
                percent \in Percents :
               /\ call'.input = [texts |-> texts, samples |-> samples,
                                 threshold |-> threshold, percent |-> percent]
               /\ answer' = Gate(texts, samples, threshold, percent)
      BY <1>7 DEF MeasureEntropy, Answered
    <2>2. QED
      BY <2>1 DEF CallInv, PreemptCall, FloorCall, ModelCall,
                  PayloadCall, SamplesCall, GenerationsCall,
                  GraphCall, ClauseCall
  <1>8. CASE DetectLoopholes
    <2>1. /\ call'.of = "graph"
          /\ \E request \in Graphs :
               /\ call'.input = request
               /\ answer'.rows = Basis(NodesOf(request), EdgesOf(request))
      BY <1>8 DEF DetectLoopholes, Answered
    <2>2. QED
      BY <2>1 DEF CallInv, PreemptCall, FloorCall, ModelCall,
                  PayloadCall, SamplesCall, GenerationsCall,
                  GraphCall, ClauseCall
  <1>9. CASE VerifyClause
    <2>1. /\ call'.of = "clause"
          /\ \E clause \in Clauses :
               /\ call'.input = clause
               /\ answer' = IF Z!Compiles(clause) THEN [text |-> Z!SmtLib2(clause)] ELSE Failed
      BY <1>9 DEF VerifyClause, Answered
    <2>2. QED
      BY <2>1 DEF CallInv, PreemptCall, FloorCall, ModelCall,
                  PayloadCall, SamplesCall, GenerationsCall,
                  GraphCall, ClauseCall
  <1>10. CASE UNCHANGED dvars
    <2>1. call' = call /\ answer' = answer
      BY <1>10 DEF dvars
    <2>2. (PreemptCall /\ FloorCall /\ ModelCall)'
      BY <2>1 DEF CallInv, PreemptCall, FloorCall, ModelCall
    <2>3. (PayloadCall /\ SamplesCall /\ GenerationsCall)'
      BY <2>1 DEF CallInv, PayloadCall, SamplesCall, GenerationsCall
    <2>4. (GraphCall /\ ClauseCall)'
      BY <2>1 DEF CallInv, GraphCall, ClauseCall
    <2>5. QED
      BY <2>2, <2>3, <2>4 DEF CallInv
  <1>11. QED
    BY <1>1, <1>2, <1>3, <1>4, <1>5, <1>6, <1>7, <1>8, <1>9, <1>10 DEF Decide

(* Calls keep their types, whatever the inputs.                            *)
LEMMA CallInvHolds == DecisionsSpec => []CallInv
  <1>1. DecisionsInit => CallInv
    BY DEF DecisionsInit, Idle, CallInv, PreemptCall, FloorCall, ModelCall,
                          PayloadCall, SamplesCall, GenerationsCall,
                          GraphCall, ClauseCall
  <1>2. QED
    BY <1>1, CallsAreTyped, PTL DEF DecisionsSpec

(***************************************************************************)
(* Every answer of the doctrines is decided by the facts, for any          *)
(* provisions, any rules and any floors.                                   *)
(***************************************************************************)
THEOREM DoctrinesDecide == DecisionsSpec => []DoctrinesDecideByTheFacts
  <1>1. CallInv => DoctrinesDecideByTheFacts
    <2>1. ASSUME CallInv, call.of = "preempt"
          PROVE  /\ HeadlineDecides(call.input.o, call.input.rules)
                 /\ \A i \in DOMAIN call.input.rules :
                       /\ OpenMeansDateDecides(call.input.o, call.input.rules[i])
                       /\ DateMonotone(call.input.o, call.input.rules[i], 20110601, 20110602)
      <3>1. call.input.o \in Obligations /\ call.input.rules \in Seq(PreemptionRule)
        BY <2>1 DEF CallInv, PreemptCall
      <3>2. \A i \in DOMAIN call.input.rules : call.input.rules[i] \in PreemptionRule
        BY <3>1
      <3>3. QED
        BY <3>1, <3>2, TheHeadlineDecides, OpenMeansUndecidable, DateIsMonotone, SMT
    <2>2. ASSUME CallInv, call.of = "floor"
          PROVE  FloorProtects(call.input.o, call.input.rule)
      BY <2>2, FloorLeavesTheStricter DEF CallInv, FloorCall
    <2>3. QED
      BY <2>1, <2>2, SMT DEF DoctrinesDecideByTheFacts
  <1>2. QED
    BY <1>1, CallInvHolds, PTL

(***************************************************************************)
(* A draft is asked successfully exactly when it is a ranking and knows    *)
(* the atoms, and every question that is answered is answered soundly, in  *)
(* any finite model and about any facts.                                   *)
(***************************************************************************)
THEOREM DeonticAnswersHold == DecisionsSpec => []DeonticAnswersAreSound
  <1>1. \A a \in Atoms : Atom(a) \in Formula
    BY DEF Atom, Formula, Points
  <1>2. CallInv => DeonticAnswersAreSound
    <2> SUFFICES ASSUME CallInv, call.of = "ask" PROVE DeonticAnswersAreSound
      BY DEF DeonticAnswersAreSound
    <2>1. PICK m, psi, phi :
             m = call.input.model /\ psi = call.input.question[1] /\ phi = call.input.question[2]
      OBVIOUS
    <2>2. /\ psi \in Formula /\ phi \in Formula
          /\ m = Rejected => answer = Rejected
          /\ m # Rejected =>
                /\ m \in Draft
                /\ answer = IF IsModel(m) THEN Evaluate(m, psi, phi) ELSE Rejected
      BY <2>1 DEF CallInv, ModelCall
    <2>3. m # Rejected => (answer # Rejected <=> IsRanked(m) /\ Known(m, psi, phi))
      BY <2>2, ModelsAreTheRankings, AnswersAreVerdicts
    <2>4. ASSUME answer # Rejected
          PROVE  /\ VerdictIsClear(m, psi, phi)
                 /\ \A a \in Atoms : DutiesSurvivePermittedFacts(m, psi, phi, Atom(a))
                 /\ BestIsFewestAbove(m, phi)
      BY <1>1, <2>2, <2>4, VerdictsAreClear, DutiesSurvive, TheBestAreFewestAbove
    <2>5. QED
      BY <2>1, <2>3, <2>4 DEF DeonticAnswersAreSound
  <1>3. QED
    BY <1>2, CallInvHolds, PTL

(***************************************************************************)
(* A backend is believed only about what the source says, whatever it      *)
(* returns and whatever the source.                                        *)
(***************************************************************************)
THEOREM BackendsAreChecked == DecisionsSpec => []BackendIsNotTakenOnTrust
  <1>1. CallInv => BackendIsNotTakenOnTrust
    <2> SUFFICES ASSUME CallInv, call.of = "payload" PROVE BackendIsNotTakenOnTrust
      BY DEF BackendIsNotTakenOnTrust
    <2>1. PICK payload \in Payloads, source \in Sources :
             /\ call.input = [payload |-> payload, source |-> source]
             /\ answer = IF Raises(payload, source) THEN Failed
                         ELSE ResultFromPayload(payload, source)
      BY DEF CallInv, PayloadCall
    <2>2. call.input.payload = payload /\ call.input.source = source
      BY <2>1
    <2>3. payload \in [obligations : Seq(BackendItems), declined : Seq(Fragments)]
      BY BackendInputs DEF BackendInputs
    <2> DEFINE takesTheRestDown ==
                 source # <<>> /\ \E i \in DOMAIN payload.obligations :
                     payload.obligations[i].text = NotAString
                       /\ ~ Malformed(payload.obligations[i])
    <2>4. CASE Raises(payload, source)
      <3>1. answer = Failed /\ takesTheRestDown
        BY <2>1, <2>4 DEF Raises
      <3>2. QED
        BY <2>2, <3>1 DEF BackendIsNotTakenOnTrust
    <2>5. CASE ~Raises(payload, source)
      <3>1. answer = ResultFromPayload(payload, source) /\ ~ takesTheRestDown
        BY <2>1, <2>5 DEF Raises
      <3>2. IsAnsweredFor(payload, source, answer)
        BY <2>3, <3>1, PayloadsAreAnsweredFor
      <3>3. answer # Failed
        BY <3>1, <3>2 DEF IsAnsweredFor, Failed
      <3>4. IsAnsweredFor(call.input.payload, call.input.source, answer)
        BY <2>2, <3>1, <3>2
      <3>5. ~(/\ call.input.source # <<>>
              /\ \E i \in DOMAIN call.input.payload.obligations :
                    LET item == call.input.payload.obligations[i] IN
                    item.text = NotAString /\ ~ Malformed(item))
        BY <2>2, <3>1
      <3>6. QED
        BY <3>3, <3>4, <3>5, Zenon DEF BackendIsNotTakenOnTrust, IsAnsweredFor
    <2>6. QED
      BY <2>4, <2>5
  <1>2. QED
    BY <1>1, CallInvHolds, PTL

(***************************************************************************)
(* The gate tells disagreement, for any texts and any results, up to six   *)
(* of them.                                                                *)
(***************************************************************************)
THEOREM TheGateTells == DecisionsSpec => []GateTellsDisagreement
  <1>1. 1..Len(XLogX) = 1..6
    <2>1. Len(XLogX) = 6
      BY DEF XLogX
    <2>2. QED
      BY <2>1
  <1>2. ASSUME CallInv, call.of = "samples", ~answer.error
        PROVE  SamplesAgreeOr(call.input.results, call.input.threshold, answer)
    <2>1. PICK results \in Repetitions, threshold \in Thresholds :
             /\ call.input = [results |-> results, threshold |-> threshold]
             /\ answer = SampleAndGate(results, threshold)
      BY <1>2 DEF CallInv, SamplesCall
    <2>2. /\ results \in Seq(Sampled) /\ Len(results) \in 1..6 /\ threshold \in Int
          /\ \A r \in Sampled : IsFiniteSet(CanonicalTokens(r))
      BY <1>1, GateInputs DEF GateInputs
    <2>3. ~SampleAndGate(results, threshold).error
      BY <1>2, <2>1
    <2>4. SamplesAgreeOr(results, threshold, SampleAndGate(results, threshold))
      BY <2>2, <2>3, SamplesKeepTheirPromises
    <2>5. call.input.results = results /\ call.input.threshold = threshold
      BY <2>1
    <2>6. QED
      BY <2>1, <2>4, <2>5
  <1>3. ASSUME CallInv, call.of = "generations", ~answer.error
        PROVE  /\ ClustersAreMeanings(call.input.texts, call.input.percent)
               /\ GateCanFire(call.input.texts, call.input.samples, call.input.threshold,
                              call.input.percent)
    <2>1. PICK texts \in Generations, samples \in SampleCounts, threshold \in Thresholds,
               percent \in Percents :
             /\ call.input = [texts |-> texts, samples |-> samples, threshold |-> threshold,
                              percent |-> percent]
             /\ answer = Gate(texts, samples, threshold, percent)
      BY <1>3 DEF CallInv, GenerationsCall
    <2>2. /\ texts \in Seq(Meanings) /\ samples \in 1..6 /\ threshold \in Int
          /\ percent \in Int /\ \A t \in Meanings : IsFiniteSet(t)
      BY <1>1, GateInputs DEF GateInputs
    <2>3. ~Gate(texts, samples, threshold, percent).error
      BY <1>3, <2>1
    <2>4. ClustersAreMeanings(texts, percent) /\ GateCanFire(texts, samples, threshold, percent)
      BY <2>2, <2>3, GateKeepsItsPromises
    <2>5. /\ call.input.texts = texts /\ call.input.samples = samples
          /\ call.input.threshold = threshold /\ call.input.percent = percent
      BY <2>1
    <2>6. QED
      BY <2>4, <2>5
  <1>4. CallInv => GateTellsDisagreement
    BY <1>2, <1>3 DEF GateTellsDisagreement, SamplesAgreeOr
  <1>5. QED
    BY <1>4, CallInvHolds, PTL
=============================================================================
