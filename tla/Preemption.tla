----------------------------- MODULE Preemption -----------------------------
(***************************************************************************)
(* knowledge_graph/preemption.py: which of several statutes governs an     *)
(* entity, by lex superior, lex specialis and lex posterior in that order. *)
(*                                                                         *)
(* A statute is its tier, its effective date and its scope, the entities   *)
(* the graph links it to.  The resolution of a conflict set S is given by  *)
(* operators, one per field of PreemptionResult; `governing` is a set with *)
(* at most one member.                                                     *)
(***************************************************************************)
EXTENDS Naturals, FiniteSets

CONSTANTS Entities,     \* what statutes apply to
          Tiers,        \* the levels of JurisdictionTier in use
          Dates         \* effective dates; Undated is none of them

Undated == 0

ASSUME TiersAndDates ==
    /\ Tiers \subseteq 0..4      \* treaty, federal, state, county, municipal
    /\ Dates \subseteq Nat \ {Undated}

StatuteSet == [id : Nat, tier : Tiers, scope : SUBSET Entities,
               date : Dates \cup {Undated}]

StatutesFor(S, e) == {s \in S : e \in s.scope}

-----------------------------------------------------------------------------
(* _defeats, by the maxim that decides.                                    *)

LexSpecialis(left, right) ==
    left.scope \subseteq right.scope /\ left.scope # right.scope

LexPosterior(left, right) ==
    /\ left.scope = right.scope
    /\ Undated \notin {left.date, right.date}
    /\ left.date > right.date

Defeats(left, right) == LexSpecialis(left, right) \/ LexPosterior(left, right)

-----------------------------------------------------------------------------
(* _resolve_same_tier.                                                     *)

Rivals(s, C) == {other \in C : other.id # s.id}

(* Mutant: whoever defeats somebody is in.                                 *)
DefeatsSomebody(C) ==
    {s \in C : \E other \in Rivals(s, C) : Defeats(s, other)}

Undefeated(C) ==
    {s \in C : \A other \in Rivals(s, C) : ~ Defeats(other, s)}

SameTierWinner(C) ==
    {s \in C : /\ Undefeated(C) = {s}
               /\ \E other \in Rivals(s, C) : Defeats(s, other)}

-----------------------------------------------------------------------------
(* resolve_preemption_for_entity.                                          *)

(* Mutant: no filter by tier.                                              *)
EveryStatute(S) == S

HighestAuthority(S) == {s \in S : \A other \in S : s.tier <= other.tier}

Governing(S) ==
    LET candidates == HighestAuthority(S)
    IN  IF Cardinality(candidates) = 1 THEN candidates ELSE SameTierWinner(candidates)

RequiresReview(S) == S # {} /\ Governing(S) = {}

(* Mutant: the governing statute is not left out.                          *)
PreemptedIncludesWinner(S) == IF Governing(S) = {} THEN {} ELSE S

Preempted(S) == IF Governing(S) = {} THEN {} ELSE S \ Governing(S)

UnresolvedCandidates(S) == IF RequiresReview(S) THEN HighestAuthority(S) ELSE {}
=============================================================================
