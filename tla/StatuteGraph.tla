----------------------------- MODULE StatuteGraph -----------------------------
(***************************************************************************)
(* One tenant's knowledge graph (NetworkXGraphService): statutes, the      *)
(* entities they apply to, and the `preempts` edges that every resolution  *)
(* leaves behind and nothing ever takes away.                              *)
(***************************************************************************)
EXTENDS Preemption

CONSTANT MaxStatutes    \* bound: statutes added to the graph

ASSUME StatuteBound == MaxStatutes \in Nat

VARIABLES
    statutes,   \* the statute nodes, with their applies_to edges
    preempts    \* the preempts edges: <<higher, lower>>

gvars == <<statutes, preempts>>

TypeOK ==
    /\ statutes \subseteq StatuteSet
    /\ preempts \subseteq statutes \X statutes

Init ==
    /\ statutes = {}
    /\ preempts = {}

(* add_statute of a new document: its id is a fresh uuid.                  *)
AddStatute(tier, scope, date) ==
    /\ Cardinality(statutes) < MaxStatutes
    /\ statutes' = statutes \cup
          {[id |-> Cardinality(statutes), tier |-> tier, scope |-> scope, date |-> date]}
    /\ UNCHANGED preempts

(* resolve_preemption_for_entity, which records what it found.             *)
ResolvePreemption(e) ==
    LET S == StatutesFor(statutes, e)
    IN  /\ preempts' = preempts \cup (Governing(S) \X Preempted(S))
        /\ UNCHANGED statutes

Next ==
    \/ \E tier \in Tiers, scope \in SUBSET Entities, date \in Dates \cup {Undated} :
         AddStatute(tier, scope, date)
    \/ \E e \in Entities : ResolvePreemption(e)

Spec == Init /\ [][Next]_gvars

-----------------------------------------------------------------------------
(***************************************************************************)
(* What "higher" means, for two statutes taken alone.                      *)
(***************************************************************************)
Outranks(higher, lower) ==
    \/ higher.tier < lower.tier
    \/ higher.tier = lower.tier /\ Defeats(higher, lower)

(***************************************************************************)
(* "The graph can't get out of sync with JurisdictionTier ordering"        *)
(* (graph_service.py:11-14): every edge ever recorded is still right, on   *)
(* its own merits, after all the statutes that came later.                 *)
(***************************************************************************)
EdgesFollowTheHierarchy ==
    \A edge \in preempts : Outranks(edge[1], edge[2])

(***************************************************************************)
(* Edges of different entities and different times never close a circle:   *)
(* any set of statutes has one that no other of them preempts.             *)
(***************************************************************************)
PreemptionIsAcyclic ==
    \A T \in SUBSET statutes : T # {} =>
        \E s \in T : \A other \in T : <<other, s>> \notin preempts

(***************************************************************************)
(* The survivor beats every candidate it is reported to preempt, not only  *)
(* the one that happened to lose: no resolution lacks a principle, and the *)
(* branch "shouldn't be reachable" (preemption.py:199-202) is not reached. *)
(***************************************************************************)
SurvivorBeatsEveryRival ==
    \A e \in Entities :
        LET candidates == HighestAuthority(StatutesFor(statutes, e))
        IN  \A s \in candidates : Undefeated(candidates) = {s} =>
                \A other \in candidates \ {s} : Defeats(s, other)

(***************************************************************************)
(* A statute of lower authority changes no answer (lex superior is first): *)
(* adding one leaves what governs an entity as it was.                     *)
(***************************************************************************)
LowerTiersNeverDisturb ==
    [][\A e \in Entities, s \in statutes :
          /\ e \in s.scope
          /\ \A new \in statutes' \ statutes : s.tier < new.tier
          => Governing(StatutesFor(statutes, e))' = Governing(StatutesFor(statutes, e))]_gvars

=============================================================================
