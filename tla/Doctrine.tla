------------------------------- MODULE Doctrine -------------------------------
(***************************************************************************)
(* What a higher law does to a lower one (obligations/): the preliminaries *)
(* every doctrine asks first (authority.py), express preemption            *)
(* (express_preemption.py) and floors (floors.py), over the Obligation     *)
(* records that an extractor fills (models.py).                            *)
(*                                                                         *)
(* Pure functions: an early return of the code is a branch here, in the    *)
(* same order.  Dates are day numbers, names and units are strings, the    *)
(* wording of a finding is left out.                                       *)
(***************************************************************************)
EXTENDS Integers, Sequences, FiniteSets

CONSTANT None          \* Python's None

ASSUME NoneIsNoNumber == None \notin Int

-----------------------------------------------------------------------------
(* models.py.                                                              *)

\* JurisdictionTier: a lower value is a higher authority.
Tier == [international_treaty |-> 0, federal |-> 1, state |-> 2,
         county |-> 3, municipal |-> 4]

Modality == {"prohibition", "obligation", "permission"}

Threshold == [value : Int, unit : STRING]

\* What the doctrines read of an obligation.
Obligations ==
    [tier : 0..4, path : Seq(STRING), subjects : SUBSET STRING,
     threshold : Threshold \cup {None}, adopted : Int \cup {None}]

JurisdictionName(o) == IF o.path = <<>> THEN "" ELSE o.path[Len(o.path)]

IsWithin(o, polity) == \E i \in DOMAIN o.path : o.path[i] = polity

-----------------------------------------------------------------------------
(* authority.py.                                                           *)

Precheck(o, polity, tier, subjects) ==
    IF JurisdictionName(o) = polity THEN "not_subordinate"
    ELSE IF ~IsWithin(o, polity) THEN "outside_jurisdiction"
    ELSE IF o.tier <= tier THEN "not_subordinate"
    ELSE IF o.subjects \cap subjects = {} THEN "not_in_scope"
    ELSE "proceed"

-----------------------------------------------------------------------------
(* express_preemption.py.                                                  *)

Exemption == [subjects : SUBSET STRING, requiresAll : BOOLEAN]

PreemptionRule ==
    [polity : STRING, tier : 0..4, reserved : SUBSET STRING,
     cutoff : Int \cup {None}, exemptions : Seq(Exemption)]

AppliesTo(e, o) ==
    IF e.requiresAll THEN o.subjects # {} /\ o.subjects \subseteq e.subjects
    ELSE o.subjects \cap e.subjects # {}

IsExempt(o, rule) ==
    \E i \in DOMAIN rule.exemptions : AppliesTo(rule.exemptions[i], o)

\* Mutant: the cutoff is read as "before".
AnalyzeBeforeCutoff(o, rule) ==
    LET check == Precheck(o, rule.polity, rule.tier, rule.reserved) IN
    IF check # "proceed" THEN check
    ELSE IF IsExempt(o, rule) THEN "exempted"
    ELSE IF rule.cutoff = None THEN "preempted"
    ELSE IF o.adopted = None THEN "undetermined"
    ELSE IF o.adopted < rule.cutoff THEN "grandfathered"
    ELSE "preempted"

\* The status of the finding that analyze returns.
Analyze(o, rule) ==
    LET check == Precheck(o, rule.polity, rule.tier, rule.reserved) IN
    IF check # "proceed" THEN check
    ELSE IF IsExempt(o, rule) THEN "exempted"
    ELSE IF rule.cutoff = None THEN "preempted"
    ELSE IF o.adopted = None THEN "undetermined"
    ELSE IF o.adopted <= rule.cutoff THEN "grandfathered"
    ELSE "preempted"

Survives(status) ==
    status \in {"not_in_scope", "grandfathered", "exempted",
                "outside_jurisdiction", "not_subordinate"}

\* A rule that does not engage leaves no finding in analyze_all.
Engages(o, rule) ==
    Analyze(o, rule) \notin {"not_subordinate", "outside_jurisdiction"}

Ranking == <<"preempted", "undetermined", "exempted", "grandfathered",
             "not_in_scope", "outside_jurisdiction", "not_subordinate">>

\* Mutant: an open question ranks below what saves a provision.
SeverityOpenLast(status) ==
    IF status = "undetermined" THEN 8
    ELSE CHOOSE i \in DOMAIN Ranking : Ranking[i] = status

Severity(status) == CHOOSE i \in DOMAIN Ranking : Ranking[i] = status

\* analyze_all for one obligation: the indices of the rules that engage,
\* most severe finding first, ties in the order of the rules.
AnalyzeAll(o, rules) ==
    LET engaged == {i \in DOMAIN rules : Engages(o, rules[i])}
        Before(i, j) == LET a == Severity(Analyze(o, rules[i]))
                            b == Severity(Analyze(o, rules[j]))
                        IN a < b \/ (a = b /\ i < j)
    IN [k \in 1..Cardinality(engaged) |->
           CHOOSE i \in engaged : Cardinality({j \in engaged : Before(j, i)}) = k - 1]

-----------------------------------------------------------------------------
(* floors.py.                                                              *)

FloorRule ==
    [polity : STRING, tier : 0..4, subject : STRING, threshold : Threshold,
     stringency : {"higher_is_stricter", "lower_is_stricter"}]

\* Value a is more protective than b.
Stricter(stringency, a, b) ==
    IF stringency = "higher_is_stricter" THEN a > b ELSE a < b

Verdict(status, operative) == [status |-> status, operative |-> operative]

\* Mutant: stricter means bigger, whatever the rule measures.
AnalyzeFloorBigger(o, rule) ==
    LET check == Precheck(o, rule.polity, rule.tier, {rule.subject})
        local == o.threshold
        floor == rule.threshold
    IN IF check # "proceed" THEN Verdict(check, None)
       ELSE IF local = None THEN Verdict("undetermined", None)
       ELSE IF local.unit # floor.unit THEN Verdict("undetermined", None)
       ELSE IF local.value = floor.value THEN Verdict("equivalent", floor)
       ELSE IF local.value > floor.value THEN Verdict("governs", local)
       ELSE Verdict("displaced", floor)

AnalyzeFloor(o, rule) ==
    LET check == Precheck(o, rule.polity, rule.tier, {rule.subject})
        local == o.threshold
        floor == rule.threshold
    IN IF check # "proceed" THEN Verdict(check, None)
       ELSE IF local = None THEN Verdict("undetermined", None)
       ELSE IF local.unit # floor.unit THEN Verdict("undetermined", None)
       ELSE IF local.value = floor.value THEN Verdict("equivalent", floor)
       ELSE IF Stricter(rule.stringency, local.value, floor.value)
            THEN Verdict("governs", local)
       ELSE Verdict("displaced", floor)

-----------------------------------------------------------------------------
(* What the doctrines promise.                                             *)

\* The provision with its date replaced.
Dated(o, date) == [o EXCEPT !.adopted = date]

(* Whether a rule leaves a provision standing turns on the adoption date   *)
(* in one way only: what was adopted earlier stands at least as well as    *)
(* what was adopted later, and a provision of unknown date stands only     *)
(* where it would stand whatever its date was (express_preemption.py).     *)
DateMonotone(o, rule, early, late) ==
    /\ early <= late /\ Survives(Analyze(Dated(o, late), rule))
          => Survives(Analyze(Dated(o, early), rule))
    /\ Survives(Analyze(Dated(o, None), rule))
          => Survives(Analyze(Dated(o, late), rule))

(* A missing date is reported as undetermined exactly when the date would  *)
(* decide: the cutoff day itself and the day after get different answers.  *)
OpenMeansDateDecides(o, rule) ==
    Analyze(Dated(o, None), rule) = "undetermined"
      <=> /\ rule.cutoff # None
          /\ Survives(Analyze(Dated(o, rule.cutoff), rule))
          /\ ~Survives(Analyze(Dated(o, rule.cutoff + 1), rule))

(* The first of the findings of analyze_all is the answer: the provision   *)
(* survives every rule exactly when that finding does, so a reader of the  *)
(* headline alone is never told that a displaced or undecided provision    *)
(* stands.                                                                 *)
HeadlineDecides(o, rules) ==
    LET found == AnalyzeAll(o, rules) IN
    /\ Len(found) # 0 =>
         (Survives(Analyze(o, rules[found[1]]))
            <=> \A i \in DOMAIN rules : Survives(Analyze(o, rules[i])))
    /\ Len(found) = 0 => \A i \in DOMAIN rules : Survives(Analyze(o, rules[i]))

(* What a floor leaves in force is at least as protective as the floor and *)
(* as the local rule, is one of the two, and stands when it is enacted     *)
(* again under the same floor (floors.py).                                 *)
FloorProtects(o, rule) ==
    LET found == AnalyzeFloor(o, rule)
        left == found.operative
    IN left # None =>
         /\ left \in {o.threshold, rule.threshold}
         /\ ~Stricter(rule.stringency, rule.threshold.value, left.value)
         /\ ~Stricter(rule.stringency, o.threshold.value, left.value)
         /\ AnalyzeFloor([o EXCEPT !.threshold = left], rule).operative = left
=============================================================================
