-------------------------------- MODULE Corpus --------------------------------
(***************************************************************************)
(* The worked corpus of obligations/corpus.py: Florida's preemption of     *)
(* vacation rental rules, and the ordinances it is tried on.  Dates are    *)
(* yyyymmdd.                                                               *)
(***************************************************************************)
EXTENDS Doctrine

FloridaVacationRentalPreemption ==
    [polity |-> "Florida", tier |-> Tier.state,
     reserved |-> {"prohibition", "duration", "frequency"}, cutoff |-> 20110601,
     exemptions |-> <<[subjects |-> {"property_valuation"}, requiresAll |-> TRUE]>>]

FloridaCity == <<"United States", "Florida", "City of Example">>
ArizonaCity == <<"United States", "Arizona", "City of Elsewhere">>

\* _ordinance
Ordinance(path, subjects, adopted) ==
    [tier |-> Tier.municipal, path |-> path, subjects |-> subjects,
     threshold |-> None, adopted |-> adopted]

\* STR_ORDINANCES
Ordinances ==
    {Ordinance(FloridaCity, {"frequency"}, 20190312),
     Ordinance(FloridaCity, {"prohibition"}, 20180701),
     Ordinance(FloridaCity, {"duration"}, 20160120),
     Ordinance(FloridaCity, {"frequency"}, 20100504),
     Ordinance(FloridaCity, {"duration"}, 20110601),
     Ordinance(FloridaCity, {"parking"}, 20210908),
     Ordinance(FloridaCity, {"permit_registration"}, 20220215),
     Ordinance(FloridaCity, {"frequency"}, None),
     Ordinance(ArizonaCity, {"frequency"}, 20200401),
     Ordinance(FloridaCity, {"property_valuation", "frequency"}, 20200601)}
=============================================================================
