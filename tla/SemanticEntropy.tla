---------------------------- MODULE SemanticEntropy ----------------------------
(***************************************************************************)
(* The abstention gate over repeated generations (uncertainty/): entailment*)
(* by token containment (entailment.py), greedy clustering and the entropy *)
(* of the partition (semantic_entropy.py).                                 *)
(*                                                                         *)
(* A text is the set of its tokens, which is all LexicalEntailmentModel    *)
(* reads.  Probabilities are in percent.  Entropies are in units of 0.0001 *)
(* nats and multiplied by the number of samples: of n samples in clusters  *)
(* of sizes s1, s2, ... it is n ln n - (s1 ln s1 + s2 ln s2 + ...).        *)
(***************************************************************************)
EXTENDS Integers, Sequences, Sums, FiniteSetsExt

\* n ln n, for up to MaxSamples = 6 samples.
XLogX == <<0, 13863, 32958, 55452, 80472, 107506>>

-----------------------------------------------------------------------------
(* LexicalEntailmentModel.                                                 *)

\* The premise entails the hypothesis with at least the given probability.
Entails(premise, hypothesis, percent) ==
    \/ hypothesis = {}
    \/ 100 * Cardinality(hypothesis \cap premise) >= percent * Cardinality(hypothesis)

-----------------------------------------------------------------------------
(* semantic_entropy.py.                                                    *)

SameMeaning(a, b, percent) == Entails(a, b, percent) /\ Entails(b, a, percent)

\* Mutant: forward entailment is enough.
JoinedOneWay(clusters, g, percent) ==
    LET hits == {i \in DOMAIN clusters : Entails(clusters[i][1], g, percent)}
    IN IF hits = {} THEN Append(clusters, <<g>>)
       ELSE [clusters EXCEPT ![Min(hits)] = Append(@, g)]

\* A generation joins the first cluster whose representative, its first
\* member, means the same, or founds a new one.
Joined(clusters, g, percent) ==
    LET hits == {i \in DOMAIN clusters : SameMeaning(clusters[i][1], g, percent)}
    IN IF hits = {} THEN Append(clusters, <<g>>)
       ELSE [clusters EXCEPT ![Min(hits)] = Append(@, g)]

\* cluster_by_bidirectional_entailment
Clusters(generations, percent) ==
    LET after[n \in 0..Len(generations)] ==
            IF n = 0 THEN <<>> ELSE Joined(after[n - 1], generations[n], percent)
    IN after[Len(generations)]

Sizes(clusters) == [i \in 1..Len(clusters) |-> Len(clusters[i])]

Entropy(clusters, samples) ==
    XLogX[samples] - SumOf([i \in 1..Len(clusters) |-> XLogX[Len(clusters[i])]])

\* What SemanticEntropyGate accepts at construction.
Fireable(samples, threshold, percent) ==
    /\ 0 <= threshold /\ samples * threshold < XLogX[samples]
    /\ percent \in 0..100

\* evaluate
Gate(generations, samples, threshold, percent) ==
    IF ~Fireable(samples, threshold, percent) \/ Len(generations) # samples
    THEN [error |-> TRUE]
    ELSE LET clusters == Clusters(generations, percent) IN
         [error |-> FALSE, clusters |-> clusters,
          pass |-> Entropy(clusters, samples) <= samples * threshold]

-----------------------------------------------------------------------------
(* What the gate promises.                                                 *)

\* A text and the same with a "not", or another token, in it.
IsOneTokenMore(b, a) == \E token \in b \ a : b = a \cup {token}

(* Every sample is in one cluster with samples that mean what the first    *)
(* one means, and no cluster repeats the meaning of an earlier one.  At    *)
(* full threshold two samples share a cluster exactly when they have the   *)
(* same tokens.  Below, a text is told from its negation as long as it is  *)
(* short: of n tokens, n must be less than the threshold's share of n + 1, *)
(* which at the default of 90 percent ends at nine tokens (semantic_       *)
(* entropy.py:85, config.py:128; entailment.py:23-29 promises it always).  *)
ClustersAreMeanings(generations, percent) ==
    LET clusters == Clusters(generations, percent)
        Inside(i) == {clusters[i][k] : k \in DOMAIN clusters[i]}
    IN /\ SumOf(Sizes(clusters)) = Len(generations)
       /\ UNION {Inside(i) : i \in DOMAIN clusters}
            = {generations[k] : k \in DOMAIN generations}
       /\ \A i \in DOMAIN clusters : \A g \in Inside(i) :
             SameMeaning(clusters[i][1], g, percent)
       /\ \A i, j \in DOMAIN clusters : i < j =>
             ~SameMeaning(clusters[i][1], clusters[j][1], percent)
       /\ percent = 100 => \A i \in DOMAIN clusters : Cardinality(Inside(i)) = 1
       /\ \A i \in DOMAIN clusters : \A a, b \in Inside(i) :
             IsOneTokenMore(b, a)
               => 100 * Cardinality(a) >= percent * (Cardinality(a) + 1)

(* Every gate that can be built can fire: samples that all differ fail it, *)
(* and samples that all agree pass it (SemanticEntropyGate.__init__).      *)
GateCanFire(generations, samples, threshold, percent) ==
    LET verdict == Gate(generations, samples, threshold, percent) IN
    ~verdict.error =>
      /\ Len(verdict.clusters) = samples => ~verdict.pass \/ samples = 1
      /\ Len(verdict.clusters) = 1 => verdict.pass
=============================================================================
