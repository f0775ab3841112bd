--------------------------- MODULE Loopholes_proofs ---------------------------
(***************************************************************************)
(* What the answers to the last two calls of Decisions are worth, for      *)
(* every request: the equations of the correction reach every loophole of  *)
(* any graph and close it, and the text of any clause says what was        *)
(* solved.                                                                 *)
(*                                                                         *)
(* A loop of Loopholes is a function on the numbers from 0, by recursion.  *)
(* It is what the loop computes because there is such a function (the      *)
(* lemmas ...IsDefined, after RecursionIsDefined), and what it keeps is    *)
(* kept by induction on its turns (RecursionStays).                        *)
(***************************************************************************)
EXTENDS Decisions_proofs

-----------------------------------------------------------------------------
(* Sums at some places.                                                    *)

LEMMA SumsAreNumbers ==
    ASSUME NEW f \in Seq(Int)
    PROVE  SumOf(f) \in Int
  <1>1. PICK sum : SumsUp(f, sum)
    BY SumIsDefined
  <1>2. Len(f) \in Nat /\ Len(f) \in 0..Len(f)
    OBVIOUS
  <1>3. QED
    BY <1>1, <1>2 DEF SumsUp

(* Sums of differences are differences of sums.                            *)
LEMMA SumOfDifferences ==
    ASSUME NEW f \in Seq(Int), NEW g \in Seq(Int), NEW h \in Seq(Int),
           Len(g) = Len(f), Len(h) = Len(f), \A i \in 1..Len(f) : h[i] = f[i] - g[i]
    PROVE  SumOf(h) = SumOf(f) - SumOf(g)
  <1>1. PICK ofF : SumsUp(f, ofF)
    BY SumIsDefined
  <1>2. PICK ofG : SumsUp(g, ofG)
    BY SumIsDefined
  <1>3. PICK ofH : SumsUp(h, ofH)
    BY SumIsDefined
  <1>4. Len(f) \in Nat
    OBVIOUS
  <1> DEFINE T == {n \in 0..Len(f) : ofH[n] = ofF[n] - ofG[n]}
  <1>5. 0 \in T
    BY <1>1, <1>2, <1>3, <1>4 DEF SumsUp
  <1>6. ASSUME NEW n \in 1..Len(f), n - 1 \in T PROVE n \in T
    <2>1. n \in 0..Len(f) /\ n - 1 \in 0..Len(f) /\ f[n] \in Int /\ g[n] \in Int
      OBVIOUS
    <2>2. ofF[n - 1] \in Int /\ ofG[n - 1] \in Int
      BY <1>1, <1>2, <2>1 DEF SumsUp
    <2>3. /\ ofF[n] = ofF[n - 1] + f[n] /\ ofG[n] = ofG[n - 1] + g[n]
          /\ ofH[n] = ofH[n - 1] + h[n]
      BY <1>1, <1>2, <1>3 DEF SumsUp
    <2>4. ofH[n - 1] = ofF[n - 1] - ofG[n - 1]
      BY <1>6
    <2>5. h[n] = f[n] - g[n]
      OBVIOUS
    <2>6. ofH[n] = ofF[n] - ofG[n]
      BY <2>1, <2>2, <2>3, <2>4, <2>5
    <2>7. QED
      BY <2>1, <2>6
  <1>7. Len(f) \in T
    <2> HIDE DEF T
    <2>1. 0..Len(f) \subseteq T
      BY <1>4, <1>5, <1>6, EveryPrefix
    <2>2. QED
      BY <1>4, <2>1
  <1>8. QED
    BY <1>1, <1>2, <1>3, <1>7 DEF SumsUp

(* Nothing but zeros adds up to nothing.                                   *)
LEMMA SumOfZeros ==
    ASSUME NEW f \in Seq(Int), \A i \in 1..Len(f) : f[i] = 0
    PROVE  SumOf(f) = 0
  <1>1. \A i \in 1..Len(f) : f[i] = f[i] - f[i]
    OBVIOUS
  <1>2. SumOf(f) = SumOf(f) - SumOf(f)
    BY <1>1, SumOfDifferences
  <1>3. QED
    BY <1>2, SumsAreNumbers

(* The terms at some places, and nothing elsewhere.                        *)
At(places, f) == [i \in 1..Len(f) |-> IF i \in places THEN f[i] ELSE 0]

LEMMA AtIsASequence ==
    ASSUME NEW f \in Seq(Int), NEW places
    PROVE  /\ At(places, f) \in Seq(Int) /\ Len(At(places, f)) = Len(f)
           /\ \A i \in 1..Len(f) : At(places, f)[i] = IF i \in places THEN f[i] ELSE 0
           /\ SumAt(places, f) = SumOf(At(places, f)) /\ SumAt(places, f) \in Int
  <1>1. \A i \in 1..Len(f) : (IF i \in places THEN f[i] ELSE 0) \in Int
    OBVIOUS
  <1>2. Len(f) \in Nat
    OBVIOUS
  <1>3. /\ At(places, f) \in Seq(Int) /\ Len(At(places, f)) = Len(f)
        /\ \A i \in 1..Len(f) : At(places, f)[i] = IF i \in places THEN f[i] ELSE 0
    BY <1>1, <1>2 DEF At
  <1>4. SumAt(places, f) = SumOf(At(places, f))
    BY DEF SumAt, At
  <1>5. QED
    BY <1>3, <1>4, SumsAreNumbers

LEMMA SumAtNowhere ==
    ASSUME NEW f \in Seq(Int)
    PROVE  SumAt({}, f) = 0
  <1>1. /\ At({}, f) \in Seq(Int) /\ Len(At({}, f)) = Len(f)
        /\ \A i \in 1..Len(f) : At({}, f)[i] = 0
        /\ SumAt({}, f) = SumOf(At({}, f))
    BY AtIsASequence
  <1>2. QED
    BY <1>1, SumOfZeros

(* One more place adds its term.                                           *)
LEMMA SumAtOneMore ==
    ASSUME NEW f \in Seq(Int), NEW places, NEW x \in 1..Len(f), x \notin places
    PROVE  SumAt(places \cup {x}, f) = SumAt(places, f) + f[x]
  <1> DEFINE less == At(places, f)
             more == At(places \cup {x}, f)
  <1>1. /\ less \in Seq(Int) /\ Len(less) = Len(f)
        /\ \A i \in 1..Len(f) : less[i] = IF i \in places THEN f[i] ELSE 0
        /\ SumAt(places, f) = SumOf(less)
    BY AtIsASequence
  <1>2. /\ more \in Seq(Int) /\ Len(more) = Len(f)
        /\ \A i \in 1..Len(f) : more[i] = IF i \in places \cup {x} THEN f[i] ELSE 0
        /\ SumAt(places \cup {x}, f) = SumOf(more)
    BY AtIsASequence
  <1> HIDE DEF less, more
  <1>3. x \in DOMAIN less /\ f[x] \in Int /\ less[x] = 0
    BY <1>1
  <1>4. more = [less EXCEPT ![x] = f[x]]
    <2>1. /\ less = [i \in 1..Len(f) |-> less[i]]
          /\ more = [i \in 1..Len(f) |-> more[i]]
      BY <1>1, <1>2
    <2>2. \A i \in 1..Len(f) : more[i] = [less EXCEPT ![x] = f[x]][i]
      BY <1>1, <1>2, <2>1
    <2>3. QED
      BY <2>1, <2>2
  <1>5. SumOf(more) = SumOf(less) + f[x] - less[x]
    BY <1>1, <1>3, <1>4, SumOfAChange
  <1>6. SumOf(less) \in Int
    BY <1>1, SumsAreNumbers
  <1>7. QED
    BY <1>1, <1>2, <1>3, <1>5, <1>6

LEMMA SumAtOnePlace ==
    ASSUME NEW f \in Seq(Int), NEW x \in 1..Len(f)
    PROVE  SumAt({x}, f) = f[x]
  <1>1. SumAt({} \cup {x}, f) = SumAt({}, f) + f[x] /\ {} \cup {x} = {x}
    BY SumAtOneMore
  <1>2. f[x] \in Int
    OBVIOUS
  <1>3. QED
    BY <1>1, <1>2, SumAtNowhere

(* Terms that are differences.                                             *)
LEMMA SumAtDifferences ==
    ASSUME NEW f \in Seq(Int), NEW g \in Seq(Int), NEW h \in Seq(Int), NEW places,
           Len(g) = Len(f), Len(h) = Len(f),
           \A i \in places \cap (1..Len(f)) : h[i] = f[i] - g[i]
    PROVE  SumAt(places, h) = SumAt(places, f) - SumAt(places, g)
  <1>1. /\ At(places, f) \in Seq(Int) /\ Len(At(places, f)) = Len(f)
        /\ \A i \in 1..Len(f) : At(places, f)[i] = IF i \in places THEN f[i] ELSE 0
        /\ SumAt(places, f) = SumOf(At(places, f))
    BY AtIsASequence
  <1>2. /\ At(places, g) \in Seq(Int) /\ Len(At(places, g)) = Len(f)
        /\ \A i \in 1..Len(f) : At(places, g)[i] = IF i \in places THEN g[i] ELSE 0
        /\ SumAt(places, g) = SumOf(At(places, g))
    BY AtIsASequence
  <1>3. /\ At(places, h) \in Seq(Int) /\ Len(At(places, h)) = Len(f)
        /\ \A i \in 1..Len(f) : At(places, h)[i] = IF i \in places THEN h[i] ELSE 0
        /\ SumAt(places, h) = SumOf(At(places, h))
    BY AtIsASequence
  <1>4. ASSUME NEW i \in 1..Len(f)
        PROVE  At(places, h)[i] = At(places, f)[i] - At(places, g)[i]
    <2>1. i \in places => h[i] = f[i] - g[i]
      OBVIOUS
    <2>2. CASE i \in places
      BY <1>1, <1>2, <1>3, <2>1, <2>2
    <2>3. CASE i \notin places
      BY <1>1, <1>2, <1>3, <2>3
    <2>4. QED
      BY <2>2, <2>3
  <1>5. QED
    BY <1>1, <1>2, <1>3, <1>4, SumOfDifferences

(* A sum does not depend on the order of its terms.                        *)
LEMMA SumMoves ==
    ASSUME NEW f \in Seq(Int), NEW g \in Seq(Int), NEW places \in SUBSET (1..Len(g)),
           NEW to \in [1..Len(g) -> 1..Len(f)],
           \A i, j \in places : to[i] = to[j] => i = j,
           \A i \in places : g[i] = f[to[i]]
    PROVE  SumAt(places, g) = SumAt({to[i] : i \in places}, f)
  <1> DEFINE Upto(n) == places \cap (1..n)
             T == {n \in 0..Len(g) : SumAt(Upto(n), g) = SumAt({to[i] : i \in Upto(n)}, f)}
  <1>1. Len(g) \in Nat
    OBVIOUS
  <1>2. 0 \in T
    <2>1. Upto(0) = {}
      OBVIOUS
    <2>2. 0 \in 0..Len(g)
      BY <1>1
    <2>3. SumAt(Upto(0), g) = SumAt({to[i] : i \in Upto(0)}, f)
      <3> HIDE DEF Upto
      <3>1. {to[i] : i \in Upto(0)} = {}
        BY <2>1
      <3>2. SumAt({}, g) = SumAt({}, f)
        BY SumAtNowhere
      <3>3. QED
        BY <2>1, <3>1, <3>2
    <2>4. QED
      BY <2>2, <2>3
  <1>3. ASSUME NEW n \in 1..Len(g), n - 1 \in T PROVE n \in T
    <2>1. n \in 0..Len(g) /\ SumAt(Upto(n - 1), g) = SumAt({to[i] : i \in Upto(n - 1)}, f)
      BY <1>3
    <2>2. CASE n \notin places
      <3>1. Upto(n) = Upto(n - 1)
        BY <2>2
      <3> HIDE DEF Upto
      <3>2. QED
        BY <2>1, <3>1
    <2>3. CASE n \in places
      <3>1. Upto(n) = Upto(n - 1) \cup {n} /\ n \notin Upto(n - 1)
        BY <2>3
      <3>2. to[n] \notin {to[i] : i \in Upto(n - 1)} /\ to[n] \in 1..Len(f)
        <4>1. ASSUME NEW i \in Upto(n - 1) PROVE to[i] # to[n]
          <5>1. i \in places /\ i # n
            OBVIOUS
          <5>2. QED
            BY <2>3, <5>1
        <4>2. QED
          BY <4>1
      <3>3. {to[i] : i \in Upto(n - 1) \cup {n}} = {to[i] : i \in Upto(n - 1)} \cup {to[n]}
        OBVIOUS
      <3> HIDE DEF Upto
      <3>4. SumAt(Upto(n - 1) \cup {n}, g) = SumAt(Upto(n - 1), g) + g[n]
        BY <3>1, SumAtOneMore
      <3>5. SumAt({to[i] : i \in Upto(n - 1)} \cup {to[n]}, f)
              = SumAt({to[i] : i \in Upto(n - 1)}, f) + f[to[n]]
        BY <3>2, SumAtOneMore
      <3>6. g[n] = f[to[n]]
        BY <2>3
      <3>7. QED
        BY <2>1, <3>1, <3>3, <3>4, <3>5, <3>6
    <2>4. QED
      BY <2>2, <2>3
  <1>4. Len(g) \in T
    <2> HIDE DEF T
    <2>1. 0..Len(g) \subseteq T
      BY <1>1, <1>2, <1>3, EveryPrefix
    <2>2. QED
      BY <1>1, <2>1
  <1>5. Upto(Len(g)) = places
    OBVIOUS
  <1>6. QED
    BY <1>4, <1>5

(* A permutation of some places.                                           *)
Permutes(inside, to) ==
    /\ \A i \in inside : to[i] \in inside
    /\ \A i, j \in inside : to[i] = to[j] => i = j
    /\ \A j \in inside : \E i \in inside : to[i] = j

LEMMA SumIsPermuted ==
    ASSUME NEW f \in Seq(Int), NEW g \in Seq(Int), Len(g) = Len(f),
           NEW inside \in SUBSET (1..Len(g)), NEW to \in [1..Len(g) -> 1..Len(f)],
           Permutes(inside, to), \A i \in inside : g[i] = f[to[i]]
    PROVE  SumAt(inside, f) = SumAt(inside, g)
  <1>1. {to[i] : i \in inside} = inside
    <2>1. {to[i] : i \in inside} \subseteq inside
      BY DEF Permutes
    <2>2. ASSUME NEW j \in inside PROVE j \in {to[i] : i \in inside}
      BY DEF Permutes
    <2>3. QED
      BY <2>1, <2>2
  <1>2. \A i, j \in inside : to[i] = to[j] => i = j
    BY DEF Permutes
  <1>3. SumAt(inside, g) = SumAt({to[i] : i \in inside}, f)
    BY <1>2, SumMoves
  <1>4. QED
    BY <1>1, <1>3

(* In a rotation, every edge is followed by one.                           *)
LEMMA EdgesFollowEachOther ==
    ASSUME NEW edges, NEW N \in Nat, NEW inside \in SUBSET (1..N), Rotates(edges, inside)
    PROVE  \E to \in [1..N -> 1..N] :
              /\ Permutes(inside, to)
              /\ \A i \in inside : edges[to[i]][1] = edges[i][2]
  <1>1. /\ \A i, j \in inside : edges[i][1] = edges[j][1] => i = j
        /\ \A i, j \in inside : edges[i][2] = edges[j][2] => i = j
    BY DEF Rotates
  <1>2. {edges[i][1] : i \in inside} = {edges[i][2] : i \in inside}
    BY DEF Rotates
  <1>3. ASSUME NEW j \in inside PROVE \E i \in inside : edges[i][2] = edges[j][1]
    <2>1. edges[j][1] \in {edges[i][1] : i \in inside}
      OBVIOUS
    <2>2. edges[j][1] \in {edges[i][2] : i \in inside}
      BY <1>2, <2>1
    <2>3. QED
      BY <2>2
  <1>4. ASSUME NEW j \in inside PROVE \E i \in inside : edges[i][1] = edges[j][2]
    <2>1. edges[j][2] \in {edges[i][2] : i \in inside}
      OBVIOUS
    <2>2. edges[j][2] \in {edges[i][1] : i \in inside}
      BY <1>2, <2>1
    <2>3. QED
      BY <2>2
  <1> DEFINE next(j) == CHOOSE i \in inside : edges[i][1] = edges[j][2]
             to == [i \in 1..N |-> IF i \in inside THEN next(i) ELSE i]
  <1>5. \A i \in inside : next(i) \in inside /\ edges[next(i)][1] = edges[i][2]
    BY <1>4
  <1> HIDE DEF next
  <1>6. to \in [1..N -> 1..N] /\ \A i \in inside : to[i] = next(i)
    BY <1>5
  <1> HIDE DEF to
  <1>7. \A i \in inside : to[i] \in inside
    BY <1>5, <1>6
  <1>8. \A i \in inside : edges[to[i]][1] = edges[i][2]
    BY <1>5, <1>6
  <1>9. ASSUME NEW i \in inside, NEW j \in inside, to[i] = to[j] PROVE i = j
    <2>1. edges[i][2] = edges[j][2]
      BY <1>8, <1>9
    <2>2. QED
      BY <1>1, <2>1
  <1>10. ASSUME NEW j \in inside PROVE \E i \in inside : to[i] = j
    <2>1. PICK i \in inside : edges[i][2] = edges[j][1]
      BY <1>3
    <2>2. edges[to[i]][1] = edges[j][1] /\ to[i] \in inside
      BY <1>7, <1>8, <2>1
    <2>3. to[i] = j
      BY <1>1, <2>2
    <2>4. QED
      BY <2>3
  <1>11. Permutes(inside, to)
    BY <1>7, <1>9, <1>10 DEF Permutes
  <1>12. QED
    BY <1>6, <1>8, <1>11

(* Around a rotation, a value at the sources is one at the targets.        *)
AreAtTheEnds(edges, inside, val, f, g) ==
    \A i \in inside : f[i] = val[edges[i][1]] /\ g[i] = val[edges[i][2]]

LEMMA RotationsCancel ==
    ASSUME NEW edges, NEW inside \in SUBSET (1..Len(edges)), Rotates(edges, inside),
           NEW f \in Seq(Int), NEW g \in Seq(Int),
           Len(f) = Len(edges), Len(g) = Len(edges),
           NEW val, AreAtTheEnds(edges, inside, val, f, g)
    PROVE  SumAt(inside, f) = SumAt(inside, g)
  <1>1. Len(edges) \in Nat
    OBVIOUS
  <1>2. PICK to \in [1..Len(edges) -> 1..Len(edges)] :
           /\ Permutes(inside, to)
           /\ \A i \in inside : edges[to[i]][1] = edges[i][2]
    BY <1>1, EdgesFollowEachOther
  <1>3. ASSUME NEW i \in inside PROVE g[i] = f[to[i]]
    <2>1. to[i] \in inside
      BY <1>2 DEF Permutes
    <2>2. f[to[i]] = val[edges[to[i]][1]]
      BY <2>1 DEF AreAtTheEnds
    <2>3. g[i] = val[edges[i][2]] /\ edges[to[i]][1] = edges[i][2]
      BY <1>2 DEF AreAtTheEnds
    <2>4. QED
      BY <2>2, <2>3
  <1>4. /\ inside \in SUBSET (1..Len(g)) /\ Len(g) = Len(f)
        /\ to \in [1..Len(g) -> 1..Len(f)]
    BY <1>2
  <1>5. Permutes(inside, to)
    BY <1>2
  <1>6. QED
    BY <1>3, <1>4, <1>5, SumIsPermuted

-----------------------------------------------------------------------------
(* The spanning forest.                                                    *)

Hooks(V) == [node : V \cup {"none"}, edge : Int, direction : Int]

Parents(V) == UNION {[D -> Hooks(V)] : D \in SUBSET V}

(* A node hangs below another one, on an edge between the two.             *)
Hangs(edges, parent, n, hook) ==
    /\ hook.edge \in 1..Len(edges)
    /\ hook.node \in DOMAIN parent
    /\ \/ edges[hook.edge] = <<hook.node, n>> /\ hook.direction = 1
       \/ edges[hook.edge] = <<n, hook.node>> /\ hook.direction = -1

MayHang(edges, parent, n, hook) == hook = Root \/ Hangs(edges, parent, n, hook)

Coefficients(edges) == [1..Len(edges) -> Int]

(* What PathsToRoot defines.                                               *)
Paths(edges, parent, path) ==
    path = [n \in DOMAIN parent |->
              IF parent[n] = Root THEN [i \in 1..Len(edges) |-> 0]
              ELSE [path[parent[n].node] EXCEPT ![parent[n].edge] = @ - parent[n].direction]]

(* From every node of a forest there is one path to its root.              *)
HasPaths(edges, parent) ==
    /\ \E path : Paths(edges, parent, path)
    /\ \A path : Paths(edges, parent, path) => path \in [DOMAIN parent -> Coefficients(edges)]

IsForest(edges, V, parent) ==
    /\ parent \in Parents(V)
    /\ \A n \in DOMAIN parent : MayHang(edges, parent, n, parent[n])
    /\ HasPaths(edges, parent)

LEMMA EmptyIsForest ==
    ASSUME NEW edges, NEW V, Len(edges) \in Nat
    PROVE  IsForest(edges, V, [n \in {} |-> Root])
  <1> DEFINE parent == [n \in {} |-> Root]
  <1>1. DOMAIN parent = {}
    OBVIOUS
  <1>2. parent \in Parents(V)
    <2>1. parent \in [{} -> Hooks(V)] /\ {} \in SUBSET V
      OBVIOUS
    <2>2. QED
      BY <2>1 DEF Parents
  <1> HIDE DEF parent
  <1>3. Paths(edges, parent, [n \in {} |-> Root])
    BY <1>1 DEF Paths
  <1>4. ASSUME NEW path, Paths(edges, parent, path)
        PROVE  path \in [DOMAIN parent -> Coefficients(edges)]
    <2>1. path = [n \in DOMAIN parent |-> path[n]]
      BY <1>1, <1>4 DEF Paths
    <2>2. QED
      BY <1>1, <2>1
  <1>5. IsForest(edges, V, parent)
    BY <1>1, <1>2, <1>3, <1>4 DEF IsForest, HasPaths
  <1>6. QED
    BY <1>5 DEF parent

LEMMA OneCoefficient ==
    ASSUME NEW I, NEW c \in [I -> Int], NEW e \in I, NEW d \in Int
    PROVE  [c EXCEPT ![e] = @ - d] \in [I -> Int]
  OBVIOUS

(* A node more, and what its path is.                                      *)
LEMMA OneMoreNode ==
    ASSUME NEW edges, NEW V, Len(edges) \in Nat, NEW parent, IsForest(edges, V, parent),
           NEW node \in V, node \notin DOMAIN parent,
           NEW hook \in Hooks(V), MayHang(edges, parent, node, hook)
    PROVE  IsForest(edges, V, Hung(parent, node, hook))
  <1> DEFINE more == Hung(parent, node, hook)
  <1>1. PICK D \in SUBSET V : parent \in [D -> Hooks(V)]
    BY DEF IsForest, Parents
  <1>2. DOMAIN parent = D
    BY <1>1
  <1>3. /\ more \in [D \cup {node} -> Hooks(V)]
        /\ more[node] = hook
        /\ \A n \in D : more[n] = parent[n]
    BY <1>1, <1>2 DEF Hung
  <1>4. more \in Parents(V)
    <2>1. D \cup {node} \in SUBSET V
      OBVIOUS
    <2>2. QED
      BY <1>3, <2>1 DEF Parents
  <1> HIDE DEF more
  <1>5. DOMAIN more = D \cup {node} /\ node \notin D
    BY <1>2, <1>3
  <1>6. \A n \in D : MayHang(edges, parent, n, parent[n])
    BY <1>2 DEF IsForest
  <1>7. ASSUME NEW n \in DOMAIN more
        PROVE  MayHang(edges, more, n, more[n])
    <2>1. CASE n = node
      BY <1>2, <1>3, <1>5, <2>1 DEF MayHang, Hangs
    <2>2. CASE n # node
      BY <1>2, <1>3, <1>5, <1>6, <2>2 DEF MayHang, Hangs
    <2>3. QED
      BY <2>1, <2>2
  <1> DEFINE Zeros == [i \in 1..Len(edges) |-> 0]
             Above(path, h) == IF h = Root THEN Zeros
                               ELSE [path[h.node] EXCEPT ![h.edge] = @ - h.direction]
  <1>8. ASSUME NEW old, NEW new, NEW n \in D, \A m \in D : new[m] = old[m]
        PROVE  Above(new, more[n]) = Above(old, parent[n])
    <2>1. more[n] = parent[n]
      BY <1>3
    <2>2. parent[n] # Root => parent[n].node \in D
      BY <1>2, <1>6 DEF MayHang, Hangs
    <2>3. QED
      BY <1>8, <2>1, <2>2
  <1>9. Zeros \in Coefficients(edges)
    BY DEF Coefficients
  <1>10. ASSUME NEW path, \A m \in D : path[m] \in Coefficients(edges)
         PROVE  Above(path, hook) \in Coefficients(edges)
    <2>1. CASE hook = Root
      BY <1>9, <2>1
    <2>2. CASE hook # Root
      <3>1. hook.node \in D /\ hook.direction \in Int
        BY <1>2, <2>2 DEF MayHang, Hangs, Hooks
      <3>2. path[hook.node] \in [1..Len(edges) -> Int]
        BY <1>10, <3>1 DEF Coefficients
      <3>3. Above(path, hook) = [path[hook.node] EXCEPT ![hook.edge] = @ - hook.direction]
        BY <2>2
      <3>4. hook.edge \in 1..Len(edges)
        BY <2>2 DEF MayHang, Hangs
      <3>5. [path[hook.node] EXCEPT ![hook.edge] = @ - hook.direction] \in [1..Len(edges) -> Int]
        BY <3>1, <3>2, <3>4, OneCoefficient
      <3>6. QED
        BY <3>3, <3>5 DEF Coefficients
    <2>3. QED
      BY <2>1, <2>2
  <1>11. PICK path : Paths(edges, parent, path)
    BY DEF IsForest, HasPaths
  <1>12. path = [n \in D |-> Above(path, parent[n])]
    BY <1>2, <1>11 DEF Paths
  <1>13. \E p : Paths(edges, more, p)
    <2> DEFINE p == [n \in D \cup {node} |-> IF n = node THEN Above(path, hook) ELSE path[n]]
    <2>1. \A n \in D : p[n] = path[n]
      BY <1>5
    <2>2. p[node] = Above(path, hook) /\ p = [n \in D \cup {node} |-> p[n]]
      OBVIOUS
    <2> HIDE DEF p
    <2>3. ASSUME NEW n \in D \cup {node} PROVE p[n] = Above(p, more[n])
      <3>1. CASE n = node
        <4>1. hook # Root => hook.node \in D
          BY <1>2 DEF MayHang, Hangs
        <4>2. Above(p, hook) = Above(path, hook)
          BY <2>1, <4>1
        <4>3. QED
          BY <1>3, <2>2, <3>1, <4>2
      <3>2. CASE n # node
        <4>1. Above(p, more[n]) = Above(path, parent[n])
          <5>1. n \in D
            BY <3>2
          <5> HIDE DEF Above
          <5>2. QED
            BY <1>8, <2>1, <5>1
        <4>2. path[n] = Above(path, parent[n])
          BY <1>12, <3>2
        <4>3. QED
          BY <2>1, <3>2, <4>1, <4>2
      <3>3. QED
        BY <3>1, <3>2
    <2>4. p = [n \in DOMAIN more |-> Above(p, more[n])]
      <3> HIDE DEF Above
      <3>1. QED
        BY <1>5, <2>2, <2>3
    <2>5. QED
      BY <2>4 DEF Paths
  <1>14. ASSUME NEW p, Paths(edges, more, p)
         PROVE  p \in [DOMAIN more -> Coefficients(edges)]
    <2>1. p = [n \in D \cup {node} |-> Above(p, more[n])]
      BY <1>5, <1>14 DEF Paths
    <2> DEFINE old == [n \in D |-> p[n]]
    <2>2. \A n \in D : p[n] = old[n]
      OBVIOUS
    <2>3. \A n \in D \cup {node} : p[n] = Above(p, more[n])
      <3> HIDE DEF Above
      <3>1. QED
        BY <2>1
    <2>4. ASSUME NEW n \in D PROVE old[n] = Above(old, parent[n])
      <3>1. Above(p, more[n]) = Above(old, parent[n])
        <4> HIDE DEF old, Above
        <4>1. QED
          BY <1>8, <2>2
      <3> HIDE DEF old, Above
      <3>2. QED
        BY <2>2, <2>3, <3>1
    <2>5. old = [n \in D |-> Above(old, parent[n])]
      <3> HIDE DEF Above
      <3>1. QED
        BY <2>4
    <2>6. Paths(edges, parent, old)
      <3> HIDE DEF old
      <3>1. QED
        BY <1>2, <2>5 DEF Paths
    <2>7. old \in [D -> Coefficients(edges)]
      BY <1>2, <2>6 DEF IsForest, HasPaths
    <2>8. \A n \in D : p[n] \in Coefficients(edges)
      BY <2>2, <2>7
    <2>9. p[node] \in Coefficients(edges)
      <3> HIDE DEF Above
      <3>1. QED
        BY <1>3, <1>10, <2>3, <2>8
    <2>10. QED
      <3> HIDE DEF Above, old
      <3>1. QED
        BY <1>5, <2>1, <2>8, <2>9
  <1>15. QED
    BY <1>2, <1>4, <1>5, <1>7, <1>13, <1>14 DEF IsForest, HasPaths, more

-----------------------------------------------------------------------------
(* The loops that grow the forest.                                         *)

(* The loop over the neighbours of a node.                                 *)
TurnedUpTo(edges, forest, f) ==
    f = [n \in 0..Len(edges) |->
            IF n = 0 THEN [forest EXCEPT !.queue = Tail(@)]
            ELSE Visit(edges, Head(forest.queue), f[n - 1], n)]

TurnedOf(edges, forest) == CHOOSE f : TurnedUpTo(edges, forest, f)

TurnedBy(edges, forest, S, f) ==
    /\ f \in [0..Len(edges) -> S]
    /\ Turn(edges, forest) = f[Len(edges)]
    /\ f[0] = [forest EXCEPT !.queue = Tail(@)]
    /\ \A n \in 1..Len(edges) : f[n] = Visit(edges, Head(forest.queue), f[n - 1], n)

LEMMA TurnedIsDefined ==
    ASSUME NEW edges, NEW forest, forest.queue # <<>>, NEW S, Len(edges) \in Nat,
           [forest EXCEPT !.queue = Tail(@)] \in S,
           \A n \in 1..Len(edges) : \A x \in S : Visit(edges, Head(forest.queue), x, n) \in S
    PROVE  \E f : TurnedBy(edges, forest, S, f)
  <1> DEFINE step(n, x) == Visit(edges, Head(forest.queue), x, n)
             start == [forest EXCEPT !.queue = Tail(@)]
             last == Len(edges)
             next == [n \in 1..last |-> [x \in S |-> step(n, x)]]
  <1>1. \A n \in 1..last : \A x \in S : step(n, x) \in S
    OBVIOUS
  <1>2. last \in Nat /\ start \in S
    OBVIOUS
  <1> HIDE DEF step, start, last
  <1>3. next \in [1..last -> [S -> S]]
    BY <1>1
  <1>4. PICK f : IsRecursion(f, last, S, start, next)
    <2> HIDE DEF next
    <2>1. QED
      BY <1>2, <1>3, RecursionIsDefined
  <1>5. \A n \in 0..last : f[n] = IF n = 0 THEN start ELSE step(n, f[n - 1])
    <2> SUFFICES ASSUME NEW n \in 0..last
                 PROVE  f[n] = IF n = 0 THEN start ELSE step(n, f[n - 1])
      OBVIOUS
    <2>1. f[n] = IF n = 0 THEN start ELSE next[n][f[n - 1]]
      BY <1>4 DEF IsRecursion
    <2>2. n # 0 => n \in 1..last /\ f[n - 1] \in S
      BY <1>2, <1>4 DEF IsRecursion
    <2>3. QED
      BY <2>1, <2>2
  <1>6. f = [n \in 0..last |-> IF n = 0 THEN start ELSE step(n, f[n - 1])]
    <2>1. f = [n \in 0..last |-> f[n]]
      BY <1>4 DEF IsRecursion
    <2>2. QED
      BY <1>5, <2>1
  <1>7. TurnedUpTo(edges, forest, f)
    BY <1>6 DEF TurnedUpTo, step, start, last
  <1>8. PICK g : g = TurnedOf(edges, forest) /\ TurnedUpTo(edges, forest, g)
    BY <1>7 DEF TurnedOf
  <1>9. g = [n \in 0..last |-> IF n = 0 THEN start ELSE step(n, g[n - 1])]
    BY <1>8 DEF TurnedUpTo, step, start, last
  <1>10. /\ g = [n \in 0..last |-> g[n]]
         /\ \A n \in 0..last : g[n] = IF n = 0 THEN start ELSE step(n, g[n - 1])
    BY <1>9
  <1>11. g[0] = start /\ \A n \in 1..last : g[n] = step(n, g[n - 1])
    <2>1. 0 \in 0..last /\ \A n \in 1..last : n \in 0..last /\ n # 0
      BY <1>2
    <2>2. QED
      BY <1>10, <2>1
  <1>12. g \in [0..last -> S]
    <2>1. \A n \in 1..last : g[n - 1] \in S => g[n] \in S
      BY <1>1, <1>11
    <2>2. g[0] \in S
      BY <1>2, <1>11
    <2>3. QED
      BY <1>2, <1>10, <2>1, <2>2, RecursionStays
  <1>13. Turn(edges, forest) = g[last]
    BY <1>8 DEF Turn, TurnedOf, TurnedUpTo, last
  <1>14. QED
    BY <1>11, <1>12, <1>13 DEF TurnedBy, step, start, last

(* The loop over the queue.                                                *)
GrownUpTo(nodes, edges, forest, f) ==
    f = [n \in 0..Len(nodes) |-> IF n = 0 THEN forest ELSE Turn(edges, f[n - 1])]

GrownOf(nodes, edges, forest) == CHOOSE f : GrownUpTo(nodes, edges, forest, f)

GrownBy(nodes, edges, forest, S, f) ==
    /\ f \in [0..Len(nodes) -> S]
    /\ Grow(nodes, edges, forest) = f[Len(nodes)]
    /\ f[0] = forest
    /\ \A n \in 1..Len(nodes) : f[n] = Turn(edges, f[n - 1])

LEMMA GrownIsDefined ==
    ASSUME NEW nodes, NEW edges, NEW forest, NEW S, Len(nodes) \in Nat, forest \in S,
           \A n \in 1..Len(nodes) : \A x \in S : Turn(edges, x) \in S
    PROVE  \E f : GrownBy(nodes, edges, forest, S, f)
  <1> DEFINE step(n, x) == Turn(edges, x)
             start == forest
             last == Len(nodes)
             next == [n \in 1..last |-> [x \in S |-> step(n, x)]]
  <1>1. \A n \in 1..last : \A x \in S : step(n, x) \in S
    OBVIOUS
  <1>2. last \in Nat /\ start \in S
    OBVIOUS
  <1> HIDE DEF step, start, last
  <1>3. next \in [1..last -> [S -> S]]
    BY <1>1
  <1>4. PICK f : IsRecursion(f, last, S, start, next)
    <2> HIDE DEF next
    <2>1. QED
      BY <1>2, <1>3, RecursionIsDefined
  <1>5. \A n \in 0..last : f[n] = IF n = 0 THEN start ELSE step(n, f[n - 1])
    <2> SUFFICES ASSUME NEW n \in 0..last
                 PROVE  f[n] = IF n = 0 THEN start ELSE step(n, f[n - 1])
      OBVIOUS
    <2>1. f[n] = IF n = 0 THEN start ELSE next[n][f[n - 1]]
      BY <1>4 DEF IsRecursion
    <2>2. n # 0 => n \in 1..last /\ f[n - 1] \in S
      BY <1>2, <1>4 DEF IsRecursion
    <2>3. QED
      BY <2>1, <2>2
  <1>6. f = [n \in 0..last |-> IF n = 0 THEN start ELSE step(n, f[n - 1])]
    <2>1. f = [n \in 0..last |-> f[n]]
      BY <1>4 DEF IsRecursion
    <2>2. QED
      BY <1>5, <2>1
  <1>7. GrownUpTo(nodes, edges, forest, f)
    BY <1>6 DEF GrownUpTo, step, start, last
  <1>8. PICK g : g = GrownOf(nodes, edges, forest) /\ GrownUpTo(nodes, edges, forest, g)
    BY <1>7 DEF GrownOf
  <1>9. g = [n \in 0..last |-> IF n = 0 THEN start ELSE step(n, g[n - 1])]
    BY <1>8 DEF GrownUpTo, step, start, last
  <1>10. /\ g = [n \in 0..last |-> g[n]]
         /\ \A n \in 0..last : g[n] = IF n = 0 THEN start ELSE step(n, g[n - 1])
    BY <1>9
  <1>11. g[0] = start /\ \A n \in 1..last : g[n] = step(n, g[n - 1])
    <2>1. 0 \in 0..last /\ \A n \in 1..last : n \in 0..last /\ n # 0
      BY <1>2
    <2>2. QED
      BY <1>10, <2>1
  <1>12. g \in [0..last -> S]
    <2>1. \A n \in 1..last : g[n - 1] \in S => g[n] \in S
      BY <1>1, <1>11
    <2>2. g[0] \in S
      BY <1>2, <1>11
    <2>3. QED
      BY <1>2, <1>10, <2>1, <2>2, RecursionStays
  <1>13. Grow(nodes, edges, forest) = g[last]
    BY <1>8 DEF Grow, GrownOf, GrownUpTo, last
  <1>14. QED
    BY <1>11, <1>12, <1>13 DEF GrownBy, step, start, last

(* The loop over the nodes.                                                *)
PlantingUpTo(nodes, edges, f) ==
    f = [n \in 0..Len(nodes) |->
            IF n = 0 THEN [parent |-> [node \in {} |-> Root], queue |-> <<>>]
            ELSE Planted(nodes, edges, f[n - 1], nodes[n])]

PlantingOf(nodes, edges) == CHOOSE f : PlantingUpTo(nodes, edges, f)

PlantingBy(nodes, edges, S, f) ==
    /\ f \in [0..Len(nodes) -> S]
    /\ Forest(nodes, edges) = f[Len(nodes)].parent
    /\ f[0] = [parent |-> [node \in {} |-> Root], queue |-> <<>>]
    /\ \A n \in 1..Len(nodes) : f[n] = Planted(nodes, edges, f[n - 1], nodes[n])

LEMMA PlantingIsDefined ==
    ASSUME NEW nodes, NEW edges, NEW S, Len(nodes) \in Nat,
           [parent |-> [node \in {} |-> Root], queue |-> <<>>] \in S,
           \A n \in 1..Len(nodes) : \A x \in S : Planted(nodes, edges, x, nodes[n]) \in S
    PROVE  \E f : PlantingBy(nodes, edges, S, f)
  <1> DEFINE step(n, x) == Planted(nodes, edges, x, nodes[n])
             start == [parent |-> [node \in {} |-> Root], queue |-> <<>>]
             last == Len(nodes)
             next == [n \in 1..last |-> [x \in S |-> step(n, x)]]
  <1>1. \A n \in 1..last : \A x \in S : step(n, x) \in S
    OBVIOUS
  <1>2. last \in Nat /\ start \in S
    OBVIOUS
  <1> HIDE DEF step, start, last
  <1>3. next \in [1..last -> [S -> S]]
    BY <1>1
  <1>4. PICK f : IsRecursion(f, last, S, start, next)
    <2> HIDE DEF next
    <2>1. QED
      BY <1>2, <1>3, RecursionIsDefined
  <1>5. \A n \in 0..last : f[n] = IF n = 0 THEN start ELSE step(n, f[n - 1])
    <2> SUFFICES ASSUME NEW n \in 0..last
                 PROVE  f[n] = IF n = 0 THEN start ELSE step(n, f[n - 1])
      OBVIOUS
    <2>1. f[n] = IF n = 0 THEN start ELSE next[n][f[n - 1]]
      BY <1>4 DEF IsRecursion
    <2>2. n # 0 => n \in 1..last /\ f[n - 1] \in S
      BY <1>2, <1>4 DEF IsRecursion
    <2>3. QED
      BY <2>1, <2>2
  <1>6. f = [n \in 0..last |-> IF n = 0 THEN start ELSE step(n, f[n - 1])]
    <2>1. f = [n \in 0..last |-> f[n]]
      BY <1>4 DEF IsRecursion
    <2>2. QED
      BY <1>5, <2>1
  <1>7. PlantingUpTo(nodes, edges, f)
    BY <1>6 DEF PlantingUpTo, step, start, last
  <1>8. PICK g : g = PlantingOf(nodes, edges) /\ PlantingUpTo(nodes, edges, g)
    BY <1>7 DEF PlantingOf
  <1>9. g = [n \in 0..last |-> IF n = 0 THEN start ELSE step(n, g[n - 1])]
    BY <1>8 DEF PlantingUpTo, step, start, last
  <1>10. /\ g = [n \in 0..last |-> g[n]]
         /\ \A n \in 0..last : g[n] = IF n = 0 THEN start ELSE step(n, g[n - 1])
    BY <1>9
  <1>11. g[0] = start /\ \A n \in 1..last : g[n] = step(n, g[n - 1])
    <2>1. 0 \in 0..last /\ \A n \in 1..last : n \in 0..last /\ n # 0
      BY <1>2
    <2>2. QED
      BY <1>10, <2>1
  <1>12. g \in [0..last -> S]
    <2>1. \A n \in 1..last : g[n - 1] \in S => g[n] \in S
      BY <1>1, <1>11
    <2>2. g[0] \in S
      BY <1>2, <1>11
    <2>3. QED
      BY <1>2, <1>10, <2>1, <2>2, RecursionStays
  <1>13. Forest(nodes, edges) = g[last].parent
    BY <1>8 DEF Forest, PlantingOf, PlantingUpTo, last
  <1>14. QED
    BY <1>11, <1>12, <1>13 DEF PlantingBy, step, start, last

-----------------------------------------------------------------------------
(* What the loops keep.                                                    *)

(* The states of the loops: a forest that has the nodes of D, and a queue  *)
(* of nodes of it.                                                         *)
Growing(edges, V, D) ==
    {s \in [parent : Parents(V), queue : Seq(V)] :
        /\ IsForest(edges, V, s.parent)
        /\ \A k \in 1..Len(s.queue) : s.queue[k] \in DOMAIN s.parent
        /\ D \subseteq DOMAIN s.parent}

Pairs(V) == {<<a, b>> : a \in V, b \in V}

LEMMA NodesAreInside ==
    ASSUME NEW V, NEW parent \in Parents(V)
    PROVE  DOMAIN parent \subseteq V
  BY DEF Parents

LEMMA LongerQueue ==
    ASSUME NEW V, NEW queue \in Seq(V), NEW x \in V, NEW D, x \in D,
           \A k \in 1..Len(queue) : queue[k] \in D
    PROVE  /\ Append(queue, x) \in Seq(V)
           /\ \A k \in 1..Len(Append(queue, x)) : Append(queue, x)[k] \in D
  <1>1. Append(queue, x) \in Seq(V) /\ Len(Append(queue, x)) = Len(queue) + 1 /\ Len(queue) \in Nat
    OBVIOUS
  <1>2. ASSUME NEW k \in 1..Len(Append(queue, x)) PROVE Append(queue, x)[k] \in D
    <2>1. CASE k = Len(queue) + 1
      BY <2>1
    <2>2. CASE k # Len(queue) + 1
      BY <1>1, <2>2
    <2>3. QED
      BY <2>1, <2>2
  <1>3. QED
    BY <1>1, <1>2

LEMMA ShorterQueue ==
    ASSUME NEW V, NEW queue \in Seq(V), queue # <<>>, NEW D,
           \A k \in 1..Len(queue) : queue[k] \in D
    PROVE  /\ Tail(queue) \in Seq(V) /\ Head(queue) \in D /\ Head(queue) \in V
           /\ \A k \in 1..Len(Tail(queue)) : Tail(queue)[k] \in D
  <1>1. Len(queue) \in Nat /\ Len(queue) # 0
    OBVIOUS
  <1>2. Tail(queue) \in Seq(V) /\ Len(Tail(queue)) = Len(queue) - 1
        /\ \A k \in 1..Len(Tail(queue)) : Tail(queue)[k] = queue[k + 1]
    BY <1>1
  <1>3. Head(queue) = queue[1] /\ 1 \in 1..Len(queue)
    BY <1>1
  <1>4. \A k \in 1..Len(Tail(queue)) : k + 1 \in 1..Len(queue)
    BY <1>1, <1>2
  <1>5. QED
    BY <1>1, <1>2, <1>3, <1>4

LEMMA HangingGrows ==
    ASSUME NEW edges, Len(edges) \in Nat, NEW V, NEW D, NEW s \in Growing(edges, V, D),
           NEW node \in V, node \notin DOMAIN s.parent,
           NEW hook \in Hooks(V), MayHang(edges, s.parent, node, hook),
           NEW queue \in {<<node>>, Append(s.queue, node)}
    PROVE  [parent |-> Hung(s.parent, node, hook), queue |-> queue]
             \in Growing(edges, V, D \cup {node})
  <1>1. /\ s.parent \in Parents(V) /\ s.queue \in Seq(V) /\ IsForest(edges, V, s.parent)
        /\ \A k \in 1..Len(s.queue) : s.queue[k] \in DOMAIN s.parent
        /\ D \subseteq DOMAIN s.parent
    BY DEF Growing
  <1>2. /\ IsForest(edges, V, Hung(s.parent, node, hook))
        /\ DOMAIN Hung(s.parent, node, hook) = DOMAIN s.parent \cup {node}
    <2>1. IsForest(edges, V, Hung(s.parent, node, hook))
      BY <1>1, OneMoreNode
    <2>2. DOMAIN Hung(s.parent, node, hook) = DOMAIN s.parent \cup {node}
      BY DEF Hung
    <2>3. QED
      BY <2>1, <2>2
  <1>3. Hung(s.parent, node, hook) \in Parents(V)
    BY <1>2 DEF IsForest
  <1>4. /\ queue \in Seq(V)
        /\ \A k \in 1..Len(queue) : queue[k] \in DOMAIN s.parent \cup {node}
    <2>1. \A k \in 1..Len(s.queue) : s.queue[k] \in DOMAIN s.parent \cup {node}
      BY <1>1
    <2>2. CASE queue = <<node>>
      BY <2>2
    <2>3. CASE queue = Append(s.queue, node)
      BY <1>1, <2>1, <2>3, LongerQueue
    <2>4. QED
      BY <2>2, <2>3
  <1>5. D \cup {node} \subseteq DOMAIN s.parent \cup {node}
    BY <1>1
  <1> DEFINE t == [parent |-> Hung(s.parent, node, hook), queue |-> queue]
  <1>6. t.parent = Hung(s.parent, node, hook) /\ t.queue = queue
    OBVIOUS
  <1>7. t \in [parent : Parents(V), queue : Seq(V)]
    BY <1>3, <1>4
  <1> HIDE DEF t
  <1>8. t \in Growing(edges, V, D \cup {node})
    BY <1>2, <1>4, <1>5, <1>6, <1>7 DEF Growing
  <1>9. QED
    BY <1>8 DEF t

LEMMA GrowingMore ==
    ASSUME NEW edges, NEW V, NEW D, NEW E, E \subseteq D
    PROVE  Growing(edges, V, D) \subseteq Growing(edges, V, E)
  BY DEF Growing

LEMMA VisitGrows ==
    ASSUME NEW V, NEW edges \in Seq(Pairs(V)), NEW D, NEW node \in V, node \in D,
           NEW s \in Growing(edges, V, D), NEW i \in 1..Len(edges)
    PROVE  Visit(edges, node, s, i) \in Growing(edges, V, D)
  <1> DEFINE neighbour == OtherEnd(edges[i], node)
             stays == node \notin {edges[i][1], edges[i][2]} \/ neighbour \in DOMAIN s.parent
             hook == Hook(edges, node, i)
  <1>1. CASE stays
    BY <1>1 DEF Visit
  <1>2. CASE ~stays
    <2>1. /\ edges[i] \in Pairs(V) /\ Len(edges) \in Nat
          /\ node \in {edges[i][1], edges[i][2]} /\ neighbour \notin DOMAIN s.parent
      BY <1>2
    <2>2. PICK a \in V, b \in V : edges[i] = <<a, b>>
      BY <2>1 DEF Pairs
    <2>3. neighbour \in V
      BY <2>2 DEF OtherEnd
    <2>4. node \in DOMAIN s.parent
      BY DEF Growing
    <2>5. hook \in Hooks(V)
      BY DEF Hook, Hooks
    <2>6. MayHang(edges, s.parent, neighbour, hook)
      BY <2>1, <2>2, <2>4 DEF MayHang, Hangs, Hook, OtherEnd
    <2> HIDE DEF neighbour, hook
    <2>7. [parent |-> Hung(s.parent, neighbour, hook), queue |-> Append(s.queue, neighbour)]
             \in Growing(edges, V, D \cup {neighbour})
      BY <2>1, <2>3, <2>5, <2>6, HangingGrows
    <2>8. Growing(edges, V, D \cup {neighbour}) \subseteq Growing(edges, V, D)
      BY GrowingMore
    <2>9. Visit(edges, node, s, i)
            = [parent |-> Hung(s.parent, neighbour, hook), queue |-> Append(s.queue, neighbour)]
      BY <1>2 DEF Visit, neighbour, hook
    <2>10. QED
      BY <2>7, <2>8, <2>9
  <1>3. QED
    BY <1>1, <1>2

LEMMA TurnGrows ==
    ASSUME NEW V, NEW edges \in Seq(Pairs(V)), NEW D, NEW s \in Growing(edges, V, D)
    PROVE  Turn(edges, s) \in Growing(edges, V, D)
  <1>1. CASE s.queue = <<>>
    BY <1>1 DEF Turn
  <1>2. CASE s.queue # <<>>
    <2> DEFINE node == Head(s.queue)
               S == Growing(edges, V, D \cup {node})
               start == [s EXCEPT !.queue = Tail(@)]
    <2>1. /\ s \in [parent : Parents(V), queue : Seq(V)]
          /\ IsForest(edges, V, s.parent) /\ D \subseteq DOMAIN s.parent
          /\ \A k \in 1..Len(s.queue) : s.queue[k] \in DOMAIN s.parent
      BY DEF Growing
    <2>2. /\ Tail(s.queue) \in Seq(V) /\ node \in DOMAIN s.parent /\ node \in V
          /\ \A k \in 1..Len(Tail(s.queue)) : Tail(s.queue)[k] \in DOMAIN s.parent
      <3>1. s.queue \in Seq(V)
        BY <2>1
      <3>2. QED
        BY <1>2, <2>1, <3>1, ShorterQueue
    <2>3. start \in [parent : Parents(V), queue : Seq(V)]
      BY <2>1, <2>2
    <2>4. start.parent = s.parent /\ start.queue = Tail(s.queue)
      BY <2>1
    <2>5. start \in S
      <3> HIDE DEF start, node
      <3>1. QED
        BY <2>1, <2>2, <2>3, <2>4 DEF Growing
    <2>6. \A i \in 1..Len(edges) : \A x \in S : Visit(edges, node, x, i) \in S
      <3> HIDE DEF node
      <3>1. node \in D \cup {node}
        OBVIOUS
      <3>2. QED
        BY <2>2, <3>1, VisitGrows
    <2>7. Len(edges) \in Nat
      OBVIOUS
    <2>8. PICK f : TurnedBy(edges, s, S, f)
      <3> HIDE DEF S
      <3>1. [s EXCEPT !.queue = Tail(@)] \in S
        BY <2>5
      <3>2. \A n \in 1..Len(edges) : \A x \in S : Visit(edges, Head(s.queue), x, n) \in S
        BY <2>6
      <3> HIDE DEF start, node
      <3>3. QED
        BY <1>2, <2>7, <3>1, <3>2, TurnedIsDefined
    <2>9. Turn(edges, s) \in S
      <3> HIDE DEF S
      <3>1. QED
        BY <2>7, <2>8 DEF TurnedBy
    <2>10. S \subseteq Growing(edges, V, D)
      BY GrowingMore
    <2>11. QED
      BY <2>9, <2>10
  <1>3. QED
    BY <1>1, <1>2

LEMMA GrowGrows ==
    ASSUME NEW V, NEW edges \in Seq(Pairs(V)), NEW D, NEW s \in Growing(edges, V, D),
           NEW nodes \in Seq(V)
    PROVE  Grow(nodes, edges, s) \in Growing(edges, V, D)
  <1>1. Len(nodes) \in Nat
    OBVIOUS
  <1> DEFINE S == Growing(edges, V, D)
  <1>2. \A n \in 1..Len(nodes) : \A x \in S : Turn(edges, x) \in S
    BY TurnGrows
  <1>3. s \in S
    OBVIOUS
  <1> HIDE DEF S
  <1>4. PICK f : GrownBy(nodes, edges, s, S, f)
    BY <1>1, <1>2, <1>3, GrownIsDefined
  <1>5. Grow(nodes, edges, s) \in S
    BY <1>1, <1>4 DEF GrownBy
  <1>6. QED
    BY <1>5 DEF S

LEMMA PlantedGrows ==
    ASSUME NEW V, NEW edges \in Seq(Pairs(V)), NEW D, NEW s \in Growing(edges, V, D),
           NEW nodes \in Seq(V), NEW start \in V
    PROVE  Planted(nodes, edges, s, start) \in Growing(edges, V, D \cup {start})
  <1>1. CASE start \in DOMAIN s.parent
    BY <1>1 DEF Planted, Growing
  <1>2. CASE start \notin DOMAIN s.parent
    <2>1. Root \in Hooks(V)
      BY DEF Root, Hooks
    <2>2. Len(edges) \in Nat /\ MayHang(edges, s.parent, start, Root)
      BY DEF MayHang
    <2>3. [parent |-> Hung(s.parent, start, Root), queue |-> <<start>>]
            \in Growing(edges, V, D \cup {start})
      BY <1>2, <2>1, <2>2, HangingGrows
    <2>4. Planted(nodes, edges, s, start)
            = Grow(nodes, edges, [parent |-> Hung(s.parent, start, Root), queue |-> <<start>>])
      BY <1>2 DEF Planted
    <2>5. QED
      BY <2>3, <2>4, GrowGrows
  <1>3. QED
    BY <1>1, <1>2

(* The forest hangs every node.                                            *)
LEMMA ForestHangsEveryNode ==
    ASSUME NEW V, NEW edges \in Seq(Pairs(V)), NEW nodes \in Seq(V)
    PROVE  /\ IsForest(edges, V, Forest(nodes, edges))
           /\ \A k \in 1..Len(nodes) : nodes[k] \in DOMAIN Forest(nodes, edges)
  <1>1. Len(nodes) \in Nat /\ Len(edges) \in Nat
    OBVIOUS
  <1> DEFINE S == Growing(edges, V, {})
             start == [parent |-> [node \in {} |-> Root], queue |-> <<>>]
             Upto(n) == {nodes[k] : k \in 1..n}
  <1>2. start \in S
    <2>1. IsForest(edges, V, [node \in {} |-> Root])
      BY <1>1, EmptyIsForest
    <2>2. [node \in {} |-> Root] \in Parents(V)
      BY <2>1 DEF IsForest
    <2>3. start.parent = [node \in {} |-> Root] /\ start.queue = <<>>
      OBVIOUS
    <2>4. start \in [parent : Parents(V), queue : Seq(V)]
      BY <2>2
    <2> HIDE DEF start
    <2>5. QED
      BY <2>1, <2>3, <2>4 DEF Growing
  <1>3. \A n \in 1..Len(nodes) : \A x \in S : Planted(nodes, edges, x, nodes[n]) \in S
    <2> SUFFICES ASSUME NEW n \in 1..Len(nodes), NEW x \in S
                 PROVE  Planted(nodes, edges, x, nodes[n]) \in S
      OBVIOUS
    <2>1. nodes[n] \in V
      OBVIOUS
    <2>2. Planted(nodes, edges, x, nodes[n]) \in Growing(edges, V, {} \cup {nodes[n]})
      BY <2>1, PlantedGrows
    <2>3. Growing(edges, V, {} \cup {nodes[n]}) \subseteq Growing(edges, V, {})
      BY GrowingMore
    <2>4. QED
      BY <2>2, <2>3
  <1>4. PICK f : PlantingBy(nodes, edges, S, f)
    <2> HIDE DEF S
    <2>1. [parent |-> [node \in {} |-> Root], queue |-> <<>>] \in S
      BY <1>2
    <2> HIDE DEF start
    <2>2. QED
      BY <1>1, <1>3, <2>1, PlantingIsDefined
  <1>5. /\ Forest(nodes, edges) = f[Len(nodes)].parent
        /\ f[0] \in S
        /\ \A n \in 1..Len(nodes) : f[n] = Planted(nodes, edges, f[n - 1], nodes[n])
    <2> HIDE DEF S
    <2>1. QED
      BY <1>1, <1>4 DEF PlantingBy
  <1> DEFINE T == {n \in 0..Len(nodes) : f[n] \in Growing(edges, V, Upto(n))}
  <1>6. 0 \in T
    <2>1. Upto(0) = {}
      OBVIOUS
    <2>2. f[0] \in Growing(edges, V, {}) /\ 0 \in 0..Len(nodes)
      BY <1>1, <1>5
    <2> HIDE DEF Upto
    <2>3. QED
      BY <2>1, <2>2
  <1>7. ASSUME NEW n \in 1..Len(nodes), n - 1 \in T PROVE n \in T
    <2>1. Upto(n) = Upto(n - 1) \cup {nodes[n]}
      OBVIOUS
    <2>2. f[n - 1] \in Growing(edges, V, Upto(n - 1))
      BY <1>7
    <2>3. f[n] = Planted(nodes, edges, f[n - 1], nodes[n]) /\ nodes[n] \in V
      BY <1>5
    <2> HIDE DEF Upto
    <2>4. f[n] \in Growing(edges, V, Upto(n - 1) \cup {nodes[n]})
      BY <2>2, <2>3, PlantedGrows
    <2>5. n \in 0..Len(nodes)
      OBVIOUS
    <2>6. QED
      BY <2>1, <2>4, <2>5
  <1>8. Len(nodes) \in T
    <2> HIDE DEF T
    <2>1. 0..Len(nodes) \subseteq T
      BY <1>1, <1>6, <1>7, EveryPrefix
    <2>2. QED
      BY <1>1, <2>1
  <1>9. f[Len(nodes)] \in Growing(edges, V, Upto(Len(nodes)))
    BY <1>8
  <1>10. \A k \in 1..Len(nodes) : nodes[k] \in Upto(Len(nodes))
    OBVIOUS
  <1> HIDE DEF Upto
  <1>11. QED
    BY <1>5, <1>9, <1>10 DEF Growing

-----------------------------------------------------------------------------
(* The nodes and the edges of a request.                                   *)

(* Every element once.                                                     *)
ListingUpTo(seq, f) ==
    f = [n \in 0..Len(seq) |-> IF n = 0 THEN <<>> ELSE Listed(f[n - 1], seq[n])]

ListingOf(seq) == CHOOSE f : ListingUpTo(seq, f)

ListingBy(seq, S, f) ==
    /\ f \in [0..Len(seq) -> S]
    /\ Once(seq) = f[Len(seq)]
    /\ f[0] = <<>>
    /\ \A n \in 1..Len(seq) : f[n] = Listed(f[n - 1], seq[n])

LEMMA ListingIsDefined ==
    ASSUME NEW seq, NEW S, Len(seq) \in Nat, <<>> \in S,
           \A n \in 1..Len(seq) : \A x \in S : Listed(x, seq[n]) \in S
    PROVE  \E f : ListingBy(seq, S, f)
  <1> DEFINE step(n, x) == Listed(x, seq[n])
             start == <<>>
             last == Len(seq)
             next == [n \in 1..last |-> [x \in S |-> step(n, x)]]
  <1>1. \A n \in 1..last : \A x \in S : step(n, x) \in S
    OBVIOUS
  <1>2. last \in Nat /\ start \in S
    OBVIOUS
  <1> HIDE DEF step, start, last
  <1>3. next \in [1..last -> [S -> S]]
    BY <1>1
  <1>4. PICK f : IsRecursion(f, last, S, start, next)
    <2> HIDE DEF next
    <2>1. QED
      BY <1>2, <1>3, RecursionIsDefined
  <1>5. \A n \in 0..last : f[n] = IF n = 0 THEN start ELSE step(n, f[n - 1])
    <2> SUFFICES ASSUME NEW n \in 0..last
                 PROVE  f[n] = IF n = 0 THEN start ELSE step(n, f[n - 1])
      OBVIOUS
    <2>1. f[n] = IF n = 0 THEN start ELSE next[n][f[n - 1]]
      BY <1>4 DEF IsRecursion
    <2>2. n # 0 => n \in 1..last /\ f[n - 1] \in S
      BY <1>2, <1>4 DEF IsRecursion
    <2>3. QED
      BY <2>1, <2>2
  <1>6. f = [n \in 0..last |-> IF n = 0 THEN start ELSE step(n, f[n - 1])]
    <2>1. f = [n \in 0..last |-> f[n]]
      BY <1>4 DEF IsRecursion
    <2>2. QED
      BY <1>5, <2>1
  <1>7. ListingUpTo(seq, f)
    BY <1>6 DEF ListingUpTo, step, start, last
  <1>8. PICK g : g = ListingOf(seq) /\ ListingUpTo(seq, g)
    BY <1>7 DEF ListingOf
  <1>9. g = [n \in 0..last |-> IF n = 0 THEN start ELSE step(n, g[n - 1])]
    BY <1>8 DEF ListingUpTo, step, start, last
  <1>10. /\ g = [n \in 0..last |-> g[n]]
         /\ \A n \in 0..last : g[n] = IF n = 0 THEN start ELSE step(n, g[n - 1])
    BY <1>9
  <1>11. g[0] = start /\ \A n \in 1..last : g[n] = step(n, g[n - 1])
    <2>1. 0 \in 0..last /\ \A n \in 1..last : n \in 0..last /\ n # 0
      BY <1>2
    <2>2. QED
      BY <1>10, <2>1
  <1>12. g \in [0..last -> S]
    <2>1. \A n \in 1..last : g[n - 1] \in S => g[n] \in S
      BY <1>1, <1>11
    <2>2. g[0] \in S
      BY <1>2, <1>11
    <2>3. QED
      BY <1>2, <1>10, <2>1, <2>2, RecursionStays
  <1>13. Once(seq) = g[last]
    BY <1>8 DEF Once, ListingOf, ListingUpTo, last
  <1>14. QED
    BY <1>11, <1>12, <1>13 DEF ListingBy, step, start, last

(* The pairs that leave a node.                                            *)
LeavingUpUpTo(pairs, node, f) ==
    f = [n \in 0..Len(pairs) |-> IF n = 0 THEN <<>> ELSE With(f[n - 1], pairs[n], node)]

LeavingUpOf(pairs, node) == CHOOSE f : LeavingUpUpTo(pairs, node, f)

LeavingUpBy(pairs, node, S, f) ==
    /\ f \in [0..Len(pairs) -> S]
    /\ Leaving(pairs, node) = f[Len(pairs)]
    /\ f[0] = <<>>
    /\ \A n \in 1..Len(pairs) : f[n] = With(f[n - 1], pairs[n], node)

LEMMA LeavingUpIsDefined ==
    ASSUME NEW pairs, NEW node, NEW S, Len(pairs) \in Nat, <<>> \in S,
           \A n \in 1..Len(pairs) : \A x \in S : With(x, pairs[n], node) \in S
    PROVE  \E f : LeavingUpBy(pairs, node, S, f)
  <1> DEFINE step(n, x) == With(x, pairs[n], node)
             start == <<>>
             last == Len(pairs)
             next == [n \in 1..last |-> [x \in S |-> step(n, x)]]
  <1>1. \A n \in 1..last : \A x \in S : step(n, x) \in S
    OBVIOUS
  <1>2. last \in Nat /\ start \in S
    OBVIOUS
  <1> HIDE DEF step, start, last
  <1>3. next \in [1..last -> [S -> S]]
    BY <1>1
  <1>4. PICK f : IsRecursion(f, last, S, start, next)
    <2> HIDE DEF next
    <2>1. QED
      BY <1>2, <1>3, RecursionIsDefined
  <1>5. \A n \in 0..last : f[n] = IF n = 0 THEN start ELSE step(n, f[n - 1])
    <2> SUFFICES ASSUME NEW n \in 0..last
                 PROVE  f[n] = IF n = 0 THEN start ELSE step(n, f[n - 1])
      OBVIOUS
    <2>1. f[n] = IF n = 0 THEN start ELSE next[n][f[n - 1]]
      BY <1>4 DEF IsRecursion
    <2>2. n # 0 => n \in 1..last /\ f[n - 1] \in S
      BY <1>2, <1>4 DEF IsRecursion
    <2>3. QED
      BY <2>1, <2>2
  <1>6. f = [n \in 0..last |-> IF n = 0 THEN start ELSE step(n, f[n - 1])]
    <2>1. f = [n \in 0..last |-> f[n]]
      BY <1>4 DEF IsRecursion
    <2>2. QED
      BY <1>5, <2>1
  <1>7. LeavingUpUpTo(pairs, node, f)
    BY <1>6 DEF LeavingUpUpTo, step, start, last
  <1>8. PICK g : g = LeavingUpOf(pairs, node) /\ LeavingUpUpTo(pairs, node, g)
    BY <1>7 DEF LeavingUpOf
  <1>9. g = [n \in 0..last |-> IF n = 0 THEN start ELSE step(n, g[n - 1])]
    BY <1>8 DEF LeavingUpUpTo, step, start, last
  <1>10. /\ g = [n \in 0..last |-> g[n]]
         /\ \A n \in 0..last : g[n] = IF n = 0 THEN start ELSE step(n, g[n - 1])
    BY <1>9
  <1>11. g[0] = start /\ \A n \in 1..last : g[n] = step(n, g[n - 1])
    <2>1. 0 \in 0..last /\ \A n \in 1..last : n \in 0..last /\ n # 0
      BY <1>2
    <2>2. QED
      BY <1>10, <2>1
  <1>12. g \in [0..last -> S]
    <2>1. \A n \in 1..last : g[n - 1] \in S => g[n] \in S
      BY <1>1, <1>11
    <2>2. g[0] \in S
      BY <1>2, <1>11
    <2>3. QED
      BY <1>2, <1>10, <2>1, <2>2, RecursionStays
  <1>13. Leaving(pairs, node) = g[last]
    BY <1>8 DEF Leaving, LeavingUpOf, LeavingUpUpTo, last
  <1>14. QED
    BY <1>11, <1>12, <1>13 DEF LeavingUpBy, step, start, last

(* The edges, node by node.                                                *)
EdgesUpUpTo(request, f) ==
    f = [n \in 0..Len(NodesOf(request)) |->
            IF n = 0 THEN <<>>
            ELSE f[n - 1] \o Leaving(PairsOf(request), NodesOf(request)[n])]

EdgesUpOf(request) == CHOOSE f : EdgesUpUpTo(request, f)

EdgesUpBy(request, S, f) ==
    /\ f \in [0..Len(NodesOf(request)) -> S]
    /\ EdgesOf(request) = f[Len(NodesOf(request))]
    /\ f[0] = <<>>
    /\ \A n \in 1..Len(NodesOf(request)) :
          f[n] = f[n - 1] \o Leaving(PairsOf(request), NodesOf(request)[n])

LEMMA EdgesUpIsDefined ==
    ASSUME NEW request, NEW S, Len(NodesOf(request)) \in Nat, <<>> \in S,
           \A n \in 1..Len(NodesOf(request)) :
             \A x \in S : x \o Leaving(PairsOf(request), NodesOf(request)[n]) \in S
    PROVE  \E f : EdgesUpBy(request, S, f)
  <1> DEFINE step(n, x) == x \o Leaving(PairsOf(request), NodesOf(request)[n])
             start == <<>>
             last == Len(NodesOf(request))
             next == [n \in 1..last |-> [x \in S |-> step(n, x)]]
  <1>1. \A n \in 1..last : \A x \in S : step(n, x) \in S
    OBVIOUS
  <1>2. last \in Nat /\ start \in S
    OBVIOUS
  <1> HIDE DEF step, start, last
  <1>3. next \in [1..last -> [S -> S]]
    BY <1>1
  <1>4. PICK f : IsRecursion(f, last, S, start, next)
    <2> HIDE DEF next
    <2>1. QED
      BY <1>2, <1>3, RecursionIsDefined
  <1>5. \A n \in 0..last : f[n] = IF n = 0 THEN start ELSE step(n, f[n - 1])
    <2> SUFFICES ASSUME NEW n \in 0..last
                 PROVE  f[n] = IF n = 0 THEN start ELSE step(n, f[n - 1])
      OBVIOUS
    <2>1. f[n] = IF n = 0 THEN start ELSE next[n][f[n - 1]]
      BY <1>4 DEF IsRecursion
    <2>2. n # 0 => n \in 1..last /\ f[n - 1] \in S
      BY <1>2, <1>4 DEF IsRecursion
    <2>3. QED
      BY <2>1, <2>2
  <1>6. f = [n \in 0..last |-> IF n = 0 THEN start ELSE step(n, f[n - 1])]
    <2>1. f = [n \in 0..last |-> f[n]]
      BY <1>4 DEF IsRecursion
    <2>2. QED
      BY <1>5, <2>1
  <1>7. EdgesUpUpTo(request, f)
    BY <1>6 DEF EdgesUpUpTo, step, start, last
  <1>8. PICK g : g = EdgesUpOf(request) /\ EdgesUpUpTo(request, g)
    BY <1>7 DEF EdgesUpOf
  <1>9. g = [n \in 0..last |-> IF n = 0 THEN start ELSE step(n, g[n - 1])]
    BY <1>8 DEF EdgesUpUpTo, step, start, last
  <1>10. /\ g = [n \in 0..last |-> g[n]]
         /\ \A n \in 0..last : g[n] = IF n = 0 THEN start ELSE step(n, g[n - 1])
    BY <1>9
  <1>11. g[0] = start /\ \A n \in 1..last : g[n] = step(n, g[n - 1])
    <2>1. 0 \in 0..last /\ \A n \in 1..last : n \in 0..last /\ n # 0
      BY <1>2
    <2>2. QED
      BY <1>10, <2>1
  <1>12. g \in [0..last -> S]
    <2>1. \A n \in 1..last : g[n - 1] \in S => g[n] \in S
      BY <1>1, <1>11
    <2>2. g[0] \in S
      BY <1>2, <1>11
    <2>3. QED
      BY <1>2, <1>10, <2>1, <2>2, RecursionStays
  <1>13. EdgesOf(request) = g[last]
    BY <1>8 DEF EdgesOf, EdgesUpOf, EdgesUpUpTo, last
  <1>14. QED
    BY <1>11, <1>12, <1>13 DEF EdgesUpBy, step, start, last


LEMMA ElementOf ==
    ASSUME NEW S, NEW s \in Seq(S), NEW j \in 1..Len(s)
    PROVE  s[j] \in S
  OBVIOUS

LEMMA OnceKeepsAll ==
    ASSUME NEW X, NEW seq \in Seq(X)
    PROVE  /\ Once(seq) \in Seq(X)
           /\ \A k \in 1..Len(seq) : \E j \in 1..Len(Once(seq)) : Once(seq)[j] = seq[k]
  <1>1. Len(seq) \in Nat
    OBVIOUS
  <1> DEFINE S == Seq(X)
  <1>2. <<>> \in S
    OBVIOUS
  <1>3. \A n \in 1..Len(seq) : \A x \in S : Listed(x, seq[n]) \in S
    BY DEF Listed
  <1>4. PICK f : ListingBy(seq, S, f)
    <2> HIDE DEF S
    <2>1. QED
      BY <1>1, <1>2, <1>3, ListingIsDefined
  <1>5. /\ Once(seq) = f[Len(seq)] /\ f[0] = <<>>
        /\ \A n \in 1..Len(seq) : f[n] = Listed(f[n - 1], seq[n])
        /\ \A n \in 0..Len(seq) : f[n] \in Seq(X)
    BY <1>4 DEF ListingBy
  <1> DEFINE Lists(out, x) == \E j \in 1..Len(out) : out[j] = x
             T == {n \in 0..Len(seq) : \A k \in 1..n : Lists(f[n], seq[k])}
  <1>6. 0 \in T
    BY <1>1
  <1>7. ASSUME NEW n \in 1..Len(seq), n - 1 \in T PROVE n \in T
    <2>1. f[n - 1] \in Seq(X) /\ seq[n] \in X /\ f[n] = Listed(f[n - 1], seq[n])
      BY <1>5
    <2>2. \A k \in 1..(n - 1) : Lists(f[n - 1], seq[k])
      BY <1>7
    <2>3. ASSUME NEW out \in Seq(X), NEW x \in X
          PROVE  /\ Lists(Listed(out, x), x)
                 /\ \A y : Lists(out, y) => Lists(Listed(out, x), y)
      <3>1. CASE x \in Range(out)
        BY <3>1 DEF Listed, Range
      <3>2. CASE x \notin Range(out)
        <4>1. /\ Listed(out, x) = Append(out, x) /\ Len(Append(out, x)) = Len(out) + 1
              /\ Len(out) \in Nat
              /\ Append(out, x)[Len(out) + 1] = x
              /\ \A j \in 1..Len(out) : Append(out, x)[j] = out[j]
          BY <3>2 DEF Listed
        <4>2. QED
          BY <4>1
      <3>3. QED
        BY <3>1, <3>2
    <2> HIDE DEF Lists
    <2>4. /\ Lists(f[n], seq[n])
          /\ \A y : Lists(f[n - 1], y) => Lists(f[n], y)
      BY <2>1, <2>3
    <2>5. \A k \in 1..n : Lists(f[n], seq[k])
      <3> SUFFICES ASSUME NEW k \in 1..n PROVE Lists(f[n], seq[k])
        OBVIOUS
      <3>1. k = n \/ k \in 1..(n - 1)
        OBVIOUS
      <3>2. QED
        BY <2>2, <2>4, <3>1
    <2>6. n \in 0..Len(seq)
      OBVIOUS
    <2>7. QED
      BY <2>5, <2>6
  <1>8. Len(seq) \in T
    <2> HIDE DEF T
    <2>1. 0..Len(seq) \subseteq T
      BY <1>1, <1>6, <1>7, EveryPrefix
    <2>2. QED
      BY <1>1, <2>1
  <1>9. \A k \in 1..Len(seq) : Lists(Once(seq), seq[k])
    BY <1>5, <1>8
  <1>10. QED
    BY <1>1, <1>5, <1>9

LEMMA LeavingIsChosen ==
    ASSUME NEW X, NEW pairs \in Seq(X), NEW node
    PROVE  Leaving(pairs, node) \in Seq(X)
  <1>1. Len(pairs) \in Nat
    OBVIOUS
  <1> DEFINE S == Seq(X)
  <1>2. <<>> \in S
    OBVIOUS
  <1>3. \A n \in 1..Len(pairs) : \A x \in S : With(x, pairs[n], node) \in S
    BY DEF With
  <1>4. PICK f : LeavingUpBy(pairs, node, S, f)
    <2> HIDE DEF S
    <2>1. QED
      BY <1>1, <1>2, <1>3, LeavingUpIsDefined
  <1>5. QED
    BY <1>1, <1>4 DEF LeavingUpBy

(* Requests, and what their edges run between.                             *)
NodeSet(request) == {NodesOf(request)[k] : k \in 1..Len(NodesOf(request))}

LEMMA EdgesRunBetweenNodes ==
    ASSUME NEW G, NEW request \in Requests(G)
    PROVE  /\ NodesOf(request) \in Seq(NodeSet(request))
           /\ EdgesOf(request) \in Seq(Pairs(NodeSet(request)))
  <1> DEFINE V == NodeSet(request)
             edge == [k \in 1..Len(request) |-> <<request[k].source, request[k].target>>]
  <1>1. Len(request) \in Nat /\ request \in Seq([source : G, target : G, weight : Int])
    BY DEF Requests
  <1>2. EndsOf(request) \in Seq(G)
    <2>1. \A k \in 1..2 * Len(request) :
            (IF k % 2 = 1 THEN request[(k + 1) \div 2].source ELSE request[k \div 2].target) \in G
      <3> SUFFICES ASSUME NEW k \in 1..2 * Len(request)
                   PROVE  (IF k % 2 = 1 THEN request[(k + 1) \div 2].source
                           ELSE request[k \div 2].target) \in G
        OBVIOUS
      <3>1. k % 2 = 1 => (k + 1) \div 2 \in 1..Len(request)
        BY <1>1
      <3>2. k % 2 # 1 => k \div 2 \in 1..Len(request)
        BY <1>1
      <3>3. ASSUME NEW j \in 1..Len(request)
            PROVE  request[j].source \in G /\ request[j].target \in G
        <4>1. request[j] \in [source : G, target : G, weight : Int]
          <5> DEFINE R == [source : G, target : G, weight : Int]
          <5>1. request \in Seq(R)
            BY <1>1
          <5> HIDE DEF R
          <5>2. request[j] \in R
            BY <5>1, ElementOf
          <5>3. QED
            BY <5>2 DEF R
        <4>2. QED
          BY <4>1
      <3>4. CASE k % 2 = 1
        BY <3>1, <3>3, <3>4
      <3>5. CASE k % 2 # 1
        BY <3>2, <3>3, <3>5
      <3>6. QED
        BY <3>4, <3>5
    <2>2. 2 * Len(request) \in Nat
      BY <1>1
    <2>3. QED
      BY <2>1, <2>2 DEF EndsOf
  <1>3. \A k \in 1..Len(request) : \E i, j \in 1..Len(EndsOf(request)) :
           request[k].source = EndsOf(request)[i] /\ request[k].target = EndsOf(request)[j]
    <2> SUFFICES ASSUME NEW k \in 1..Len(request)
                 PROVE  \E i, j \in 1..Len(EndsOf(request)) :
                           /\ request[k].source = EndsOf(request)[i]
                           /\ request[k].target = EndsOf(request)[j]
      OBVIOUS
    <2>1. /\ 2 * k \in 1..2 * Len(request) /\ 2 * k - 1 \in 1..2 * Len(request)
          /\ (2 * k) % 2 = 0 /\ (2 * k - 1) % 2 = 1
          /\ (2 * k) \div 2 = k /\ ((2 * k - 1) + 1) \div 2 = k
      BY <1>1
    <2>2. Len(EndsOf(request)) = 2 * Len(request)
      BY <1>1 DEF EndsOf
    <2>3. EndsOf(request)[2 * k] = request[k].target
      BY <2>1 DEF EndsOf
    <2>4. EndsOf(request)[2 * k - 1] = request[k].source
      BY <2>1 DEF EndsOf
    <2>5. QED
      BY <2>1, <2>2, <2>3, <2>4
  <1>4. /\ NodesOf(request) \in Seq(G)
        /\ \A k \in 1..Len(EndsOf(request)) :
             \E j \in 1..Len(NodesOf(request)) : NodesOf(request)[j] = EndsOf(request)[k]
    BY <1>2, OnceKeepsAll DEF NodesOf
  <1>5. NodesOf(request) \in Seq(V)
    BY <1>4 DEF NodeSet
  <1>6. \A k \in 1..Len(EndsOf(request)) : EndsOf(request)[k] \in V
    BY <1>4 DEF NodeSet
  <1>7. \A k \in 1..Len(request) : edge[k] \in Pairs(V)
    <2> HIDE DEF V
    <2> SUFFICES ASSUME NEW k \in 1..Len(request) PROVE edge[k] \in Pairs(V)
      OBVIOUS
    <2>1. request[k].source \in V /\ request[k].target \in V
      BY <1>3, <1>6
    <2>2. QED
      BY <2>1 DEF Pairs
  <1>8. edge \in Seq(Pairs(V))
    <2> HIDE DEF V
    <2>1. edge = [k \in 1..Len(request) |-> edge[k]]
      OBVIOUS
    <2> HIDE DEF edge
    <2>2. QED
      BY <1>1, <1>7, <2>1
  <1>9. PairsOf(request) \in Seq(Pairs(V))
    <2> HIDE DEF V
    <2>1. Once(edge) \in Seq(Pairs(V))
      <3> HIDE DEF edge
      <3>1. QED
        BY <1>8, OnceKeepsAll
    <2>2. QED
      BY <2>1 DEF PairsOf
  <1> HIDE DEF edge, V
  <1> DEFINE S == Seq(Pairs(V))
  <1>10. \A n \in 1..Len(NodesOf(request)) : \A x \in S :
            x \o Leaving(PairsOf(request), NodesOf(request)[n]) \in S
    BY <1>9, LeavingIsChosen
  <1>11. Len(NodesOf(request)) \in Nat /\ <<>> \in S
    BY <1>5
  <1>12. PICK f : EdgesUpBy(request, S, f)
    <2> HIDE DEF S
    <2>1. QED
      BY <1>10, <1>11, EdgesUpIsDefined
  <1>13. EdgesOf(request) \in S
    <2> HIDE DEF S
    <2>1. QED
      BY <1>11, <1>12 DEF EdgesUpBy
  <1>14. QED
    BY <1>5, <1>13 DEF V

-----------------------------------------------------------------------------
(* The equations.                                                          *)

(* The paths of a forest.                                                  *)
LEMMA PathsAreFound ==
    ASSUME NEW edges, NEW V, NEW parent, IsForest(edges, V, parent)
    PROVE  /\ Paths(edges, parent, PathsToRoot(edges, parent))
           /\ PathsToRoot(edges, parent) \in [DOMAIN parent -> Coefficients(edges)]
  <1>1. PICK path : Paths(edges, parent, path)
    BY DEF IsForest, HasPaths
  <1> DEFINE chosen == CHOOSE p : Paths(edges, parent, p)
  <1>2. Paths(edges, parent, chosen)
    BY <1>1
  <1>3. PathsToRoot(edges, parent) = chosen
    BY DEF PathsToRoot, Paths
  <1>4. chosen \in [DOMAIN parent -> Coefficients(edges)]
    BY <1>2 DEF IsForest, HasPaths
  <1>5. QED
    BY <1>2, <1>3, <1>4

(* The row of any edge: from the root, along it, and back.                 *)
IsAWalk(V, edges, path, i, row) ==
    /\ edges[i][1] \in V /\ edges[i][2] \in V
    /\ row \in Seq(Int) /\ Len(row) = Len(edges)
    /\ \A j \in 1..Len(edges) :
          /\ path[edges[i][1]][j] \in Int /\ path[edges[i][2]][j] \in Int
          /\ row[j] = path[edges[i][1]][j] - path[edges[i][2]][j] - (IF j = i THEN 1 ELSE 0)

LEMMA RowsAreWalks ==
    ASSUME NEW V, NEW edges \in Seq(Pairs(V)), NEW path \in [V -> Coefficients(edges)],
           NEW i \in 1..Len(edges)
    PROVE  IsAWalk(V, edges, path, i, Row(edges, path, i))
  <1>1. edges[i] \in Pairs(V)
    BY ElementOf
  <1>2. edges[i][1] \in V /\ edges[i][2] \in V
    BY <1>1 DEF Pairs
  <1>3. path[edges[i][1]] \in [1..Len(edges) -> Int] /\ path[edges[i][2]] \in [1..Len(edges) -> Int]
    BY <1>2 DEF Coefficients
  <1>4. \A j \in 1..Len(edges) :
          path[edges[i][1]][j] \in Int /\ path[edges[i][2]][j] \in Int
    BY <1>3
  <1> DEFINE term(j) == path[edges[i][1]][j] - path[edges[i][2]][j] - (IF j = i THEN 1 ELSE 0)
  <1>5. \A j \in 1..Len(edges) : term(j) \in Int
    BY <1>4
  <1> HIDE DEF term
  <1>6. Len(edges) \in Nat
    OBVIOUS
  <1>7. Row(edges, path, i) = [j \in 1..Len(edges) |-> term(j)]
    BY DEF Row, term
  <1>8. /\ Row(edges, path, i) \in Seq(Int) /\ Len(Row(edges, path, i)) = Len(edges)
        /\ \A j \in 1..Len(edges) : Row(edges, path, i)[j] = term(j)
    BY <1>5, <1>6, <1>7
  <1>9. QED
    BY <1>2, <1>4, <1>8 DEF term, IsAWalk

(* An edge of the forest has a row of zeros.                               *)
HasNoRow(edges, path, i) ==
    i \in 1..Len(edges) /\ \A j \in 1..Len(edges) : Row(edges, path, i)[j] = 0

LEMMA TreeEdgesHaveNoRow ==
    ASSUME NEW V, NEW edges \in Seq(Pairs(V)), NEW parent, IsForest(edges, V, parent),
           DOMAIN parent = V, NEW path \in [V -> Coefficients(edges)],
           Paths(edges, parent, path),
           NEW i \in TreeEdges(parent)
    PROVE  HasNoRow(edges, path, i)
  <1>1. PICK n \in V : parent[n].edge = i /\ i # 0
    BY DEF TreeEdges
  <1>2. parent[n] # Root
    BY <1>1 DEF Root
  <1>3. Hangs(edges, parent, n, parent[n])
    BY <1>2 DEF IsForest, MayHang
  <1> DEFINE m == parent[n].node
             d == parent[n].direction
  <1>4. /\ i \in 1..Len(edges) /\ m \in V
        /\ \/ edges[i] = <<m, n>> /\ d = 1
           \/ edges[i] = <<n, m>> /\ d = -1
    BY <1>1, <1>3 DEF Hangs
  <1>5. path[n] = [path[m] EXCEPT ![i] = @ - d]
    BY <1>1, <1>2 DEF Paths
  <1>6. path[m] \in [1..Len(edges) -> Int] /\ path[n] \in [1..Len(edges) -> Int]
    BY <1>4 DEF Coefficients
  <1> HIDE DEF m, d
  <1>7. \A j \in 1..Len(edges) :
           /\ path[m][j] \in Int
           /\ path[n][j] = IF j = i THEN path[m][j] - d ELSE path[m][j]
    BY <1>4, <1>5, <1>6
  <1>8. ASSUME NEW j \in 1..Len(edges) PROVE Row(edges, path, i)[j] = 0
    <2>1. Row(edges, path, i)[j]
            = path[edges[i][1]][j] - path[edges[i][2]][j] - (IF j = i THEN 1 ELSE 0)
      BY <1>4, RowsAreWalks DEF IsAWalk
    <2>2. CASE edges[i] = <<m, n>> /\ d = 1
      <3>1. edges[i][1] = m /\ edges[i][2] = n
        BY <2>2
      <3>2. QED
        BY <1>7, <2>1, <2>2, <3>1
    <2>3. CASE edges[i] = <<n, m>> /\ d = -1
      <3>1. edges[i][1] = n /\ edges[i][2] = m
        BY <2>3
      <3>2. QED
        BY <1>7, <2>1, <2>3, <3>1
    <2>4. QED
      BY <1>4, <2>2, <2>3
  <1>9. QED
    BY <1>4, <1>8 DEF HasNoRow

(* Around a cycle, differences of a value at the ends of the edges cancel. *)
AreDifferences(edges, val, w) ==
    /\ w \in Seq(Int) /\ Len(w) = Len(edges)
    /\ \A i \in 1..Len(edges) :
          /\ val[edges[i][1]] \in Int /\ val[edges[i][2]] \in Int
          /\ w[i] = val[edges[i][1]] - val[edges[i][2]]

LEMMA DifferencesCancel ==
    ASSUME NEW X, NEW edges \in Seq(X), NEW cycle \in SimpleCycles(edges),
           NEW val, NEW w, AreDifferences(edges, val, w)
    PROVE  SumAt(cycle, w) = 0
  <1>1. cycle \in SUBSET (1..Len(edges)) /\ Rotates(edges, cycle)
    BY DEF SimpleCycles
  <1>2. /\ w \in Seq(Int) /\ Len(w) = Len(edges)
        /\ \A i \in 1..Len(edges) :
             /\ val[edges[i][1]] \in Int /\ val[edges[i][2]] \in Int
             /\ w[i] = val[edges[i][1]] - val[edges[i][2]]
    BY DEF AreDifferences
  <1> DEFINE f == [i \in 1..Len(edges) |-> val[edges[i][1]]]
             g == [i \in 1..Len(edges) |-> val[edges[i][2]]]
  <1>3. /\ f \in Seq(Int) /\ Len(f) = Len(edges)
        /\ \A i \in 1..Len(edges) : f[i] = val[edges[i][1]]
    BY <1>2
  <1>4. /\ g \in Seq(Int) /\ Len(g) = Len(edges)
        /\ \A i \in 1..Len(edges) : g[i] = val[edges[i][2]]
    BY <1>2
  <1> HIDE DEF f, g
  <1>5. SumAt(cycle, f) = SumAt(cycle, g)
    <2>1. AreAtTheEnds(edges, cycle, val, f, g)
      BY <1>1, <1>3, <1>4 DEF AreAtTheEnds
    <2>2. QED
      BY <1>1, <1>3, <1>4, <2>1, RotationsCancel
  <1>6. SumAt(cycle, w) = SumAt(cycle, f) - SumAt(cycle, g)
    <2>1. \A i \in cycle \cap (1..Len(f)) : w[i] = f[i] - g[i]
      BY <1>2, <1>3, <1>4
    <2>2. QED
      BY <1>2, <1>3, <1>4, <2>1, SumAtDifferences
  <1>7. SumAt(cycle, f) \in Int
    BY <1>3, AtIsASequence
  <1>8. QED
    BY <1>5, <1>6, <1>7

(* A one at one place.                                                     *)
IsOneAt(N, j, one) ==
    /\ one \in Seq(Int) /\ Len(one) = N
    /\ \A i \in 1..N : one[i] = IF i = j THEN 1 ELSE 0

LEMMA OneAt ==
    ASSUME NEW N \in Nat, NEW j \in 1..N, NEW places, NEW one, IsOneAt(N, j, one)
    PROVE  SumAt(places, one) = IF j \in places THEN 1 ELSE 0
  <1>1. one \in Seq(Int) /\ Len(one) = N /\ \A i \in 1..N : one[i] = IF i = j THEN 1 ELSE 0
    BY DEF IsOneAt
  <1>2. CASE j \in places
    <2>1. At(places, one) = At({j}, one)
      BY <1>1, <1>2 DEF At
    <2>2. SumAt(places, one) = SumAt({j}, one)
      BY <1>1, <2>1, AtIsASequence
    <2>3. SumAt({j}, one) = one[j]
      BY <1>1, SumAtOnePlace
    <2>4. QED
      BY <1>1, <1>2, <2>2, <2>3
  <1>3. CASE j \notin places
    <2>1. At(places, one) = At({}, one)
      BY <1>1, <1>3 DEF At
    <2>2. SumAt(places, one) = SumAt({}, one)
      BY <1>1, <2>1, AtIsASequence
    <2>3. QED
      BY <1>1, <1>3, <2>2, SumAtNowhere
  <1>4. QED
    BY <1>2, <1>3

IsMadeOfRows(edges, rows, path) ==
    /\ DOMAIN rows \subseteq 1..Len(edges)
    /\ \A i \in 1..Len(edges) :
         IF i \in DOMAIN rows THEN rows[i] = Row(edges, path, i)
         ELSE \A j \in 1..Len(edges) : Row(edges, path, i)[j] = 0

LEMMA BasisIsMadeOfRows ==
    ASSUME NEW V, NEW nodes \in Seq(V), NEW edges \in Seq(Pairs(V)),
           V = {nodes[k] : k \in 1..Len(nodes)}
    PROVE  \E path \in [V -> Coefficients(edges)] :
              IsMadeOfRows(edges, Basis(nodes, edges), path)
  <1> DEFINE parent == Forest(nodes, edges)
             path == PathsToRoot(edges, parent)
  <1>1. IsForest(edges, V, parent) /\ \A k \in 1..Len(nodes) : nodes[k] \in DOMAIN parent
    BY ForestHangsEveryNode
  <1>2. DOMAIN parent = V
    <2>1. parent \in Parents(V)
      BY <1>1 DEF IsForest
    <2>2. DOMAIN parent \subseteq V
      BY <2>1, NodesAreInside
    <2>3. QED
      BY <1>1, <2>2
  <1>3. Paths(edges, parent, path) /\ path \in [V -> Coefficients(edges)]
    BY <1>1, <1>2, PathsAreFound
  <1>4. Basis(nodes, edges) = [i \in DOMAIN edges \ TreeEdges(parent) |-> Row(edges, path, i)]
    BY DEF Basis
  <1>5. DOMAIN edges = 1..Len(edges)
    OBVIOUS
  <1> HIDE DEF parent, path
  <1>6. ASSUME NEW i \in TreeEdges(parent) PROVE HasNoRow(edges, path, i)
    BY <1>1, <1>2, <1>3, TreeEdgesHaveNoRow
  <1>7. PICK rows : rows = Basis(nodes, edges)
    OBVIOUS
  <1>8. IsMadeOfRows(edges, rows, path)
    BY <1>4, <1>5, <1>6, <1>7 DEF IsMadeOfRows, HasNoRow
  <1>9. QED
    BY <1>3, <1>7, <1>8

(* The rows of the basis cover every cycle.                                *)
LEMMA BasisCoversCycles ==
    ASSUME NEW V, NEW nodes \in Seq(V), NEW edges \in Seq(Pairs(V)),
           V = {nodes[k] : k \in 1..Len(nodes)}
    PROVE  CoverEveryCycle(edges, Basis(nodes, edges))
  <1>1. PICK rows : rows = Basis(nodes, edges)
    OBVIOUS
  <1>2. PICK path \in [V -> Coefficients(edges)] : IsMadeOfRows(edges, rows, path)
    BY <1>1, BasisIsMadeOfRows
  <1>3. Len(edges) \in Nat /\ DOMAIN edges = 1..Len(edges)
    OBVIOUS
  <1>4. ASSUME NEW cycle \in SimpleCycles(edges), NEW j \in 1..Len(edges)
        PROVE  (IF j \in cycle THEN 1 ELSE 0)
                  = - SumOf([i \in 1..Len(edges) |-> IF i \in cycle \cap DOMAIN rows
                                                     THEN rows[i][j] ELSE 0])
    <2> DEFINE one == [i \in 1..Len(edges) |-> IF i = j THEN 1 ELSE 0]
               val == [n \in V |-> path[n][j]]
               w == [i \in 1..Len(edges) |-> val[edges[i][1]] - val[edges[i][2]]]
               r == [i \in 1..Len(edges) |-> Row(edges, path, i)[j]]
    <2>1. \A i \in 1..Len(edges) :
             /\ val[edges[i][1]] \in Int /\ val[edges[i][2]] \in Int
             /\ Row(edges, path, i)[j] = val[edges[i][1]] - val[edges[i][2]] - one[i]
      <3> SUFFICES ASSUME NEW i \in 1..Len(edges)
                   PROVE  /\ val[edges[i][1]] \in Int /\ val[edges[i][2]] \in Int
                          /\ Row(edges, path, i)[j] = val[edges[i][1]] - val[edges[i][2]] - one[i]
        OBVIOUS
      <3>1. /\ edges[i][1] \in V /\ edges[i][2] \in V
            /\ path[edges[i][1]][j] \in Int /\ path[edges[i][2]][j] \in Int
            /\ Row(edges, path, i)[j]
                 = path[edges[i][1]][j] - path[edges[i][2]][j] - (IF j = i THEN 1 ELSE 0)
        BY RowsAreWalks DEF IsAWalk
      <3>2. val[edges[i][1]] = path[edges[i][1]][j] /\ val[edges[i][2]] = path[edges[i][2]][j]
        BY <3>1
      <3>3. one[i] = IF j = i THEN 1 ELSE 0
        OBVIOUS
      <3> HIDE DEF val, one
      <3>4. QED
        BY <3>1, <3>2, <3>3
    <2>2. one \in Seq(Int) /\ Len(one) = Len(edges)
          /\ \A i \in 1..Len(edges) : one[i] = IF i = j THEN 1 ELSE 0
      BY <1>3
    <2> HIDE DEF one, val
    <2>3. /\ w \in Seq(Int) /\ Len(w) = Len(edges)
          /\ \A i \in 1..Len(edges) : w[i] = val[edges[i][1]] - val[edges[i][2]]
      BY <1>3, <2>1
    <2> HIDE DEF w
    <2>4. /\ r \in Seq(Int) /\ Len(r) = Len(edges)
          /\ \A i \in 1..Len(edges) : r[i] = Row(edges, path, i)[j] /\ r[i] = w[i] - one[i]
      <3>1. \A i \in 1..Len(edges) : Row(edges, path, i)[j] = w[i] - one[i]
        BY <2>1, <2>3
      <3>2. \A i \in 1..Len(edges) : w[i] - one[i] \in Int
        BY <2>2, <2>3
      <3>3. QED
        BY <1>3, <3>1, <3>2
    <2> HIDE DEF r
    <2>5. SumAt(cycle, w) = 0
      <3>1. AreDifferences(edges, val, w)
        BY <2>1, <2>3 DEF AreDifferences
      <3>2. QED
        BY <1>3, <3>1, DifferencesCancel
    <2>6. SumAt(cycle, one) = IF j \in cycle THEN 1 ELSE 0
      <3>1. IsOneAt(Len(edges), j, one)
        BY <2>2 DEF IsOneAt
      <3>2. QED
        BY <1>3, <3>1, OneAt
    <2>7. SumAt(cycle, r) = SumAt(cycle, w) - SumAt(cycle, one)
      <3>1. \A i \in cycle \cap (1..Len(w)) : r[i] = w[i] - one[i]
        BY <2>3, <2>4
      <3>2. QED
        BY <2>2, <2>3, <2>4, <3>1, SumAtDifferences
    <2>8. SumAt(cycle, r) = SumOf([i \in 1..Len(edges) |-> IF i \in cycle \cap DOMAIN rows
                                                           THEN rows[i][j] ELSE 0])
      <3>1. ASSUME NEW i \in 1..Len(edges)
            PROVE  (IF i \in cycle THEN r[i] ELSE 0)
                     = IF i \in cycle \cap DOMAIN rows THEN rows[i][j] ELSE 0
        <4>1. r[i] = Row(edges, path, i)[j]
          BY <2>4
        <4>2. IF i \in DOMAIN rows THEN rows[i] = Row(edges, path, i)
              ELSE Row(edges, path, i)[j] = 0
          BY <1>2 DEF IsMadeOfRows
        <4>3. QED
          BY <4>1, <4>2
      <3>2. At(cycle, r) = [i \in 1..Len(edges) |-> IF i \in cycle \cap DOMAIN rows
                                                    THEN rows[i][j] ELSE 0]
        BY <2>4, <3>1 DEF At
      <3>3. QED
        BY <2>4, <3>2, AtIsASequence
    <2>9. QED
      BY <2>5, <2>6, <2>7, <2>8
  <1>5. QED
    BY <1>1, <1>3, <1>4 DEF CoverEveryCycle

(* Weights that every row of the basis sums to zero.                       *)
Solve(edges, rows, weights) ==
    /\ weights \in Seq(Int) /\ Len(weights) = Len(edges)
    /\ \A i \in DOMAIN rows : SumOf([j \in 1..Len(edges) |-> rows[i][j] * weights[j]]) = 0

AreProducts(N, a, w, aw) == aw = [j \in 1..N |-> a[j] * w[j]]

GoesAlong(N, a, b, i, r) ==
    \A j \in 1..N : r[j] = a[j] - b[j] - (IF j = i THEN 1 ELSE 0)

IsLess(total, x, y) == total = x - y

LEMMA ProductsOfDifferences ==
    ASSUME NEW N \in Nat, NEW a \in [1..N -> Int], NEW b \in [1..N -> Int],
           NEW w \in Seq(Int), Len(w) = N, NEW i \in 1..N,
           NEW r, GoesAlong(N, a, b, i, r),
           NEW aw, AreProducts(N, a, w, aw), NEW bw, AreProducts(N, b, w, bw),
           NEW rw, AreProducts(N, r, w, rw)
    PROVE  IsLess(SumOf(rw), SumOf(aw) - SumOf(bw), w[i])
  <1> DEFINE dw == [j \in 1..N |-> aw[j] - bw[j]]
             ow == [j \in 1..N |-> IF j \in {i} THEN w[j] ELSE 0]
  <1>1. \A j \in 1..N : a[j] \in Int /\ b[j] \in Int /\ w[j] \in Int
    OBVIOUS
  <1>2. ASSUME NEW x \in Int, NEW y \in Int PROVE x * y \in Int
    OBVIOUS
  <1>3. /\ aw \in Seq(Int) /\ Len(aw) = N /\ \A j \in 1..N : aw[j] = a[j] * w[j]
    <2>1. \A j \in 1..N : a[j] * w[j] \in Int
      BY <1>1, <1>2
    <2>2. QED
      BY <2>1 DEF AreProducts
  <1>4. /\ bw \in Seq(Int) /\ Len(bw) = N /\ \A j \in 1..N : bw[j] = b[j] * w[j]
    <2>1. \A j \in 1..N : b[j] * w[j] \in Int
      BY <1>1, <1>2
    <2>2. QED
      BY <2>1 DEF AreProducts
  <1>5. /\ dw \in Seq(Int) /\ Len(dw) = N /\ \A j \in 1..N : dw[j] = aw[j] - bw[j]
    BY <1>3, <1>4
  <1> HIDE DEF dw
  <1>6. /\ ow = At({i}, w) /\ ow \in Seq(Int) /\ Len(ow) = N
        /\ \A j \in 1..N : ow[j] = IF j = i THEN w[j] ELSE 0
    BY DEF At
  <1> HIDE DEF ow
  <1>7. ASSUME NEW j \in 1..N PROVE r[j] * w[j] = dw[j] - ow[j]
    <2>1. ASSUME NEW x \in Int, NEW y \in Int, NEW z \in Int, NEW d \in {0, 1}
          PROVE  (x - y - d) * z = (x * z - y * z) - (IF d = 1 THEN z ELSE 0)
      OBVIOUS
    <2>2. r[j] = a[j] - b[j] - (IF j = i THEN 1 ELSE 0)
      BY DEF GoesAlong
    <2>3. CASE j = i
      <3>1. r[j] * w[j] = (a[j] - b[j] - 1) * w[j]
        BY <2>2, <2>3
      <3>2. (a[j] - b[j] - 1) * w[j] = (a[j] * w[j] - b[j] * w[j]) - w[j]
        BY <1>1, <2>1
      <3>3. QED
        BY <1>3, <1>4, <1>5, <1>6, <2>3, <3>1, <3>2
    <2>4. CASE j # i
      <3>1. r[j] * w[j] = (a[j] - b[j] - 0) * w[j]
        BY <2>2, <2>4
      <3>2. (a[j] - b[j] - 0) * w[j] = (a[j] * w[j] - b[j] * w[j]) - 0
        BY <1>1, <2>1
      <3>3. QED
        BY <1>3, <1>4, <1>5, <1>6, <2>4, <3>1, <3>2
    <2>5. QED
      BY <2>3, <2>4
  <1>8. /\ rw \in Seq(Int) /\ Len(rw) = N /\ \A j \in 1..N : rw[j] = dw[j] - ow[j]
    <2>1. \A j \in 1..N : r[j] * w[j] \in Int
      <3> SUFFICES ASSUME NEW j \in 1..N PROVE r[j] * w[j] \in Int
        OBVIOUS
      <3>1. dw[j] \in Int /\ ow[j] \in Int
        BY <1>5, <1>6
      <3>2. QED
        BY <1>7, <3>1
    <2>2. QED
      BY <1>7, <2>1 DEF AreProducts
  <1>9. SumOf(rw) = SumOf(dw) - SumOf(ow)
    <2>1. Len(ow) = Len(dw) /\ Len(rw) = Len(dw) /\ \A j \in 1..Len(dw) : rw[j] = dw[j] - ow[j]
      BY <1>5, <1>6, <1>8
    <2>2. QED
      BY <1>5, <1>6, <1>8, <2>1, SumOfDifferences
  <1>10. SumOf(dw) = SumOf(aw) - SumOf(bw)
    <2>1. Len(bw) = Len(aw) /\ Len(dw) = Len(aw) /\ \A j \in 1..Len(aw) : dw[j] = aw[j] - bw[j]
      BY <1>3, <1>4, <1>5
    <2>2. QED
      BY <1>3, <1>4, <1>5, <2>1, SumOfDifferences
  <1>11. SumOf(ow) = w[i]
    BY <1>6, AtIsASequence, SumAtOnePlace
  <1>12. SumOf(aw) \in Int /\ SumOf(bw) \in Int /\ w[i] \in Int
    BY <1>1, <1>3, <1>4, SumsAreNumbers
  <1>13. QED
    BY <1>9, <1>10, <1>11, <1>12 DEF IsLess

(* What the weights add up to on the way from a node to its root.          *)
Potential(edges, path, weights, n) ==
    SumOf([j \in 1..Len(edges) |-> path[n][j] * weights[j]])

LEMMA PotentialsAreNumbers ==
    ASSUME NEW V, NEW edges \in Seq(Pairs(V)), NEW path \in [V -> Coefficients(edges)],
           NEW weights \in Seq(Int), Len(weights) = Len(edges), NEW n \in V
    PROVE  Potential(edges, path, weights, n) \in Int
  <1>1. path[n] \in [1..Len(edges) -> Int]
    BY DEF Coefficients
  <1>2. ASSUME NEW j \in 1..Len(edges) PROVE path[n][j] \in Int /\ weights[j] \in Int
    <2>1. j \in 1..Len(weights)
      OBVIOUS
    <2>2. weights[j] \in Int
      BY <2>1, ElementOf
    <2>3. QED
      BY <1>1, <2>2
  <1>3. ASSUME NEW x \in Int, NEW y \in Int PROVE x * y \in Int
    OBVIOUS
  <1>4. \A j \in 1..Len(edges) : path[n][j] * weights[j] \in Int
    BY <1>2, <1>3
  <1>5. Len(edges) \in Nat
    OBVIOUS
  <1>6. [j \in 1..Len(edges) |-> path[n][j] * weights[j]] \in Seq(Int)
    BY <1>4, <1>5
  <1>7. QED
    BY <1>6, SumsAreNumbers DEF Potential

(* The weight of an edge is the difference of the potentials at its ends.  *)
LEMMA WeightsAreDifferences ==
    ASSUME NEW V, NEW edges \in Seq(Pairs(V)), NEW path \in [V -> Coefficients(edges)],
           NEW rows, IsMadeOfRows(edges, rows, path),
           NEW weights, Solve(edges, rows, weights), NEW i \in 1..Len(edges)
    PROVE  IsLess(weights[i], Potential(edges, path, weights, edges[i][1]),
                  Potential(edges, path, weights, edges[i][2]))
  <1>1. PICK r : r = Row(edges, path, i)
    OBVIOUS
  <1>2. IsAWalk(V, edges, path, i, r)
    BY <1>1, RowsAreWalks
  <1>3. PICK a, b : a = path[edges[i][1]] /\ b = path[edges[i][2]]
    OBVIOUS
  <1>4. Len(edges) \in Nat
    OBVIOUS
  <1>5. a \in [1..Len(edges) -> Int] /\ b \in [1..Len(edges) -> Int]
    BY <1>2, <1>3 DEF IsAWalk, Coefficients
  <1>6. GoesAlong(Len(edges), a, b, i, r)
    BY <1>2, <1>3 DEF IsAWalk, GoesAlong
  <1>7. weights \in Seq(Int) /\ Len(weights) = Len(edges)
    BY DEF Solve
  <1>8. PICK aw : AreProducts(Len(edges), a, weights, aw)
    BY DEF AreProducts
  <1>9. PICK bw : AreProducts(Len(edges), b, weights, bw)
    BY DEF AreProducts
  <1>10. PICK rw : AreProducts(Len(edges), r, weights, rw)
    BY DEF AreProducts
  <1>11. SumOf(rw) = SumOf(aw) - SumOf(bw) - weights[i]
    <2>1. PICK N \in Nat : N = Len(edges)
      BY <1>4
    <2>2. /\ a \in [1..N -> Int] /\ b \in [1..N -> Int] /\ i \in 1..N
          /\ GoesAlong(N, a, b, i, r)
          /\ weights \in Seq(Int) /\ Len(weights) = N
          /\ AreProducts(N, a, weights, aw) /\ AreProducts(N, b, weights, bw)
          /\ AreProducts(N, r, weights, rw)
      BY <1>5, <1>6, <1>7, <1>8, <1>9, <1>10, <2>1
    <2>3. IsLess(SumOf(rw), SumOf(aw) - SumOf(bw), weights[i])
      BY <2>2, ProductsOfDifferences
    <2>4. QED
      BY <2>3 DEF IsLess
  <1>12. SumOf(rw) = 0
    <2>1. CASE i \in DOMAIN rows
      <3>1. rows[i] = r
        BY <1>1, <2>1 DEF IsMadeOfRows
      <3>2. rw = [j \in 1..Len(edges) |-> rows[i][j] * weights[j]]
        BY <1>10, <3>1 DEF AreProducts
      <3>3. QED
        BY <2>1, <3>2 DEF Solve
    <2>2. CASE i \notin DOMAIN rows
      <3>1. \A j \in 1..Len(edges) : r[j] = 0
        BY <1>1, <2>2 DEF IsMadeOfRows
      <3>2. \A j \in 1..Len(edges) : r[j] * weights[j] = 0
        <4> SUFFICES ASSUME NEW j \in 1..Len(edges) PROVE r[j] * weights[j] = 0
          OBVIOUS
        <4>1. weights[j] \in Int /\ r[j] = 0
          BY <1>7, <3>1
        <4>2. QED
          BY <4>1
      <3>3. rw \in Seq(Int) /\ \A j \in 1..Len(rw) : rw[j] = 0
        BY <1>4, <1>10, <3>2 DEF AreProducts
      <3>4. QED
        BY <3>3, SumOfZeros
    <2>3. QED
      BY <2>1, <2>2
  <1>13. /\ Potential(edges, path, weights, edges[i][1]) = SumOf(aw)
         /\ Potential(edges, path, weights, edges[i][2]) = SumOf(bw)
    BY <1>3, <1>8, <1>9 DEF AreProducts, Potential
  <1>14. SumOf(aw) \in Int /\ SumOf(bw) \in Int
    <2>1. edges[i][1] \in V /\ edges[i][2] \in V
      BY <1>2 DEF IsAWalk
    <2>2. /\ Potential(edges, path, weights, edges[i][1]) \in Int
          /\ Potential(edges, path, weights, edges[i][2]) \in Int
      BY <1>7, <2>1, PotentialsAreNumbers
    <2>3. QED
      BY <1>13, <2>2
  <1>15. weights[i] \in Int
    BY <1>7
  <1>16. ASSUME NEW x \in Int, NEW y \in Int, NEW z \in Int, x - y - z = 0 PROVE z = x - y
    BY <1>16
  <1>17. weights[i] = SumOf(aw) - SumOf(bw)
    BY <1>11, <1>12, <1>14, <1>15, <1>16
  <1>18. QED
    BY <1>13, <1>17 DEF IsLess

(* Weights that solve the equations of the basis leave no cycle any.       *)
LEMMA SolutionsCloseCycles ==
    ASSUME NEW V, NEW nodes \in Seq(V), NEW edges \in Seq(Pairs(V)),
           V = {nodes[k] : k \in 1..Len(nodes)},
           NEW weights, Solve(edges, Basis(nodes, edges), weights),
           NEW cycle \in SimpleCycles(edges)
    PROVE  SumAt(cycle, weights) = 0
  <1>1. PICK path \in [V -> Coefficients(edges)] :
           IsMadeOfRows(edges, Basis(nodes, edges), path)
    BY BasisIsMadeOfRows
  <1> DEFINE val == [n \in V |-> Potential(edges, path, weights, n)]
  <1>2. weights \in Seq(Int) /\ Len(weights) = Len(edges)
    BY DEF Solve
  <1>3. ASSUME NEW i \in 1..Len(edges)
        PROVE  /\ val[edges[i][1]] \in Int /\ val[edges[i][2]] \in Int
               /\ weights[i] = val[edges[i][1]] - val[edges[i][2]]
    <2>1. edges[i][1] \in V /\ edges[i][2] \in V
      BY RowsAreWalks DEF IsAWalk
    <2>2. /\ val[edges[i][1]] = Potential(edges, path, weights, edges[i][1])
          /\ val[edges[i][2]] = Potential(edges, path, weights, edges[i][2])
      BY <2>1
    <2>3. /\ Potential(edges, path, weights, edges[i][1]) \in Int
          /\ Potential(edges, path, weights, edges[i][2]) \in Int
      BY <1>2, <2>1, PotentialsAreNumbers
    <2>4. IsLess(weights[i], Potential(edges, path, weights, edges[i][1]),
                 Potential(edges, path, weights, edges[i][2]))
      <3>1. PICK rows : rows = Basis(nodes, edges)
        OBVIOUS
      <3>2. IsMadeOfRows(edges, rows, path) /\ Solve(edges, rows, weights)
        BY <1>1, <3>1
      <3>3. QED
        BY <3>2, WeightsAreDifferences
    <2>5. QED
      BY <2>2, <2>3, <2>4 DEF IsLess
  <1> HIDE DEF val
  <1>4. AreDifferences(edges, val, weights)
    BY <1>2, <1>3 DEF AreDifferences
  <1>5. QED
    BY <1>4, DifferencesCancel

-----------------------------------------------------------------------------
(* The text of a clause.                                                   *)

(* Every part of a formula is an atom or a connective, and the terms of an *)
(* atom have a kind and a name.                                            *)
LEMMA AtomsHaveTerms ==
    ASSUME NEW r \in Z!Clause, NEW k \in DOMAIN r.matrix, r.matrix[k].op = "atom"
    PROVE  /\ r.matrix[k] \in Z!AtomsOf(r.matrix)
           /\ r.matrix[k] \in Z!Atomic
           /\ \A i \in DOMAIN r.matrix[k].args : r.matrix[k].args[i] \in Z!Term
  <1>1. r.matrix \in Seq(Z!Atomic \cup Z!Connective)
    BY DEF Z!Clause, Z!Formula
  <1>2. r.matrix[k] \in Z!Atomic
    BY <1>1 DEF Z!Connective
  <1>3. QED
    BY <1>2 DEF Z!AtomsOf, Z!Atomic

(* A known term is a bound variable or a member of the domain.             *)
LEMMA TermsHaveNames ==
    ASSUME NEW r \in Z!Clause, Z!TermsAreKnown(r),
           NEW k \in DOMAIN r.matrix, r.matrix[k].op = "atom",
           NEW i \in DOMAIN r.matrix[k].args, NEW t, t = r.matrix[k].args[i]
    PROVE  \/ t = Z!Variable(t.name) /\ t.name \in Z!Bound(r)
           \/ t = Z!Constant(t.name) /\ t.name \in Z!Range(r.domain)
  <1>1. r.matrix[k] \in Z!AtomsOf(r.matrix) /\ t \in Z!Term
    BY AtomsHaveTerms
  <1>2. t \in Z!Range(r.matrix[k].args)
    BY DEF Z!Range
  <1>3. t.name \in IF t.kind = "variable" THEN Z!Bound(r) ELSE Z!Range(r.domain)
    BY <1>1, <1>2 DEF Z!TermsAreKnown
  <1>4. t = [kind |-> t.kind, name |-> t.name] /\ t.kind \in {"constant", "variable"}
    BY <1>1 DEF Z!Term
  <1>5. CASE t.kind = "variable"
    BY <1>3, <1>4, <1>5 DEF Z!Variable
  <1>6. CASE t.kind = "constant"
    BY <1>3, <1>4, <1>6 DEF Z!Constant
  <1>7. QED
    BY <1>4, <1>5, <1>6

(* A part as it is written.                                                *)
LEMMA WrittenParts ==
    ASSUME NEW part
    PROVE  /\ Z!Written(part).op = part.op
           /\ part.op = "atom" =>
                 /\ Z!Written(part).head = part.predicate
                 /\ Z!Written(part).args = [i \in DOMAIN part.args |-> part.args[i].name]
           /\ part.op # "atom" => Z!Written(part) = part
  <1>1. CASE part.op = "atom"
    <2>1. PICK names : names = [i \in DOMAIN part.args |-> part.args[i].name]
      OBVIOUS
    <2>2. Z!Written(part) = [op |-> "atom", head |-> part.predicate, args |-> names]
      BY <1>1, <2>1 DEF Z!Written
    <2>3. QED
      BY <1>1, <2>1, <2>2
  <1>2. CASE part.op # "atom"
    BY <1>2 DEF Z!Written
  <1>3. QED
    BY <1>1, <1>2

(* What the text keeps of a clause: everything but the kinds of its names. *)
LEMMA TextKeepsNames ==
    ASSUME NEW r \in Z!Clause, NEW text, text = Z!SmtLib2(r)
    PROVE  /\ text.exists = r.exists /\ text.forall = r.forall /\ text.domain = r.domain
           /\ Z!Bound(text) = Z!Bound(r)
           /\ DOMAIN text.matrix = DOMAIN r.matrix
           /\ \A k \in DOMAIN r.matrix :
                 text.matrix[k] = Z!Written(r.matrix[k])
                 /\ text.matrix[k].op = r.matrix[k].op
           /\ Z!Heads(text) = Z!Predicates(r)
           /\ Z!HasHole(text) <=> Z!HasHole(r)
  <1>1. /\ text.exists = r.exists /\ text.forall = r.forall /\ text.domain = r.domain
        /\ text.matrix = [k \in DOMAIN r.matrix |-> Z!Written(r.matrix[k])]
    BY DEF Z!SmtLib2
  <1>2. Z!Bound(text) = Z!Bound(r)
    BY <1>1 DEF Z!Bound
  <1>3. /\ DOMAIN text.matrix = DOMAIN r.matrix
        /\ \A k \in DOMAIN r.matrix : text.matrix[k] = Z!Written(r.matrix[k])
    BY <1>1
  <1>4. ASSUME NEW k \in DOMAIN r.matrix
        PROVE  /\ text.matrix[k].op = r.matrix[k].op
               /\ r.matrix[k].op = "atom" => text.matrix[k].head = r.matrix[k].predicate
               /\ r.matrix[k].op # "atom" => text.matrix[k] = r.matrix[k]
    <2>1. PICK part : part = r.matrix[k]
      OBVIOUS
    <2>2. text.matrix[k] = Z!Written(part)
      BY <1>3, <2>1
    <2>3. /\ Z!Written(part).op = part.op
          /\ part.op = "atom" => Z!Written(part).head = part.predicate
          /\ part.op # "atom" => Z!Written(part) = part
      BY WrittenParts, Zenon
    <2>4. QED
      BY <2>1, <2>2, <2>3
  <1>5. Z!Heads(text) = {text.matrix[k].head : k \in {j \in DOMAIN text.matrix :
                                                        text.matrix[j].op = "atom"}}
    BY DEF Z!Heads, Z!AtomsOf
  <1>6. Z!Predicates(r) = {r.matrix[k].predicate : k \in {j \in DOMAIN r.matrix :
                                                            r.matrix[j].op = "atom"}}
    BY DEF Z!Predicates, Z!AtomsOf
  <1>7. Z!Heads(text) = Z!Predicates(r)
    <2>1. PICK atoms : atoms = {j \in DOMAIN r.matrix : r.matrix[j].op = "atom"}
      OBVIOUS
    <2>2. atoms = {j \in DOMAIN text.matrix : text.matrix[j].op = "atom"}
      BY <1>3, <1>4, <2>1
    <2>3. \A k \in atoms : text.matrix[k].head = r.matrix[k].predicate
      BY <1>4, <2>1
    <2>4. Z!Heads(text) = {text.matrix[k].head : k \in atoms}
      BY <1>5, <2>2
    <2>5. Z!Predicates(r) = {r.matrix[k].predicate : k \in atoms}
      BY <1>6, <2>1
    <2>6. QED
      BY <2>3, <2>4, <2>5
  <1>8. Z!HasHole(text) <=> Z!HasHole(r)
    BY <1>3, <1>4 DEF Z!HasHole
  <1>9. QED
    BY <1>1, <1>2, <1>3, <1>4, <1>7, <1>8

(* A reader takes the text in exactly when the names do not clash and no   *)
(* connective is empty.                                                    *)
LEMMA WhatHasAText ==
    ASSUME NEW r \in Z!Clause, Z!TermsAreKnown(r)
    PROVE  Z!Readable(Z!SmtLib2(r)) <=> ~ Z!HasNoText(r)
  <1>1. PICK text : text = Z!SmtLib2(r)
    OBVIOUS
  <1> DEFINE names == Z!Bound(r) \cup Z!Range(r.domain)
  <1>2. /\ Z!Bound(text) = Z!Bound(r) /\ text.domain = r.domain
        /\ Z!Heads(text) = Z!Predicates(r)
        /\ Z!HasHole(text) <=> Z!HasHole(r)
    BY <1>1, TextKeepsNames
  <1>3. \A n : (Z!Resolve(text, n).kind = "predicate") <=> n \notin names
    BY <1>2 DEF Z!Resolve, Z!Variable, Z!Constant
  <1>4. ASSUME NEW a \in Z!AtomsOf(text.matrix), NEW n \in Z!Range(a.args)
        PROVE  n \in names
    <2>1. PICK k \in DOMAIN r.matrix :
             /\ a = text.matrix[k] /\ text.matrix[k] = Z!Written(r.matrix[k])
             /\ r.matrix[k].op = "atom"
      BY <1>1, TextKeepsNames DEF Z!AtomsOf
    <2>2. a.args = [i \in DOMAIN r.matrix[k].args |-> r.matrix[k].args[i].name]
      BY <2>1 DEF Z!Written
    <2>3. PICK i \in DOMAIN r.matrix[k].args : n = r.matrix[k].args[i].name
      BY <2>2 DEF Z!Range
    <2>4. QED
      BY <2>1, <2>3, TermsHaveNames
  <1>5. (\A a \in Z!AtomsOf(text.matrix) : a.head \notin names)
          <=> Z!Predicates(r) \cap names = {}
    BY <1>2 DEF Z!Heads
  <1> HIDE DEF names
  <1>6. (\A a \in Z!AtomsOf(text.matrix) :
            /\ Z!Resolve(text, a.head).kind = "predicate"
            /\ \A n \in Z!Range(a.args) : Z!Resolve(text, n).kind # "predicate")
          <=> Z!Predicates(r) \cap names = {}
    BY <1>3, <1>4, <1>5
  <1>7. Z!Predicates(r) \cap names = {} => Z!Heads(text) \cap Z!Range(text.domain) = {}
    BY <1>2 DEF names
  <1>8. Z!Readable(text)
          <=> /\ names \cup Z!Predicates(r) \subseteq Symbols
              /\ Z!Predicates(r) \cap names = {}
              /\ ~ Z!HasHole(r)
    BY <1>2, <1>6, <1>7 DEF Z!Readable, names
  <1>9. QED
    BY <1>1, <1>8 DEF Z!HasNoText, names

(* What is read back is the clause, unless a variable captures a constant. *)
LEMMA TextIsExact ==
    ASSUME NEW r \in Z!Clause, Z!TermsAreKnown(r), ~ Z!Captures(r)
    PROVE  Z!ReadBack(Z!SmtLib2(r)) = r
  <1>1. PICK text : text = Z!SmtLib2(r)
    OBVIOUS
  <1>2. /\ text.exists = r.exists /\ text.forall = r.forall /\ text.domain = r.domain
        /\ Z!Bound(text) = Z!Bound(r)
        /\ DOMAIN text.matrix = DOMAIN r.matrix
        /\ \A k \in DOMAIN r.matrix : text.matrix[k] = Z!Written(r.matrix[k])
                                        /\ text.matrix[k].op = r.matrix[k].op
    BY <1>1, TextKeepsNames
  <1>3. ASSUME NEW k \in DOMAIN r.matrix, r.matrix[k].op = "atom"
        PROVE  Z!Understood(text, text.matrix[k]) = r.matrix[k]
    <2>1. /\ text.matrix[k].op = "atom" /\ text.matrix[k].head = r.matrix[k].predicate
          /\ text.matrix[k].args
               = [i \in DOMAIN r.matrix[k].args |-> r.matrix[k].args[i].name]
      BY <1>2, <1>3, WrittenParts
    <2>2. ASSUME NEW i \in DOMAIN r.matrix[k].args
          PROVE  Z!Resolve(text, text.matrix[k].args[i]) = r.matrix[k].args[i]
      <3>1. PICK t : t = r.matrix[k].args[i]
        OBVIOUS
      <3>2. \/ t = Z!Variable(t.name) /\ t.name \in Z!Bound(r)
            \/ t = Z!Constant(t.name) /\ t.name \in Z!Range(r.domain)
        BY <1>3, <3>1, TermsHaveNames
      <3>3. t.name \in Z!Range(r.domain) => t.name \notin Z!Bound(r)
        BY DEF Z!Captures
      <3>4. Z!Resolve(text, t.name) = t
        BY <1>2, <3>2, <3>3 DEF Z!Resolve
      <3>5. QED
        BY <2>1, <3>1, <3>4
    <2>3. r.matrix[k] \in Z!Atomic
      BY <1>3, AtomsHaveTerms
    <2>4. /\ r.matrix[k] = [op |-> "atom", predicate |-> r.matrix[k].predicate,
                            args |-> r.matrix[k].args]
          /\ r.matrix[k].args = [i \in DOMAIN r.matrix[k].args |-> r.matrix[k].args[i]]
      BY <1>3, <2>3 DEF Z!Atomic
    <2>5. [i \in DOMAIN text.matrix[k].args |-> Z!Resolve(text, text.matrix[k].args[i])]
            = r.matrix[k].args
      BY <2>1, <2>2, <2>4
    <2>6. QED
      BY <2>1, <2>4, <2>5 DEF Z!Understood, Z!Atom
  <1>4. ASSUME NEW k \in DOMAIN r.matrix, r.matrix[k].op # "atom"
        PROVE  Z!Understood(text, text.matrix[k]) = r.matrix[k]
    BY <1>2, <1>4 DEF Z!Understood, Z!Written
  <1>5. [k \in DOMAIN text.matrix |-> Z!Understood(text, text.matrix[k])] = r.matrix
    <2>1. r.matrix \in Seq(Z!Atomic \cup Z!Connective)
      BY DEF Z!Clause, Z!Formula
    <2>2. r.matrix = [k \in DOMAIN r.matrix |-> r.matrix[k]]
      BY <2>1
    <2>3. \A k \in DOMAIN r.matrix : Z!Understood(text, text.matrix[k]) = r.matrix[k]
      BY <1>3, <1>4
    <2>4. QED
      BY <1>2, <2>2, <2>3
  <1>6. r = [exists |-> r.exists, forall |-> r.forall, domain |-> r.domain,
             matrix |-> r.matrix]
    BY DEF Z!Clause
  <1>7. QED
    BY <1>1, <1>2, <1>5, <1>6 DEF Z!ReadBack

-----------------------------------------------------------------------------
(* The calls.                                                              *)

(* What a call about a graph has answered.                                 *)
LEMMA GraphCallsAreAnswered ==
    ASSUME CallInv, call.of = "graph"
    PROVE  \E V : \E nodes \in Seq(V), edges \in Seq(Pairs(V)) :
              /\ V = {nodes[k] : k \in 1..Len(nodes)}
              /\ edges = EdgesOf(call.input)
              /\ answer.rows = Basis(nodes, edges)
  <1>1. PICK request \in Graphs :
           /\ call.input = request
           /\ answer.rows = Basis(NodesOf(request), EdgesOf(request))
    BY DEF CallInv, GraphCall
  <1>2. request \in Requests(GraphNodes)
    BY RequestInputs DEF RequestInputs
  <1>3. /\ NodesOf(request) \in Seq(NodeSet(request))
        /\ EdgesOf(request) \in Seq(Pairs(NodeSet(request)))
    BY <1>2, EdgesRunBetweenNodes
  <1>4. NodeSet(request) = {NodesOf(request)[k] : k \in 1..Len(NodesOf(request))}
    BY DEF NodeSet
  <1>5. QED
    BY <1>1, <1>3, <1>4

(***************************************************************************)
(* The equations that detect_loopholes answers reach every loophole, for   *)
(* any graph: every directed cycle, loops and pairs of opposite edges      *)
(* included, is made of the rows of the basis, so that none is left out of *)
(* what the correction solves.                                             *)
(***************************************************************************)
THEOREM EquationsReachEveryLoophole == DecisionsSpec => []CorrectionsReachEveryLoophole
  <1>1. CallInv => CorrectionsReachEveryLoophole
    <2> SUFFICES ASSUME CallInv, call.of = "graph"
                 PROVE  CoverEveryCycle(EdgesOf(call.input), answer.rows)
      BY DEF CorrectionsReachEveryLoophole
    <2>1. PICK V : \E nodes \in Seq(V), edges \in Seq(Pairs(V)) :
             /\ V = {nodes[k] : k \in 1..Len(nodes)}
             /\ edges = EdgesOf(call.input)
             /\ answer.rows = Basis(nodes, edges)
      BY GraphCallsAreAnswered
    <2>2. PICK nodes \in Seq(V), edges \in Seq(Pairs(V)) :
             /\ V = {nodes[k] : k \in 1..Len(nodes)}
             /\ edges = EdgesOf(call.input)
             /\ answer.rows = Basis(nodes, edges)
      BY <2>1
    <2>3. CoverEveryCycle(edges, Basis(nodes, edges))
      BY <2>2, BasisCoversCycles
    <2>4. QED
      BY <2>2, <2>3
  <1>2. QED
    BY <1>1, CallInvHolds, PTL

(***************************************************************************)
(* And they close it: whatever weights solve the equations, the weights    *)
(* around any cycle add up to nothing.  This is what the docstring of      *)
(* zero_arbitrage.py claims for the corrected graph; the solver is assumed *)
(* to have found a solution.                                               *)
(***************************************************************************)
CorrectedGraphsAreClosed ==
    call.of = "graph" =>
      \A weights : Solve(EdgesOf(call.input), answer.rows, weights) =>
        \A cycle \in SimpleCycles(EdgesOf(call.input)) : SumAt(cycle, weights) = 0

THEOREM CorrectedGraphsHaveNoLoophole == DecisionsSpec => []CorrectedGraphsAreClosed
  <1>1. CallInv => CorrectedGraphsAreClosed
    <2> SUFFICES ASSUME CallInv, call.of = "graph", NEW weights,
                        Solve(EdgesOf(call.input), answer.rows, weights),
                        NEW cycle \in SimpleCycles(EdgesOf(call.input))
                 PROVE  SumAt(cycle, weights) = 0
      BY DEF CorrectedGraphsAreClosed
    <2>1. PICK V : \E nodes \in Seq(V), edges \in Seq(Pairs(V)) :
             /\ V = {nodes[k] : k \in 1..Len(nodes)}
             /\ edges = EdgesOf(call.input)
             /\ answer.rows = Basis(nodes, edges)
      BY GraphCallsAreAnswered
    <2>2. PICK nodes \in Seq(V), edges \in Seq(Pairs(V)) :
             /\ V = {nodes[k] : k \in 1..Len(nodes)}
             /\ edges = EdgesOf(call.input)
             /\ answer.rows = Basis(nodes, edges)
      BY <2>1
    <2>3. Solve(edges, Basis(nodes, edges), weights) /\ cycle \in SimpleCycles(edges)
      BY <2>2
    <2>4. QED
      BY <2>2, <2>3, SolutionsCloseCycles
  <1>2. QED
    BY <1>1, CallInvHolds, PTL

(***************************************************************************)
(* The text that verify_clause keeps for the auditor can be read unless    *)
(* names clash or a connective is empty, and what is read has the verdict  *)
(* of the formula that was solved unless a variable has the name of a      *)
(* constant: for any clause that compiles.                                 *)
(***************************************************************************)
THEOREM AuditTextsAreFaithful == DecisionsSpec => []AuditTextIsFaithful
  <1>1. CallInv => AuditTextIsFaithful
    <2> SUFFICES ASSUME CallInv, call.of = "clause", "text" \in DOMAIN answer
                 PROVE  /\ Z!Readable(answer.text) <=> ~ Z!HasNoText(call.input)
                        /\ Z!Readable(answer.text) /\ ~ Z!Captures(call.input) =>
                             Z!Satisfiable(Z!ReadBack(answer.text)) = Z!Satisfiable(call.input)
      BY DEF AuditTextIsFaithful
    <2>1. PICK clause \in Clauses :
             /\ call.input = clause
             /\ answer = IF Z!Compiles(clause) THEN [text |-> Z!SmtLib2(clause)] ELSE Failed
      BY DEF CallInv, ClauseCall
    <2>2. clause \in Z!Clause
      BY RequestInputs DEF RequestInputs
    <2>3. Z!Compiles(clause)
      BY <2>1 DEF Failed
    <2>4. answer.text = Z!SmtLib2(clause)
      BY <2>1, <2>3
    <2>5. Z!TermsAreKnown(clause)
      BY <2>3 DEF Z!Compiles
    <2>6. Z!Readable(answer.text) <=> ~ Z!HasNoText(call.input)
      BY <2>1, <2>2, <2>4, <2>5, WhatHasAText
    <2>7. ASSUME ~ Z!Captures(clause)
          PROVE  Z!ReadBack(answer.text) = clause
      BY <2>2, <2>4, <2>5, <2>7, TextIsExact
    <2>8. QED
      BY <2>1, <2>6, <2>7
  <1>2. QED
    BY <1>1, CallInvHolds, PTL
===============================================================================
