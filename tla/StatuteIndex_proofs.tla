-------------------------- MODULE StatuteIndex_proofs --------------------------
(***************************************************************************)
(* The indexes for any number of tenants, requests and statutes, over      *)
(* either repository.  The argument compares, for each index, everything   *)
(* any of its instances holds with everything that was submitted.          *)
(***************************************************************************)
EXTENDS StatuteIndex, TLAPS

(* The instances of an index together.                                     *)
Contents(slot, t) ==
    {row \in StatuteRow :
        \E i \in 1..Len(instances[slot][t]) : row \in instances[slot][t][i]}

AllInstances == [Slots -> [Tenants -> Seq(SUBSET StatuteRow)]]

(* A request resolves its indexes one after the other and holds instances  *)
(* that were installed.                                                    *)
Resolving == {"look", "build", "take"}

InOrder(r, all) ==
    LET t == r.statute.tenant IN
    \/ r.kind = "none" /\ r.pc = "idle"
    \/ /\ r.kind \in RequestKinds /\ r.statute \in StatuteRow
       /\ r.pc = "take" => all[Head(r.slots)][t] # <<>>
       /\ \/ /\ r.kind = "add" /\ r.pc \in Resolving
             /\ r.slots = <<"graph", "vector">> /\ Len(r.got) = 0
          \/ /\ r.kind = "add" /\ r.pc \in Resolving
             /\ r.slots = <<"vector">> /\ Len(r.got) = 1
             /\ r.got[1] \in 1..Len(all["graph"][t])
          \/ /\ r.kind = "add" /\ r.pc \in {"handle", "write"}
             /\ r.slots = <<>> /\ Len(r.got) = 2
             /\ r.got[1] \in 1..Len(all["graph"][t])
             /\ r.got[2] \in 1..Len(all["vector"][t])
          \/ /\ r.kind \in {"preemption", "search"} /\ r.pc \in Resolving
             /\ \E slot \in Slots : r.slots = <<slot>>
             /\ Len(r.got) = 0
          \/ /\ r.kind \in {"preemption", "search"} /\ r.pc = "handle"
             /\ r.slots = <<>>

RequestsAreInOrder == \A w \in Workers : InOrder(requests[w], instances)

NothingIsLeftWhenDown ==
    ~ up => /\ requests = [w \in Workers |-> Idle]
            /\ failed = {}

IndexesAreComplete ==
    up => \A slot \in Slots, t \in Tenants :
        /\ Submitted(t) \subseteq Contents(slot, t)
        /\ Len(instances[slot][t]) \in {0, 1} => Contents(slot, t) \subseteq Submitted(t)

IndexInv ==
    /\ TypeOK
    /\ RequestsAreInOrder
    /\ NothingIsLeftWhenDown
    /\ IndexesAreComplete
    /\ TenantsAreIsolated

-----------------------------------------------------------------------------
(***************************************************************************)
(* Instances are installed and never taken away, so what a request holds   *)
(* stays good.                                                             *)
(***************************************************************************)
LEMMA OrderIsKept ==
    ASSUME NEW all \in AllInstances, NEW more \in AllInstances,
           \A slot \in Slots, t \in Tenants : Len(all[slot][t]) <= Len(more[slot][t]),
           NEW r \in RequestSet, InOrder(r, all)
    PROVE  InOrder(r, more)
<1>1. CASE r.kind = "none"
  BY <1>1 DEF InOrder, RequestKinds
<1>2. CASE r.kind # "none"
  <2>1. r.statute \in StatuteRow /\ r.statute.tenant \in Tenants
    BY <1>2 DEF InOrder, StatuteRow
  <2> DEFINE t == r.statute.tenant
  <2>2. \A slot \in Slots : /\ Len(all[slot][t]) \in Nat /\ Len(more[slot][t]) \in Nat
                            /\ Len(all[slot][t]) <= Len(more[slot][t])
    BY <2>1 DEF AllInstances
  <2>3. \A slot \in Slots : all[slot][t] # <<>> => more[slot][t] # <<>>
    BY <2>1, <2>2 DEF AllInstances
  <2>4. r.pc = "take" => Head(r.slots) \in Slots
    BY <1>2 DEF InOrder, Slots, Resolving
  <2>5. r.pc = "take" => more[Head(r.slots)][t] # <<>>
    BY <1>2, <2>3, <2>4 DEF InOrder
  <2>6. \A slot \in Slots, k \in Nat :
            k \in 1..Len(all[slot][t]) => k \in 1..Len(more[slot][t])
    BY <2>2
  <2>7. \A k \in 1..Len(r.got) : r.got[k] \in Nat
    BY DEF RequestSet
  <2>8. "graph" \in Slots /\ "vector" \in Slots
    BY DEF Slots
  <2>9. QED
    BY <1>2, <2>1, <2>5, <2>6, <2>7, <2>8 DEF InOrder
<1>3. QED
  BY <1>1, <1>2

(***************************************************************************)
(* A new instance is empty and the others stay.                            *)
(***************************************************************************)
LEMMA BuildFacts ==
    ASSUME TypeOK, NEW s \in Slots, NEW u \in Tenants,
           instances' = [instances EXCEPT ![s][u] = Append(@, {})]
    PROVE  /\ instances' \in AllInstances
           /\ \A slot \in Slots, t \in Tenants :
                 Len(instances[slot][t]) <= Len(instances'[slot][t])
           /\ instances'[s][u] # <<>>
           /\ \A slot \in Slots, t \in Tenants : Contents(slot, t)' = Contents(slot, t)
           /\ \A slot \in Slots, t \in Tenants :
                 Len(instances'[slot][t]) \in {0, 1} =>
                    \/ Len(instances[slot][t]) \in {0, 1}
           /\ TenantsAreIsolated => TenantsAreIsolated'
<1>1. instances \in [Slots -> [Tenants -> Seq(SUBSET StatuteRow)]]
  BY DEF TypeOK
<1>2. instances[s][u] \in Seq(SUBSET StatuteRow) /\ {} \in SUBSET StatuteRow
  BY <1>1
<1> DEFINE longer == Append(instances[s][u], {})
<1>3. /\ longer \in Seq(SUBSET StatuteRow) /\ longer # <<>>
      /\ Len(longer) = Len(instances[s][u]) + 1 /\ Len(instances[s][u]) \in Nat
      /\ \A i \in 1..Len(instances[s][u]) : longer[i] = instances[s][u][i]
      /\ longer[Len(instances[s][u]) + 1] = {}
  BY <1>2
<1>4. \A slot \in Slots, t \in Tenants :
          instances'[slot][t] = IF slot = s /\ t = u THEN longer ELSE instances[slot][t]
  BY <1>1
<1>5. instances' \in AllInstances
  BY <1>1, <1>3 DEF AllInstances
<1> HIDE DEF longer
<1>6. \A slot \in Slots, t \in Tenants : Len(instances[slot][t]) \in Nat
  BY <1>1
<1>7. \A slot \in Slots, t \in Tenants :
          Len(instances[slot][t]) <= Len(instances'[slot][t])
  BY <1>3, <1>4, <1>6
<1>8. \A i \in 1..Len(longer) : i \in 1..Len(instances[s][u]) \/ longer[i] = {}
  BY <1>3
<1>9. \A slot \in Slots, t \in Tenants : \A row :
          (\E i \in 1..Len(instances'[slot][t]) : row \in instances'[slot][t][i]) <=>
          (\E i \in 1..Len(instances[slot][t]) : row \in instances[slot][t][i])
  <2>1. SUFFICES ASSUME NEW row
        PROVE (\E i \in 1..Len(longer) : row \in longer[i]) <=>
              (\E i \in 1..Len(instances[s][u]) : row \in instances[s][u][i])
    BY <1>4
  <2>2. \A i \in 1..Len(instances[s][u]) : i \in 1..Len(longer)
    BY <1>3
  <2>3. QED
    BY <1>3, <1>8, <2>2
<1>10. \A slot \in Slots, t \in Tenants : Contents(slot, t)' = Contents(slot, t)
  BY <1>9 DEF Contents
<1>11. \A slot \in Slots, t \in Tenants :
          Len(instances'[slot][t]) \in {0, 1} => Len(instances[slot][t]) \in {0, 1}
  BY <1>3, <1>4, <1>6
<1>12. TenantsAreIsolated => TenantsAreIsolated'
  <2>1. SUFFICES ASSUME TenantsAreIsolated, NEW slot \in Slots, NEW t \in Tenants,
                        NEW i \in 1..Len(instances'[slot][t]),
                        NEW row \in instances'[slot][t][i]
                 PROVE  row.tenant = t
    BY DEF TenantsAreIsolated
  <2>2. PICK j \in 1..Len(instances[slot][t]) : row \in instances[slot][t][j]
    BY <1>9, <2>1
  <2>3. QED
    BY <2>1, <2>2 DEF TenantsAreIsolated
<1>13. QED
  BY <1>3, <1>4, <1>5, <1>7, <1>10, <1>11, <1>12

(***************************************************************************)
(* Indexing a statute adds it to both indexes of its tenant and to nothing *)
(* else.                                                                   *)
(***************************************************************************)
LEMMA IndexedFacts ==
    ASSUME TypeOK, NEW r \in RequestSet, r.statute \in StatuteRow, Len(r.got) = 2,
           r.got[1] \in 1..Len(instances["graph"][r.statute.tenant]),
           r.got[2] \in 1..Len(instances["vector"][r.statute.tenant]),
           instances' = Indexed(r)
    PROVE  /\ instances' \in AllInstances
           /\ \A slot \in Slots, t \in Tenants :
                 Len(instances'[slot][t]) = Len(instances[slot][t])
           /\ \A slot \in Slots, t \in Tenants :
                 Contents(slot, t)' =
                    Contents(slot, t) \cup (IF t = r.statute.tenant THEN {r.statute} ELSE {})
           /\ TenantsAreIsolated => TenantsAreIsolated'
<1> DEFINE u == r.statute.tenant
           at(slot) == r.got[IF slot = "graph" THEN 1 ELSE 2]
<1>1. /\ instances \in [Slots -> [Tenants -> Seq(SUBSET StatuteRow)]]
      /\ u \in Tenants /\ Slots = {"graph", "vector"}
  BY DEF TypeOK, StatuteRow, Slots
<1>2. \A slot \in Slots : at(slot) \in 1..Len(instances[slot][u])
  BY <1>1
<1> DEFINE with(slot) == [instances[slot][u] EXCEPT ![at(slot)] = @ \cup {r.statute}]
<1>3. instances' = [slot \in Slots |-> [instances[slot] EXCEPT ![u] = with(slot)]]
  BY DEF Indexed
<1>4. \A slot \in Slots : instances[slot] \in [Tenants -> Seq(SUBSET StatuteRow)]
  BY <1>1
<1>5. \A slot \in Slots, t \in Tenants :
          instances'[slot][t] = IF t = u THEN with(slot) ELSE instances[slot][t]
  <2> HIDE DEF with
  <2>1. \A slot \in Slots : instances'[slot] = [instances[slot] EXCEPT ![u] = with(slot)]
    BY <1>3
  <2>2. QED
    BY <1>1, <1>4, <2>1
<1> HIDE DEF at, u
<1>6. \A slot \in Slots : LET new == [instances[slot][u] EXCEPT ![at(slot)] = @ \cup {r.statute}] IN
          /\ new \in Seq(SUBSET StatuteRow)
          /\ Len(new) = Len(instances[slot][u])
          /\ \A i \in 1..Len(instances[slot][u]) :
                new[i] = instances[slot][u][i] \cup (IF i = at(slot) THEN {r.statute} ELSE {})
  <2>1. SUFFICES ASSUME NEW slot \in Slots
                 PROVE  LET new == [instances[slot][u] EXCEPT ![at(slot)] = @ \cup {r.statute}] IN
          /\ new \in Seq(SUBSET StatuteRow)
          /\ Len(new) = Len(instances[slot][u])
          /\ \A i \in 1..Len(instances[slot][u]) :
                new[i] = instances[slot][u][i] \cup (IF i = at(slot) THEN {r.statute} ELSE {})
    OBVIOUS
  <2>2. instances[slot][u] \in Seq(SUBSET StatuteRow) /\ at(slot) \in 1..Len(instances[slot][u])
    BY <1>1, <1>2, <1>4
  <2>3. instances[slot][u][at(slot)] \cup {r.statute} \in SUBSET StatuteRow
    BY <2>2
  <2>4. QED
    BY <2>2, <2>3
<1>7. /\ \A slot \in Slots : instances'[slot] \in [Tenants -> Seq(SUBSET StatuteRow)]
      /\ \A slot \in Slots, t \in Tenants :
            Len(instances'[slot][t]) = Len(instances[slot][t])
  <2>1. \A slot \in Slots, t \in Tenants :
            /\ instances'[slot][t] \in Seq(SUBSET StatuteRow)
            /\ Len(instances'[slot][t]) = Len(instances[slot][t])
    BY <1>4, <1>5, <1>6
  <2>2. \A slot \in Slots : \E f : instances'[slot] = [instances[slot] EXCEPT ![u] = f]
    BY <1>3
  <2>3. \A slot \in Slots : instances'[slot] = [t \in Tenants |-> instances'[slot][t]]
    BY <1>4, <2>2
  <2>4. QED
    BY <2>1, <2>3
<1>8. instances' \in AllInstances
  BY <1>3, <1>7 DEF AllInstances
<1>9. \A slot \in Slots, t \in Tenants : \A row :
          (\E i \in 1..Len(instances'[slot][t]) : row \in instances'[slot][t][i]) <=>
          \/ \E i \in 1..Len(instances[slot][t]) : row \in instances[slot][t][i]
          \/ t = u /\ row = r.statute
  <2>1. SUFFICES ASSUME NEW slot \in Slots, NEW t \in Tenants, NEW row
        PROVE (\E i \in 1..Len(instances'[slot][t]) : row \in instances'[slot][t][i]) <=>
              \/ \E i \in 1..Len(instances[slot][t]) : row \in instances[slot][t][i]
              \/ t = u /\ row = r.statute
    OBVIOUS
  <2>2. CASE t # u
    BY <1>5, <2>2
  <2>3. CASE t = u
    <3>1. /\ Len(instances'[slot][u]) = Len(instances[slot][u])
          /\ at(slot) \in 1..Len(instances[slot][u])
          /\ \A i \in 1..Len(instances[slot][u]) :
                instances'[slot][u][i] =
                  instances[slot][u][i] \cup (IF i = at(slot) THEN {r.statute} ELSE {})
      BY <1>1, <1>2, <1>5, <1>6, <1>7
    <3>2. QED
      BY <2>3, <3>1
  <2>4. QED
    BY <2>2, <2>3
<1>10. \A slot \in Slots, t \in Tenants :
          Contents(slot, t)' =
             Contents(slot, t) \cup (IF t = r.statute.tenant THEN {r.statute} ELSE {})
  BY <1>9 DEF Contents, u
<1>11. TenantsAreIsolated => TenantsAreIsolated'
  <2>1. SUFFICES ASSUME TenantsAreIsolated, NEW slot \in Slots, NEW t \in Tenants,
                        NEW i \in 1..Len(instances'[slot][t]),
                        NEW row \in instances'[slot][t][i]
                 PROVE  row.tenant = t
    BY DEF TenantsAreIsolated
  <2>2. \/ \E j \in 1..Len(instances[slot][t]) : row \in instances[slot][t][j]
        \/ t = u /\ row = r.statute
    BY <1>9, <2>1
  <2>3. QED
    BY <2>1, <2>2 DEF TenantsAreIsolated, u
<1>12. QED
  BY <1>7, <1>8, <1>10, <1>11

(***************************************************************************)
(* A step of one request keeps all requests in order.                      *)
(***************************************************************************)
LEMMA OthersStayInOrder ==
    ASSUME TypeOK, RequestsAreInOrder, instances' \in AllInstances,
           \A slot \in Slots, t \in Tenants :
              Len(instances[slot][t]) <= Len(instances'[slot][t]),
           NEW w \in Workers, NEW new \in RequestSet, InOrder(new, instances'),
           Becomes(w, new)
    PROVE  requests' \in [Workers -> RequestSet] /\ RequestsAreInOrder'
<1>1. requests \in [Workers -> RequestSet] /\ instances \in AllInstances
  BY DEF TypeOK, AllInstances
<1>2. requests' = [requests EXCEPT ![w] = new]
  BY DEF Becomes
<1>3. requests' \in [Workers -> RequestSet]
  BY <1>1, <1>2
<1>4. \A v \in Workers : InOrder(requests[v], instances')
  BY <1>1, OrderIsKept DEF RequestsAreInOrder
<1>5. RequestsAreInOrder'
  <2>1. \A v \in Workers : requests'[v] = new \/ requests'[v] = requests[v]
    BY <1>1, <1>2
  <2>2. QED
    BY <1>4, <2>1 DEF RequestsAreInOrder
<1>6. QED
  BY <1>3, <1>5

(***************************************************************************)
(* A step of a request that neither begins nor ends a write changes        *)
(* nothing that was submitted.                                             *)
(***************************************************************************)
LEMMA SubmittedIsKept ==
    ASSUME TypeOK, NEW w \in Workers, NEW new, Becomes(w, new),
           requests[w].pc # "write", new.pc # "write", rows' = rows, failed' = failed
    PROVE  \A t \in Tenants : Submitted(t)' = Submitted(t)
<1>1. requests' = [requests EXCEPT ![w] = new] /\ requests \in [Workers -> RequestSet]
  BY DEF Becomes, TypeOK
<1>2. \A v \in Workers :
          requests'[v] = requests[v] \/ (requests'[v].pc # "write" /\ requests[v].pc # "write")
  BY <1>1
<1>3. \A t \in Tenants : InFlight(t)' = InFlight(t)
  BY <1>2 DEF InFlight
<1>4. QED
  BY <1>3 DEF Submitted, RowsOf, FailedOf

(***************************************************************************)
(* A statute whose write ends was in flight, and is on record or failed    *)
(* after it.                                                               *)
(***************************************************************************)
LEMMA SubmittedIsSettled ==
    ASSUME TypeOK, NEW w \in Workers, requests[w].pc = "write", Becomes(w, Idle),
           \/ rows' = rows \cup {requests[w].statute} /\ failed' = failed
           \/ failed' = failed \cup {requests[w].statute} /\ rows' = rows
    PROVE  \A t \in Tenants : Submitted(t)' = Submitted(t)
<1> DEFINE s == requests[w].statute
<1>1. requests' = [requests EXCEPT ![w] = Idle] /\ requests \in [Workers -> RequestSet]
  BY DEF Becomes, TypeOK
<1>2. /\ \A v \in Workers : v # w => requests'[v] = requests[v]
      /\ requests'[w].pc # "write"
  BY <1>1 DEF Idle
<1>3. \A t \in Tenants : \A row :
          row \in InFlight(t) <=> row \in InFlight(t)' \/ (row = s /\ s.tenant = t)
  BY <1>2 DEF InFlight
<1>4. \A t \in Tenants : \A row :
          row \in RowsOf(t)' \/ row \in FailedOf(t)' <=>
          row \in RowsOf(t) \/ row \in FailedOf(t) \/ (row = s /\ s.tenant = t)
  BY DEF RowsOf, FailedOf
<1> HIDE DEF s
<1>5. \A t \in Tenants : \A row : row \in Submitted(t)' <=> row \in Submitted(t)
  BY <1>3, <1>4 DEF Submitted
<1>6. QED
  BY <1>5 DEF Submitted

(***************************************************************************)
(* What is complete stays so while contents and submissions stay.          *)
(***************************************************************************)
LEMMA CompletenessIsKept ==
    ASSUME IndexesAreComplete, up,
           \A t \in Tenants : Submitted(t)' = Submitted(t),
           \A slot \in Slots, t \in Tenants :
              /\ Contents(slot, t)' = Contents(slot, t)
              /\ Len(instances'[slot][t]) \in {0, 1} => Len(instances[slot][t]) \in {0, 1}
    PROVE  IndexesAreComplete'
<1>1. \A slot \in Slots, t \in Tenants :
          /\ Submitted(t) \subseteq Contents(slot, t)
          /\ Len(instances[slot][t]) \in {0, 1} => Contents(slot, t) \subseteq Submitted(t)
  BY DEF IndexesAreComplete
<1>2. \A slot \in Slots, t \in Tenants :
          /\ Submitted(t)' \subseteq Contents(slot, t)'
          /\ Len(instances[slot][t])' \in {0, 1} => Contents(slot, t)' \subseteq Submitted(t)'
  BY <1>1
<1>3. QED
  BY <1>2 DEF IndexesAreComplete

LEMMA IdleIsARequest == Idle \in RequestSet /\ \A all : InOrder(Idle, all)
  BY DEF Idle, RequestSet, InOrder, NoStatute

(***************************************************************************)
(* What a step that changes no index has to show.                          *)
(***************************************************************************)
LEMMA IndexesUnchanged ==
    ASSUME IndexInv, up, up' = up, instances' = instances, sqlBackend' = sqlBackend,
           rows' \in SUBSET StatuteRow, failed' \in SUBSET StatuteRow, nextStatute' \in Nat,
           NEW w \in Workers, NEW new \in RequestSet, InOrder(new, instances),
           Becomes(w, new), \A t \in Tenants : Submitted(t)' = Submitted(t)
    PROVE  IndexInv'
<1>1. instances \in AllInstances
  BY DEF IndexInv, TypeOK, AllInstances
<1>2. \A slot \in Slots, t \in Tenants : Len(instances[slot][t]) <= Len(instances'[slot][t])
  BY <1>1 DEF AllInstances
<1>3. requests' \in [Workers -> RequestSet] /\ RequestsAreInOrder'
  BY <1>1, <1>2, OthersStayInOrder DEF IndexInv
<1>4. TypeOK'
  BY <1>3 DEF IndexInv, TypeOK
<1>5. \A slot \in Slots, t \in Tenants : Contents(slot, t)' = Contents(slot, t)
  BY DEF Contents
<1>6. IndexesAreComplete'
  BY <1>5, CompletenessIsKept DEF IndexInv
<1>7. NothingIsLeftWhenDown' /\ TenantsAreIsolated'
  BY DEF IndexInv, NothingIsLeftWhenDown, TenantsAreIsolated
<1>8. QED
  BY <1>3, <1>4, <1>6, <1>7 DEF IndexInv

-----------------------------------------------------------------------------
(* Inductiveness.                                                          *)

LEMMA ArriveKeepsIndexInv ==
    ASSUME IndexInv, NEW w \in Workers, NEW kind \in RequestKinds, NEW t \in Tenants,
           Arrive(w, kind, t)
    PROVE  IndexInv'
<1> DEFINE new == [kind |-> kind, pc |-> "look", slots |-> SlotsOf(kind), got |-> <<>>,
                   statute |-> [id |-> nextStatute, tenant |-> t]]
<1>1. /\ up /\ requests[w] = Idle /\ Becomes(w, new)
      /\ nextStatute' = IF kind = "add" THEN nextStatute + 1 ELSE nextStatute
      /\ UNCHANGED <<sqlBackend, up, instances, rows, failed>>
  BY DEF Arrive
<1>2. nextStatute \in Nat /\ nextStatute' \in Nat
  BY <1>1 DEF IndexInv, TypeOK
<1>3. /\ kind = "add" => SlotsOf(kind) = <<"graph", "vector">>
      /\ kind # "add" => \E slot \in Slots : SlotsOf(kind) = <<slot>>
      /\ SlotsOf(kind) \in Seq(Slots)
  <2>1. /\ SlotsOf("add") = <<"graph", "vector">>
        /\ SlotsOf("preemption") = <<"graph">>
        /\ SlotsOf("search") = <<"vector">>
    BY DEF SlotsOf
  <2>2. /\ <<"graph", "vector">> \in Seq(Slots)
        /\ \A slot \in Slots : <<slot>> \in Seq(Slots)
        /\ "graph" \in Slots /\ "vector" \in Slots
    BY DEF Slots
  <2>3. kind = "add" \/ kind = "preemption" \/ kind = "search"
    BY DEF RequestKinds
  <2>4. QED
    BY <2>1, <2>2, <2>3
<1>4. new \in RequestSet
  BY <1>2, <1>3 DEF RequestSet, StatuteRow
<1>5. InOrder(new, instances)
  <2>1. /\ new.kind = kind /\ new.pc = "look" /\ new.slots = SlotsOf(kind)
        /\ Len(new.got) = 0 /\ new.statute \in StatuteRow
    BY <1>2 DEF StatuteRow
  <2> HIDE DEF new
  <2>2. QED
    BY <1>3, <2>1 DEF InOrder, RequestKinds, Resolving
<1>6. \A u \in Tenants : Submitted(u)' = Submitted(u)
  <2>1. requests[w].pc # "write" /\ new.pc # "write"
    BY <1>1 DEF Idle
  <2> HIDE DEF new
  <2>2. QED
    BY <1>1, <2>1, SubmittedIsKept DEF IndexInv
<1> HIDE DEF new
<1>7. rows' \in SUBSET StatuteRow /\ failed' \in SUBSET StatuteRow
  BY <1>1 DEF IndexInv, TypeOK
<1>8. QED
  BY <1>1, <1>2, <1>4, <1>5, <1>6, <1>7, IndexesUnchanged

(***************************************************************************)
(* A request that is resolving is no write, and the process is up.         *)
(***************************************************************************)
LEMMA BusyMeansUp ==
    ASSUME IndexInv, NEW w \in Workers, requests[w].pc # "idle"
    PROVE  /\ up /\ requests[w] \in RequestSet /\ InOrder(requests[w], instances)
           /\ requests[w].kind \in RequestKinds
           /\ requests[w].statute \in StatuteRow /\ requests[w].statute.tenant \in Tenants
<1>1. requests[w] \in RequestSet /\ InOrder(requests[w], instances)
  BY DEF IndexInv, TypeOK, RequestsAreInOrder
<1>2. up
  BY DEF IndexInv, NothingIsLeftWhenDown, Idle
<1>3. requests[w].kind \in RequestKinds /\ requests[w].statute \in StatuteRow
  BY <1>1 DEF InOrder
<1>4. QED
  BY <1>1, <1>2, <1>3 DEF StatuteRow

LEMMA LookKeepsIndexInv ==
    ASSUME IndexInv, NEW w \in Workers, Look(w)
    PROVE  IndexInv'
<1> DEFINE r == requests[w]
           new == [r EXCEPT !.pc =
               IF instances[Head(r.slots)][r.statute.tenant] = <<>> THEN "build" ELSE "take"]
<1>1. /\ r.pc = "look" /\ Becomes(w, new)
      /\ UNCHANGED <<sqlBackend, up, instances, rows, nextStatute, failed>>
  BY DEF Look
<1>2. /\ up /\ r \in RequestSet /\ InOrder(r, instances) /\ r.kind \in RequestKinds
  BY <1>1, BusyMeansUp
<1>3. /\ new \in RequestSet /\ new.pc \in {"build", "take"}
      /\ new.kind = r.kind /\ new.slots = r.slots /\ new.got = r.got /\ new.statute = r.statute
      /\ new.pc = "take" => instances[Head(r.slots)][r.statute.tenant] # <<>>
  BY <1>2 DEF RequestSet
<1>4. InOrder(new, instances)
  <2> HIDE DEF new, r
  <2>1. QED
    BY <1>1, <1>2, <1>3 DEF InOrder, Resolving, RequestKinds
<1>5. \A u \in Tenants : Submitted(u)' = Submitted(u)
  <2>1. new.pc # "write"
    BY <1>3
  <2> HIDE DEF new
  <2>2. QED
    BY <1>1, <2>1, SubmittedIsKept DEF IndexInv
<1> HIDE DEF new
<1>6. rows' \in SUBSET StatuteRow /\ failed' \in SUBSET StatuteRow /\ nextStatute' \in Nat
  BY <1>1 DEF IndexInv, TypeOK
<1>7. QED
  BY <1>1, <1>2, <1>3, <1>4, <1>5, <1>6, IndexesUnchanged

LEMMA BuildKeepsIndexInv ==
    ASSUME IndexInv, NEW w \in Workers, Build(w)
    PROVE  IndexInv'
<1> DEFINE r == requests[w]
           new == [r EXCEPT !.pc = "take"]
           s == Head(r.slots)
           u == r.statute.tenant
<1>1. /\ r.pc = "build" /\ Becomes(w, new)
      /\ instances' = [instances EXCEPT ![s][u] = Append(@, {})]
      /\ UNCHANGED <<sqlBackend, up, rows, nextStatute, failed>>
  BY DEF Build
<1>2. /\ up /\ r \in RequestSet /\ InOrder(r, instances) /\ r.kind \in RequestKinds
      /\ u \in Tenants
  BY <1>1, BusyMeansUp
<1>3. s \in Slots
  <2>1. \/ r.slots = <<"graph", "vector">> \/ r.slots = <<"vector">>
        \/ \E slot \in Slots : r.slots = <<slot>>
    BY <1>1, <1>2 DEF InOrder, RequestKinds
  <2>2. QED
    BY <2>1 DEF Slots
<1>4. /\ new \in RequestSet /\ new.pc = "take"
      /\ new.kind = r.kind /\ new.slots = r.slots /\ new.got = r.got /\ new.statute = r.statute
  BY <1>2 DEF RequestSet
<1> HIDE DEF new
<1>5. /\ instances' \in AllInstances
      /\ \A slot \in Slots, t \in Tenants :
            Len(instances[slot][t]) <= Len(instances'[slot][t])
      /\ instances'[s][u] # <<>>
      /\ \A slot \in Slots, t \in Tenants : Contents(slot, t)' = Contents(slot, t)
      /\ \A slot \in Slots, t \in Tenants :
            Len(instances'[slot][t]) \in {0, 1} => Len(instances[slot][t]) \in {0, 1}
      /\ TenantsAreIsolated'
  <2> HIDE DEF s, u
  <2>1. QED
    BY <1>1, <1>2, <1>3, BuildFacts DEF IndexInv
<1>6. InOrder(new, instances')
  <2>1. InOrder(r, instances')
    BY <1>2, <1>5, OrderIsKept DEF IndexInv, TypeOK, AllInstances
  <2> HIDE DEF r
  <2>2. QED
    BY <1>1, <1>2, <1>4, <1>5, <2>1 DEF InOrder, Resolving, RequestKinds
<1>7. requests' \in [Workers -> RequestSet] /\ RequestsAreInOrder'
  BY <1>1, <1>4, <1>5, <1>6, OthersStayInOrder DEF IndexInv
<1>8. \A t \in Tenants : Submitted(t)' = Submitted(t)
  BY <1>1, <1>4, SubmittedIsKept DEF IndexInv
<1>9. TypeOK'
  BY <1>1, <1>5, <1>7 DEF IndexInv, TypeOK, AllInstances
<1>10. IndexesAreComplete'
  BY <1>2, <1>5, <1>8, CompletenessIsKept DEF IndexInv
<1>11. NothingIsLeftWhenDown'
  BY <1>1, <1>2 DEF NothingIsLeftWhenDown
<1>12. QED
  BY <1>5, <1>7, <1>9, <1>10, <1>11 DEF IndexInv

LEMMA TakeKeepsIndexInv ==
    ASSUME IndexInv, NEW w \in Workers, Take(w)
    PROVE  IndexInv'
<1> DEFINE r == requests[w]
           u == r.statute.tenant
           last == Len(instances[Head(r.slots)][u])
           new == [r EXCEPT
               !.slots = Tail(@),
               !.got = Append(@, last),
               !.pc = IF Len(r.slots) = 1 THEN "handle" ELSE "look"]
<1>1. /\ r.pc = "take" /\ Becomes(w, new)
      /\ UNCHANGED <<sqlBackend, up, instances, rows, nextStatute, failed>>
  BY DEF Take
<1>2. /\ up /\ r \in RequestSet /\ InOrder(r, instances) /\ r.kind \in RequestKinds
      /\ u \in Tenants /\ r.statute \in StatuteRow
  BY <1>1, BusyMeansUp
<1>3. r.slots \in Seq(Slots) /\ r.slots # <<>> /\ Head(r.slots) \in Slots /\ r.got \in Seq(Nat)
  BY <1>1, <1>2 DEF InOrder, Slots, Resolving, RequestKinds, RequestSet
<1>4. last \in Nat /\ last \in 1..last
  <2>1. instances[Head(r.slots)][u] \in Seq(SUBSET StatuteRow)
    BY <1>2, <1>3 DEF IndexInv, TypeOK
  <2>2. instances[Head(r.slots)][u] # <<>>
    BY <1>1, <1>2 DEF InOrder, RequestKinds
  <2>3. QED
    BY <2>1, <2>2
<1> HIDE DEF last
<1>5. /\ Tail(r.slots) \in Seq(Slots)
      /\ Append(r.got, last) \in Seq(Nat) /\ Len(Append(r.got, last)) = Len(r.got) + 1
      /\ Append(r.got, last)[Len(r.got) + 1] = last
      /\ \A k \in 1..Len(r.got) : Append(r.got, last)[k] = r.got[k]
  BY <1>3, <1>4
<1>6. /\ new \in RequestSet
      /\ new.pc = IF Len(r.slots) = 1 THEN "handle" ELSE "look"
      /\ new.kind = r.kind /\ new.statute = r.statute
      /\ new.slots = Tail(r.slots) /\ new.got = Append(r.got, last)
  BY <1>2, <1>5 DEF RequestSet
<1> HIDE DEF new
<1>7. InOrder(new, instances)
  <2>1. CASE r.kind = "add" /\ r.slots = <<"graph", "vector">> /\ Len(r.got) = 0
    <3>1. /\ new.pc = "look" /\ new.slots = <<"vector">> /\ Len(new.got) = 1
          /\ new.got[1] = last /\ last = Len(instances["graph"][u])
      BY <1>5, <1>6, <2>1 DEF last
    <3>2. QED
      BY <1>2, <1>4, <1>6, <2>1, <3>1 DEF InOrder, Resolving, RequestKinds
  <2>2. CASE /\ r.kind = "add" /\ r.slots = <<"vector">> /\ Len(r.got) = 1
             /\ r.got[1] \in 1..Len(instances["graph"][u])
    <3>1. /\ new.pc = "handle" /\ new.slots = <<>> /\ Len(new.got) = 2
          /\ new.got[1] = r.got[1] /\ new.got[2] = last /\ last = Len(instances["vector"][u])
      BY <1>5, <1>6, <2>2 DEF last
    <3>2. QED
      BY <1>2, <1>4, <1>6, <2>2, <3>1 DEF InOrder, Resolving, RequestKinds
  <2>3. CASE r.kind \in {"preemption", "search"} /\ \E slot \in Slots : r.slots = <<slot>>
    <3>1. new.pc = "handle" /\ new.slots = <<>>
      BY <1>6, <2>3
    <3>2. QED
      BY <1>2, <1>6, <2>3, <3>1 DEF InOrder, RequestKinds
  <2>4. QED
    BY <1>1, <1>2, <2>1, <2>2, <2>3 DEF InOrder, RequestKinds
<1>8. \A t \in Tenants : Submitted(t)' = Submitted(t)
  <2>1. new.pc # "write"
    BY <1>6
  <2>2. QED
    BY <1>1, <2>1, SubmittedIsKept DEF IndexInv
<1>9. rows' \in SUBSET StatuteRow /\ failed' \in SUBSET StatuteRow /\ nextStatute' \in Nat
  BY <1>1 DEF IndexInv, TypeOK
<1>10. QED
  BY <1>1, <1>2, <1>6, <1>7, <1>8, <1>9, IndexesUnchanged

LEMMA AddStatuteKeepsIndexInv ==
    ASSUME IndexInv, NEW w \in Workers, AddStatute(w)
    PROVE  IndexInv'
<1> DEFINE r == requests[w]
           waiting == [r EXCEPT !.pc = "write"]
           u == r.statute.tenant
<1>1. /\ r.pc = "handle" /\ r.kind = "add" /\ instances' = Indexed(r)
      /\ \/ sqlBackend /\ Becomes(w, waiting) /\ rows' = rows
         \/ ~ sqlBackend /\ Becomes(w, Idle) /\ rows' = rows \cup {r.statute}
      /\ UNCHANGED <<sqlBackend, up, nextStatute, failed>>
  BY DEF AddStatute
<1>2. /\ up /\ r \in RequestSet /\ InOrder(r, instances) /\ r.statute \in StatuteRow
      /\ u \in Tenants
  BY <1>1, BusyMeansUp
<1>3. /\ r.slots = <<>> /\ Len(r.got) = 2
      /\ r.got[1] \in 1..Len(instances["graph"][u])
      /\ r.got[2] \in 1..Len(instances["vector"][u])
  BY <1>1, <1>2 DEF InOrder, Resolving
<1>4. /\ instances' \in AllInstances
      /\ \A slot \in Slots, t \in Tenants :
            Len(instances'[slot][t]) = Len(instances[slot][t])
      /\ \A slot \in Slots, t \in Tenants :
            Contents(slot, t)' =
               Contents(slot, t) \cup (IF t = u THEN {r.statute} ELSE {})
      /\ TenantsAreIsolated'
  BY <1>1, <1>2, <1>3, IndexedFacts DEF IndexInv
<1>5. \A slot \in Slots, t \in Tenants : Len(instances[slot][t]) <= Len(instances'[slot][t])
  <2>1. \A slot \in Slots, t \in Tenants : Len(instances[slot][t]) \in Nat
    BY DEF IndexInv, TypeOK
  <2>2. QED
    BY <1>4, <2>1
<1>6. /\ waiting \in RequestSet /\ waiting.pc = "write" /\ waiting.kind = r.kind
      /\ waiting.slots = r.slots /\ waiting.got = r.got /\ waiting.statute = r.statute
  BY <1>2 DEF RequestSet
<1> HIDE DEF waiting
<1>7. InOrder(waiting, instances')
  <2>1. InOrder(r, instances')
    BY <1>2, <1>4, <1>5, OrderIsKept DEF IndexInv, TypeOK, AllInstances
  <2> HIDE DEF r
  <2>2. QED
    BY <1>1, <1>3, <1>6, <2>1 DEF InOrder, Resolving, RequestKinds
<1>8. requests' \in [Workers -> RequestSet] /\ RequestsAreInOrder'
  BY <1>1, <1>4, <1>5, <1>6, <1>7, IdleIsARequest, OthersStayInOrder DEF IndexInv
<1>9. \A t \in Tenants : \A row :
          row \in Submitted(t)' <=> row \in Submitted(t) \/ (row = r.statute /\ t = u)
  <2>1. requests \in [Workers -> RequestSet]
    BY DEF IndexInv, TypeOK
  <2>2. CASE Becomes(w, waiting) /\ rows' = rows
    <3>1. /\ requests'[w] = waiting
          /\ \A v \in Workers : v # w => requests'[v] = requests[v]
      BY <2>1, <2>2 DEF Becomes
    <3>2. \A t \in Tenants : \A row :
              row \in InFlight(t)' <=> row \in InFlight(t) \/ (row = r.statute /\ t = u)
      BY <1>1, <1>6, <3>1 DEF InFlight
    <3>3. \A t \in Tenants : RowsOf(t)' = RowsOf(t) /\ FailedOf(t)' = FailedOf(t)
      BY <1>1, <2>2 DEF RowsOf, FailedOf
    <3> HIDE DEF r, u
    <3>4. QED
      BY <3>2, <3>3 DEF Submitted
  <2>3. CASE Becomes(w, Idle) /\ rows' = rows \cup {r.statute}
    <3>1. /\ requests'[w].pc # "write" /\ requests[w].pc # "write"
          /\ \A v \in Workers : v # w => requests'[v] = requests[v]
      BY <1>1, <2>1, <2>3 DEF Becomes, Idle
    <3>2. \A t \in Tenants : InFlight(t)' = InFlight(t)
      BY <3>1 DEF InFlight
    <3>3. \A t \in Tenants : \A row :
              row \in RowsOf(t)' <=> row \in RowsOf(t) \/ (row = r.statute /\ t = u)
      BY <2>3 DEF RowsOf
    <3>4. \A t \in Tenants : FailedOf(t)' = FailedOf(t)
      BY <1>1 DEF FailedOf
    <3> HIDE DEF r, u
    <3>5. QED
      BY <3>2, <3>3, <3>4 DEF Submitted
  <2>4. QED
    BY <1>1, <2>2, <2>3
<1>10. TypeOK'
  BY <1>1, <1>2, <1>4, <1>8 DEF IndexInv, TypeOK, AllInstances
<1>11. IndexesAreComplete'
  <2>1. \A slot \in Slots, t \in Tenants :
            /\ Submitted(t) \subseteq Contents(slot, t)
            /\ Len(instances[slot][t]) \in {0, 1} => Contents(slot, t) \subseteq Submitted(t)
    BY <1>2 DEF IndexInv, IndexesAreComplete
  <2> HIDE DEF r, u
  <2>2. \A slot \in Slots, t \in Tenants :
            /\ Submitted(t)' \subseteq Contents(slot, t)'
            /\ Len(instances'[slot][t]) \in {0, 1} => Contents(slot, t)' \subseteq Submitted(t)'
    <3>1. SUFFICES ASSUME NEW slot \in Slots, NEW t \in Tenants
          PROVE  /\ Submitted(t)' \subseteq Contents(slot, t)'
                 /\ Len(instances'[slot][t]) \in {0, 1} =>
                       Contents(slot, t)' \subseteq Submitted(t)'
      OBVIOUS
    <3>2. Contents(slot, t)' = Contents(slot, t) \cup (IF t = u THEN {r.statute} ELSE {})
      BY <1>4
    <3>3. \A row : row \in Submitted(t)' <=> row \in Submitted(t) \/ (row = r.statute /\ t = u)
      BY <1>9
    <3>4. QED
      BY <1>4, <2>1, <3>2, <3>3
  <2>3. QED
    BY <2>2 DEF IndexesAreComplete
<1>12. NothingIsLeftWhenDown'
  BY <1>1, <1>2 DEF NothingIsLeftWhenDown
<1>13. QED
  BY <1>4, <1>8, <1>10, <1>11, <1>12 DEF IndexInv

LEMMA AnswerQueryKeepsIndexInv ==
    ASSUME IndexInv, NEW w \in Workers, AnswerQuery(w)
    PROVE  IndexInv'
<1>1. /\ requests[w].pc = "handle" /\ Becomes(w, Idle)
      /\ UNCHANGED <<sqlBackend, up, instances, rows, nextStatute, failed>>
  BY DEF AnswerQuery
<1>2. up
  BY <1>1, BusyMeansUp
<1>3. \A t \in Tenants : Submitted(t)' = Submitted(t)
  BY <1>1, SubmittedIsKept DEF IndexInv, Idle
<1>4. rows' \in SUBSET StatuteRow /\ failed' \in SUBSET StatuteRow /\ nextStatute' \in Nat
  BY <1>1 DEF IndexInv, TypeOK
<1>5. QED
  BY <1>1, <1>2, <1>3, <1>4, IdleIsARequest, IndexesUnchanged

LEMMA WriteKeepsIndexInv ==
    ASSUME IndexInv, NEW w \in Workers, WriteRow(w) \/ WriteFails(w)
    PROVE  IndexInv'
<1>1. /\ requests[w].pc = "write" /\ Becomes(w, Idle)
      /\ \/ rows' = rows \cup {requests[w].statute} /\ failed' = failed
         \/ failed' = failed \cup {requests[w].statute} /\ rows' = rows
      /\ UNCHANGED <<sqlBackend, up, instances, nextStatute>>
  BY DEF WriteRow, WriteFails
<1>2. up /\ requests[w].statute \in StatuteRow
  BY <1>1, BusyMeansUp
<1>3. \A t \in Tenants : Submitted(t)' = Submitted(t)
  BY <1>1, SubmittedIsSettled DEF IndexInv
<1>4. rows' \in SUBSET StatuteRow /\ failed' \in SUBSET StatuteRow /\ nextStatute' \in Nat
  BY <1>1, <1>2 DEF IndexInv, TypeOK
<1>5. QED
  BY <1>1, <1>2, <1>3, <1>4, IdleIsARequest, IndexesUnchanged

LEMMA EmptyFacts ==
    /\ Empty \in AllInstances
    /\ \A slot \in Slots, t \in Tenants : Empty[slot][t] = <<>> /\ Len(Empty[slot][t]) = 0
  BY DEF Empty, AllInstances

LEMMA CrashKeepsIndexInv ==
    ASSUME IndexInv, Crash
    PROVE  IndexInv'
<1>1. /\ up' = FALSE /\ instances' = Empty /\ requests' = [w \in Workers |-> Idle]
      /\ failed' = {} /\ UNCHANGED <<sqlBackend, nextStatute>>
      /\ \/ \E W \in SUBSET {w \in Workers : requests[w].pc = "write"} :
               rows' = rows \cup {requests[w].statute : w \in W}
         \/ rows' = {}
  BY DEF Crash
<1>2. rows' \in SUBSET StatuteRow
  <2>1. \A w \in Workers : requests[w].pc = "write" => requests[w].statute \in StatuteRow
    BY BusyMeansUp
  <2>2. QED
    BY <1>1, <2>1 DEF IndexInv, TypeOK
<1>3. TypeOK'
  BY <1>1, <1>2, EmptyFacts, IdleIsARequest DEF IndexInv, TypeOK, AllInstances
<1>4. RequestsAreInOrder'
  BY <1>1, IdleIsARequest DEF RequestsAreInOrder
<1>5. TenantsAreIsolated'
  BY <1>1, EmptyFacts DEF TenantsAreIsolated
<1>6. NothingIsLeftWhenDown' /\ IndexesAreComplete'
  BY <1>1 DEF NothingIsLeftWhenDown, IndexesAreComplete
<1>7. QED
  BY <1>3, <1>4, <1>5, <1>6 DEF IndexInv

(***************************************************************************)
(* Hydration gives every index the rows of its tenant.                     *)
(***************************************************************************)
LEMMA StartKeepsIndexInv ==
    ASSUME IndexInv, Start
    PROVE  IndexInv'
<1>1. /\ ~ up /\ up' = TRUE
      /\ instances' = [slot \in Slots |-> [t \in Tenants |-> Hydrated(slot, t)]]
      /\ UNCHANGED <<sqlBackend, rows, requests, nextStatute, failed>>
      /\ requests = [w \in Workers |-> Idle] /\ failed = {}
  BY DEF Start, IndexInv, NothingIsLeftWhenDown
<1>2. rows \in SUBSET StatuteRow
  BY DEF IndexInv, TypeOK
<1>3. \A slot \in Slots, t \in Tenants :
          /\ instances'[slot][t] = Hydrated(slot, t)
          /\ Hydrated(slot, t) \in Seq(SUBSET StatuteRow)
          /\ Len(Hydrated(slot, t)) \in {0, 1}
          /\ Len(Hydrated(slot, t)) = 0 => RowsOf(t) = {}
          /\ Len(Hydrated(slot, t)) = 1 => Hydrated(slot, t)[1] = RowsOf(t)
  <2>1. \A t \in Tenants : RowsOf(t) \in SUBSET StatuteRow
    BY <1>2 DEF RowsOf
  <2>2. \A slot \in Slots, t \in Tenants :
            IF RowsOf(t) = {} THEN Hydrated(slot, t) = <<>> ELSE Hydrated(slot, t) = <<RowsOf(t)>>
    BY DEF Hydrated
  <2>3. \A S \in SUBSET StatuteRow :
            /\ <<>> \in Seq(SUBSET StatuteRow) /\ <<S>> \in Seq(SUBSET StatuteRow)
            /\ Len(<<>>) = 0 /\ Len(<<S>>) = 1 /\ <<S>>[1] = S
    OBVIOUS
  <2>4. \A slot \in Slots, t \in Tenants : instances'[slot][t] = Hydrated(slot, t)
    BY <1>1
  <2>5. SUFFICES ASSUME NEW slot \in Slots, NEW t \in Tenants
        PROVE  /\ Hydrated(slot, t) \in Seq(SUBSET StatuteRow)
               /\ Len(Hydrated(slot, t)) \in {0, 1}
               /\ Len(Hydrated(slot, t)) = 0 => RowsOf(t) = {}
               /\ Len(Hydrated(slot, t)) = 1 => Hydrated(slot, t)[1] = RowsOf(t)
    BY <2>4
  <2>6. CASE RowsOf(t) = {}
    <3>1. Hydrated(slot, t) = <<>>
      BY <2>2, <2>6
    <3>2. Hydrated(slot, t) \in Seq(SUBSET StatuteRow) /\ Len(Hydrated(slot, t)) = 0
      BY <2>1, <2>3, <3>1
    <3>3. QED
      BY <2>6, <3>2
  <2>7. CASE RowsOf(t) # {}
    <3>1. Hydrated(slot, t) = <<RowsOf(t)>>
      BY <2>2, <2>7
    <3>2. /\ Hydrated(slot, t) \in Seq(SUBSET StatuteRow) /\ Len(Hydrated(slot, t)) = 1
          /\ Hydrated(slot, t)[1] = RowsOf(t)
      BY <2>1, <2>3, <3>1
    <3>3. QED
      BY <3>2
  <2>8. QED
    BY <2>6, <2>7
<1>4. instances' \in AllInstances
  BY <1>1, <1>3 DEF AllInstances
<1>5. \A slot \in Slots, t \in Tenants : \A row :
          (\E i \in 1..Len(instances'[slot][t]) : row \in instances'[slot][t][i])
            <=> row \in RowsOf(t)
  BY <1>3
<1>6. TypeOK'
  BY <1>1, <1>4 DEF IndexInv, TypeOK, AllInstances
<1>7. RequestsAreInOrder'
  BY <1>1, IdleIsARequest DEF RequestsAreInOrder
<1>8. TenantsAreIsolated'
  <2>1. SUFFICES ASSUME NEW slot \in Slots, NEW t \in Tenants,
                        NEW i \in 1..Len(instances'[slot][t]),
                        NEW row \in instances'[slot][t][i]
                 PROVE  row.tenant = t
    BY DEF TenantsAreIsolated
  <2>2. row \in RowsOf(t)
    BY <1>5
  <2>3. QED
    BY <2>2 DEF RowsOf
<1>9. IndexesAreComplete'
  <2>1. \A t \in Tenants : Submitted(t)' = RowsOf(t)
    BY <1>1 DEF Submitted, InFlight, RowsOf, FailedOf, Idle
  <2>2. \A t \in Tenants : RowsOf(t) \in SUBSET StatuteRow
    BY <1>2 DEF RowsOf
  <2>3. \A slot \in Slots, t \in Tenants : Contents(slot, t)' = RowsOf(t)
    BY <1>5, <2>2 DEF Contents
  <2>4. QED
    BY <2>1, <2>3 DEF IndexesAreComplete
<1>10. NothingIsLeftWhenDown'
  BY <1>1 DEF NothingIsLeftWhenDown
<1>11. QED
  BY <1>6, <1>7, <1>8, <1>9, <1>10 DEF IndexInv

LEMMA IndexInit == Init => IndexInv
<1> SUFFICES ASSUME Init PROVE IndexInv
  OBVIOUS
<1>1. TypeOK
  BY EmptyFacts, IdleIsARequest DEF Init, TypeOK, AllInstances
<1>2. RequestsAreInOrder
  BY IdleIsARequest DEF Init, RequestsAreInOrder
<1>3. TenantsAreIsolated
  BY EmptyFacts DEF Init, TenantsAreIsolated
<1>4. NothingIsLeftWhenDown
  BY DEF Init, NothingIsLeftWhenDown
<1>5. IndexesAreComplete
  <2>1. \A t \in Tenants : Submitted(t) = {}
    BY DEF Init, Submitted, InFlight, RowsOf, FailedOf, Idle
  <2>2. \A slot \in Slots, t \in Tenants : Contents(slot, t) = {}
    BY EmptyFacts DEF Init, Contents
  <2>3. QED
    BY <2>1, <2>2 DEF IndexesAreComplete
<1>6. QED
  BY <1>1, <1>2, <1>3, <1>4, <1>5 DEF IndexInv

(***************************************************************************)
(* The invariant holds whatever requests interleave, writes fail and       *)
(* processes die.                                                          *)
(***************************************************************************)
THEOREM IndexInvariantHolds == Spec => []IndexInv
<1>1. IndexInv /\ [Next]_vars => IndexInv'
  <2>1. ASSUME IndexInv, UNCHANGED vars PROVE IndexInv'
    BY <2>1 DEF vars, IndexInv, TypeOK, RequestsAreInOrder, NothingIsLeftWhenDown,
       IndexesAreComplete, TenantsAreIsolated, Contents, Submitted, InFlight, RowsOf, FailedOf
  <2>2. QED
    BY <2>1, ArriveKeepsIndexInv, LookKeepsIndexInv, BuildKeepsIndexInv,
       TakeKeepsIndexInv, AddStatuteKeepsIndexInv, AnswerQueryKeepsIndexInv,
       WriteKeepsIndexInv, CrashKeepsIndexInv, StartKeepsIndexInv DEF Next
<1>2. QED
  BY <1>1, IndexInit, PTL DEF Spec

(***************************************************************************)
(* Indexes, requests and rows keep their types.                            *)
(***************************************************************************)
THEOREM IndexTypeCorrect == Spec => []TypeOK
BY IndexInvariantHolds, PTL DEF IndexInv

(***************************************************************************)
(* No index of a tenant, a replaced one included, holds a statute of       *)
(* another (tenant_registry.py:8-15).                                      *)
(***************************************************************************)
THEOREM Isolation == Spec => []TenantsAreIsolated
BY IndexInvariantHolds, PTL DEF IndexInv

(***************************************************************************)
(* A durable statute is in some instance of each of its indexes: only the  *)
(* replacement of one can hide it.                                         *)
(***************************************************************************)
THEOREM NothingIsLost == Spec => []MissingOnlyByReplacement
<1>1. IndexInv => MissingOnlyByReplacement
  <2> SUFFICES ASSUME IndexInv, up, NEW slot \in Slots, NEW row \in rows
               PROVE  \E i \in 1..Len(instances[slot][row.tenant]) :
                         row \in instances[slot][row.tenant][i]
    BY DEF MissingOnlyByReplacement
  <2>1. row.tenant \in Tenants
    BY DEF IndexInv, TypeOK, StatuteRow
  <2>2. row \in Submitted(row.tenant)
    BY DEF Submitted, RowsOf
  <2>3. row \in Contents(slot, row.tenant)
    BY <2>1, <2>2 DEF IndexInv, IndexesAreComplete
  <2>4. QED
    BY <2>3 DEF Contents
<1>2. QED
  BY <1>1, IndexInvariantHolds, PTL

(***************************************************************************)
(* While one instance was installed, an index is the repository with the   *)
(* statutes on their way there and those whose write raised.               *)
(***************************************************************************)
THEOREM IndexesAgree == Spec => []IndexesMatchTheRepository
<1>1. IndexInv => IndexesMatchTheRepository
  <2> SUFFICES ASSUME IndexInv, up, NEW slot \in Slots, NEW t \in Tenants
               PROVE  /\ Len(instances[slot][t]) = 0 => Submitted(t) = {}
                      /\ Len(instances[slot][t]) = 1 => instances[slot][t][1] = Submitted(t)
    BY DEF IndexesMatchTheRepository
  <2>1. /\ Submitted(t) \subseteq Contents(slot, t)
        /\ Len(instances[slot][t]) \in {0, 1} => Contents(slot, t) \subseteq Submitted(t)
    BY DEF IndexInv, IndexesAreComplete
  <2>2. instances[slot][t] \in Seq(SUBSET StatuteRow)
    BY DEF IndexInv, TypeOK
  <2>3. CASE Len(instances[slot][t]) = 0
    <3>1. Contents(slot, t) = {}
      BY <2>3 DEF Contents
    <3>2. QED
      BY <2>1, <2>3, <3>1
  <2>4. CASE Len(instances[slot][t]) = 1
    <3>1. instances[slot][t][1] \in SUBSET StatuteRow
      BY <2>2, <2>4
    <3>2. Contents(slot, t) = instances[slot][t][1]
      BY <2>4, <3>1 DEF Contents
    <3>3. QED
      BY <2>1, <2>4, <3>2
  <2>5. QED
    BY <2>3, <2>4
<1>2. QED
  BY <1>1, IndexInvariantHolds, PTL
=============================================================================
