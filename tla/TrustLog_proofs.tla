---------------------------- MODULE TrustLog_proofs ----------------------------
(***************************************************************************)
(* Proofs about WriteAheadLog, for every set of facts and any number of    *)
(* appends, failed writes, crashes and restarts; and about TrustLog: what  *)
(* the two ledgers say is what the log says, for any tenants, versions and *)
(* subjects.                                                               *)
(*                                                                         *)
(* Replay is a recursive function of the length of the log.  What it       *)
(* computes is proved by the least counterexample: the smallest prefix     *)
(* that breaks a claim about every prefix would be the empty one, or one   *)
(* entry longer than a prefix that keeps it.                               *)
(***************************************************************************)
EXTENDS TrustLog, WellFoundedInduction, FiniteSetTheorems, TLAPS

-----------------------------------------------------------------------------
(* The log.                                                                *)

(***************************************************************************)
(* Entries are ordered by hash in memory and on disk, none is newer than   *)
(* the clock, and an acknowledged entry is on disk unless the disk holds a *)
(* spoilt line.                                                            *)
(***************************************************************************)
LinesAreChronological ==
    \A i, j \in 1..Len(disk) :
        i < j /\ disk[i] # Garbled /\ disk[j] # Garbled => disk[i].hash < disk[j].hash

NothingIsNewerThanTheClock ==
    /\ \A i \in 1..Len(entries) : entries[i].hash <= clock
    /\ \A i \in 1..Len(disk) : disk[i] # Garbled => disk[i].hash <= clock
    /\ \A e \in acked : e.hash <= clock

AcknowledgedAreOnDisk ==
    Loadable => \A e \in acked : \E i \in 1..Len(disk) : disk[i] = e

OpenTailHasALine == tailOpen => disk # <<>>

WInv ==
    /\ LogTypeOK
    /\ LogIsChronological
    /\ LinesAreChronological
    /\ NothingIsNewerThanTheClock
    /\ AcknowledgedAreOnDisk
    /\ AcknowledgedFactsSurvive
    /\ OpenTailHasALine

-----------------------------------------------------------------------------
(***************************************************************************)
(* The entry append() computes is newer than everything there is.          *)
(***************************************************************************)
LEMMA NextEntryFacts ==
    ASSUME LogTypeOK, NEW fact \in Facts
    PROVE  /\ NextEntry(fact) \in EntrySet
           /\ NextEntry(fact).hash = clock + 1
           /\ NextEntry(fact).sequence = Len(entries)
           /\ NextEntry(fact).prev =
                IF entries = <<>> THEN Genesis ELSE entries[Len(entries)].hash
<1>1. (IF entries = <<>> THEN Genesis ELSE entries[Len(entries)].hash) \in Nat
  <2>1. CASE entries = <<>>
    BY <2>1 DEF Genesis
  <2>2. CASE entries # <<>>
    <3>1. entries[Len(entries)] \in EntrySet
      BY <2>2 DEF LogTypeOK
    <3>2. QED
      BY <2>2, <3>1 DEF EntrySet
  <2>3. QED
    BY <2>1, <2>2
<1>2. Len(entries) \in Nat /\ clock + 1 \in Nat
  BY DEF LogTypeOK
<1>3. QED
  BY <1>1, <1>2 DEF NextEntry, Entry, EntrySet

(***************************************************************************)
(* What a write does to the lines: one more line, or a spoilt last one.    *)
(***************************************************************************)
LEMMA LineWrittenFacts ==
    ASSUME LogTypeOK, OpenTailHasALine, NEW line \in EntrySet \cup {Garbled}
    PROVE  /\ LineWritten(line) \in Seq(EntrySet \cup {Garbled})
           /\ LineWritten(line) # <<>>
           /\ ~ tailOpen => /\ Len(LineWritten(line)) = Len(disk) + 1
                            /\ LineWritten(line)[Len(disk) + 1] = line
           /\ tailOpen => /\ Len(LineWritten(line)) = Len(disk)
                          /\ Len(disk) \in 1..Len(disk)
                          /\ LineWritten(line)[Len(disk)] = Garbled
           /\ \A i \in 1..Len(disk) :
                 \/ LineWritten(line)[i] = disk[i]
                 \/ (tailOpen /\ LineWritten(line)[i] = Garbled)
<1>1. CASE tailOpen
  BY <1>1 DEF LogTypeOK, OpenTailHasALine, LineWritten
<1>2. CASE ~ tailOpen
  BY <1>2 DEF LogTypeOK, LineWritten
<1>3. QED
  BY <1>1, <1>2 DEF LogTypeOK

(***************************************************************************)
(* Appending to memory keeps what concerns memory.                         *)
(***************************************************************************)
LEMMA MemoryStep ==
    ASSUME WInv, NEW fact \in Facts, AppendedInMemory(fact)
    PROVE  /\ entries' \in Seq(EntrySet) /\ clock' \in Nat /\ clock' = clock + 1
           /\ Len(entries') = Len(entries) + 1
           /\ entries'[Len(entries) + 1] = NextEntry(fact)
           /\ \A i \in 1..Len(entries) : entries'[i] = entries[i]
           /\ LogIsChronological'
           /\ \A i \in 1..Len(entries') : entries'[i].hash <= clock'
<1>1. /\ entries' = Append(entries, NextEntry(fact)) /\ clock' = clock + 1
      /\ entries \in Seq(EntrySet) /\ clock \in Nat
  BY DEF AppendedInMemory, WInv, LogTypeOK
<1>2. NextEntry(fact) \in EntrySet /\ NextEntry(fact).hash = clock + 1
  BY NextEntryFacts DEF WInv
<1>3. /\ entries' \in Seq(EntrySet) /\ Len(entries') = Len(entries) + 1
      /\ entries'[Len(entries) + 1] = NextEntry(fact)
      /\ \A i \in 1..Len(entries) : entries'[i] = entries[i]
  BY <1>1, <1>2
<1>4. \A i \in 1..Len(entries) : entries[i].hash \in Nat /\ entries[i].hash <= clock
  <2>1. \A i \in 1..Len(entries) : entries[i] \in EntrySet
    BY <1>1
  <2>2. QED
    BY <2>1 DEF WInv, NothingIsNewerThanTheClock, EntrySet
<1>5. LogIsChronological'
  <2>1. SUFFICES ASSUME NEW i \in 1..Len(entries'), NEW j \in 1..Len(entries'), i < j
                 PROVE  entries'[i].hash < entries'[j].hash
    BY DEF LogIsChronological
  <2>2. i \in 1..Len(entries) /\ (j \in 1..Len(entries) \/ j = Len(entries) + 1)
    BY <1>1, <1>3, <2>1
  <2>3. CASE j \in 1..Len(entries)
    BY <1>3, <2>1, <2>2, <2>3 DEF WInv, LogIsChronological
  <2>4. CASE j = Len(entries) + 1
    BY <1>1, <1>2, <1>3, <1>4, <2>2, <2>4
  <2>5. QED
    BY <2>2, <2>3, <2>4
<1>6. \A i \in 1..Len(entries') : entries'[i].hash <= clock'
  <2>1. SUFFICES ASSUME NEW i \in 1..Len(entries') PROVE entries'[i].hash <= clock'
    OBVIOUS
  <2>2. i \in 1..Len(entries) \/ i = Len(entries) + 1
    BY <1>1, <1>3
  <2>3. QED
    BY <1>1, <1>2, <1>3, <1>4, <2>2
<1>7. QED
  BY <1>1, <1>3, <1>5, <1>6

(***************************************************************************)
(* A write of a new line keeps what concerns the file.                     *)
(***************************************************************************)
LEMMA FileStep ==
    ASSUME WInv, NEW line \in EntrySet \cup {Garbled},
           line # Garbled => line.hash = clock + 1,
           disk' = LineWritten(line), clock' = clock + 1
    PROVE  /\ disk' \in Seq(EntrySet \cup {Garbled}) /\ disk' # <<>>
           /\ LinesAreChronological'
           /\ \A i \in 1..Len(disk') : disk'[i] # Garbled => disk'[i].hash <= clock'
           /\ Loadable' => /\ Loadable /\ ~ tailOpen
                           /\ Len(disk') = Len(disk) + 1
                           /\ disk'[Len(disk) + 1] = line
                           /\ \A i \in 1..Len(disk) : disk'[i] = disk[i]
<1>1. clock \in Nat /\ disk \in Seq(EntrySet \cup {Garbled})
  BY DEF WInv, LogTypeOK
<1>2. /\ disk' \in Seq(EntrySet \cup {Garbled}) /\ disk' # <<>>
      /\ ~ tailOpen => Len(disk') = Len(disk) + 1 /\ disk'[Len(disk) + 1] = line
      /\ tailOpen => /\ Len(disk') = Len(disk) /\ Len(disk) \in 1..Len(disk)
                     /\ disk'[Len(disk)] = Garbled
      /\ \A i \in 1..Len(disk) :
            disk'[i] = disk[i] \/ (tailOpen /\ disk'[i] = Garbled)
  BY LineWrittenFacts DEF WInv
<1>3. \A i \in 1..Len(disk) : disk[i] # Garbled => disk[i].hash \in Nat /\ disk[i].hash <= clock
  <2>1. \A i \in 1..Len(disk) : disk[i] \in EntrySet \cup {Garbled}
    BY <1>1
  <2>2. QED
    BY <2>1 DEF WInv, NothingIsNewerThanTheClock, EntrySet
<1>4. \A i \in 1..Len(disk') :
        i \in 1..Len(disk) \/ (~ tailOpen /\ i = Len(disk) + 1)
  BY <1>1, <1>2
<1>5. LinesAreChronological'
  <2>1. SUFFICES ASSUME NEW i \in 1..Len(disk'), NEW j \in 1..Len(disk'), i < j,
                        disk'[i] # Garbled, disk'[j] # Garbled
                 PROVE  disk'[i].hash < disk'[j].hash
    BY DEF LinesAreChronological
  <2>2. i \in 1..Len(disk) /\ disk'[i] = disk[i]
    BY <1>1, <1>2, <1>4, <2>1
  <2>3. CASE j \in 1..Len(disk)
    BY <1>2, <2>1, <2>2, <2>3 DEF WInv, LinesAreChronological
  <2>4. CASE ~ tailOpen /\ j = Len(disk) + 1
    BY <1>1, <1>2, <1>3, <2>1, <2>2, <2>4
  <2>5. QED
    BY <1>4, <2>3, <2>4
<1>6. \A i \in 1..Len(disk') : disk'[i] # Garbled => disk'[i].hash <= clock'
  <2>1. SUFFICES ASSUME NEW i \in 1..Len(disk'), disk'[i] # Garbled
                 PROVE  disk'[i].hash <= clock'
    OBVIOUS
  <2>2. QED
    BY <1>1, <1>2, <1>3, <1>4, <2>1
<1>7. Loadable' => /\ Loadable /\ ~ tailOpen
                   /\ Len(disk') = Len(disk) + 1
                   /\ disk'[Len(disk) + 1] = line
                   /\ \A i \in 1..Len(disk) : disk'[i] = disk[i]
  <2>1. SUFFICES ASSUME \A i \in 1..Len(disk') : disk'[i] # Garbled
                 PROVE  /\ Loadable /\ ~ tailOpen
                        /\ Len(disk') = Len(disk) + 1
                        /\ disk'[Len(disk) + 1] = line
                        /\ \A i \in 1..Len(disk) : disk'[i] = disk[i]
    BY DEF Loadable
  <2>2. ~ tailOpen
    BY <1>2, <2>1
  <2>3. QED
    BY <1>1, <1>2, <2>1, <2>2 DEF Loadable
<1>8. QED
  BY <1>2, <1>5, <1>6, <1>7

-----------------------------------------------------------------------------
(* Inductiveness.                                                          *)

(***************************************************************************)
(* The empty log satisfies the invariant.                                  *)
(***************************************************************************)
LEMMA LogInitEstablishesWInv == LogInit => WInv
<1> SUFFICES ASSUME LogInit PROVE WInv
  OBVIOUS
<1>1. LogTypeOK
  <2>1. <<>> \in Seq(EntrySet) /\ <<>> \in Seq(EntrySet \cup {Garbled})
    OBVIOUS
  <2>2. QED
    BY <2>1 DEF LogInit, LogTypeOK
<1>2. Len(entries) = 0 /\ Len(disk) = 0 /\ acked = {} /\ tailOpen = FALSE
  BY DEF LogInit
<1>3. QED
  BY <1>1, <1>2
     DEF WInv, LogIsChronological, LinesAreChronological, NothingIsNewerThanTheClock,
         AcknowledgedAreOnDisk, AcknowledgedFactsSurvive, OpenTailHasALine

(***************************************************************************)
(* An append that returns leaves its entry in memory and on its line.      *)
(***************************************************************************)
LEMMA AppendOkPreservesWInv ==
    ASSUME WInv, NEW fact \in Facts, AppendOk(fact)
    PROVE  WInv'
<1> DEFINE e == NextEntry(fact)
<1>1. /\ AppendedInMemory(fact) /\ disk' = LineWritten(e) /\ tailOpen' = FALSE
      /\ acked' = acked \cup {e} /\ UNCHANGED <<up, lost, failures>> /\ up
  BY DEF AppendOk, AppendedInMemory
<1>2. e \in EntrySet /\ e.hash = clock + 1
  BY NextEntryFacts DEF WInv
<1>3. /\ entries' \in Seq(EntrySet) /\ clock' \in Nat /\ clock' = clock + 1
      /\ Len(entries') = Len(entries) + 1
      /\ entries'[Len(entries) + 1] = e
      /\ \A i \in 1..Len(entries) : entries'[i] = entries[i]
      /\ LogIsChronological'
      /\ \A i \in 1..Len(entries') : entries'[i].hash <= clock'
  BY <1>1, MemoryStep
<1> HIDE DEF e
<1>4. /\ disk' \in Seq(EntrySet \cup {Garbled}) /\ disk' # <<>>
      /\ LinesAreChronological'
      /\ \A i \in 1..Len(disk') : disk'[i] # Garbled => disk'[i].hash <= clock'
      /\ Loadable' => /\ Loadable /\ ~ tailOpen
                      /\ Len(disk') = Len(disk) + 1
                      /\ disk'[Len(disk) + 1] = e
                      /\ \A i \in 1..Len(disk) : disk'[i] = disk[i]
  BY <1>1, <1>2, <1>3, FileStep
<1>5. LogTypeOK'
  BY <1>1, <1>2, <1>3, <1>4 DEF WInv, LogTypeOK
<1>6. \A x \in acked' : x.hash <= clock'
  <2>1. \A x \in acked : x.hash \in Nat /\ x.hash <= clock /\ clock \in Nat
    BY DEF WInv, LogTypeOK, EntrySet, NothingIsNewerThanTheClock
  <2>2. QED
    BY <1>1, <1>2, <1>3, <2>1
<1>7. NothingIsNewerThanTheClock'
  BY <1>3, <1>4, <1>6 DEF NothingIsNewerThanTheClock
<1>8. AcknowledgedAreOnDisk'
  <2>1. SUFFICES ASSUME Loadable', NEW x \in acked'
                 PROVE  \E i \in 1..Len(disk') : disk'[i] = x
    BY DEF AcknowledgedAreOnDisk
  <2>2. CASE x = e
    BY <1>4, <2>1, <2>2 DEF WInv, LogTypeOK
  <2>3. CASE x \in acked
    <3>1. PICK i \in 1..Len(disk) : disk[i] = x
      BY <1>4, <2>1, <2>3 DEF WInv, AcknowledgedAreOnDisk
    <3>2. QED
      BY <1>4, <2>1, <3>1 DEF WInv, LogTypeOK
  <2>4. QED
    BY <1>1, <2>2, <2>3
<1>9. AcknowledgedFactsSurvive'
  <2>1. SUFFICES ASSUME NEW x \in acked'
                 PROVE  \E i \in 1..Len(entries') : entries'[i] = x
    BY DEF AcknowledgedFactsSurvive
  <2>2. CASE x = e
    BY <1>3, <2>2 DEF WInv, LogTypeOK
  <2>3. CASE x \in acked
    <3>1. PICK i \in 1..Len(entries) : entries[i] = x
      BY <1>1, <2>3 DEF WInv, AcknowledgedFactsSurvive
    <3>2. QED
      BY <1>3, <3>1 DEF WInv, LogTypeOK
  <2>4. QED
    BY <1>1, <2>2, <2>3
<1>10. OpenTailHasALine'
  BY <1>1 DEF OpenTailHasALine
<1>11. QED
  BY <1>3, <1>4, <1>5, <1>7, <1>8, <1>9, <1>10 DEF WInv

(***************************************************************************)
(* An append that raises leaves an entry in memory that the file may lack. *)
(***************************************************************************)
LEMMA AppendFailsPreservesWInv ==
    ASSUME WInv, LogBounds, NEW fact \in Facts, NEW how, AppendFails(fact, how)
    PROVE  WInv'
<1> DEFINE e == NextEntry(fact)
<1>1. /\ AppendedInMemory(fact) /\ up
      /\ lost' = lost \cup {e} /\ failures' = failures + 1 /\ UNCHANGED <<up, acked>>
      /\ \/ UNCHANGED <<disk, tailOpen>>
         \/ disk' = LineWritten(Garbled) /\ tailOpen' = TRUE
         \/ disk' = LineWritten(e) /\ tailOpen' = TRUE
  BY DEF AppendFails, AppendedInMemory
<1>2. e \in EntrySet /\ e.hash = clock + 1
  BY NextEntryFacts DEF WInv
<1>3. /\ entries' \in Seq(EntrySet) /\ clock' \in Nat /\ clock' = clock + 1
      /\ Len(entries') = Len(entries) + 1
      /\ entries'[Len(entries) + 1] = e
      /\ \A i \in 1..Len(entries) : entries'[i] = entries[i]
      /\ LogIsChronological'
      /\ \A i \in 1..Len(entries') : entries'[i].hash <= clock'
  BY <1>1, MemoryStep
<1> HIDE DEF e
<1>4. /\ disk' \in Seq(EntrySet \cup {Garbled})
      /\ LinesAreChronological'
      /\ \A i \in 1..Len(disk') : disk'[i] # Garbled => disk'[i].hash <= clock'
      /\ Loadable' => /\ Loadable
                      /\ Len(disk') \in {Len(disk), Len(disk) + 1}
                      /\ \A i \in 1..Len(disk) : disk'[i] = disk[i]
      /\ tailOpen' \in BOOLEAN /\ OpenTailHasALine'
  <2>1. CASE UNCHANGED <<disk, tailOpen>>
    <3>1. \A i \in 1..Len(disk) : disk[i] # Garbled => disk[i].hash \in Nat
      <4>1. \A i \in 1..Len(disk) : disk[i] \in EntrySet \cup {Garbled}
        BY DEF WInv, LogTypeOK
      <4>2. QED
        BY <4>1 DEF EntrySet
    <3>2. clock \in Nat
      BY DEF WInv, LogTypeOK
    <3>3. QED
      BY <1>3, <2>1, <3>1, <3>2
         DEF WInv, LogTypeOK, LinesAreChronological, NothingIsNewerThanTheClock,
             Loadable, OpenTailHasALine
  <2>2. CASE disk' = LineWritten(Garbled) /\ tailOpen' = TRUE
    BY <1>3, <2>2, FileStep DEF OpenTailHasALine
  <2>3. CASE disk' = LineWritten(e) /\ tailOpen' = TRUE
    BY <1>2, <1>3, <2>3, FileStep DEF OpenTailHasALine
  <2>4. QED
    BY <1>1, <2>1, <2>2, <2>3
<1>5. LogTypeOK'
  BY <1>1, <1>2, <1>3, <1>4 DEF WInv, LogTypeOK
<1>6. \A x \in acked' : x.hash <= clock'
  <2>1. \A x \in acked : x.hash \in Nat /\ x.hash <= clock /\ clock \in Nat
    BY DEF WInv, LogTypeOK, EntrySet, NothingIsNewerThanTheClock
  <2>2. QED
    BY <1>1, <1>3, <2>1
<1>7. NothingIsNewerThanTheClock'
  BY <1>3, <1>4, <1>6 DEF NothingIsNewerThanTheClock
<1>8. AcknowledgedAreOnDisk'
  <2>1. SUFFICES ASSUME Loadable', NEW x \in acked
                 PROVE  \E i \in 1..Len(disk') : disk'[i] = x
    BY <1>1 DEF AcknowledgedAreOnDisk
  <2>2. PICK i \in 1..Len(disk) : disk[i] = x
    BY <1>4, <2>1 DEF WInv, AcknowledgedAreOnDisk
  <2>3. QED
    BY <1>4, <2>1, <2>2 DEF WInv, LogTypeOK
<1>9. AcknowledgedFactsSurvive'
  <2>1. SUFFICES ASSUME NEW x \in acked
                 PROVE  \E i \in 1..Len(entries') : entries'[i] = x
    BY <1>1 DEF AcknowledgedFactsSurvive
  <2>2. PICK i \in 1..Len(entries) : entries[i] = x
    BY <1>1 DEF WInv, AcknowledgedFactsSurvive
  <2>3. QED
    BY <1>3, <2>2 DEF WInv, LogTypeOK
<1>10. QED
  BY <1>3, <1>4, <1>5, <1>7, <1>8, <1>9 DEF WInv

(***************************************************************************)
(* A crash empties the memory and leaves the file as it is.                *)
(***************************************************************************)
LEMMA CrashPreservesWInv ==
    ASSUME WInv, CrashLog
    PROVE  WInv'
<1>1. entries' = <<>> /\ up' = FALSE
      /\ UNCHANGED <<disk, tailOpen, clock, acked, lost, failures>>
  BY DEF CrashLog
<1>2. LogTypeOK'
  <2>1. <<>> \in Seq(EntrySet)
    OBVIOUS
  <2>2. QED
    BY <1>1, <2>1 DEF WInv, LogTypeOK
<1>3. LogIsChronological' /\ AcknowledgedFactsSurvive'
  BY <1>1 DEF LogIsChronological, AcknowledgedFactsSurvive
<1>4. LinesAreChronological' /\ AcknowledgedAreOnDisk' /\ OpenTailHasALine'
  BY <1>1 DEF WInv, LinesAreChronological, AcknowledgedAreOnDisk, Loadable, OpenTailHasALine
<1>5. NothingIsNewerThanTheClock'
  BY <1>1 DEF WInv, NothingIsNewerThanTheClock
<1>6. QED
  BY <1>2, <1>3, <1>4, <1>5 DEF WInv

(***************************************************************************)
(* A restart that accepts the file holds its lines, all of them.           *)
(***************************************************************************)
LEMMA StartPreservesWInv ==
    ASSUME WInv, StartLog
    PROVE  WInv'
<1>1. entries' = disk /\ up' = TRUE /\ Loadable /\ lost' = {}
      /\ UNCHANGED <<disk, tailOpen, clock, acked, failures>>
  BY DEF StartLog
<1>2. \A i \in 1..Len(disk) : disk[i] # Garbled
  BY <1>1 DEF Loadable
<1>3. LogTypeOK'
  <2>1. disk \in Seq(EntrySet)
    BY <1>2 DEF WInv, LogTypeOK
  <2>2. QED
    BY <1>1, <2>1 DEF WInv, LogTypeOK
<1>4. LogIsChronological'
  BY <1>1, <1>2 DEF WInv, LinesAreChronological, LogIsChronological
<1>5. AcknowledgedFactsSurvive'
  BY <1>1 DEF WInv, AcknowledgedAreOnDisk, AcknowledgedFactsSurvive
<1>6. LinesAreChronological' /\ AcknowledgedAreOnDisk' /\ OpenTailHasALine'
  BY <1>1 DEF WInv, LinesAreChronological, AcknowledgedAreOnDisk, Loadable, OpenTailHasALine
<1>7. NothingIsNewerThanTheClock'
  BY <1>1, <1>2 DEF WInv, NothingIsNewerThanTheClock
<1>8. QED
  BY <1>3, <1>4, <1>5, <1>6, <1>7 DEF WInv

(***************************************************************************)
(* The invariant holds in every reachable state.                           *)
(***************************************************************************)
THEOREM LogInvariantHolds == LogSpec => []WInv
<1>1. LogBounds /\ WInv /\ [LogNext]_wvars => WInv'
  <2>1. ASSUME WInv, UNCHANGED wvars PROVE WInv'
    BY <2>1 DEF wvars, WInv, LogTypeOK, LogIsChronological, LinesAreChronological,
       NothingIsNewerThanTheClock, AcknowledgedAreOnDisk, AcknowledgedFactsSurvive,
       OpenTailHasALine, Loadable
  <2>2. QED
    BY <2>1, AppendOkPreservesWInv, AppendFailsPreservesWInv, CrashPreservesWInv,
       StartPreservesWInv DEF LogNext
<1>2. LogBounds
  BY LogBounds
<1>3. QED
  BY <1>1, <1>2, LogInitEstablishesWInv, PTL DEF LogSpec

(***************************************************************************)
(* Memory, file and histories keep their types.                            *)
(***************************************************************************)
THEOREM LogTypeCorrect == LogSpec => []LogTypeOK
BY LogInvariantHolds, PTL DEF WInv

(***************************************************************************)
(* No process ever comes up without a fact that append() acknowledged,     *)
(* whatever writes failed and wherever the process died.                   *)
(***************************************************************************)
THEOREM Durability == LogSpec => []AcknowledgedFactsSurvive
BY LogInvariantHolds, PTL DEF WInv

(***************************************************************************)
(* The order of appends is the order of the log, in every process.         *)
(***************************************************************************)
THEOREM Chronology == LogSpec => []LogIsChronological
BY LogInvariantHolds, PTL DEF WInv

-----------------------------------------------------------------------------
(* The chain.                                                              *)

(***************************************************************************)
(* What keeps a chain whole, and a whole chain numbered: a file whose      *)
(* chain verifies is what memory starts with, so an entry computed from    *)
(* memory continues the file only where the two are equal.                 *)
(***************************************************************************)
HashesAreNotGenesis ==
    /\ \A i \in 1..Len(entries) : entries[i].hash > Genesis
    /\ \A i \in 1..Len(disk) : disk[i] # Garbled => disk[i].hash > Genesis

WholeFile == Loadable /\ Verify(disk)

WholeFileIsInMemory ==
    up /\ WholeFile =>
        /\ Len(disk) <= Len(entries)
        /\ \A i \in 1..Len(disk) : disk[i] = entries[i]

WholeFileIsNumbered ==
    WholeFile => \A i \in 1..Len(disk) : disk[i].sequence = i - 1

NoFailureNoDamage ==
    failures = 0 => /\ ~ tailOpen /\ WholeFile
                    /\ up => entries = disk

ChainInv ==
    /\ HashesAreNotGenesis
    /\ WholeFileIsInMemory
    /\ WholeFileIsNumbered
    /\ NoFailureNoDamage
    /\ SequenceNamesOneEntry

(***************************************************************************)
(* One element more: the others stay, the new one is last.                 *)
(***************************************************************************)
LEMMA AppendFacts ==
    ASSUME NEW S, NEW log \in Seq(S), NEW e \in S
    PROVE  \A i \in 1..Len(Append(log, e)) :
              \/ i \in 1..Len(log) /\ Append(log, e)[i] = log[i]
              \/ Append(log, e)[i] = e /\ i = Len(log) + 1
OBVIOUS

(***************************************************************************)
(* A chain with one entry more verifies when the shorter one does and the  *)
(* new entry names its predecessor.                                        *)
(***************************************************************************)
LEMMA LongerChain ==
    ASSUME NEW S, NEW log \in Seq(S), NEW e \in S
    PROVE  Verify(Append(log, e)) <=>
              /\ Verify(log)
              /\ e.prev = IF log = <<>> THEN Genesis ELSE log[Len(log)].hash
<1> DEFINE longer == Append(log, e)
<1>1. /\ Len(longer) = Len(log) + 1 /\ Len(log) \in Nat
      /\ longer[Len(log) + 1] = e
      /\ \A i \in 1..Len(log) : longer[i] = log[i]
  OBVIOUS
<1>2. log = <<>> <=> Len(log) + 1 = 1
  OBVIOUS
<1>3. \A i \in 1..Len(log) : i - 1 \in 1..Len(log) \/ i = 1
  BY <1>1
<1> HIDE DEF longer
<1>4. ASSUME Verify(longer)
      PROVE  /\ Verify(log)
             /\ e.prev = IF log = <<>> THEN Genesis ELSE log[Len(log)].hash
  <2>1. Verify(log)
    BY <1>1, <1>3, <1>4 DEF Verify
  <2>2. e.prev = IF log = <<>> THEN Genesis ELSE log[Len(log)].hash
    <3>1. Len(log) + 1 \in 1..Len(longer)
      BY <1>1
    <3>2. longer[Len(log) + 1].prev =
            IF Len(log) + 1 = 1 THEN Genesis ELSE longer[Len(log) + 1 - 1].hash
      BY <1>4, <3>1 DEF Verify
    <3>3. Len(log) + 1 - 1 = Len(log) /\ (Len(log) + 1 # 1 => Len(log) \in 1..Len(log))
      BY <1>1
    <3>4. QED
      BY <1>1, <1>2, <3>2, <3>3
  <2>3. QED
    BY <2>1, <2>2
<1>5. ASSUME Verify(log), e.prev = IF log = <<>> THEN Genesis ELSE log[Len(log)].hash
      PROVE  Verify(longer)
  <2>1. SUFFICES ASSUME NEW i \in 1..Len(longer)
                 PROVE  longer[i].prev = IF i = 1 THEN Genesis ELSE longer[i - 1].hash
    BY DEF Verify
  <2>2. CASE i \in 1..Len(log)
    BY <1>1, <1>3, <1>5, <2>2 DEF Verify
  <2>3. CASE i = Len(log) + 1
    <3>1. i - 1 = Len(log) /\ (i # 1 => Len(log) \in 1..Len(log))
      BY <1>1, <2>3
    <3>2. QED
      BY <1>1, <1>2, <1>5, <2>3, <3>1
  <2>4. QED
    BY <1>1, <2>1, <2>2, <2>3
<1>6. QED
  BY <1>4, <1>5 DEF longer

(***************************************************************************)
(* Memory: the new entry names its predecessor and carries its position.   *)
(***************************************************************************)
LEMMA ChainGrowsInMemory ==
    ASSUME WInv, ChainInv, NEW fact \in Facts, AppendedInMemory(fact)
    PROVE  /\ Verify(entries') <=> Verify(entries)
           /\ SequenceNamesOneEntry'
           /\ \A i \in 1..Len(entries') : entries'[i].hash > Genesis
<1> DEFINE e == NextEntry(fact)
<1>1. /\ entries' = Append(entries, e) /\ entries \in Seq(EntrySet) /\ clock \in Nat
      /\ up /\ e \in EntrySet /\ e.hash = clock + 1 /\ e.sequence = Len(entries)
      /\ e.prev = IF entries = <<>> THEN Genesis ELSE entries[Len(entries)].hash
  BY NextEntryFacts DEF WInv, LogTypeOK, AppendedInMemory
<1> HIDE DEF e
<1>2. Verify(entries') <=> Verify(entries)
  BY <1>1, LongerChain
<1>3. \A i \in 1..Len(entries') :
          entries'[i] = IF i = Len(entries) + 1 THEN e ELSE entries[i]
  BY <1>1
<1>4. \A i \in 1..Len(entries') : i # Len(entries) + 1 => i \in 1..Len(entries)
  BY <1>1
<1>5. SequenceNamesOneEntry'
  <2>1. SUFFICES ASSUME Verify(entries'), NEW i \in 1..Len(entries')
                 PROVE  entries'[i].sequence = i - 1
    BY DEF SequenceNamesOneEntry
  <2>2. CASE i = Len(entries) + 1
    BY <1>1, <1>3, <2>2
  <2>3. CASE i # Len(entries) + 1
    BY <1>1, <1>2, <1>3, <1>4, <2>1, <2>3 DEF ChainInv, SequenceNamesOneEntry
  <2>4. QED
    BY <2>2, <2>3
<1>6. \A i \in 1..Len(entries') : entries'[i].hash > Genesis
  <2>1. e.hash > Genesis
    BY <1>1 DEF Genesis
  <2>2. QED
    BY <1>3, <1>4, <2>1 DEF ChainInv, HashesAreNotGenesis
<1>7. QED
  BY <1>2, <1>5, <1>6

(***************************************************************************)
(* File: if its chain verifies with the new entry on it, then it was the   *)
(* whole memory before, and is now.                                        *)
(***************************************************************************)
LEMMA ChainGrowsOnDisk ==
    ASSUME WInv, ChainInv, NEW fact \in Facts, AppendedInMemory(fact),
           disk' = LineWritten(NextEntry(fact))
    PROVE  /\ \A i \in 1..Len(disk') : disk'[i] # Garbled => disk'[i].hash > Genesis
           /\ WholeFile' => /\ ~ tailOpen /\ entries = disk /\ entries' = disk'
                            /\ \A i \in 1..Len(disk') : disk'[i].sequence = i - 1
<1> DEFINE e == NextEntry(fact)
<1>1. /\ entries' = Append(entries, e) /\ entries \in Seq(EntrySet) /\ clock \in Nat
      /\ disk \in Seq(EntrySet \cup {Garbled}) /\ clock' = clock + 1
      /\ up /\ e \in EntrySet /\ e.hash = clock + 1 /\ e.sequence = Len(entries)
      /\ e.prev = IF entries = <<>> THEN Genesis ELSE entries[Len(entries)].hash
  BY NextEntryFacts DEF WInv, LogTypeOK, AppendedInMemory
<1>2. Loadable' => Loadable /\ ~ tailOpen
  BY <1>1, FileStep
<1>3. ~ tailOpen => disk' = Append(disk, e)
  BY DEF LineWritten
<1>4. tailOpen => disk' = [disk EXCEPT ![Len(disk)] = Garbled]
  BY DEF LineWritten
<1> HIDE DEF e
<1>5. e.hash > Genesis
  BY <1>1 DEF Genesis
<1>6. ~ tailOpen =>
         \A i \in 1..Len(disk') :
            (i \in 1..Len(disk) /\ disk'[i] = disk[i]) \/ (disk'[i] = e /\ i = Len(disk) + 1)
  <2>1. e \in EntrySet \cup {Garbled}
    BY <1>1
  <2>2. SUFFICES ASSUME ~ tailOpen
                 PROVE  \A i \in 1..Len(Append(disk, e)) :
                           \/ i \in 1..Len(disk) /\ Append(disk, e)[i] = disk[i]
                           \/ Append(disk, e)[i] = e /\ i = Len(disk) + 1
    BY <1>3, Zenon
  <2>3. QED
    BY <1>1, <2>1, AppendFacts, Zenon
<1>7. \A i \in 1..Len(disk') : disk'[i] # Garbled => disk'[i].hash > Genesis
  <2>1. \A i \in 1..Len(disk) : disk[i] # Garbled => disk[i].hash > Genesis
    BY DEF ChainInv, HashesAreNotGenesis
  <2>2. CASE tailOpen
    BY <1>1, <1>4, <2>1, <2>2
  <2>3. CASE ~ tailOpen
    <3>1. \A i \in 1..Len(disk') :
              (i \in 1..Len(disk) /\ disk'[i] = disk[i]) \/ disk'[i] = e
      BY <1>6, <2>3
    <3>2. QED
      BY <1>5, <2>1, <3>1
  <2>4. QED
    BY <2>2, <2>3
<1>8. ASSUME WholeFile'
      PROVE  /\ ~ tailOpen /\ entries = disk /\ entries' = disk'
             /\ \A i \in 1..Len(disk') : disk'[i].sequence = i - 1
  <2>1. Loadable /\ ~ tailOpen /\ disk' = Append(disk, e) /\ Verify(disk')
    BY <1>2, <1>3, <1>8 DEF WholeFile
  <2>2. /\ Verify(disk)
        /\ e.prev = IF disk = <<>> THEN Genesis ELSE disk[Len(disk)].hash
    BY <1>1, <2>1, LongerChain
  <2>3. /\ Len(disk) <= Len(entries)
        /\ \A i \in 1..Len(disk) : disk[i] = entries[i]
        /\ \A i \in 1..Len(disk) : disk[i].sequence = i - 1
    BY <1>1, <2>1, <2>2
       DEF ChainInv, WholeFile, WholeFileIsInMemory, WholeFileIsNumbered
  <2>4. Len(disk) = Len(entries)
    <3>1. CASE disk = <<>>
      <4>1. ~ (entries # <<>>)
        <5>1. SUFFICES ASSUME entries # <<>> PROVE FALSE
          OBVIOUS
        <5>2. Len(entries) \in 1..Len(entries)
          BY <1>1, <5>1
        <5>3. entries[Len(entries)].hash > Genesis /\ entries[Len(entries)].hash = Genesis
          BY <1>1, <2>2, <3>1, <5>1, <5>2 DEF ChainInv, HashesAreNotGenesis
        <5>4. QED
          BY <5>3 DEF Genesis
      <4>2. QED
        BY <3>1, <4>1
    <3>2. CASE disk # <<>>
      <4>1. Len(disk) \in 1..Len(disk) /\ Len(disk) \in 1..Len(entries)
            /\ Len(entries) \in 1..Len(entries) /\ entries # <<>>
        BY <1>1, <2>3, <3>2
      <4>2. entries[Len(disk)].hash = entries[Len(entries)].hash
        BY <1>1, <2>2, <2>3, <3>2, <4>1
      <4>3. entries[Len(disk)].hash \in Nat
        <5>1. entries[Len(disk)] \in EntrySet
          BY <1>1, <4>1
        <5>2. QED
          BY <5>1 DEF EntrySet
      <4>4. ~ (Len(disk) < Len(entries))
        BY <4>1, <4>2, <4>3 DEF WInv, LogIsChronological
      <4>5. QED
        BY <1>1, <2>3, <4>4
    <3>3. QED
      BY <3>1, <3>2
  <2>5. entries = disk
    BY <1>1, <2>3, <2>4
  <2>6. \A i \in 1..Len(disk') : disk'[i].sequence = i - 1
    <3>1. SUFFICES ASSUME NEW i \in 1..Len(disk') PROVE disk'[i].sequence = i - 1
      OBVIOUS
    <3>2. CASE i \in 1..Len(disk) /\ disk'[i] = disk[i]
      BY <2>3, <3>2
    <3>3. CASE disk'[i] = e /\ i = Len(disk) + 1
      <4>1. Len(disk) + 1 - 1 = Len(entries)
        BY <1>1, <2>4
      <4>2. QED
        BY <1>1, <3>3, <4>1
    <3>4. QED
      BY <1>6, <2>1, <3>1, <3>2, <3>3
  <2>7. QED
    BY <1>1, <2>1, <2>5, <2>6
<1>9. QED
  BY <1>7, <1>8

(***************************************************************************)
(* An append that returns keeps the chain: with no failure so far the file *)
(* and the memory grow alike.                                              *)
(***************************************************************************)
LEMMA AppendOkPreservesChainInv ==
    ASSUME WInv, ChainInv, NEW fact \in Facts, AppendOk(fact)
    PROVE  ChainInv'
<1> DEFINE e == NextEntry(fact)
<1>1. /\ AppendedInMemory(fact) /\ disk' = LineWritten(e) /\ tailOpen' = FALSE
      /\ entries' = Append(entries, e) /\ up' = up /\ up /\ failures' = failures
  BY DEF AppendOk, AppendedInMemory
<1>2. /\ Verify(entries') <=> Verify(entries)
      /\ SequenceNamesOneEntry'
      /\ \A i \in 1..Len(entries') : entries'[i].hash > Genesis
  BY <1>1, ChainGrowsInMemory
<1>3. /\ \A i \in 1..Len(disk') : disk'[i] # Garbled => disk'[i].hash > Genesis
      /\ WholeFile' => /\ ~ tailOpen /\ entries = disk /\ entries' = disk'
                       /\ \A i \in 1..Len(disk') : disk'[i].sequence = i - 1
  BY <1>1, ChainGrowsOnDisk
<1>4. e \in EntrySet
  BY NextEntryFacts DEF WInv
<1>5. HashesAreNotGenesis'
  BY <1>2, <1>3 DEF HashesAreNotGenesis
<1>6. WholeFileIsInMemory' /\ WholeFileIsNumbered'
  <2>1. entries \in Seq(EntrySet) /\ Len(entries') \in Nat
    BY <1>1, <1>4 DEF WInv, LogTypeOK
  <2>2. QED
    BY <1>3, <2>1 DEF WholeFileIsInMemory, WholeFileIsNumbered
<1>7. NoFailureNoDamage'
  <2>1. SUFFICES ASSUME failures = 0 PROVE WholeFile' /\ entries' = disk'
    BY <1>1 DEF NoFailureNoDamage
  <2>2. ~ tailOpen /\ Loadable /\ Verify(disk) /\ entries = disk
    BY <1>1, <2>1 DEF ChainInv, NoFailureNoDamage, WholeFile
  <2>3. disk' = Append(disk, e) /\ entries' = disk'
    BY <1>1, <2>2 DEF LineWritten
  <2>4. Verify(disk')
    BY <1>2, <2>2, <2>3
  <2>5. e # Garbled
    BY <1>4 DEF EntrySet, Garbled
  <2>6. \A i \in 1..Len(disk') : disk'[i] # Garbled
    BY <2>2, <2>3, <2>5 DEF WInv, LogTypeOK, Loadable
  <2>7. QED
    BY <2>3, <2>4, <2>6 DEF WholeFile, Loadable
<1>8. QED
  BY <1>2, <1>5, <1>6, <1>7 DEF ChainInv

(***************************************************************************)
(* An append that raises leaves the file behind the memory, or spoilt, or  *)
(* as an append that returns would.                                        *)
(***************************************************************************)
LEMMA AppendFailsPreservesChainInv ==
    ASSUME WInv, ChainInv, NEW fact \in Facts, NEW how, AppendFails(fact, how)
    PROVE  ChainInv'
<1> DEFINE e == NextEntry(fact)
<1>1. /\ AppendedInMemory(fact) /\ entries' = Append(entries, e)
      /\ up' = up /\ up /\ failures' = failures + 1 /\ clock' = clock + 1
      /\ \/ UNCHANGED disk
         \/ disk' = LineWritten(Garbled)
         \/ disk' = LineWritten(e)
  BY DEF AppendFails, AppendedInMemory
<1>2. /\ SequenceNamesOneEntry'
      /\ \A i \in 1..Len(entries') : entries'[i].hash > Genesis
  BY <1>1, ChainGrowsInMemory
<1>3. entries \in Seq(EntrySet) /\ e \in EntrySet /\ disk \in Seq(EntrySet \cup {Garbled})
  BY NextEntryFacts DEF WInv, LogTypeOK
<1>4. NoFailureNoDamage'
  <2>1. failures \in Nat
    BY DEF WInv, LogTypeOK
  <2>2. QED
    BY <1>1, <2>1 DEF NoFailureNoDamage
<1>5. /\ \A i \in 1..Len(disk') : disk'[i] # Garbled => disk'[i].hash > Genesis
      /\ WholeFileIsInMemory' /\ WholeFileIsNumbered'
  <2>1. CASE UNCHANGED disk
    <3>1. WholeFile' <=> WholeFile
      BY <2>1 DEF WholeFile, Loadable
    <3>2. /\ Len(entries') = Len(entries) + 1 /\ Len(entries) \in Nat /\ Len(disk) \in Nat
          /\ \A i \in 1..Len(entries) : entries'[i] = entries[i]
      BY <1>1, <1>3
    <3>3. WholeFileIsInMemory'
      <4>1. SUFFICES ASSUME WholeFile
                     PROVE  /\ Len(disk) <= Len(entries')
                            /\ \A i \in 1..Len(disk) : disk[i] = entries'[i]
        BY <2>1, <3>1 DEF WholeFileIsInMemory
      <4>2. /\ Len(disk) <= Len(entries)
            /\ \A i \in 1..Len(disk) : disk[i] = entries[i]
        BY <1>1, <4>1 DEF ChainInv, WholeFileIsInMemory
      <4>3. QED
        BY <3>2, <4>2
    <3>4. QED
      BY <2>1, <3>1, <3>3 DEF ChainInv, HashesAreNotGenesis, WholeFileIsNumbered
  <2>2. CASE disk' = LineWritten(Garbled)
    <3>1. ~ Loadable'
      <4>1. /\ LineWritten(Garbled) # <<>>
            /\ ~ tailOpen => /\ Len(LineWritten(Garbled)) = Len(disk) + 1
                             /\ LineWritten(Garbled)[Len(disk) + 1] = Garbled
            /\ tailOpen => /\ Len(LineWritten(Garbled)) = Len(disk)
                           /\ Len(disk) \in 1..Len(disk)
                           /\ LineWritten(Garbled)[Len(disk)] = Garbled
        BY LineWrittenFacts DEF WInv
      <4>2. \E i \in 1..Len(disk') : disk'[i] = Garbled
        BY <1>3, <2>2, <4>1
      <4>3. QED
        BY <4>2 DEF Loadable
    <3>2. \A i \in 1..Len(disk') : disk'[i] # Garbled => disk'[i].hash > Genesis
      <4>1. \A i \in 1..Len(disk) : disk[i] # Garbled => disk[i].hash > Genesis
        BY DEF ChainInv, HashesAreNotGenesis
      <4>2. \A i \in 1..Len(disk') : disk'[i] = Garbled \/ (i \in 1..Len(disk) /\ disk'[i] = disk[i])
        BY <1>3, <2>2 DEF LineWritten
      <4>3. QED
        BY <4>1, <4>2
    <3>3. QED
      BY <3>1, <3>2 DEF WholeFileIsInMemory, WholeFileIsNumbered, WholeFile
  <2>3. CASE disk' = LineWritten(e)
    <3>1. /\ \A i \in 1..Len(disk') : disk'[i] # Garbled => disk'[i].hash > Genesis
          /\ WholeFile' => /\ ~ tailOpen /\ entries = disk /\ entries' = disk'
                           /\ \A i \in 1..Len(disk') : disk'[i].sequence = i - 1
      BY <1>1, <2>3, ChainGrowsOnDisk
    <3>2. Len(entries') \in Nat
      BY <1>1, <1>3
    <3>3. QED
      BY <3>1, <3>2 DEF WholeFileIsInMemory, WholeFileIsNumbered
  <2>4. QED
    BY <1>1, <2>1, <2>2, <2>3
<1>6. QED
  BY <1>2, <1>4, <1>5 DEF ChainInv, HashesAreNotGenesis

(***************************************************************************)
(* A crash forgets the memory; a restart takes the file for it.            *)
(***************************************************************************)
LEMMA CrashPreservesChainInv ==
    ASSUME ChainInv, CrashLog
    PROVE  ChainInv'
<1>1. entries' = <<>> /\ up' = FALSE /\ UNCHANGED <<disk, tailOpen, failures>>
  BY DEF CrashLog
<1>2. WholeFile' <=> WholeFile
  BY <1>1 DEF WholeFile, Loadable
<1>3. QED
  BY <1>1, <1>2
     DEF ChainInv, HashesAreNotGenesis, WholeFileIsInMemory, WholeFileIsNumbered,
         NoFailureNoDamage, SequenceNamesOneEntry

LEMMA StartPreservesChainInv ==
    ASSUME WInv, ChainInv, StartLog
    PROVE  ChainInv'
<1>1. entries' = disk /\ up' = TRUE /\ Loadable /\ UNCHANGED <<disk, tailOpen, failures>>
  BY DEF StartLog
<1>2. WholeFile' <=> WholeFile
  BY <1>1 DEF WholeFile, Loadable
<1>3. HashesAreNotGenesis' /\ WholeFileIsNumbered' /\ NoFailureNoDamage'
  BY <1>1, <1>2
     DEF ChainInv, HashesAreNotGenesis, WholeFileIsNumbered, NoFailureNoDamage, Loadable
<1>4. WholeFileIsInMemory'
  <2>1. Len(disk) \in Nat
    BY DEF WInv, LogTypeOK
  <2>2. QED
    BY <1>1, <2>1 DEF WholeFileIsInMemory
<1>5. SequenceNamesOneEntry'
  BY <1>1 DEF ChainInv, SequenceNamesOneEntry, WholeFileIsNumbered, WholeFile
<1>6. QED
  BY <1>3, <1>4, <1>5 DEF ChainInv

(***************************************************************************)
(* The chain's invariant holds in every reachable state.                   *)
(***************************************************************************)
THEOREM ChainInvariantHolds == LogSpec => []ChainInv
<1>1. LogInit => ChainInv
  <2> SUFFICES ASSUME LogInit PROVE ChainInv
    OBVIOUS
  <2>1. entries = <<>> /\ disk = <<>> /\ tailOpen = FALSE
    BY DEF LogInit
  <2>2. Len(entries) = 0 /\ Len(disk) = 0
    BY <2>1
  <2>3. QED
    BY <2>1, <2>2
       DEF ChainInv, HashesAreNotGenesis, WholeFileIsInMemory, WholeFileIsNumbered,
           NoFailureNoDamage, SequenceNamesOneEntry, WholeFile, Loadable, Verify
<1>2. WInv /\ ChainInv /\ [LogNext]_wvars => ChainInv'
  <2>1. ASSUME ChainInv, UNCHANGED wvars PROVE ChainInv'
    BY <2>1 DEF wvars, ChainInv, HashesAreNotGenesis, WholeFileIsInMemory,
       WholeFileIsNumbered, NoFailureNoDamage, SequenceNamesOneEntry, WholeFile, Loadable
  <2>2. QED
    BY <2>1, AppendOkPreservesChainInv, AppendFailsPreservesChainInv,
       CrashPreservesChainInv, StartPreservesChainInv DEF LogNext
<1>3. QED
  BY <1>1, <1>2, LogInvariantHolds, PTL DEF LogSpec

(***************************************************************************)
(* Without a failed write verify() accepts the log in every process.       *)
(***************************************************************************)
THEOREM ChainIsWhole == LogSpec => []ChainBreaksOnlyAfterFailedWrite
<1>1. ChainInv => ChainBreaksOnlyAfterFailedWrite
  BY DEF ChainInv, NoFailureNoDamage, WholeFile, ChainBreaksOnlyAfterFailedWrite
<1>2. QED
  BY <1>1, ChainInvariantHolds, PTL

(***************************************************************************)
(* A verified sequence number leads to one entry, also after failed writes *)
(* and restarts: the chain detects every file that memory was ahead of.    *)
(***************************************************************************)
THEOREM NumbersAreNames == LogSpec => []SequenceNamesOneEntry
BY ChainInvariantHolds, PTL DEF ChainInv

-----------------------------------------------------------------------------
(* The ledgers.                                                            *)

LEMMA LeastCounterexample ==
    ASSUME NEW T, T \subseteq Nat, T # {}
    PROVE  \E m \in T : \A k \in T : m <= k
  <1>1. IsWellFoundedOn(OpToRel(<, Nat), Nat)
    BY NatLessThanWellFounded
  <1>2. PICK m \in T : \A k \in T : <<k, m>> \notin OpToRel(<, Nat)
    BY <1>1, WFMin
  <1>3. \A k \in T : ~ (k < m)
    BY <1>2 DEF OpToRel
  <1> QED
    BY <1>3

-----------------------------------------------------------------------------
(* Replaying.                                                              *)
Nothing == [consents |-> NoConsents, ledger |-> EmptyLedger]

IsReplay(after, log, skipped) ==
    after = [n \in 0..Len(log) |->
               IF n = 0 THEN Nothing
               ELSE IF log[n] \in skipped THEN after[n - 1]
               ELSE Indexed(after[n - 1], log[n])]

(* The indexes after each entry of a log.                                  *)
After(log, skipped) == CHOOSE after : IsReplay(after, log, skipped)

LEMMA ReplayIsTheLastOfThem ==
    ASSUME NEW log, NEW skipped
    PROVE  Replay(log, skipped) = After(log, skipped)[Len(log)]
  BY DEF Replay, After, IsReplay, Nothing

(* The recursion is well founded: there is such a function.                *)
LEMMA ReplayIsDefined ==
    ASSUME NEW S, NEW log \in Seq(S), NEW skipped
    PROVE  IsReplay(After(log, skipped), log, skipped)
  <1> DEFINE Prefix(after, N) ==
               after = [n \in 0..N |->
                          IF n = 0 THEN Nothing
                          ELSE IF log[n] \in skipped THEN after[n - 1]
                          ELSE Indexed(after[n - 1], log[n])]
             T == {N \in Nat : ~ \E after : Prefix(after, N)}
  <1>1. T = {}
    <2> SUFFICES ASSUME T # {} PROVE FALSE
      OBVIOUS
    <2>1. PICK N \in T : \A k \in T : N <= k
      <3> HIDE DEF T
      <3>1. T \subseteq Nat
        BY DEF T
      <3> QED
        BY <3>1, LeastCounterexample
    <2>2. N # 0
      <3>1. Prefix([n \in 0..0 |-> Nothing], 0)
        OBVIOUS
      <3> QED
        BY <2>1, <3>1
    <2>3. N - 1 \in Nat /\ N - 1 \notin T
      <3>1. N \in Nat
        BY <2>1
      <3> HIDE DEF T
      <3> QED
        BY <2>1, <2>2, <3>1
    <2>4. PICK f : Prefix(f, N - 1)
      BY <2>3
    <2> DEFINE new == IF log[N] \in skipped THEN f[N - 1] ELSE Indexed(f[N - 1], log[N])
               g == [n \in 0..N |-> IF n = N THEN new ELSE f[n]]
    <2>5. \A n \in 0..(N - 1) : f[n] = IF n = 0 THEN Nothing
                                       ELSE IF log[n] \in skipped THEN f[n - 1]
                                       ELSE Indexed(f[n - 1], log[n])
      BY <2>4
    <2>6. \A n \in 0..N : g[n] = IF n = 0 THEN Nothing
                                 ELSE IF log[n] \in skipped THEN g[n - 1]
                                 ELSE Indexed(g[n - 1], log[n])
      <3> SUFFICES ASSUME NEW n \in 0..N
                   PROVE  g[n] = IF n = 0 THEN Nothing
                                 ELSE IF log[n] \in skipped THEN g[n - 1]
                                 ELSE Indexed(g[n - 1], log[n])
        OBVIOUS
      <3>0. N \in Nat /\ N # 0
        BY <2>1, <2>2
      <3>1. CASE n = 0
        BY <2>5, <3>0, <3>1
      <3>2. CASE n \in 1..(N - 1)
        <4>1. g[n] = f[n] /\ g[n - 1] = f[n - 1] /\ n \in 0..(N - 1) /\ n # 0
          BY <3>0, <3>2
        <4> HIDE DEF g
        <4> QED
          BY <2>5, <4>1
      <3>3. CASE n = N
        <4>1. g[N] = new /\ g[N - 1] = f[N - 1]
          BY <3>0
        <4> HIDE DEF g
        <4> QED
          BY <3>0, <3>3, <4>1
      <3> QED
        BY <3>0, <3>1, <3>2, <3>3
    <2>7. Prefix(g, N)
      <3>1. g = [n \in 0..N |-> g[n]]
        OBVIOUS
      <3> HIDE DEF g
      <3> QED
        BY <2>6, <3>1
    <2> HIDE DEF g, Prefix
    <2> QED
      BY <2>1, <2>7
  <1>2. Len(log) \in Nat
    OBVIOUS
  <1>3. \E after : Prefix(after, Len(log))
    <2> HIDE DEF Prefix
    <2> QED
      BY <1>1, <1>2
  <1> QED
    BY <1>3 DEF After, IsReplay

LEMMA ReplayEquation ==
    ASSUME NEW S, NEW log \in Seq(S), NEW skipped
    PROVE  /\ After(log, skipped)[0] = Nothing
           /\ \A n \in 1..Len(log) :
                After(log, skipped)[n] =
                  IF log[n] \in skipped THEN After(log, skipped)[n - 1]
                  ELSE Indexed(After(log, skipped)[n - 1], log[n])
  <1> DEFINE f == After(log, skipped)
  <1>1. f = [n \in 0..Len(log) |->
               IF n = 0 THEN Nothing
               ELSE IF log[n] \in skipped THEN f[n - 1]
               ELSE Indexed(f[n - 1], log[n])]
    BY ReplayIsDefined DEF IsReplay
  <1>2. Len(log) \in Nat
    OBVIOUS
  <1> HIDE DEF f
  <1>3. f[0] = Nothing
    BY <1>1, <1>2
  <1>4. ASSUME NEW n \in 1..Len(log)
        PROVE  f[n] = IF log[n] \in skipped THEN f[n - 1] ELSE Indexed(f[n - 1], log[n])
    <2>1. n \in 0..Len(log) /\ n # 0
      BY <1>2
    <2> QED
      BY <1>1, <2>1
  <1> QED
    BY <1>3, <1>4 DEF f

(* Prefixes with the same entries that count give the same indexes.        *)
LEMMA ReplaysAgree ==
    ASSUME NEW S, NEW log1 \in Seq(S), NEW log2 \in Seq(S), NEW skip1, NEW skip2,
           NEW N \in Nat, N <= Len(log1), N <= Len(log2),
           \A m \in 1..N : /\ log1[m] = log2[m]
                           /\ log1[m] \in skip1 <=> log2[m] \in skip2
    PROVE  After(log1, skip1)[N] = After(log2, skip2)[N]
  <1> DEFINE f == After(log1, skip1)
             g == After(log2, skip2)
             T == {n \in 0..N : f[n] # g[n]}
  <1>1. /\ f[0] = Nothing /\ g[0] = Nothing
        /\ \A n \in 1..N : f[n] = IF log1[n] \in skip1 THEN f[n - 1] ELSE Indexed(f[n - 1], log1[n])
        /\ \A n \in 1..N : g[n] = IF log2[n] \in skip2 THEN g[n - 1] ELSE Indexed(g[n - 1], log2[n])
    BY ReplayEquation
  <1> HIDE DEF f, g
  <1>2. T = {}
    <2> SUFFICES ASSUME T # {} PROVE FALSE
      OBVIOUS
    <2>1. PICK n \in T : \A k \in T : n <= k
      <3> HIDE DEF T
      <3>1. T \subseteq Nat
        BY DEF T
      <3> QED
        BY <3>1, LeastCounterexample
    <2>2. n \in 1..N /\ n - 1 \in 0..N /\ n - 1 \notin T
      BY <1>1, <2>1
    <2>3. f[n - 1] = g[n - 1]
      BY <2>2
    <2>4. f[n] = g[n]
      BY <1>1, <2>2, <2>3
    <2> QED
      BY <2>1, <2>4
  <1> QED
    BY <1>2 DEF f, g

LEMMA ReplayOfOneMore ==
    ASSUME NEW S, NEW log \in Seq(S), NEW e \in S, NEW skipped
    PROVE  Replay(Append(log, e), skipped) =
             IF e \in skipped THEN Replay(log, skipped)
             ELSE Indexed(Replay(log, skipped), e)
  <1> DEFINE more == Append(log, e)
             N == Len(log)
  <1>1. /\ more \in Seq(S) /\ Len(more) = N + 1 /\ N \in Nat /\ more[N + 1] = e
        /\ \A m \in 1..N : more[m] = log[m]
    OBVIOUS
  <1>2. After(more, skipped)[N] = After(log, skipped)[N]
    <2>1. N <= N /\ N <= Len(more)
      BY <1>1
    <2> HIDE DEF more, N
    <2> QED
      BY <1>1, <2>1, ReplaysAgree DEF N
  <1> HIDE DEF more
  <1>3. N + 1 \in 1..Len(more) /\ (N + 1) - 1 = N
    BY <1>1
  <1>4. After(more, skipped)[N + 1] =
          IF more[N + 1] \in skipped THEN After(more, skipped)[N]
          ELSE Indexed(After(more, skipped)[N], more[N + 1])
    BY <1>1, <1>3, ReplayEquation
  <1>5. Replay(more, skipped) = After(more, skipped)[N + 1]
    BY <1>1, ReplayIsTheLastOfThem
  <1>6. Replay(log, skipped) = After(log, skipped)[N]
    BY ReplayIsTheLastOfThem
  <1> QED
    BY <1>1, <1>2, <1>4, <1>5, <1>6 DEF more

LEMMA ReplayOfSkippingMore ==
    ASSUME NEW S, NEW log \in Seq(S), NEW skip1, NEW skip2,
           \A i \in 1..Len(log) : log[i] \in skip1 <=> log[i] \in skip2
    PROVE  Replay(log, skip1) = Replay(log, skip2)
  <1>1. Len(log) \in Nat
    OBVIOUS
  <1>2. After(log, skip1)[Len(log)] = After(log, skip2)[Len(log)]
    BY <1>1, ReplaysAgree
  <1> QED
    BY <1>2, ReplayIsTheLastOfThem

LEMMA ReplayOfNothing ==
    ASSUME NEW skipped
    PROVE  Replay(<<>>, skipped) = Nothing
  <1>1. <<>> \in Seq({}) /\ Len(<<>>) = 0
    OBVIOUS
  <1>2. After(<<>>, skipped)[0] = Nothing
    BY <1>1, ReplayEquation
  <1> QED
    BY <1>1, <1>2, ReplayIsTheLastOfThem

-----------------------------------------------------------------------------
(***************************************************************************)
(* What the indexes say about the log they were built from.                *)
(***************************************************************************)
IndexesType == [consents : ConsentType, ledger : LedgerType(Jtis, Families)]

(* One entry: what it changes, and what it leaves alone.                   *)
LEMMA AcceptanceIsIndexed ==
    ASSUME NEW s \in IndexesType, NEW e, NEW t \in ConsentTenants, NEW v \in Versions,
           e.fact = DisclaimerAccepted(t, v), e.sequence \in Nat
    PROVE  /\ Indexed(s, e) \in IndexesType
           /\ Indexed(s, e).ledger = s.ledger
           /\ Indexed(s, e).consents = [s.consents EXCEPT ![t] = ConsentRecord(v, e.sequence)]
  <1>1. /\ IndexConsent(s.consents, e) = [s.consents EXCEPT ![t] = ConsentRecord(v, e.sequence)]
        /\ Index(s.ledger, e.fact) = s.ledger
    BY DEF IndexConsent, Index, DisclaimerAccepted
  <1>2. ConsentRecord(v, e.sequence) \in [version : 0..MaxVersion, walSequence : Nat]
    BY DEF ConsentRecord, Versions
  <1> QED
    BY <1>1, <1>2 DEF Indexed, IndexesType, ConsentType

LEMMA RevocationIsIndexed ==
    ASSUME NEW s \in IndexesType, NEW e, NEW t \in ConsentTenants,
           e.fact = DisclaimerRevoked(t)
    PROVE  /\ Indexed(s, e) \in IndexesType
           /\ Indexed(s, e).ledger = s.ledger
           /\ Indexed(s, e).consents = [s.consents EXCEPT ![t] = NoRecord]
  <1>1. /\ IndexConsent(s.consents, e) = [s.consents EXCEPT ![t] = NoRecord]
        /\ Index(s.ledger, e.fact) = s.ledger
    BY DEF IndexConsent, Index, DisclaimerRevoked
  <1>2. NoRecord \in [version : 0..MaxVersion, walSequence : Nat]
    BY VersionBound DEF NoRecord
  <1> QED
    BY <1>1, <1>2 DEF Indexed, IndexesType, ConsentType

LEMMA TokenFactIsIndexed ==
    ASSUME NEW s \in IndexesType, NEW e, e.fact \in TokenFacts
    PROVE  /\ Indexed(s, e) \in IndexesType
           /\ Indexed(s, e).consents = s.consents
           /\ s.ledger.redeemedRefreshJtis \subseteq Indexed(s, e).ledger.redeemedRefreshJtis
           /\ s.ledger.revokedFamilies \subseteq Indexed(s, e).ledger.revokedFamilies
           /\ \A j : e.fact = RefreshTokenRedeemed(j) =>
                j \in Indexed(s, e).ledger.redeemedRefreshJtis
           /\ \A f : e.fact = FamilyRevoked(f) =>
                f \in Indexed(s, e).ledger.revokedFamilies
           /\ \A t, v : e.fact # DisclaimerAccepted(t, v) /\ e.fact # DisclaimerRevoked(t)
  <1> DEFINE l == s.ledger
  <1>0. l \in LedgerType(Jtis, Families) /\ s.consents \in ConsentType
    BY DEF IndexesType
  <1>k. \/ \E j \in Jtis : e.fact = TokenRevoked(j)
        \/ \E j \in Jtis : e.fact = RefreshTokenRedeemed(j)
        \/ \E f \in Families : e.fact = FamilyRevoked(f)
        \/ \E u \in Subjects, f \in Families : e.fact = SessionStarted(u, f)
    BY DEF TokenFacts
  <1>1. /\ IndexConsent(s.consents, e) = s.consents
        /\ \A t, v : e.fact # DisclaimerAccepted(t, v) /\ e.fact # DisclaimerRevoked(t)
    <2>1. \/ e.fact.event = "token_revoked" \/ e.fact.event = "refresh_token_redeemed"
          \/ e.fact.event = "token_family_revoked" \/ e.fact.event = "session_started"
      <3>1. /\ \A j : TokenRevoked(j).event = "token_revoked"
            /\ \A j : RefreshTokenRedeemed(j).event = "refresh_token_redeemed"
            /\ \A f : FamilyRevoked(f).event = "token_family_revoked"
            /\ \A u, f : SessionStarted(u, f).event = "session_started"
        BY DEF TokenRevoked, RefreshTokenRedeemed, FamilyRevoked, SessionStarted
      <3> QED
        BY <1>k, <3>1
    <2>2. IndexConsent(s.consents, e) = s.consents
      BY <2>1 DEF IndexConsent
    <2>3. \A t, v : /\ DisclaimerAccepted(t, v).event = "legal_disclaimer_accepted"
                    /\ DisclaimerRevoked(t).event = "legal_disclaimer_revoked"
      BY DEF DisclaimerAccepted, DisclaimerRevoked
    <2> QED
      BY <2>1, <2>2, <2>3
  <1>2. /\ Index(l, e.fact) \in LedgerType(Jtis, Families)
        /\ l.redeemedRefreshJtis \subseteq Index(l, e.fact).redeemedRefreshJtis
        /\ l.revokedFamilies \subseteq Index(l, e.fact).revokedFamilies
        /\ \A j : e.fact = RefreshTokenRedeemed(j) => j \in Index(l, e.fact).redeemedRefreshJtis
        /\ \A f : e.fact = FamilyRevoked(f) => f \in Index(l, e.fact).revokedFamilies
    <2>1. CASE \E j \in Jtis : e.fact = TokenRevoked(j)
      BY <1>0, <2>1 DEF Index, LedgerType, TokenRevoked, RefreshTokenRedeemed, FamilyRevoked
    <2>2. CASE \E j \in Jtis : e.fact = RefreshTokenRedeemed(j)
      BY <1>0, <2>2 DEF Index, LedgerType, RefreshTokenRedeemed, FamilyRevoked
    <2>3. CASE \E f \in Families : e.fact = FamilyRevoked(f)
      BY <1>0, <2>3 DEF Index, LedgerType, RefreshTokenRedeemed, FamilyRevoked
    <2>4. CASE \E u \in Subjects, f \in Families : e.fact = SessionStarted(u, f)
      BY <1>0, <2>4 DEF Index, LedgerType, SessionStarted, RefreshTokenRedeemed, FamilyRevoked
    <2> QED
      BY <1>k, <2>1, <2>2, <2>3, <2>4
  <1> QED
    BY <1>0, <1>1, <1>2 DEF Indexed, IndexesType

LEMMA ConsentFactsAreTwo ==
    ASSUME NEW fact \in TrustFacts
    PROVE  \/ \E t \in ConsentTenants, v \in Versions : fact = DisclaimerAccepted(t, v)
           \/ \E t \in ConsentTenants : fact = DisclaimerRevoked(t)
           \/ fact \in TokenFacts
  BY DEF TrustFacts, ConsentFacts

LEMMA ConsentFactsAreDifferent ==
    /\ \A t, u, v : DisclaimerAccepted(t, v) # DisclaimerRevoked(u)
    /\ \A t, u, v, w : DisclaimerAccepted(t, v) = DisclaimerAccepted(u, w) => t = u /\ v = w
    /\ \A t, u : DisclaimerRevoked(t) = DisclaimerRevoked(u) => t = u
  BY DEF DisclaimerAccepted, DisclaimerRevoked

(* The first n entries of a log, those in `skipped` left out.              *)
Counts(log, skipped, n, i) == i \in 1..n /\ log[i] \notin skipped

TokensRecorded(l, log, skipped, n) ==
    \A i : Counts(log, skipped, n, i) =>
       /\ \A j : log[i].fact = RefreshTokenRedeemed(j) => j \in l.redeemedRefreshJtis
       /\ \A f : log[i].fact = FamilyRevoked(f) => f \in l.revokedFamilies

(* No acceptance stands that a later revocation did not take back.         *)
AllTakenBack(log, skipped, n, t) ==
    \A i, v : Counts(log, skipped, n, i) /\ log[i].fact = DisclaimerAccepted(t, v) =>
        \E k : i < k /\ Counts(log, skipped, n, k) /\ log[k].fact = DisclaimerRevoked(t)

(* The record is of the latest acceptance, and nothing came after it.      *)
LatestStands(record, log, skipped, n, t) ==
    \E i : /\ Counts(log, skipped, n, i)
           /\ log[i].fact = DisclaimerAccepted(t, record.version)
           /\ record.walSequence = log[i].sequence
           /\ \A k : i < k /\ Counts(log, skipped, n, k) =>
                /\ log[k].fact # DisclaimerRevoked(t)
                /\ \A v : log[k].fact # DisclaimerAccepted(t, v)

ConsentRecorded(record, log, skipped, n, t) ==
    \/ record = NoRecord /\ AllTakenBack(log, skipped, n, t)
    \/ record.version \in Versions /\ LatestStands(record, log, skipped, n, t)

Recorded(s, log, skipped, n) ==
    /\ s \in IndexesType
    /\ TokensRecorded(s.ledger, log, skipped, n)
    /\ \A t \in ConsentTenants : ConsentRecorded(s.consents[t], log, skipped, n, t)

LEMMA NothingIsRecorded ==
    ASSUME NEW log, NEW skipped
    PROVE  Recorded(Nothing, log, skipped, 0)
  <1>1. Nothing \in IndexesType
    BY VersionBound
       DEF Nothing, IndexesType, ConsentType, LedgerType, NoConsents, EmptyLedger, NoRecord
  <1>2. \A i : ~ Counts(log, skipped, 0, i)
    BY DEF Counts
  <1>3. Nothing.consents = NoConsents
    BY DEF Nothing
  <1> QED
    BY <1>1, <1>2, <1>3 DEF Recorded, TokensRecorded, ConsentRecorded, AllTakenBack, NoConsents

(* What an entry that says nothing of a tenant leaves of its record.       *)
LEMMA RecordIsKept ==
    ASSUME NEW log, NEW skipped, NEW n \in Nat, NEW t, NEW record,
           ConsentRecorded(record, log, skipped, n, t),
           \/ log[n + 1] \in skipped
           \/ /\ log[n + 1].fact # DisclaimerRevoked(t)
              /\ \A v : log[n + 1].fact # DisclaimerAccepted(t, v)
    PROVE  ConsentRecorded(record, log, skipped, n + 1, t)
  <1>1. \A i : Counts(log, skipped, n + 1, i) <=>
                 \/ Counts(log, skipped, n, i)
                 \/ i = n + 1 /\ log[n + 1] \notin skipped
    BY DEF Counts
  <1>2. \A i : Counts(log, skipped, n, i) => i \in Nat
    BY DEF Counts
  <1>3. AllTakenBack(log, skipped, n, t) => AllTakenBack(log, skipped, n + 1, t)
    BY <1>1 DEF AllTakenBack
  <1>4. LatestStands(record, log, skipped, n, t) => LatestStands(record, log, skipped, n + 1, t)
    BY <1>1 DEF LatestStands
  <1> QED
    BY <1>3, <1>4 DEF ConsentRecorded

LEMMA TokensStayRecorded ==
    ASSUME NEW log, NEW skipped, NEW n \in Nat, NEW l, NEW m,
           TokensRecorded(l, log, skipped, n),
           l.redeemedRefreshJtis \subseteq m.redeemedRefreshJtis,
           l.revokedFamilies \subseteq m.revokedFamilies,
           \/ log[n + 1] \in skipped
           \/ /\ \A j : log[n + 1].fact = RefreshTokenRedeemed(j) => j \in m.redeemedRefreshJtis
              /\ \A f : log[n + 1].fact = FamilyRevoked(f) => f \in m.revokedFamilies
    PROVE  TokensRecorded(m, log, skipped, n + 1)
  <1>1. \A i : Counts(log, skipped, n + 1, i) <=>
                 \/ Counts(log, skipped, n, i)
                 \/ i = n + 1 /\ log[n + 1] \notin skipped
    BY DEF Counts
  <1> QED
    BY <1>1 DEF TokensRecorded

(* One more entry that counts.                                             *)
LEMMA EntryIsRecorded ==
    ASSUME NEW log, NEW skipped, NEW n \in Nat, NEW s,
           Recorded(s, log, skipped, n),
           log[n + 1] \notin skipped,
           log[n + 1].fact \in TrustFacts, log[n + 1].sequence \in Nat
    PROVE  Recorded(Indexed(s, log[n + 1]), log, skipped, n + 1)
  <1> DEFINE e == log[n + 1]
             now == Indexed(s, e)
  <1>0. s \in IndexesType /\ s.consents \in ConsentType
    BY DEF Recorded, IndexesType
  <1>c. /\ Counts(log, skipped, n + 1, n + 1)
        /\ \A k : Counts(log, skipped, n + 1, k) => ~ (n + 1 < k)
        /\ \A i : Counts(log, skipped, n + 1, i) =>
                    i = n + 1 \/ (Counts(log, skipped, n, i) /\ i < n + 1)
    BY DEF Counts
  <1>1. ASSUME NEW t \in ConsentTenants, NEW v \in Versions, e.fact = DisclaimerAccepted(t, v)
        PROVE  Recorded(now, log, skipped, n + 1)
    <2>1. /\ now \in IndexesType /\ now.ledger = s.ledger
          /\ now.consents = [s.consents EXCEPT ![t] = ConsentRecord(v, e.sequence)]
      BY <1>0, <1>1, AcceptanceIsIndexed
    <2>2. TokensRecorded(now.ledger, log, skipped, n + 1)
      <3>1. \A j : e.fact # RefreshTokenRedeemed(j) /\ e.fact # FamilyRevoked(j)
        BY <1>1 DEF DisclaimerAccepted, RefreshTokenRedeemed, FamilyRevoked
      <3> QED
        BY <2>1, <3>1, TokensStayRecorded DEF Recorded
    <2>3. ASSUME NEW u \in ConsentTenants
          PROVE  ConsentRecorded(now.consents[u], log, skipped, n + 1, u)
      <3>1. CASE u # t
        <4>1. now.consents[u] = s.consents[u]
          BY <1>0, <2>1, <3>1 DEF ConsentType
        <4>2. e.fact # DisclaimerRevoked(u) /\ \A w : e.fact # DisclaimerAccepted(u, w)
          BY <1>1, <3>1, ConsentFactsAreDifferent
        <4> QED
          BY <4>1, <4>2, RecordIsKept DEF Recorded
      <3>2. CASE u = t
        <4>1. now.consents[t] = ConsentRecord(v, e.sequence)
          BY <1>0, <2>1 DEF ConsentType
        <4>2. now.consents[t].version = v /\ now.consents[t].walSequence = e.sequence
          BY <4>1 DEF ConsentRecord
        <4> HIDE DEF now
        <4>3. LatestStands(now.consents[t], log, skipped, n + 1, t)
          BY <1>1, <1>c, <4>2 DEF LatestStands
        <4> QED
          BY <3>2, <4>2, <4>3 DEF ConsentRecorded
      <3> QED
        BY <3>1, <3>2
    <2> QED
      BY <2>1, <2>2, <2>3 DEF Recorded
  <1>2. ASSUME NEW t \in ConsentTenants, e.fact = DisclaimerRevoked(t)
        PROVE  Recorded(now, log, skipped, n + 1)
    <2>1. /\ now \in IndexesType /\ now.ledger = s.ledger
          /\ now.consents = [s.consents EXCEPT ![t] = NoRecord]
      BY <1>0, <1>2, RevocationIsIndexed
    <2>2. TokensRecorded(now.ledger, log, skipped, n + 1)
      <3>1. \A j : e.fact # RefreshTokenRedeemed(j) /\ e.fact # FamilyRevoked(j)
        BY <1>2 DEF DisclaimerRevoked, RefreshTokenRedeemed, FamilyRevoked
      <3> QED
        BY <2>1, <3>1, TokensStayRecorded DEF Recorded
    <2>3. ASSUME NEW u \in ConsentTenants
          PROVE  ConsentRecorded(now.consents[u], log, skipped, n + 1, u)
      <3>1. CASE u # t
        <4>1. now.consents[u] = s.consents[u]
          BY <1>0, <2>1, <3>1 DEF ConsentType
        <4>2. e.fact # DisclaimerRevoked(u) /\ \A w : e.fact # DisclaimerAccepted(u, w)
          BY <1>2, <3>1, ConsentFactsAreDifferent
        <4> QED
          BY <4>1, <4>2, RecordIsKept DEF Recorded
      <3>2. CASE u = t
        <4>1. now.consents[t] = NoRecord
          BY <1>0, <2>1 DEF ConsentType
        <4>2. AllTakenBack(log, skipped, n + 1, t)
          BY <1>2, <1>c, ConsentFactsAreDifferent DEF AllTakenBack
        <4> QED
          BY <3>2, <4>1, <4>2 DEF ConsentRecorded
      <3> QED
        BY <3>1, <3>2
    <2> QED
      BY <2>1, <2>2, <2>3 DEF Recorded
  <1>3. ASSUME e.fact \in TokenFacts PROVE Recorded(now, log, skipped, n + 1)
    <2>1. /\ now \in IndexesType /\ now.consents = s.consents
          /\ s.ledger.redeemedRefreshJtis \subseteq now.ledger.redeemedRefreshJtis
          /\ s.ledger.revokedFamilies \subseteq now.ledger.revokedFamilies
          /\ \A j : e.fact = RefreshTokenRedeemed(j) => j \in now.ledger.redeemedRefreshJtis
          /\ \A f : e.fact = FamilyRevoked(f) => f \in now.ledger.revokedFamilies
          /\ \A t, v : e.fact # DisclaimerAccepted(t, v) /\ e.fact # DisclaimerRevoked(t)
      BY <1>0, <1>3, TokenFactIsIndexed
    <2> HIDE DEF now
    <2>2. TokensRecorded(now.ledger, log, skipped, n + 1)
      BY <2>1, TokensStayRecorded DEF Recorded
    <2>3. \A t \in ConsentTenants : ConsentRecorded(now.consents[t], log, skipped, n + 1, t)
      BY <2>1, RecordIsKept DEF Recorded
    <2> QED
      BY <2>1, <2>2, <2>3 DEF Recorded
  <1>4. e.fact \in TrustFacts
    OBVIOUS
  <1> HIDE DEF e, now
  <1>5. Recorded(now, log, skipped, n + 1)
    BY <1>1, <1>2, <1>3, <1>4, ConsentFactsAreTwo
  <1> QED
    BY <1>5 DEF e, now

(***************************************************************************)
(* What a replay computes, of every log of facts that concern it: a token  *)
(* is spent and a session closed if an entry says so, and a tenant has a   *)
(* record if and only if an acceptance was not taken back, of the latest.  *)
(***************************************************************************)
THEOREM ReplayRecordsTheLog ==
    ASSUME NEW S, NEW log \in Seq(S), NEW skipped,
           \A i \in 1..Len(log) : log[i] \notin skipped =>
               log[i].fact \in TrustFacts /\ log[i].sequence \in Nat
    PROVE  Recorded(Replay(log, skipped), log, skipped, Len(log))
  <1> DEFINE f == After(log, skipped)
             N == Len(log)
             T == {n \in 0..N : ~ Recorded(f[n], log, skipped, n)}
  <1>0. N \in Nat
    OBVIOUS
  <1>1. /\ f[0] = Nothing
        /\ \A n \in 1..N : f[n] = IF log[n] \in skipped THEN f[n - 1]
                                  ELSE Indexed(f[n - 1], log[n])
    BY ReplayEquation
  <1> HIDE DEF f, N
  <1>2. T = {}
    <2> SUFFICES ASSUME T # {} PROVE FALSE
      OBVIOUS
    <2>1. PICK m \in T : \A k \in T : m <= k
      <3> HIDE DEF T
      <3>1. T \subseteq Nat
        BY <1>0 DEF T
      <3> QED
        BY <3>1, LeastCounterexample
    <2>2. m # 0
      BY <1>1, <2>1, NothingIsRecorded
    <2>3. /\ m \in 1..N /\ m - 1 \in Nat /\ (m - 1) + 1 = m
          /\ Recorded(f[m - 1], log, skipped, m - 1)
      BY <1>0, <2>1, <2>2
    <2>4. CASE log[m] \notin skipped
      <3>1. Recorded(Indexed(f[m - 1], log[(m - 1) + 1]), log, skipped, (m - 1) + 1)
        BY <2>3, <2>4, EntryIsRecorded DEF N
      <3> QED
        BY <1>1, <2>1, <2>3, <2>4, <3>1
    <2>5. CASE log[m] \in skipped
      <3>1. f[m] = f[m - 1]
        BY <1>1, <2>3, <2>5
      <3>2. TokensRecorded(f[m].ledger, log, skipped, (m - 1) + 1)
        BY <2>3, <2>5, <3>1, TokensStayRecorded DEF Recorded
      <3>3. \A t \in ConsentTenants :
              ConsentRecorded(f[m].consents[t], log, skipped, (m - 1) + 1, t)
        BY <2>3, <2>5, <3>1, RecordIsKept DEF Recorded
      <3> QED
        BY <2>1, <2>3, <3>1, <3>2, <3>3 DEF Recorded
    <2> QED
      BY <2>4, <2>5
  <1>3. Recorded(f[N], log, skipped, N)
    BY <1>0, <1>2
  <1> QED
    BY <1>3, ReplayIsTheLastOfThem DEF f, N

-----------------------------------------------------------------------------
(***************************************************************************)
(* The inductive invariant, on top of the log's own (WInv).                *)
(***************************************************************************)
Accepts(line, v) ==
    line # Garbled /\ \E t \in ConsentTenants : line.fact = DisclaimerAccepted(t, v)

(* Lines of ours; versions only move forward, up to the one deployed.      *)
InOrder(log, version) ==
    /\ \A i \in 1..Len(log) : log[i] = Garbled \/ log[i].fact \in TrustFacts
    /\ \A i, k \in 1..Len(log) : \A v, w \in Versions :
         i < k /\ Accepts(log[i], v) /\ Accepts(log[k], w) => v <= w
    /\ \A i \in 1..Len(log) : \A v \in Versions : Accepts(log[i], v) => v <= version

LinesInOrder == InOrder(entries, current) /\ InOrder(disk, current)

(* What a handler still owes when it has written what it has to write.     *)
Acknowledged(fact) == \E e \in acked : e.fact = fact

Written(fact) ==
    Acknowledged(fact) \/ \E i \in 1..Len(handler.facts) : handler.facts[i] = fact

HandlerOK ==
    /\ handler \in [facts : Seq(TrustFacts), issues : SUBSET Held,
                    spends : SUBSET Jtis, ends : SUBSET Families]
    /\ handler # Idle => up
    /\ \A i \in 1..Len(handler.facts) : \A t \in ConsentTenants, v \in Versions :
         handler.facts[i] = DisclaimerAccepted(t, v) => v = current
    /\ \A j \in handler.spends : Written(RefreshTokenRedeemed(j))
    /\ \A f \in handler.ends : Written(FamilyRevoked(f))

AnswersAreAcknowledged ==
    /\ \A j \in spent : Acknowledged(RefreshTokenRedeemed(j))
    /\ \A f \in ended : Acknowledged(FamilyRevoked(f))

(* A line whose write failed can only be the last one, and unterminated.   *)
LostIsLast ==
    /\ \A e \in lost : e.hash <= clock
    /\ \A e \in acked : e \notin lost
    /\ Loadable => \A i \in 1..Len(disk) : disk[i] \in lost => i = Len(disk) /\ tailOpen

Indexes == [consents |-> consents, ledger |-> ledger]

(* The indexes are a replay of memory; and of the file, even when down.    *)
IndexesFollow ==
    /\ up => Indexes = Replay(entries, lost)
    /\ Loadable => Indexes = Replay(disk, lost)

StateOK ==
    /\ Indexes \in IndexesType
    /\ current \in Versions
    /\ held \subseteq Held
    /\ spent \subseteq Jtis
    /\ ended \subseteq Families

TrustInv ==
    /\ StateOK
    /\ HandlerOK
    /\ LinesInOrder
    /\ AnswersAreAcknowledged
    /\ LostIsLast
    /\ IndexesFollow

-----------------------------------------------------------------------------
(* The handlers as they begin.                                             *)
LEMMA TheFactsOfTrust ==
    /\ \A t \in ConsentTenants, v \in Versions : DisclaimerAccepted(t, v) \in TrustFacts
    /\ \A t \in ConsentTenants : DisclaimerRevoked(t) \in TrustFacts
    /\ \A j \in Jtis : TokenRevoked(j) \in TrustFacts /\ RefreshTokenRedeemed(j) \in TrustFacts
    /\ \A f \in Families : FamilyRevoked(f) \in TrustFacts
    /\ \A s \in Subjects, f \in Families : SessionStarted(s, f) \in TrustFacts
  BY DEF TrustFacts, ConsentFacts, TokenFacts

LEMMA TheFactsDiffer ==
    /\ \A t, v, u : DisclaimerAccepted(t, v) # DisclaimerRevoked(u)
    /\ \A t, v, j : DisclaimerAccepted(t, v) # TokenRevoked(j)
    /\ \A t, v, j : DisclaimerAccepted(t, v) # RefreshTokenRedeemed(j)
    /\ \A t, v, f : DisclaimerAccepted(t, v) # FamilyRevoked(f)
    /\ \A t, v, s, f : DisclaimerAccepted(t, v) # SessionStarted(s, f)
    /\ \A t, v, u, w : DisclaimerAccepted(t, v) = DisclaimerAccepted(u, w) => t = u /\ v = w
  BY DEF DisclaimerAccepted, DisclaimerRevoked, TokenRevoked, RefreshTokenRedeemed,
         FamilyRevoked, SessionStarted

(* A handler begins with facts of ours that cover what it will claim.      *)
Undertaken(facts, issues, spends, ends) ==
    /\ facts \in Seq(TrustFacts)
    /\ issues \subseteq Held /\ spends \subseteq Jtis /\ ends \subseteq Families
    /\ \A i \in 1..Len(facts) : \A t \in ConsentTenants, v \in Versions :
         facts[i] = DisclaimerAccepted(t, v) => v = current
    /\ \A j \in spends : \E i \in 1..Len(facts) : facts[i] = RefreshTokenRedeemed(j)
    /\ \A f \in ends : \E i \in 1..Len(facts) : facts[i] = FamilyRevoked(f)

LEMMA BeginningKeepsTrust ==
    ASSUME TrustInv, NEW facts, NEW issues, NEW spends, NEW ends,
           Undertaken(facts, issues, spends, ends),
           Begin(facts, issues, spends, ends)
    PROVE  TrustInv'
  <1>1. /\ up /\ UNCHANGED <<wvars, consents, ledger, current, held, spent, ended>>
        /\ handler' = [facts |-> facts, issues |-> issues, spends |-> spends, ends |-> ends]
    BY DEF Begin
  <1>2. /\ entries' = entries /\ disk' = disk /\ tailOpen' = tailOpen /\ up' = up
        /\ clock' = clock /\ acked' = acked /\ lost' = lost /\ consents' = consents
        /\ ledger' = ledger /\ current' = current /\ held' = held /\ spent' = spent
        /\ ended' = ended
    BY <1>1 DEF wvars
  <1>3. StateOK' /\ LostIsLast' /\ AnswersAreAcknowledged'
    BY <1>2 DEF TrustInv, StateOK, Indexes, LostIsLast, Loadable, AnswersAreAcknowledged,
                Acknowledged
  <1>4. LinesInOrder'
    BY <1>2 DEF TrustInv, LinesInOrder
  <1>5. IndexesFollow'
    BY <1>2 DEF TrustInv, IndexesFollow, Indexes, Loadable
  <1>6. HandlerOK'
    BY <1>1, <1>2 DEF HandlerOK, Undertaken, Written
  <1> QED
    BY <1>3, <1>4, <1>5, <1>6 DEF TrustInv

LEMMA OneFactIsUndertaken ==
    ASSUME NEW fact \in TrustFacts, NEW issues, NEW spends, NEW ends,
           issues \subseteq Held, spends \subseteq Jtis, ends \subseteq Families,
           \A t \in ConsentTenants, v \in Versions : fact = DisclaimerAccepted(t, v) => v = current,
           \A j \in spends : fact = RefreshTokenRedeemed(j),
           \A f \in ends : fact = FamilyRevoked(f)
    PROVE  Undertaken(<<fact>>, issues, spends, ends)
  <1>1. /\ <<fact>> \in Seq(TrustFacts) /\ Len(<<fact>>) = 1 /\ <<fact>>[1] = fact
        /\ \A i \in 1..1 : i = 1
        /\ 1 \in 1..1
    OBVIOUS
  <1> QED
    BY <1>1 DEF Undertaken

LEMMA AcceptingKeepsTrust ==
    ASSUME TrustInv, NEW t \in ConsentTenants, AcceptDisclaimer(t)
    PROVE  TrustInv'
  <1>1. current \in Versions
    BY DEF TrustInv, StateOK
  <1>2. Undertaken(<<DisclaimerAccepted(t, current)>>, {}, {}, {})
    BY <1>1, TheFactsOfTrust, TheFactsDiffer, OneFactIsUndertaken
  <1> QED
    BY <1>2, BeginningKeepsTrust DEF AcceptDisclaimer

LEMMA RevokingKeepsTrust ==
    ASSUME TrustInv, NEW t \in ConsentTenants, RevokeAcceptance(t)
    PROVE  TrustInv'
  <1>1. Undertaken(<<DisclaimerRevoked(t)>>, {}, {}, {})
    BY TheFactsOfTrust, TheFactsDiffer, OneFactIsUndertaken
  <1> QED
    BY <1>1, BeginningKeepsTrust DEF RevokeAcceptance

LEMMA UuidsAreNew ==
    ASSUME LogTypeOK, clock < MaxAppends
    PROVE  NewUuid \in 1..MaxAppends
  BY LogBounds DEF LogTypeOK, NewUuid

LEMMA LoggingInKeepsTrust ==
    ASSUME LogTypeOK, TrustInv, NEW s \in Subjects, Login(s)
    PROVE  TrustInv'
  <1>1. NewUuid \in Jtis /\ NewUuid \in Families
    BY UuidsAreNew DEF Login, Jtis, Families
  <1>2. {RefreshToken(NewUuid, NewUuid, s)} \subseteq Held
    BY <1>1 DEF RefreshToken, Held
  <1>3. SessionStarted(s, NewUuid) \in TrustFacts
    BY <1>1, TheFactsOfTrust
  <1>4. Undertaken(<<SessionStarted(s, NewUuid)>>, {RefreshToken(NewUuid, NewUuid, s)}, {}, {})
    BY <1>2, <1>3, TheFactsDiffer, OneFactIsUndertaken
  <1> QED
    BY <1>4, BeginningKeepsTrust DEF Login

(* An invite that is accepted has two facts, and claims neither.           *)
LEMMA AcceptingAnInviteKeepsTrust ==
    ASSUME LogTypeOK, TrustInv, NEW s \in Subjects, AcceptInvite(s)
    PROVE  TrustInv'
  <1> DEFINE second == NewUuid + 1
             facts == <<TokenRevoked(NewUuid), SessionStarted(s, second)>>
  <1>1. NewUuid \in Jtis /\ second \in Jtis /\ second \in Families
    BY LogBounds DEF AcceptInvite, LogTypeOK, NewUuid, Jtis, Families
  <1>2. Begin(facts, {RefreshToken(second, second, s)}, {}, {})
    BY DEF AcceptInvite
  <1> HIDE DEF second
  <1>3. {RefreshToken(second, second, s)} \subseteq Held
    BY <1>1 DEF RefreshToken, Held
  <1>4. TokenRevoked(NewUuid) \in TrustFacts /\ SessionStarted(s, second) \in TrustFacts
    BY <1>1, TheFactsOfTrust
  <1>5. /\ facts \in Seq(TrustFacts)
        /\ \A i \in 1..Len(facts) : facts[i] = TokenRevoked(NewUuid)
                                       \/ facts[i] = SessionStarted(s, second)
    <2>1. Len(facts) = 2 /\ \A i \in 1..2 : i = 1 \/ i = 2
      OBVIOUS
    <2> QED
      BY <1>4, <2>1
  <1> HIDE DEF facts
  <1>6. Undertaken(facts, {RefreshToken(second, second, s)}, {}, {})
    BY <1>3, <1>5, TheFactsDiffer DEF Undertaken
  <1> QED
    BY <1>2, <1>6, BeginningKeepsTrust

LEMMA RefreshingKeepsTrust ==
    ASSUME LogTypeOK, TrustInv, NEW tok \in held, Refresh(tok)
    PROVE  TrustInv'
  <1>0. tok.jti \in Jtis /\ tok.family \in Families /\ tok.sub \in Subjects
    BY DEF TrustInv, StateOK, Held
  <1>1. CASE /\ clock < MaxAppends
             /\ Begin(<<RefreshTokenRedeemed(tok.jti)>>,
                      {RefreshToken(NewUuid, tok.family, tok.sub)}, {tok.jti}, {})
    <2>1. NewUuid \in Jtis
      BY <1>1, UuidsAreNew DEF Jtis
    <2>2. {RefreshToken(NewUuid, tok.family, tok.sub)} \subseteq Held
      BY <1>0, <2>1 DEF RefreshToken, Held
    <2>3. RefreshTokenRedeemed(tok.jti) \in TrustFacts
      BY <1>0, TheFactsOfTrust
    <2>4. Undertaken(<<RefreshTokenRedeemed(tok.jti)>>,
                     {RefreshToken(NewUuid, tok.family, tok.sub)}, {tok.jti}, {})
      BY <1>0, <2>2, <2>3, TheFactsDiffer, OneFactIsUndertaken
    <2> QED
      BY <1>1, <2>4, BeginningKeepsTrust
  <1>2. CASE Begin(<<FamilyRevoked(tok.family)>>, {}, {}, {tok.family})
    <2>1. FamilyRevoked(tok.family) \in TrustFacts
      BY <1>0, TheFactsOfTrust
    <2>2. Undertaken(<<FamilyRevoked(tok.family)>>, {}, {}, {tok.family})
      BY <1>0, <2>1, TheFactsDiffer, OneFactIsUndertaken
    <2> QED
      BY <1>2, <2>2, BeginningKeepsTrust
  <1> QED
    BY <1>1, <1>2 DEF Refresh

LEMMA RevokingATokenKeepsTrust ==
    ASSUME TrustInv, NEW tok \in held, RevokeToken(tok)
    PROVE  TrustInv'
  <1>1. TokenRevoked(tok.jti) \in TrustFacts
    BY TheFactsOfTrust DEF TrustInv, StateOK, Held
  <1>2. Undertaken(<<TokenRevoked(tok.jti)>>, {}, {}, {})
    BY <1>1, TheFactsDiffer, OneFactIsUndertaken
  <1> QED
    BY <1>2, BeginningKeepsTrust DEF RevokeToken

(* A cascade has one fact for each session on record, in any order, after  *)
(* what comes before it, which claims nothing.                             *)
LEMMA EndingSessionsKeepsTrust ==
    ASSUME TrustInv, NEW s \in Subjects, NEW before \in Seq(TrustFacts),
           \A i \in 1..Len(before) : \A t \in ConsentTenants, v \in Versions :
             before[i] # DisclaimerAccepted(t, v),
           EndAllSessions(s, before)
    PROVE  TrustInv'
  <1> DEFINE S == ledger.familiesBySubject[s]
  <1>1. S \subseteq Families
    BY DEF TrustInv, StateOK, Indexes, IndexesType, LedgerType
  <1>2. Cardinality(S) \in Nat
    <2>1. IsFiniteSet(1..MaxAppends)
      BY LogBounds, FS_Interval
    <2> QED
      BY <1>1, <2>1, FS_Subset, FS_CardinalityType DEF Families
  <1> HIDE DEF S
  <1>3. PICK families \in Orders(S) :
          Begin(before \o [i \in 1..Len(families) |-> FamilyRevoked(families[i])], {}, {}, S)
    BY DEF EndAllSessions, S
  <1>4. /\ families \in [1..Cardinality(S) -> S]
        /\ \A x \in S : \E i \in DOMAIN families : families[i] = x
    BY DEF Orders
  <1>5. families \in Seq(S) /\ Len(families) = Cardinality(S)
    BY <1>2, <1>4
  <1> DEFINE cascade == [i \in 1..Len(families) |-> FamilyRevoked(families[i])]
             facts == before \o cascade
  <1>6. \A i \in 1..Len(families) : FamilyRevoked(families[i]) \in TrustFacts
    BY <1>1, <1>4, <1>5, TheFactsOfTrust
  <1>7. /\ cascade \in Seq(TrustFacts) /\ Len(cascade) = Len(families)
        /\ \A i \in 1..Len(cascade) : cascade[i] = FamilyRevoked(families[i])
    BY <1>5, <1>6
  <1> HIDE DEF cascade
  <1>8. /\ facts \in Seq(TrustFacts) /\ Len(facts) = Len(before) + Len(cascade)
        /\ \A i \in 1..Len(before) : facts[i] = before[i]
        /\ \A i \in 1..Len(cascade) : facts[Len(before) + i] = cascade[i]
        /\ \A i \in 1..Len(facts) : \/ i \in 1..Len(before)
                                    \/ \E k \in 1..Len(cascade) : i = Len(before) + k
    <2>1. Len(before) \in Nat /\ Len(cascade) \in Nat
      BY <1>7
    <2>2. /\ facts \in Seq(TrustFacts) /\ Len(facts) = Len(before) + Len(cascade)
          /\ \A i \in 1..Len(before) : facts[i] = before[i]
          /\ \A i \in 1..Len(cascade) : facts[Len(before) + i] = cascade[i]
      BY <1>7
    <2>3. ASSUME NEW i \in 1..Len(facts), i \notin 1..Len(before)
          PROVE  \E k \in 1..Len(cascade) : i = Len(before) + k
      <3>1. i - Len(before) \in 1..Len(cascade) /\ i = Len(before) + (i - Len(before))
        BY <2>1, <2>2, <2>3
      <3> QED
        BY <3>1
    <2> QED
      BY <2>2, <2>3
  <1> HIDE DEF facts
  <1>9. \A x \in S : \E i \in 1..Len(facts) : facts[i] = FamilyRevoked(x)
    <2> TAKE x \in S
    <2>1. PICK k \in 1..Len(families) : families[k] = x
      BY <1>4, <1>5
    <2>2. Len(before) + k \in 1..Len(facts) /\ facts[Len(before) + k] = FamilyRevoked(x)
      BY <1>5, <1>7, <1>8, <2>1
    <2> QED
      BY <2>2
  <1>10. \A i \in 1..Len(facts) : \A t \in ConsentTenants, v \in Versions :
            facts[i] # DisclaimerAccepted(t, v)
    <2> SUFFICES ASSUME NEW i \in 1..Len(facts), NEW t \in ConsentTenants, NEW v \in Versions
                 PROVE  facts[i] # DisclaimerAccepted(t, v)
      OBVIOUS
    <2>1. CASE i \in 1..Len(before)
      BY <1>8, <2>1
    <2>2. CASE i \notin 1..Len(before)
      <3>1. PICK k \in 1..Len(cascade) : i = Len(before) + k
        BY <1>8, <2>2
      <3>2. facts[i] = FamilyRevoked(families[k])
        BY <1>7, <1>8, <3>1
      <3> QED
        BY <3>2, TheFactsDiffer
    <2> QED
      BY <2>1, <2>2
  <1>11. Undertaken(facts, {}, {}, S)
    BY <1>1, <1>8, <1>9, <1>10 DEF Undertaken
  <1>12. Begin(facts, {}, {}, S)
    BY <1>3 DEF facts, cascade
  <1> QED
    BY <1>11, <1>12, BeginningKeepsTrust

LEMMA RemovingKeepsTrust ==
    ASSUME TrustInv, NEW s \in Subjects, RemoveMember(s)
    PROVE  TrustInv'
  <1> DEFINE before == <<>>
  <1>1. before \in Seq(TrustFacts) /\ Len(before) = 0
    OBVIOUS
  <1>2. EndAllSessions(s, before)
    BY DEF RemoveMember
  <1>3. \A i \in 1..Len(before) : FALSE
    BY <1>1
  <1> HIDE DEF before
  <1> QED
    BY <1>1, <1>2, <1>3, EndingSessionsKeepsTrust

LEMMA ResettingKeepsTrust ==
    ASSUME LogTypeOK, TrustInv, NEW s \in Subjects, ResetPassword(s)
    PROVE  TrustInv'
  <1> DEFINE before == <<TokenRevoked(NewUuid)>>
  <1>1. TokenRevoked(NewUuid) \in TrustFacts
    BY UuidsAreNew, TheFactsOfTrust DEF ResetPassword, Jtis
  <1>2. before \in Seq(TrustFacts) /\ Len(before) = 1 /\ before[1] = TokenRevoked(NewUuid)
        /\ \A i \in 1..1 : i = 1
    BY <1>1
  <1>3. EndAllSessions(s, before)
    BY DEF ResetPassword
  <1> HIDE DEF before
  <1> QED
    BY <1>2, <1>3, TheFactsDiffer, EndingSessionsKeepsTrust

-----------------------------------------------------------------------------
(* One line more, or a spoilt last line, and what it does to the order.    *)
LEMMA OneMoreIsInOrder ==
    ASSUME NEW S, NEW log \in Seq(S), NEW line \in S, NEW version,
           InOrder(log, version),
           line = Garbled \/ line.fact \in TrustFacts,
           \A v \in Versions : Accepts(line, v) => v = version
    PROVE  InOrder(Append(log, line), version)
  <1> DEFINE more == Append(log, line)
  <1>1. /\ Len(more) = Len(log) + 1 /\ Len(log) \in Nat /\ more[Len(log) + 1] = line
        /\ \A i \in 1..Len(log) : more[i] = log[i]
        /\ \A i \in 1..Len(more) : i \in 1..Len(log) \/ i = Len(log) + 1
    OBVIOUS
  <1> HIDE DEF more
  <1>2. \A i \in 1..Len(more) : more[i] = Garbled \/ more[i].fact \in TrustFacts
    BY <1>1 DEF InOrder
  <1>3. \A i \in 1..Len(more) : \A v \in Versions : Accepts(more[i], v) => v <= version
    BY <1>1 DEF InOrder, Versions
  <1>4. ASSUME NEW i \in 1..Len(more), NEW k \in 1..Len(more), NEW v \in Versions,
               NEW w \in Versions, i < k, Accepts(more[i], v), Accepts(more[k], w)
        PROVE  v <= w
    <2>1. i \in 1..Len(log)
      BY <1>1, <1>4
    <2>2. CASE k \in 1..Len(log)
      BY <1>1, <1>4, <2>1, <2>2 DEF InOrder
    <2>3. CASE k = Len(log) + 1
      <3>1. w = version
        BY <1>1, <1>4, <2>3
      <3> QED
        BY <1>3, <1>4, <3>1
    <2> QED
      BY <1>1, <2>2, <2>3
  <1> QED
    BY <1>2, <1>3, <1>4 DEF InOrder, more

LEMMA SpoiltIsInOrder ==
    ASSUME NEW log, NEW version, InOrder(log, version), Len(log) \in Nat,
           NEW spoilt, Len(spoilt) = Len(log),
           \A i \in 1..Len(log) : spoilt[i] = log[i] \/ spoilt[i] = Garbled
    PROVE  InOrder(spoilt, version)
  <1>1. \A i \in 1..Len(log) : \A v : Accepts(spoilt[i], v) => Accepts(log[i], v)
    BY DEF Accepts
  <1> QED
    BY <1>1 DEF InOrder

LEMMA NewerCodeKeepsOrder ==
    ASSUME NEW log, NEW old \in Nat, NEW new \in Nat, old <= new, InOrder(log, old)
    PROVE  InOrder(log, new)
  BY DEF InOrder, Versions

LEMMA WritingKeepsOrder ==
    ASSUME WInv, InOrder(disk, current), NEW line \in EntrySet \cup {Garbled},
           line = Garbled \/ line.fact \in TrustFacts,
           \A v \in Versions : Accepts(line, v) => v = current
    PROVE  InOrder(LineWritten(line), current)
  <1>1. disk \in Seq(EntrySet \cup {Garbled}) /\ Len(disk) \in Nat
    BY DEF WInv, LogTypeOK
  <1>2. CASE tailOpen
    <2>1. LineWritten(line) = [disk EXCEPT ![Len(disk)] = Garbled]
      BY <1>2 DEF LineWritten
    <2>2. /\ Len(LineWritten(line)) = Len(disk)
          /\ \A i \in 1..Len(disk) : LineWritten(line)[i] = disk[i]
                                       \/ LineWritten(line)[i] = Garbled
      BY <1>1, <2>1
    <2> QED
      BY <1>1, <2>2, SpoiltIsInOrder
  <1>3. CASE ~ tailOpen
    <2>1. LineWritten(line) = Append(disk, line)
      BY <1>3 DEF LineWritten
    <2> QED
      BY <1>1, <2>1, OneMoreIsInOrder
  <1> QED
    BY <1>2, <1>3

(* What an append knows of the handler's next fact.                        *)
LEMMA NextFactIsOurs ==
    ASSUME WInv, TrustInv, handler.facts # <<>>
    PROVE  /\ Head(handler.facts) \in TrustFacts /\ Head(handler.facts) \in Facts
           /\ Head(handler.facts) = handler.facts[1]
           /\ handler.facts \in Seq(TrustFacts)
           /\ Len(handler.facts) \in Nat \ {0}
           /\ NextEntry(Head(handler.facts)) \in EntrySet
           /\ NextEntry(Head(handler.facts)).hash = clock + 1
           /\ NextEntry(Head(handler.facts)).fact = Head(handler.facts)
           /\ NextEntry(Head(handler.facts)) \notin lost
           /\ NextEntry(Head(handler.facts)) # Garbled
           /\ \A v \in Versions : Accepts(NextEntry(Head(handler.facts)), v) => v = current
  <1> DEFINE fact == Head(handler.facts)
  <1>1. handler.facts \in Seq(TrustFacts)
    BY DEF TrustInv, HandlerOK
  <1>2. /\ fact \in TrustFacts /\ fact = handler.facts[1] /\ Len(handler.facts) \in Nat \ {0}
        /\ 1 \in 1..Len(handler.facts)
    BY <1>1
  <1>3. fact \in Facts
    BY <1>2, TheLogTakesThem
  <1> HIDE DEF fact
  <1>4. NextEntry(fact) \in EntrySet /\ NextEntry(fact).hash = clock + 1
    BY <1>3, NextEntryFacts DEF WInv
  <1>5. NextEntry(fact).fact = fact
    BY DEF NextEntry, Entry
  <1>6. NextEntry(fact) \notin lost
    BY <1>4 DEF TrustInv, LostIsLast, WInv, LogTypeOK
  <1>7. NextEntry(fact) # Garbled
    <2>1. /\ DOMAIN NextEntry(fact) = {"sequence", "prev", "fact", "hash"}
          /\ DOMAIN Garbled = {"garbled"}
      BY DEF NextEntry, Entry, Garbled
    <2> QED
      BY <2>1
  <1>8. \A v \in Versions : Accepts(NextEntry(fact), v) => v = current
    BY <1>2, <1>5 DEF Accepts, TrustInv, HandlerOK
  <1> QED
    BY <1>1, <1>2, <1>3, <1>4, <1>5, <1>6, <1>7, <1>8 DEF fact

LEMMA IndexingKeepsTypes ==
    ASSUME NEW s \in IndexesType, NEW e \in EntrySet, e.fact \in TrustFacts
    PROVE  Indexed(s, e) \in IndexesType
  <1>1. e.sequence \in Nat
    BY DEF EntrySet
  <1> QED
    <2>1. CASE \E t \in ConsentTenants, v \in Versions : e.fact = DisclaimerAccepted(t, v)
      BY <1>1, <2>1, AcceptanceIsIndexed
    <2>2. CASE \E t \in ConsentTenants : e.fact = DisclaimerRevoked(t)
      BY <2>2, RevocationIsIndexed
    <2>3. CASE e.fact \in TokenFacts
      BY <2>3, TokenFactIsIndexed
    <2> QED
      BY <2>1, <2>2, <2>3, ConsentFactsAreTwo

LEMMA AppendingKeepsTrust ==
    ASSUME WInv, TrustInv, AppendNext
    PROVE  TrustInv'
  <1> DEFINE fact == Head(handler.facts)
             e == NextEntry(fact)
             done == Len(handler.facts) = 1
  <1>1. handler.facts # <<>> /\ AppendOk(fact) /\ current' = current
    BY DEF AppendNext
  <1>2. /\ consents' = IndexConsent(consents, e) /\ ledger' = Index(ledger, fact)
        /\ handler' = IF done THEN Idle ELSE [handler EXCEPT !.facts = Tail(@)]
        /\ held' = IF done THEN held \cup handler.issues ELSE held
        /\ spent' = IF done THEN spent \cup handler.spends ELSE spent
        /\ ended' = IF done THEN ended \cup handler.ends ELSE ended
    BY DEF AppendNext
  <1>3. /\ fact \in TrustFacts /\ fact \in Facts /\ fact = handler.facts[1]
        /\ handler.facts \in Seq(TrustFacts) /\ Len(handler.facts) \in Nat \ {0}
        /\ e \in EntrySet /\ e.hash = clock + 1 /\ e.fact = fact /\ e \notin lost
        /\ e # Garbled
        /\ \A v \in Versions : Accepts(e, v) => v = current
    BY <1>1, NextFactIsOurs
  <1> HIDE DEF fact, e
  <1>4. /\ up /\ up' = up /\ clock' = clock + 1 /\ entries' = Append(entries, e)
        /\ disk' = LineWritten(e) /\ tailOpen' = FALSE /\ acked' = acked \cup {e}
        /\ lost' = lost
    BY <1>1 DEF AppendOk, AppendedInMemory, e
  <1>5. /\ entries \in Seq(EntrySet) /\ disk \in Seq(EntrySet \cup {Garbled})
        /\ clock \in Nat
    BY DEF WInv, LogTypeOK
  <1>6. Indexes' = Indexed(Indexes, e)
    BY <1>2, <1>3 DEF Indexes, Indexed
  <1>7. Loadable' => /\ Loadable /\ ~ tailOpen /\ disk' = Append(disk, e)
    BY <1>3, <1>4, FileStep DEF LineWritten
  <1>8. StateOK'
    <2>1. Indexes' \in IndexesType
      BY <1>3, <1>6, IndexingKeepsTypes DEF TrustInv, StateOK
    <2>2. /\ held' \subseteq Held /\ spent' \subseteq Jtis /\ ended' \subseteq Families
          /\ current' \in Versions
      BY <1>1, <1>2 DEF TrustInv, StateOK, HandlerOK
    <2> QED
      BY <2>1, <2>2 DEF StateOK, Held, Jtis, Families, Versions, IndexesType
  <1>9. /\ \A g : Acknowledged(g) => Acknowledged(g)'
        /\ \E x \in acked' : x.fact = fact
        /\ \A g : (\E x \in acked' : x.fact = g) => Acknowledged(g)'
    BY <1>3, <1>4 DEF Acknowledged
  <1>10. HandlerOK'
    <2>1. CASE done
      <3>1. handler' = Idle
        BY <1>2, <2>1
      <3>2. /\ Idle \in [facts : Seq(TrustFacts), issues : SUBSET Held,
                         spends : SUBSET Jtis, ends : SUBSET Families]
            /\ Len(Idle.facts) = 0 /\ Idle.spends = {} /\ Idle.ends = {}
        BY DEF Idle
      <3> QED
        BY <3>1, <3>2 DEF HandlerOK, Jtis, Families, Held, Versions
    <2>2. CASE ~ done
      <3> DEFINE rest == Tail(handler.facts)
      <3>1. /\ handler \in [facts : Seq(TrustFacts), issues : SUBSET Held,
                            spends : SUBSET Jtis, ends : SUBSET Families]
            /\ handler' = [handler EXCEPT !.facts = rest]
        BY <1>2, <2>2 DEF TrustInv, HandlerOK
      <3>2. /\ rest \in Seq(TrustFacts) /\ Len(rest) = Len(handler.facts) - 1
            /\ \A i \in 1..Len(rest) : i + 1 \in 1..Len(handler.facts)
                                         /\ rest[i] = handler.facts[i + 1]
            /\ \A i \in 1..Len(handler.facts) : i # 1 =>
                 i - 1 \in 1..Len(rest) /\ rest[i - 1] = handler.facts[i]
        BY <1>1, <1>3
      <3> HIDE DEF rest
      <3>3. handler' \in [facts : Seq(TrustFacts), issues : SUBSET Held,
                          spends : SUBSET Jtis, ends : SUBSET Families]
            /\ handler'.facts = rest /\ handler'.spends = handler.spends
            /\ handler'.ends = handler.ends
        BY <3>1, <3>2
      <3>4. \A g : Written(g) => Written(g)'
        <4> SUFFICES ASSUME NEW g, Written(g) PROVE Written(g)'
          OBVIOUS
        <4>1. CASE Acknowledged(g)
          BY <1>9, <4>1 DEF Written
        <4>2. CASE \E i \in 1..Len(handler.facts) : handler.facts[i] = g
          <5>1. PICK i \in 1..Len(handler.facts) : handler.facts[i] = g
            BY <4>2
          <5>2. CASE i = 1
            <6>1. g = fact
              BY <1>3, <5>1, <5>2
            <6>2. Acknowledged(g)'
              BY <1>9, <6>1
            <6> QED
              BY <6>2 DEF Written
          <5>3. CASE i # 1
            BY <3>2, <3>3, <5>1, <5>3 DEF Written
          <5> QED
            BY <5>2, <5>3
        <4> QED
          BY <4>1, <4>2 DEF Written
      <3>5. \A i \in 1..Len(handler'.facts) : \A t \in ConsentTenants, v \in Versions :
              handler'.facts[i] = DisclaimerAccepted(t, v) => v = current'
        <4>1. \A i \in 1..Len(rest) : \A t \in ConsentTenants, v \in Versions :
                rest[i] = DisclaimerAccepted(t, v) => v = current
          BY <3>2 DEF TrustInv, HandlerOK
        <4> QED
          BY <1>1, <3>3, <4>1
      <3>6. /\ \A j \in handler'.spends : Written(RefreshTokenRedeemed(j))'
            /\ \A f \in handler'.ends : Written(FamilyRevoked(f))'
        BY <3>3, <3>4 DEF TrustInv, HandlerOK
      <3> QED
        BY <1>4, <3>3, <3>5, <3>6 DEF HandlerOK, Jtis, Families, Held, Versions
    <2> QED
      BY <2>1, <2>2
  <1>11. LinesInOrder'
    <2>1. InOrder(entries', current)
      BY <1>3, <1>4, <1>5, OneMoreIsInOrder DEF TrustInv, LinesInOrder
    <2>2. InOrder(disk', current)
      BY <1>3, <1>4, WritingKeepsOrder DEF TrustInv, LinesInOrder
    <2> QED
      BY <1>1, <2>1, <2>2 DEF LinesInOrder
  <1>12. AnswersAreAcknowledged'
    <2>1. CASE ~ done
      BY <1>2, <1>9, <2>1 DEF TrustInv, AnswersAreAcknowledged
    <2>2. CASE done
      <3>1. \A g : Written(g) => Acknowledged(g)'
        <4>1. \A i \in 1..Len(handler.facts) : handler.facts[i] = fact
          BY <1>3, <2>2
        <4>2. SUFFICES ASSUME NEW g, Written(g) PROVE Acknowledged(g)'
          OBVIOUS
        <4>3. CASE Acknowledged(g)
          BY <1>9, <4>3
        <4>4. CASE g = fact
          BY <1>9, <4>4
        <4> QED
          BY <4>1, <4>2, <4>3, <4>4 DEF Written
      <3>2. /\ \A j \in spent' : Acknowledged(RefreshTokenRedeemed(j))'
            /\ \A f \in ended' : Acknowledged(FamilyRevoked(f))'
        BY <1>2, <1>9, <2>2, <3>1 DEF TrustInv, AnswersAreAcknowledged, HandlerOK
      <3> QED
        BY <3>2 DEF AnswersAreAcknowledged
    <2> QED
      BY <2>1, <2>2
  <1>13. LostIsLast'
    <2>1. \A x \in lost' : x.hash <= clock'
      BY <1>4, <1>5 DEF TrustInv, LostIsLast, WInv, LogTypeOK, EntrySet
    <2>2. \A x \in acked' : x \notin lost'
      BY <1>3, <1>4 DEF TrustInv, LostIsLast
    <2>3. ASSUME Loadable', NEW i \in 1..Len(disk'), disk'[i] \in lost'
          PROVE  FALSE
      <3>1. /\ Loadable /\ ~ tailOpen /\ disk' = Append(disk, e)
        BY <1>7, <2>3
      <3>2. /\ \/ i \in 1..Len(disk) /\ disk'[i] = disk[i]
               \/ disk'[i] = e
        BY <1>3, <1>5, <2>3, <3>1
      <3> QED
        BY <1>3, <1>4, <2>3, <3>1, <3>2 DEF TrustInv, LostIsLast
    <2> QED
      BY <2>1, <2>2, <2>3 DEF LostIsLast
  <1>14. IndexesFollow'
    <2>1. Indexes' = Replay(entries', lost')
      <3>1. Replay(Append(entries, e), lost) = Indexed(Replay(entries, lost), e)
        BY <1>3, <1>5, ReplayOfOneMore
      <3> QED
        BY <1>4, <1>6, <3>1 DEF TrustInv, IndexesFollow
    <2>2. Loadable' => Indexes' = Replay(disk', lost')
      <3>1. Replay(Append(disk, e), lost) = Indexed(Replay(disk, lost), e)
        BY <1>3, <1>5, ReplayOfOneMore
      <3> QED
        BY <1>4, <1>6, <1>7, <3>1 DEF TrustInv, IndexesFollow
    <2> QED
      BY <2>1, <2>2 DEF IndexesFollow
  <1> QED
    BY <1>8, <1>10, <1>11, <1>12, <1>13, <1>14 DEF TrustInv

(* A failed write leaves its entry in memory, where it does not count.     *)
LEMMA RaisingKeepsTrust ==
    ASSUME WInv, TrustInv, AppendRaises
    PROVE  TrustInv'
  <1> DEFINE fact == Head(handler.facts)
             e == NextEntry(fact)
  <1>1. PICK how \in WriteFailures : AppendFails(fact, how)
    BY DEF AppendRaises
  <1>2. /\ handler.facts # <<>> /\ handler' = Idle
        /\ consents' = consents /\ ledger' = ledger /\ current' = current
        /\ held' = held /\ spent' = spent /\ ended' = ended
    BY DEF AppendRaises
  <1>3. /\ fact \in TrustFacts /\ fact \in Facts
        /\ e \in EntrySet /\ e.hash = clock + 1 /\ e.fact = fact /\ e \notin lost
        /\ e # Garbled
        /\ \A v \in Versions : Accepts(e, v) => v = current
    BY <1>2, NextFactIsOurs
  <1> HIDE DEF fact, e
  <1>4. /\ up /\ up' = up /\ clock' = clock + 1 /\ entries' = Append(entries, e)
        /\ acked' = acked /\ lost' = lost \cup {e} /\ AppendedInMemory(fact)
        /\ \/ how = "nothing" /\ disk' = disk /\ tailOpen' = tailOpen
           \/ how = "fragment" /\ disk' = LineWritten(Garbled) /\ tailOpen' = TRUE
           \/ how = "no_newline" /\ disk' = LineWritten(e) /\ tailOpen' = TRUE
    BY <1>1 DEF AppendFails, AppendedInMemory, e
  <1>5. /\ entries \in Seq(EntrySet) /\ disk \in Seq(EntrySet \cup {Garbled})
        /\ clock \in Nat
    BY DEF WInv, LogTypeOK
  <1>6. /\ \A i \in 1..Len(entries) : entries[i] # e
        /\ \A i \in 1..Len(disk) : disk[i] # e
        /\ e \notin acked
    BY <1>3, <1>5 DEF WInv, NothingIsNewerThanTheClock
  <1>7. /\ how = "nothing" => Loadable' = Loadable
        /\ how = "fragment" => ~ Loadable'
        /\ how = "no_newline" /\ Loadable' => Loadable /\ ~ tailOpen /\ disk' = Append(disk, e)
    <2>1. CASE how = "nothing"
      BY <1>4, <2>1 DEF Loadable
    <2>2. CASE how = "fragment"
      <3>1. disk' = LineWritten(Garbled)
        BY <1>4, <2>2
      <3>2. Loadable' => Len(disk') = Len(disk) + 1 /\ disk'[Len(disk) + 1] = Garbled
        BY <1>4, <3>1, FileStep
      <3> QED
        BY <1>5, <2>2, <3>2 DEF Loadable
    <2>3. CASE how = "no_newline"
      <3>1. disk' = LineWritten(e)
        BY <1>4, <2>3
      <3>2. Loadable' => Loadable /\ ~ tailOpen
        BY <1>3, <1>4, <3>1, FileStep
      <3> QED
        BY <2>3, <3>1, <3>2 DEF LineWritten
    <2> QED
      BY <1>4, <2>1, <2>2, <2>3
  <1>8. StateOK'
    BY <1>2 DEF TrustInv, StateOK, Indexes
  <1>9. HandlerOK'
    <2>1. /\ Idle \in [facts : Seq(TrustFacts), issues : SUBSET Held,
                       spends : SUBSET Jtis, ends : SUBSET Families]
          /\ Len(Idle.facts) = 0 /\ Idle.spends = {} /\ Idle.ends = {}
      BY DEF Idle
    <2> QED
      BY <1>2, <2>1 DEF HandlerOK
  <1>10. LinesInOrder'
    <2>1. InOrder(entries', current)
      BY <1>3, <1>4, <1>5, OneMoreIsInOrder DEF TrustInv, LinesInOrder
    <2>2. InOrder(disk', current)
      <3>1. InOrder(disk, current)
        BY DEF TrustInv, LinesInOrder
      <3>2. \A v \in Versions : ~ Accepts(Garbled, v)
        BY DEF Accepts
      <3>3. InOrder(LineWritten(Garbled), current)
        BY <3>1, <3>2, WritingKeepsOrder
      <3>4. InOrder(LineWritten(e), current)
        BY <1>3, <3>1, WritingKeepsOrder
      <3> QED
        BY <1>4, <3>1, <3>3, <3>4
    <2> QED
      BY <1>2, <2>1, <2>2 DEF LinesInOrder
  <1>11. AnswersAreAcknowledged'
    BY <1>2, <1>4 DEF TrustInv, AnswersAreAcknowledged, Acknowledged
  <1>12. LostIsLast'
    <2>1. \A x \in lost' : x.hash <= clock'
      BY <1>3, <1>4, <1>5 DEF TrustInv, LostIsLast, WInv, LogTypeOK, EntrySet
    <2>2. \A x \in acked' : x \notin lost'
      BY <1>4, <1>6 DEF TrustInv, LostIsLast
    <2>3. ASSUME Loadable', NEW i \in 1..Len(disk'), disk'[i] \in lost'
          PROVE  i = Len(disk') /\ tailOpen'
      <3>1. CASE disk' = disk /\ tailOpen' = tailOpen
        BY <1>4, <1>6, <2>3, <3>1 DEF TrustInv, LostIsLast, Loadable
      <3>2. CASE /\ disk' = Append(disk, e) /\ tailOpen' = TRUE
                 /\ Loadable /\ ~ tailOpen
        <4>1. \/ i \in 1..Len(disk) /\ disk'[i] = disk[i]
              \/ i = Len(disk') /\ disk'[i] = e
          BY <1>3, <1>5, <2>3, <3>2
        <4> QED
          BY <1>4, <1>6, <2>3, <3>2, <4>1 DEF TrustInv, LostIsLast
      <3> QED
        BY <1>4, <1>7, <2>3, <3>1, <3>2
    <2> QED
      BY <2>1, <2>2, <2>3 DEF LostIsLast
  <1>13. IndexesFollow'
    <2>1. /\ Replay(entries, lost') = Replay(entries, lost)
          /\ Replay(disk, lost') = Replay(disk, lost)
      <3>1. /\ \A i \in 1..Len(entries) : entries[i] \in lost' <=> entries[i] \in lost
            /\ \A i \in 1..Len(disk) : disk[i] \in lost' <=> disk[i] \in lost
        BY <1>4, <1>6
      <3> QED
        BY <1>5, <3>1, ReplayOfSkippingMore
    <2>2. /\ Replay(Append(entries, e), lost') = Replay(entries, lost')
          /\ Replay(Append(disk, e), lost') = Replay(disk, lost')
      <3>1. e \in lost'
        BY <1>4
      <3> QED
        BY <1>3, <1>5, <3>1, ReplayOfOneMore
    <2>3. Indexes' = Indexes
      BY <1>2 DEF Indexes
    <2>4. Indexes' = Replay(entries', lost')
      BY <1>4, <2>1, <2>2, <2>3 DEF TrustInv, IndexesFollow
    <2>5. Loadable' => Indexes' = Replay(disk', lost')
      <3> SUFFICES ASSUME Loadable' PROVE Indexes' = Replay(disk', lost')
        OBVIOUS
      <3>1. Loadable /\ (disk' = disk \/ disk' = Append(disk, e))
        BY <1>4, <1>7
      <3> QED
        BY <2>1, <2>2, <2>3, <3>1 DEF TrustInv, IndexesFollow
    <2> QED
      BY <2>4, <2>5 DEF IndexesFollow
  <1> QED
    BY <1>8, <1>9, <1>10, <1>11, <1>12, <1>13 DEF TrustInv

LEMMA CrashingKeepsTrust ==
    ASSUME TrustInv, Crash
    PROVE  TrustInv'
  <1>1. /\ up' = FALSE /\ entries' = <<>> /\ handler' = Idle
        /\ disk' = disk /\ tailOpen' = tailOpen /\ clock' = clock /\ acked' = acked
        /\ lost' = lost /\ consents' = consents /\ ledger' = ledger /\ current' = current
        /\ held' = held /\ spent' = spent /\ ended' = ended
    BY DEF Crash, CrashLog
  <1>2. StateOK' /\ LostIsLast' /\ AnswersAreAcknowledged'
    BY <1>1 DEF TrustInv, StateOK, Indexes, LostIsLast, Loadable, AnswersAreAcknowledged,
                Acknowledged
  <1>3. LinesInOrder'
    <2>1. InOrder(<<>>, current)
      BY DEF InOrder
    <2> QED
      BY <1>1, <2>1 DEF TrustInv, LinesInOrder
  <1>4. IndexesFollow'
    BY <1>1 DEF TrustInv, IndexesFollow, Indexes, Loadable
  <1>5. HandlerOK'
    <2>1. /\ Idle \in [facts : Seq(TrustFacts), issues : SUBSET Held,
                       spends : SUBSET Jtis, ends : SUBSET Families]
          /\ Len(Idle.facts) = 0 /\ Idle.spends = {} /\ Idle.ends = {}
      BY DEF Idle
    <2> QED
      BY <1>1, <2>1 DEF HandlerOK
  <1> QED
    BY <1>2, <1>3, <1>4, <1>5 DEF TrustInv

(* A log of ours can be replayed, and what comes out is a pair of indexes. *)
LEMMA OurLogIsRecorded ==
    ASSUME NEW log \in Seq(EntrySet \cup {Garbled}), NEW version, NEW skipped,
           InOrder(log, version), \A i \in 1..Len(log) : log[i] # Garbled
    PROVE  Recorded(Replay(log, skipped), log, skipped, Len(log))
  <1>1. \A i \in 1..Len(log) : log[i].fact \in TrustFacts /\ log[i].sequence \in Nat
    BY DEF InOrder, EntrySet
  <1> QED
    BY <1>1, ReplayRecordsTheLog

LEMMA StartingKeepsTrust ==
    ASSUME WInv, TrustInv, Start
    PROVE  TrustInv'
  <1>1. /\ ~ up /\ Loadable /\ up' = TRUE /\ entries' = disk /\ lost' = {}
        /\ disk' = disk /\ tailOpen' = tailOpen /\ clock' = clock /\ acked' = acked
        /\ handler' = handler /\ held' = held /\ spent' = spent /\ ended' = ended
        /\ current' \in current..MaxVersion
        /\ consents' = Replay(disk, {}).consents /\ ledger' = Replay(disk, {}).ledger
    BY DEF Start, StartLog
  <1>2. /\ current \in Nat /\ current' \in Versions /\ current' \in Nat /\ current <= current'
        /\ disk \in Seq(EntrySet \cup {Garbled})
    BY <1>1, VersionBound DEF TrustInv, StateOK, Versions, WInv, LogTypeOK
  <1>3. Replay(disk, {}) \in IndexesType
    BY <1>1, <1>2, OurLogIsRecorded DEF TrustInv, LinesInOrder, Loadable, Recorded
  <1>4. Indexes' = Replay(disk, {})
    BY <1>1, <1>3 DEF Indexes, IndexesType
  <1>5. StateOK'
    <2>1. Indexes' \in IndexesType
      BY <1>3, <1>4
    <2> QED
      BY <1>1, <1>2, <2>1 DEF TrustInv, StateOK, IndexesType, Held, Jtis, Families, Versions
  <1>6. HandlerOK'
    <2>1. handler = Idle
      BY <1>1 DEF TrustInv, HandlerOK
    <2>2. /\ Idle \in [facts : Seq(TrustFacts), issues : SUBSET Held,
                       spends : SUBSET Jtis, ends : SUBSET Families]
          /\ Len(Idle.facts) = 0 /\ Idle.spends = {} /\ Idle.ends = {}
      BY DEF Idle
    <2> QED
      BY <1>1, <2>1, <2>2 DEF HandlerOK
  <1>7. LinesInOrder'
    BY <1>1, <1>2, NewerCodeKeepsOrder DEF TrustInv, LinesInOrder
  <1>8. AnswersAreAcknowledged'
    BY <1>1 DEF TrustInv, AnswersAreAcknowledged, Acknowledged
  <1>9. LostIsLast'
    BY <1>1 DEF TrustInv, LostIsLast
  <1>10. IndexesFollow'
    BY <1>1, <1>4 DEF IndexesFollow
  <1> QED
    BY <1>5, <1>6, <1>7, <1>8, <1>9, <1>10 DEF TrustInv

LEMMA InitEstablishesTrust == Init => TrustInv
  <1> SUFFICES ASSUME Init PROVE TrustInv
    OBVIOUS
  <1>1. /\ entries = <<>> /\ disk = <<>> /\ acked = {} /\ lost = {} /\ clock = 0
        /\ consents = NoConsents /\ ledger = EmptyLedger /\ current = 1
        /\ handler = Idle /\ held = {} /\ spent = {} /\ ended = {} /\ up
    BY DEF Init, LogInit
  <1>2. Indexes = Nothing
    BY <1>1 DEF Indexes, Nothing
  <1>3. StateOK
    <2>1. Nothing \in IndexesType
      BY NothingIsRecorded DEF Recorded
    <2>2. current \in Versions
      BY <1>1, VersionBound DEF Versions
    <2> QED
      BY <1>1, <1>2, <2>1, <2>2 DEF StateOK
  <1>4. HandlerOK
    <2>1. /\ Idle \in [facts : Seq(TrustFacts), issues : SUBSET Held,
                       spends : SUBSET Jtis, ends : SUBSET Families]
          /\ Len(Idle.facts) = 0 /\ Idle.spends = {} /\ Idle.ends = {}
      BY DEF Idle
    <2> QED
      BY <1>1, <2>1 DEF HandlerOK
  <1>5. LinesInOrder
    BY <1>1 DEF LinesInOrder, InOrder
  <1>6. AnswersAreAcknowledged /\ LostIsLast
    BY <1>1 DEF AnswersAreAcknowledged, LostIsLast
  <1>7. IndexesFollow
    BY <1>1, <1>2, ReplayOfNothing DEF IndexesFollow
  <1> QED
    BY <1>3, <1>4, <1>5, <1>6, <1>7 DEF TrustInv

LEMMA StandingStillKeepsTrust ==
    ASSUME TrustInv, UNCHANGED vars
    PROVE  TrustInv'
  <1>1. /\ entries' = entries /\ disk' = disk /\ tailOpen' = tailOpen /\ up' = up
        /\ clock' = clock /\ acked' = acked /\ lost' = lost /\ consents' = consents
        /\ ledger' = ledger /\ current' = current /\ held' = held /\ spent' = spent
        /\ ended' = ended /\ handler' = handler
    BY DEF vars, wvars
  <1>2. StateOK' /\ LostIsLast' /\ AnswersAreAcknowledged'
    BY <1>1 DEF TrustInv, StateOK, Indexes, LostIsLast, Loadable, AnswersAreAcknowledged,
                Acknowledged
  <1>3. LinesInOrder' /\ IndexesFollow'
    BY <1>1 DEF TrustInv, LinesInOrder, IndexesFollow, Indexes, Loadable
  <1>4. HandlerOK'
    BY <1>1 DEF TrustInv, HandlerOK, Written, Acknowledged
  <1> QED
    BY <1>2, <1>3, <1>4 DEF TrustInv

(* A signer that raises ends the handler, and changes nothing else.        *)
LEMMA SigningKeepsTrust ==
    ASSUME TrustInv, SigningRaises
    PROVE  TrustInv'
  <1>1. /\ handler' = Idle
        /\ entries' = entries /\ disk' = disk /\ tailOpen' = tailOpen /\ up' = up
        /\ clock' = clock /\ acked' = acked /\ lost' = lost /\ consents' = consents
        /\ ledger' = ledger /\ current' = current /\ held' = held /\ spent' = spent
        /\ ended' = ended
    BY DEF SigningRaises, wvars
  <1>2. StateOK' /\ LostIsLast' /\ AnswersAreAcknowledged'
    BY <1>1 DEF TrustInv, StateOK, Indexes, LostIsLast, Loadable, AnswersAreAcknowledged,
                Acknowledged
  <1>3. LinesInOrder' /\ IndexesFollow'
    BY <1>1 DEF TrustInv, LinesInOrder, IndexesFollow, Indexes, Loadable
  <1>4. HandlerOK'
    <2>1. /\ Idle \in [facts : Seq(TrustFacts), issues : SUBSET Held,
                       spends : SUBSET Jtis, ends : SUBSET Families]
          /\ Len(Idle.facts) = 0 /\ Idle.spends = {} /\ Idle.ends = {}
      BY DEF Idle
    <2> QED
      BY <1>1, <2>1 DEF HandlerOK
  <1> QED
    BY <1>2, <1>3, <1>4 DEF TrustInv

-----------------------------------------------------------------------------
(* The trust log takes the steps of its log: a handler that begins takes   *)
(* none, an append writes a fact the log knows.                            *)
BeginsAHandler ==
    \/ \E t \in ConsentTenants : AcceptDisclaimer(t) \/ RevokeAcceptance(t)
    \/ \E s \in Subjects : Login(s) \/ AcceptInvite(s) \/ RemoveMember(s) \/ ResetPassword(s)
    \/ \E tok \in held : Refresh(tok) \/ RevokeToken(tok)

LEMMA BeginningTakesNoLogStep ==
    ASSUME BeginsAHandler
    PROVE  UNCHANGED wvars /\ consents' = consents /\ up' = up
  BY DEF BeginsAHandler, AcceptDisclaimer, RevokeAcceptance, Login, AcceptInvite, EndAllSessions,
         RemoveMember, ResetPassword, Refresh, RevokeToken, Begin, wvars

LEMMA StepsOfTheLog ==
    ASSUME WInv, TrustInv, [Next]_vars
    PROVE  [LogNext]_wvars
  <1>1. CASE BeginsAHandler
    BY <1>1, BeginningTakesNoLogStep
  <1>2. CASE AppendNext
    <2>1. handler.facts # <<>> /\ AppendOk(Head(handler.facts))
      BY <1>2 DEF AppendNext
    <2> QED
      BY <2>1, NextFactIsOurs DEF LogNext
  <1>3. CASE AppendRaises
    <2>1. handler.facts # <<>> /\ \E how \in WriteFailures : AppendFails(Head(handler.facts), how)
      BY <1>3 DEF AppendRaises
    <2> QED
      BY <2>1, NextFactIsOurs DEF LogNext
  <1>4. CASE Crash
    BY <1>4 DEF Crash, LogNext
  <1>5. CASE Start
    BY <1>5 DEF Start, LogNext
  <1>6. CASE UNCHANGED vars
    BY <1>6 DEF vars
  <1>7. CASE SigningRaises
    BY <1>7 DEF SigningRaises
  <1> QED
    BY <1>1, <1>2, <1>3, <1>4, <1>5, <1>6, <1>7 DEF Next, BeginsAHandler

LEMMA NextKeepsTrust ==
    ASSUME WInv, TrustInv, [Next]_vars
    PROVE  TrustInv'
  <1>1. LogTypeOK
    BY DEF WInv
  <1>2. CASE BeginsAHandler
    BY <1>1, <1>2, AcceptingKeepsTrust, RevokingKeepsTrust, LoggingInKeepsTrust,
       AcceptingAnInviteKeepsTrust, RefreshingKeepsTrust, RevokingATokenKeepsTrust,
       RemovingKeepsTrust, ResettingKeepsTrust DEF BeginsAHandler
  <1> QED
    BY <1>2, AppendingKeepsTrust, RaisingKeepsTrust, SigningKeepsTrust, CrashingKeepsTrust,
       StartingKeepsTrust, StandingStillKeepsTrust DEF Next, BeginsAHandler

LEMMA NextKeepsTheLog ==
    ASSUME WInv, [LogNext]_wvars
    PROVE  WInv'
  <1>1. ASSUME UNCHANGED wvars PROVE WInv'
    BY <1>1 DEF wvars, WInv, LogTypeOK, LogIsChronological, LinesAreChronological,
       NothingIsNewerThanTheClock, AcknowledgedAreOnDisk, AcknowledgedFactsSurvive,
       OpenTailHasALine, Loadable
  <1> QED
    BY <1>1, LogBounds, AppendOkPreservesWInv, AppendFailsPreservesWInv, CrashPreservesWInv,
       StartPreservesWInv DEF LogNext

(***************************************************************************)
(* The log and the two projections built over it keep their invariant      *)
(* together.                                                               *)
(***************************************************************************)
THEOREM TrustInvariantHolds == Spec => [](WInv /\ TrustInv)
  <1>1. Init => WInv /\ TrustInv
    BY LogInitEstablishesWInv, InitEstablishesTrust DEF Init
  <1>2. WInv /\ TrustInv /\ [Next]_vars => WInv' /\ TrustInv'
    BY StepsOfTheLog, NextKeepsTrust, NextKeepsTheLog
  <1> QED
    BY <1>1, <1>2, PTL DEF Spec

(***************************************************************************)
(* The trust log is a user of the log: everything that is proved of the    *)
(* log is true of it.                                                      *)
(***************************************************************************)
THEOREM TrustImplementsTheLog == Spec => LogSpec
  <1>1. Init => LogInit
    BY DEF Init
  <1>2. WInv /\ TrustInv /\ [Next]_vars => [LogNext]_wvars
    BY StepsOfTheLog
  <1> QED
    BY <1>1, <1>2, TrustInvariantHolds, PTL DEF Spec, LogSpec

(***************************************************************************)
(* Types.                                                                  *)
(***************************************************************************)
THEOREM TrustIsWellTyped == Spec => []TypeOK
  <1>1. WInv /\ TrustInv => TypeOK
    BY DEF WInv, TrustInv, StateOK, Indexes, IndexesType, TypeOK
  <1> QED
    BY <1>1, TrustInvariantHolds, PTL

-----------------------------------------------------------------------------
(* The properties.                                                         *)
LEMMA MemoryIsRecorded ==
    ASSUME WInv, TrustInv, up
    PROVE  /\ Recorded(Indexes, entries, lost, Len(entries))
           /\ entries \in Seq(EntrySet)
           /\ \A i \in 1..Len(entries) : entries[i] # Garbled /\ entries[i].fact \in TrustFacts
  <1>1. entries \in Seq(EntrySet)
    BY DEF WInv, LogTypeOK
  <1>2. \A e \in EntrySet : e # Garbled
    <2> SUFFICES ASSUME NEW e \in EntrySet, e = Garbled PROVE FALSE
      OBVIOUS
    <2>1. /\ DOMAIN e = {"sequence", "prev", "fact", "hash"}
          /\ DOMAIN Garbled = {"garbled"}
      BY DEF EntrySet, Garbled
    <2> QED
      BY <2>1
  <1>3. \A i \in 1..Len(entries) : entries[i] # Garbled
    BY <1>1, <1>2
  <1>4. entries \in Seq(EntrySet \cup {Garbled})
    BY <1>1
  <1>5. InOrder(entries, current)
    BY DEF TrustInv, LinesInOrder
  <1>6. Recorded(Replay(entries, lost), entries, lost, Len(entries))
    BY <1>3, <1>4, <1>5, OurLogIsRecorded
  <1> QED
    BY <1>1, <1>3, <1>5, <1>6 DEF TrustInv, IndexesFollow, InOrder

(***************************************************************************)
(* Both indexes are what a replay of the log gives, entries whose write    *)
(* failed left out: in every process, after any failures and restarts.     *)
(***************************************************************************)
THEOREM IndexesAreAReplay == Spec => []IndexesMatchTheLog
  <1>1. TrustInv => IndexesMatchTheLog
    BY DEF TrustInv, IndexesFollow, Indexes, IndexesMatchTheLog
  <1> QED
    BY <1>1, TrustInvariantHolds, PTL

(***************************************************************************)
(* What was answered stays true: a rotated refresh token is spent and an   *)
(* ended session closed, in every later process.                           *)
(***************************************************************************)
THEOREM AnswersAreKept == Spec => []AnswersOutliveTheProcess
  <1>1. ASSUME WInv, TrustInv, up
        PROVE  spent \subseteq ledger.redeemedRefreshJtis /\ ended \subseteq ledger.revokedFamilies
    <2>1. \A e \in acked : \E i : Counts(entries, lost, Len(entries), i) /\ entries[i] = e
      BY <1>1 DEF WInv, AcknowledgedFactsSurvive, TrustInv, LostIsLast, Counts
    <2>2. TokensRecorded(Indexes.ledger, entries, lost, Len(entries))
      BY <1>1, MemoryIsRecorded DEF Recorded
    <2>3. Indexes.ledger = ledger
      BY DEF Indexes
    <2> QED
      BY <1>1, <2>1, <2>2, <2>3
         DEF TrustInv, AnswersAreAcknowledged, Acknowledged, TokensRecorded
  <1>2. WInv /\ TrustInv => AnswersOutliveTheProcess
    BY <1>1 DEF AnswersOutliveTheProcess
  <1> QED
    BY <1>2, TrustInvariantHolds, PTL

(***************************************************************************)
(* The gate of POST /legal/accept opens exactly when the log holds an      *)
(* acceptance of the version in force that was not taken back: keeping     *)
(* only the latest acceptance of a tenant loses nothing.                   *)
(***************************************************************************)
THEOREM LatestIsEnough == Spec => []LatestAcceptanceIsEnough
  <1>1. ASSUME WInv, TrustInv, up, NEW t \in ConsentTenants
        PROVE  HasAcceptedCurrentDisclaimer(consents, t, current) <=>
                 \E i \in 1..Len(entries) :
                   /\ Effective(i)
                   /\ entries[i].fact = DisclaimerAccepted(t, current)
                   /\ \A k \in i..Len(entries) :
                        Effective(k) => entries[k].fact # DisclaimerRevoked(t)
    <2> DEFINE N == Len(entries)
               record == consents[t]
    <2>0. /\ N \in Nat /\ current \in Versions /\ current \in Nat
          /\ \A i : Effective(i) <=> Counts(entries, lost, N, i)
          /\ \A i : Counts(entries, lost, N, i) => i \in 1..N /\ i \in Nat
      BY <1>1 DEF WInv, LogTypeOK, TrustInv, StateOK, Versions, Effective, Counts
    <2>1. ConsentRecorded(record, entries, lost, N, t)
      BY <1>1, MemoryIsRecorded DEF Recorded, Indexes
    <2>2. \A i, k \in 1..N : \A v, w \in Versions :
            i < k /\ entries[i].fact = DisclaimerAccepted(t, v)
                  /\ entries[k].fact = DisclaimerAccepted(t, w) => v <= w
      BY <1>1, MemoryIsRecorded DEF TrustInv, LinesInOrder, InOrder, Accepts
    <2>3. \A i \in 1..N : \A v \in Versions :
            entries[i].fact = DisclaimerAccepted(t, v) => v <= current
      BY <1>1, MemoryIsRecorded DEF TrustInv, LinesInOrder, InOrder, Accepts
    <2> HIDE DEF N, record
    <2>4. ASSUME record # NoRecord, record.version = current
          PROVE  \E i \in 1..N : /\ Effective(i)
                                 /\ entries[i].fact = DisclaimerAccepted(t, current)
                                 /\ \A k \in i..N :
                                      Effective(k) => entries[k].fact # DisclaimerRevoked(t)
      <3>1. PICK i : /\ Counts(entries, lost, N, i)
                     /\ entries[i].fact = DisclaimerAccepted(t, record.version)
                     /\ \A k : i < k /\ Counts(entries, lost, N, k) =>
                          entries[k].fact # DisclaimerRevoked(t)
        BY <2>1, <2>4 DEF ConsentRecorded, LatestStands
      <3>2. ASSUME NEW k \in i..N, Effective(k)
            PROVE  entries[k].fact # DisclaimerRevoked(t)
        <4>1. i = k \/ i < k
          BY <2>0, <3>1, <3>2
        <4> QED
          BY <2>0, <3>1, <3>2, <4>1, ConsentFactsAreDifferent
      <3> QED
        BY <2>0, <2>4, <3>1, <3>2
    <2>5. ASSUME NEW i \in 1..N, Effective(i),
                 entries[i].fact = DisclaimerAccepted(t, current),
                 \A k \in i..N : Effective(k) => entries[k].fact # DisclaimerRevoked(t)
          PROVE  record # NoRecord /\ record.version = current
      <3>1. ~ AllTakenBack(entries, lost, N, t)
        <4> SUFFICES ASSUME AllTakenBack(entries, lost, N, t) PROVE FALSE
          OBVIOUS
        <4>1. PICK k : /\ i < k /\ Counts(entries, lost, N, k)
                       /\ entries[k].fact = DisclaimerRevoked(t)
          BY <2>0, <2>5 DEF AllTakenBack
        <4> QED
          BY <2>0, <2>5, <4>1
      <3>2. /\ record.version \in Versions
            /\ LatestStands(record, entries, lost, N, t)
        BY <2>1, <3>1 DEF ConsentRecorded
      <3>3. PICK m : /\ Counts(entries, lost, N, m)
                     /\ entries[m].fact = DisclaimerAccepted(t, record.version)
                     /\ \A k : m < k /\ Counts(entries, lost, N, k) =>
                          \A v : entries[k].fact # DisclaimerAccepted(t, v)
        BY <3>2 DEF LatestStands
      <3>4. m \in 1..N /\ m \in Nat /\ i \in Nat /\ ~ (m < i)
        BY <2>0, <2>5, <3>3
      <3>5. record.version = current
        <4>1. CASE m = i
          BY <2>5, <3>3, <4>1, ConsentFactsAreDifferent
        <4>2. CASE i < m
          <5>1. current <= record.version /\ record.version <= current
            BY <2>0, <2>2, <2>3, <2>5, <3>2, <3>3, <3>4, <4>2
          <5> QED
            BY <2>0, <3>2, <5>1 DEF Versions
        <4> QED
          BY <3>4, <4>1, <4>2
      <3> QED
        BY <3>2, <3>5 DEF NoRecord, Versions
    <2> QED
      BY <2>4, <2>5 DEF HasAcceptedCurrentDisclaimer, N, record
  <1>2. WInv /\ TrustInv => LatestAcceptanceIsEnough
    BY <1>1 DEF LatestAcceptanceIsEnough
  <1> QED
    BY <1>2, TrustInvariantHolds, PTL

(***************************************************************************)
(* While the chain verifies, the record of a tenant names the entry of the *)
(* acceptance it was derived from.                                         *)
(***************************************************************************)
THEOREM ConsentLeadsBack == Spec => []ConsentIsTraceable
  <1>1. ASSUME WInv, TrustInv, SequenceNamesOneEntry, up, Verify(entries),
               NEW t \in ConsentTenants, consents[t] # NoRecord
        PROVE  /\ consents[t].walSequence < Len(entries)
               /\ entries[consents[t].walSequence + 1].fact =
                    DisclaimerAccepted(t, consents[t].version)
    <2> DEFINE record == consents[t]
    <2>1. ConsentRecorded(record, entries, lost, Len(entries), t)
      BY <1>1, MemoryIsRecorded DEF Recorded, Indexes
    <2> HIDE DEF record
    <2>2. record # NoRecord
      BY <1>1 DEF record
    <2>3. PICK i : /\ Counts(entries, lost, Len(entries), i)
                   /\ entries[i].fact = DisclaimerAccepted(t, record.version)
                   /\ record.walSequence = entries[i].sequence
      BY <2>1, <2>2 DEF ConsentRecorded, LatestStands
    <2>4. i \in 1..Len(entries) /\ Len(entries) \in Nat
      BY <1>1, <2>3 DEF Counts, WInv, LogTypeOK
    <2>5. entries[i].sequence = i - 1
      BY <1>1, <2>4 DEF SequenceNamesOneEntry
    <2>6. record.walSequence < Len(entries) /\ record.walSequence + 1 = i
      BY <2>3, <2>4, <2>5
    <2> QED
      BY <2>3, <2>6 DEF record
  <1>2. WInv /\ TrustInv /\ SequenceNamesOneEntry => ConsentIsTraceable
    BY <1>1 DEF ConsentIsTraceable
  <1>3. Spec => []SequenceNamesOneEntry
    BY TrustImplementsTheLog, NumbersAreNames, PTL
  <1> QED
    BY <1>2, <1>3, TrustInvariantHolds, PTL

-----------------------------------------------------------------------------
(* The gate implements the register of consents.                           *)
Standing == [t \in ConsentTenants |-> consents[t].version]

Doubtful == {ChangeOf(e.fact) : e \in {d \in DoubtfulEntries : d.fact \in ConsentFacts}}

(* What a consent fact does to the standings.                              *)
LEMMA ChangesOfStanding ==
    ASSUME NEW s \in IndexesType, NEW e \in EntrySet, e.fact \in ConsentFacts
    PROVE  /\ ChangeOf(e.fact) \in [party : ConsentTenants, value : 0..MaxVersion]
           /\ \A t \in ConsentTenants :
                Indexed(s, e).consents[t].version =
                  IF t = ChangeOf(e.fact).party THEN ChangeOf(e.fact).value
                  ELSE s.consents[t].version
  <1>0. s.consents \in ConsentType /\ e.sequence \in Nat
    BY DEF IndexesType, EntrySet
  <1>1. CASE \E t \in ConsentTenants, v \in Versions : e.fact = DisclaimerAccepted(t, v)
    <2>1. PICK t \in ConsentTenants, v \in Versions : e.fact = DisclaimerAccepted(t, v)
      BY <1>1
    <2>2. ChangeOf(e.fact) = [party |-> t, value |-> v]
      <3>1. e.fact \notin {DisclaimerRevoked(u) : u \in ConsentTenants}
        BY <2>1, ConsentFactsAreDifferent
      <3>2. e.fact.tenant = t /\ e.fact.version = v
        BY <2>1 DEF DisclaimerAccepted
      <3> QED
        BY <3>1, <3>2 DEF ChangeOf
    <2>3. Indexed(s, e).consents = [s.consents EXCEPT ![t] = ConsentRecord(v, e.sequence)]
      BY <1>0, <2>1, AcceptanceIsIndexed
    <2>4. ConsentRecord(v, e.sequence).version = v
      BY DEF ConsentRecord
    <2>5. v \in 0..MaxVersion
      BY DEF Versions
    <2> QED
      BY <1>0, <2>2, <2>3, <2>4, <2>5 DEF ConsentType
  <1>2. CASE \E t \in ConsentTenants : e.fact = DisclaimerRevoked(t)
    <2>1. PICK t \in ConsentTenants : e.fact = DisclaimerRevoked(t)
      BY <1>2
    <2>2. ChangeOf(e.fact) = [party |-> t, value |-> 0]
      <3>1. e.fact.tenant = t
        BY <2>1 DEF DisclaimerRevoked
      <3> QED
        BY <2>1, <3>1 DEF ChangeOf
    <2>3. Indexed(s, e).consents = [s.consents EXCEPT ![t] = NoRecord]
      BY <2>1, RevocationIsIndexed
    <2>4. NoRecord.version = 0 /\ 0 \in 0..MaxVersion
      BY VersionBound DEF NoRecord
    <2> QED
      BY <1>0, <2>2, <2>3, <2>4 DEF ConsentType
  <1> QED
    BY <1>1, <1>2 DEF ConsentFacts

LEMMA TokenFactsChangeNoStanding ==
    ASSUME NEW s \in IndexesType, NEW e, e.fact \in TrustFacts, e.fact \notin ConsentFacts
    PROVE  Indexed(s, e).consents = s.consents
  BY TokenFactIsIndexed DEF TrustFacts

LEMMA BeginningIsAStutter ==
    ASSUME BeginsAHandler
    PROVE  Standing' = Standing /\ Doubtful' = Doubtful /\ up' = up
  <1>1. /\ lost' = lost /\ disk' = disk /\ consents' = consents /\ up' = up
    BY BeginningTakesNoLogStep DEF wvars
  <1>2. DoubtfulEntries' = DoubtfulEntries
    BY <1>1 DEF DoubtfulEntries, Loadable
  <1> QED
    BY <1>1, <1>2 DEF Standing, Doubtful

(* An append that returns: one party changes, or none does, and what was   *)
(* doubtful is settled.                                                    *)
LEMMA AppendingIsAChange ==
    ASSUME WInv, TrustInv, TrustInv', AppendNext
    PROVE  /\ up /\ up' = up /\ Doubtful' = {}
           /\ \/ Standing' = Standing
              \/ \E t \in ConsentTenants, v \in 0..MaxVersion :
                    Standing' = [Standing EXCEPT ![t] = v]
  <1> DEFINE fact == Head(handler.facts)
             e == NextEntry(fact)
  <1>1. /\ handler.facts # <<>> /\ AppendOk(fact)
        /\ consents' = IndexConsent(consents, e) /\ ledger' = Index(ledger, fact)
    BY DEF AppendNext
  <1>2. fact \in TrustFacts /\ e \in EntrySet /\ e.fact = fact
    BY <1>1, NextFactIsOurs
  <1>3. up /\ up' = up /\ tailOpen' = FALSE
    BY <1>1 DEF AppendOk, AppendedInMemory
  <1> HIDE DEF fact, e
  <1>4. DoubtfulEntries' = {}
    BY <1>3 DEF DoubtfulEntries, TrustInv, LostIsLast
  <1>5. Doubtful' = {}
    BY <1>4 DEF Doubtful
  <1>6. Indexes \in IndexesType /\ Indexed(Indexes, e).consents = consents'
        /\ Indexes.consents = consents
    BY <1>1, <1>2 DEF TrustInv, StateOK, Indexes, Indexed
  <1>7. CASE fact \in ConsentFacts
    <2> DEFINE c == ChangeOf(fact)
    <2>1. /\ c.party \in ConsentTenants /\ c.value \in 0..MaxVersion
          /\ \A t \in ConsentTenants :
               consents'[t].version = IF t = c.party THEN c.value ELSE consents[t].version
      BY <1>2, <1>6, <1>7, ChangesOfStanding
    <2> HIDE DEF c
    <2>2. Standing' = [Standing EXCEPT ![c.party] = c.value]
      BY <2>1 DEF Standing
    <2> QED
      BY <1>3, <1>5, <2>1, <2>2
  <1>8. CASE fact \notin ConsentFacts
    <2>1. consents' = consents
      BY <1>2, <1>6, <1>8, TokenFactsChangeNoStanding
    <2> QED
      BY <1>3, <1>5, <2>1 DEF Standing
  <1> QED
    BY <1>7, <1>8

(* A write that fails: only its own change becomes doubtful.               *)
LEMMA RaisingIsAFailedChange ==
    ASSUME WInv, TrustInv, AppendRaises
    PROVE  /\ up /\ up' = up /\ Standing' = Standing
           /\ \/ Doubtful' \subseteq Doubtful
              \/ \E c \in [party : ConsentTenants, value : 0..MaxVersion] :
                    Doubtful' \subseteq Doubtful \cup {c}
  <1> DEFINE fact == Head(handler.facts)
             e == NextEntry(fact)
  <1>1. PICK how \in WriteFailures : AppendFails(fact, how)
    BY DEF AppendRaises
  <1>2. handler.facts # <<>> /\ consents' = consents
    BY DEF AppendRaises
  <1>3. /\ fact \in TrustFacts /\ e \in EntrySet /\ e.fact = fact /\ e # Garbled
        /\ e.hash = clock + 1
    BY <1>2, NextFactIsOurs
  <1> HIDE DEF fact, e
  <1>4. /\ up /\ up' = up /\ lost' = lost \cup {e} /\ AppendedInMemory(fact)
        /\ clock' = clock + 1
        /\ \/ disk' = disk
           \/ disk' = LineWritten(Garbled)
           \/ disk' = LineWritten(e)
    BY <1>1 DEF AppendFails, AppendedInMemory, e
  <1>5. DoubtfulEntries' \subseteq DoubtfulEntries \cup {e}
    <2> SUFFICES ASSUME Loadable', NEW x \in lost', NEW i \in 1..Len(disk'), disk'[i] = x, x # e
                 PROVE  x \in DoubtfulEntries
      BY DEF DoubtfulEntries
    <2>1. x \in lost
      BY <1>4
    <2>2. disk \in Seq(EntrySet \cup {Garbled})
      BY DEF WInv, LogTypeOK
    <2>3. CASE disk' = disk
      BY <2>1, <2>3 DEF DoubtfulEntries, Loadable
    <2>4. ASSUME NEW line \in {Garbled, e}, disk' = LineWritten(line)
          PROVE  x \in DoubtfulEntries
      <3>1. /\ Loadable
            /\ Len(disk') = Len(disk) + 1 /\ disk'[Len(disk) + 1] = line
            /\ \A k \in 1..Len(disk) : disk'[k] = disk[k]
        BY <1>3, <1>4, <2>4, FileStep
      <3>2. line = e
        BY <2>2, <2>4, <3>1 DEF Loadable
      <3>3. i \in 1..Len(disk) /\ disk[i] = x
        BY <2>2, <3>1, <3>2
      <3> QED
        BY <2>1, <3>1, <3>3 DEF DoubtfulEntries
    <2> QED
      BY <1>4, <2>3, <2>4
  <1>6. Standing' = Standing
    BY <1>2 DEF Standing
  <1>7. CASE fact \in ConsentFacts
    <2>1. Doubtful' \subseteq Doubtful \cup {ChangeOf(fact)}
      BY <1>3, <1>5 DEF Doubtful
    <2>2. Indexes \in IndexesType
      BY DEF TrustInv, StateOK
    <2>3. ChangeOf(fact) \in [party : ConsentTenants, value : 0..MaxVersion]
      BY <1>3, <1>7, <2>2, ChangesOfStanding
    <2> QED
      BY <1>4, <1>6, <2>1, <2>3
  <1>8. CASE fact \notin ConsentFacts
    <2>1. Doubtful' \subseteq Doubtful
      BY <1>3, <1>5, <1>8 DEF Doubtful
    <2> QED
      BY <1>4, <1>6, <2>1
  <1> QED
    BY <1>7, <1>8

(* A line whose write failed surfaces: the last one, or none.              *)
LEMMA WhatSurfaces ==
    ASSUME WInv, TrustInv, Loadable
    PROVE  \/ Replay(disk, {}) = Indexes
           \/ \E e \in DoubtfulEntries :
                e \in EntrySet /\ e.fact \in TrustFacts /\ Replay(disk, {}) = Indexed(Indexes, e)
  <1>0. /\ disk \in Seq(EntrySet \cup {Garbled}) /\ Len(disk) \in Nat
        /\ Indexes = Replay(disk, lost)
    BY DEF WInv, LogTypeOK, TrustInv, IndexesFollow
  <1>1. \A i \in 1..Len(disk) : disk[i] \in lost => i = Len(disk)
    BY DEF TrustInv, LostIsLast
  <1>2. CASE \A i \in 1..Len(disk) : disk[i] \notin lost
    <2>1. Replay(disk, {}) = Replay(disk, lost)
      BY <1>0, <1>2, ReplayOfSkippingMore
    <2> QED
      BY <1>0, <2>1
  <1>3. CASE \E i \in 1..Len(disk) : disk[i] \in lost
    <2> DEFINE N == Len(disk)
               front == [i \in 1..(N - 1) |-> disk[i]]
               e == disk[N]
    <2>1. N \in 1..Len(disk) /\ e \in lost /\ e # Garbled /\ e \in EntrySet \cup {Garbled}
      BY <1>0, <1>1, <1>3 DEF Loadable
    <2>2. /\ front \in Seq(EntrySet \cup {Garbled}) /\ Len(front) = N - 1
          /\ \A i \in 1..(N - 1) : front[i] = disk[i]
          /\ disk = Append(front, e)
      <3>1. N \in Nat /\ N >= 1 /\ N - 1 \in Nat
        BY <1>0, <2>1
      <3>2. /\ front \in Seq(EntrySet \cup {Garbled}) /\ Len(front) = N - 1
            /\ \A i \in 1..(N - 1) : front[i] = disk[i]
        BY <1>0, <3>1
      <3> HIDE DEF front, N
      <3>3. /\ Append(front, e) \in Seq(EntrySet \cup {Garbled})
            /\ Len(Append(front, e)) = N
            /\ \A i \in 1..N : Append(front, e)[i] = disk[i]
        <4>1. /\ Len(Append(front, e)) = (N - 1) + 1
              /\ Append(front, e)[N] = e
              /\ \A i \in 1..(N - 1) : Append(front, e)[i] = front[i]
              /\ Append(front, e) \in Seq(EntrySet \cup {Garbled})
          BY <2>1, <3>1, <3>2
        <4> QED
          BY <3>1, <3>2, <4>1 DEF N
      <3>4. Len(disk) = N
        BY DEF N
      <3>5. disk = Append(front, e)
        BY <1>0, <3>3, <3>4
      <3> QED
        BY <3>2, <3>5
    <2>3. e \in EntrySet /\ e.fact \in TrustFacts
      BY <2>1 DEF TrustInv, LinesInOrder, InOrder
    <2>4. e \in DoubtfulEntries
      BY <2>1 DEF DoubtfulEntries
    <2> HIDE DEF e, front
    <2>5. \A i \in 1..Len(front) : front[i] \notin lost
      BY <1>0, <1>1, <2>2
    <2>6. Replay(front, {}) = Replay(front, lost)
      BY <2>2, <2>5, ReplayOfSkippingMore
    <2>7. Replay(Append(front, e), lost) = Replay(front, lost)
      BY <2>1, <2>2, ReplayOfOneMore
    <2>8. Replay(Append(front, e), {}) = Indexed(Replay(front, {}), e)
      BY <2>1, <2>2, ReplayOfOneMore
    <2> QED
      BY <1>0, <2>2, <2>3, <2>4, <2>6, <2>7, <2>8
  <1> QED
    BY <1>2, <1>3

LEMMA StartingIsARestart ==
    ASSUME WInv, TrustInv, Start
    PROVE  /\ ~ up /\ up' = TRUE /\ Doubtful' = {}
           /\ \/ Standing' = Standing
              \/ \E c \in Doubtful :
                   Standing' = [t \in ConsentTenants |->
                                  IF t = c.party THEN c.value ELSE Standing[t]]
  <1>1. /\ ~ up /\ Loadable /\ up' = TRUE /\ lost' = {} /\ entries' = disk
        /\ consents' = Replay(disk, {}).consents
    BY DEF Start, StartLog
  <1>2. Doubtful' = {}
    BY <1>1 DEF Doubtful, DoubtfulEntries
  <1>3. Indexes.consents = consents /\ Indexes \in IndexesType
    BY DEF Indexes, TrustInv, StateOK
  <1>4. CASE Replay(disk, {}) = Indexes
    BY <1>1, <1>2, <1>3, <1>4 DEF Standing
  <1>5. ASSUME NEW e \in DoubtfulEntries, e \in EntrySet, e.fact \in TrustFacts,
               Replay(disk, {}) = Indexed(Indexes, e)
        PROVE  \/ Standing' = Standing
               \/ \E c \in Doubtful :
                    Standing' = [t \in ConsentTenants |->
                                   IF t = c.party THEN c.value ELSE Standing[t]]
    <2>1. CASE e.fact \in ConsentFacts
      <3>1. \A t \in ConsentTenants :
              consents'[t].version = IF t = ChangeOf(e.fact).party THEN ChangeOf(e.fact).value
                                     ELSE consents[t].version
        BY <1>1, <1>3, <1>5, <2>1, ChangesOfStanding
      <3>2. ChangeOf(e.fact) \in Doubtful
        BY <2>1 DEF Doubtful
      <3>3. Standing' = [t \in ConsentTenants |->
                           IF t = ChangeOf(e.fact).party THEN ChangeOf(e.fact).value
                           ELSE Standing[t]]
        BY <3>1 DEF Standing
      <3> QED
        BY <3>2, <3>3
    <2>2. CASE e.fact \notin ConsentFacts
      <3>1. consents' = consents
        BY <1>1, <1>3, <1>5, <2>2, TokenFactsChangeNoStanding
      <3> QED
        BY <3>1 DEF Standing
    <2> QED
      BY <2>1, <2>2
  <1> QED
    BY <1>1, <1>2, <1>4, <1>5, WhatSurfaces

(* The steps, as steps of the register.                                    *)
LEMMA StepsOfTheRegister ==
    ASSUME WInv, TrustInv, TrustInv', [Next]_vars
    PROVE  [Register!Next]_<<Standing, Doubtful, up>>
  <1>1. CASE BeginsAHandler
    BY <1>1, BeginningIsAStutter
  <1>2. CASE AppendNext
    <2>1. /\ up /\ up' = up /\ Doubtful' = {}
          /\ \/ Standing' = Standing
             \/ \E t \in ConsentTenants, v \in 0..MaxVersion :
                   Standing' = [Standing EXCEPT ![t] = v]
      BY <1>2, AppendingIsAChange
    <2>2. CASE Standing' = Standing
      <3>1. Register!Settle
        BY <2>1, <2>2 DEF Register!Settle, Standing, Doubtful
      <3> QED
        BY <3>1 DEF Register!Next
    <2>3. CASE \E t \in ConsentTenants, v \in 0..MaxVersion :
                  Standing' = [Standing EXCEPT ![t] = v]
      <3>1. \E t \in ConsentTenants, v \in 0..MaxVersion : Register!Change(t, v)
        BY <2>1, <2>3 DEF Register!Change, Standing, Doubtful
      <3> QED
        BY <3>1 DEF Register!Next
    <2> QED
      BY <2>1, <2>2, <2>3
  <1>3. CASE AppendRaises
    <2>1. /\ up /\ up' = up /\ Standing' = Standing
          /\ \/ Doubtful' \subseteq Doubtful
             \/ \E c \in [party : ConsentTenants, value : 0..MaxVersion] :
                   Doubtful' \subseteq Doubtful \cup {c}
      BY <1>3, RaisingIsAFailedChange
    <2>2. CASE Doubtful' \subseteq Doubtful
      <3>1. Register!Settle
        BY <2>1, <2>2 DEF Register!Settle, Standing, Doubtful
      <3> QED
        BY <3>1 DEF Register!Next
    <2>3. CASE \E c \in [party : ConsentTenants, value : 0..MaxVersion] :
                  Doubtful' \subseteq Doubtful \cup {c}
      <3>1. \E c \in Register!Changes : Register!ChangeFails(c)
        BY <2>1, <2>3 DEF Register!Changes, Register!ChangeFails, Standing, Doubtful
      <3> QED
        BY <3>1 DEF Register!Next
    <2> QED
      BY <2>1, <2>2, <2>3
  <1>4. CASE Crash
    <2>1. /\ up /\ up' = FALSE /\ lost' = lost /\ disk' = disk /\ consents' = consents
      BY <1>4 DEF Crash, CrashLog
    <2>2. DoubtfulEntries' = DoubtfulEntries
      BY <2>1 DEF DoubtfulEntries, Loadable
    <2>3. Register!Stop
      BY <2>1, <2>2 DEF Register!Stop
    <2> QED
      BY <2>3 DEF Register!Next
  <1>5. CASE Start
    <2>1. /\ ~ up /\ up' = TRUE /\ Doubtful' = {}
          /\ \/ Standing' = Standing
             \/ \E c \in Doubtful :
                  Standing' = [t \in ConsentTenants |->
                                 IF t = c.party THEN c.value ELSE Standing[t]]
      BY <1>5, StartingIsARestart
    <2>2. \E D \in SUBSET Doubtful :
            /\ \A c, d \in D : c.party = d.party => c = d
            /\ Standing' = [p \in ConsentTenants |->
                              IF \E c \in D : c.party = p
                                THEN (CHOOSE c \in D : c.party = p).value
                                ELSE Standing[p]]
      <3>1. CASE Standing' = Standing
        <4>1. Standing = [p \in ConsentTenants |-> Standing[p]]
          BY DEF Standing
        <4>2. /\ {} \in SUBSET Doubtful
              /\ \A c, d \in {} : c.party = d.party => c = d
              /\ \A p : ~ \E c \in {} : c.party = p
          OBVIOUS
        <4>3. [p \in ConsentTenants |-> Standing[p]] =
                [p \in ConsentTenants |->
                   IF \E c \in {} : c.party = p THEN (CHOOSE c \in {} : c.party = p).value
                   ELSE Standing[p]]
          OBVIOUS
        <4> HIDE DEF Standing
        <4> QED
          BY <3>1, <4>1, <4>2, <4>3
      <3>2. ASSUME NEW c \in Doubtful,
                   Standing' = [t \in ConsentTenants |->
                                  IF t = c.party THEN c.value ELSE Standing[t]]
            PROVE  /\ {c} \in SUBSET Doubtful
                   /\ \A b, d \in {c} : b.party = d.party => b = d
                   /\ Standing' = [p \in ConsentTenants |->
                                     IF \E b \in {c} : b.party = p
                                       THEN (CHOOSE b \in {c} : b.party = p).value
                                       ELSE Standing[p]]
        <4>1. ASSUME NEW p, \E b \in {c} : b.party = p
              PROVE  (CHOOSE b \in {c} : b.party = p) = c
          BY <4>1
        <4> QED
          BY <3>2, <4>1
      <3> QED
        BY <2>1, <3>1, <3>2
    <2>3. Register!Restart
      BY <2>1, <2>2 DEF Register!Restart, Standing, Doubtful
    <2> QED
      BY <2>3 DEF Register!Next
  <1>6. CASE UNCHANGED vars
    <2>1. /\ up' = up /\ lost' = lost /\ disk' = disk /\ consents' = consents
      BY <1>6 DEF vars, wvars
    <2>2. DoubtfulEntries' = DoubtfulEntries
      BY <2>1 DEF DoubtfulEntries, Loadable
    <2> QED
      BY <2>1, <2>2 DEF Standing, Doubtful
  <1>7. CASE SigningRaises
    <2>1. /\ up' = up /\ lost' = lost /\ disk' = disk /\ consents' = consents
      BY <1>7 DEF SigningRaises, wvars
    <2>2. DoubtfulEntries' = DoubtfulEntries
      BY <2>1 DEF DoubtfulEntries, Loadable
    <2> QED
      BY <2>1, <2>2 DEF Standing, Doubtful
  <1> QED
    BY <1>1, <1>2, <1>3, <1>4, <1>5, <1>6, <1>7 DEF Next, BeginsAHandler

(***************************************************************************)
(* The consent gate implements the register of consents: what was last     *)
(* acknowledged is what is enforced, through failed writes and restarts,   *)
(* and only a change whose caller got an error may surface.                *)
(***************************************************************************)
THEOREM GateImplementsTheRegister == Spec => ImplementsConsentRegister
  <1>1. Init => Register!Init
    <2> SUFFICES ASSUME Init PROVE Register!Init
      OBVIOUS
    <2>1. consents = NoConsents /\ up /\ lost = {} /\ up \in BOOLEAN
      BY DEF Init, LogInit
    <2>2. DoubtfulEntries = {}
      BY <2>1 DEF DoubtfulEntries
    <2>3. \A t \in ConsentTenants : consents[t].version = 0
      BY <2>1 DEF NoConsents, NoRecord
    <2>4. up = TRUE
      BY DEF Init, LogInit
    <2> QED
      BY <2>2, <2>3, <2>4 DEF Register!Init
  <1>2. /\ WInv /\ TrustInv /\ WInv' /\ TrustInv' /\ [Next]_vars
        => [Register!Next]_Register!rvars
    BY StepsOfTheRegister DEF Register!rvars, Standing, Doubtful
  <1> QED
    BY <1>1, <1>2, TrustInvariantHolds, PTL
       DEF Spec, ImplementsConsentRegister, Register!Spec
=============================================================================
