---------------------------- MODULE WriteAheadLog ----------------------------
(***************************************************************************)
(* core/wal.py: the hash-chained audit log, its file, and the process that *)
(* holds it, through failed writes, crashes and restarts.                  *)
(*                                                                         *)
(* A payload_hash is the number of the append that computed it: the digest *)
(* covers sequence, prev_hash, payload and timestamp, so no two appends    *)
(* share one, and an entry that changed would no longer carry its own.     *)
(* The file is a sequence of lines.  A line that does not parse as one     *)
(* entry is Garbled; `tailOpen` says that the last line lacks its newline, *)
(* so that the next write continues it.                                    *)
(***************************************************************************)
EXTENDS Naturals, Sequences

CONSTANTS Facts,          \* event types with their payloads
          MaxAppends,     \* bound: appends in a behaviour
          MaxFailures     \* bound: failed writes in a behaviour

ASSUME LogBounds == MaxAppends \in Nat /\ MaxFailures \in Nat

VARIABLES
    entries,    \* WriteAheadLog._entries of the running process
    disk,       \* the lines of audit.jsonl
    tailOpen,   \* the last line of audit.jsonl is not terminated
    up,         \* the process is running, the log is constructed
    clock,      \* number of the last append: timestamps never repeat
    acked,      \* history: entries whose append() returned
    lost,       \* history: entries whose append() raised, since the last start
    failures    \* history: number of writes that failed

wvars == <<entries, disk, tailOpen, up, clock, acked, lost, failures>>

Genesis == 0
Garbled == [garbled |-> TRUE]

Entry(sequence, prev, fact, hash) ==
    [sequence |-> sequence, prev |-> prev, fact |-> fact, hash |-> hash]

EntrySet == [sequence : Nat, prev : Nat, fact : Facts, hash : Nat]

LogTypeOK ==
    /\ entries \in Seq(EntrySet)
    /\ disk \in Seq(EntrySet \cup {Garbled})
    /\ tailOpen \in BOOLEAN
    /\ up \in BOOLEAN
    /\ clock \in Nat
    /\ acked \subseteq EntrySet
    /\ lost \subseteq EntrySet
    /\ failures \in Nat

-----------------------------------------------------------------------------
(* Mutant: the second entry does not see the first one (off by one).       *)
SecondEntryIsGenesis(fact) ==
    Entry(Len(entries),
          IF Len(entries) <= 1 THEN Genesis ELSE entries[Len(entries)].hash,
          fact,
          clock + 1)

(* Mutant: sequence numbers start at one.                                  *)
SequenceFromOne(fact) ==
    Entry(Len(entries) + 1,
          IF entries = <<>> THEN Genesis ELSE entries[Len(entries)].hash,
          fact,
          clock + 1)

(* append() computes the entry from what the process holds in memory.      *)
NextEntry(fact) ==
    Entry(Len(entries),
          IF entries = <<>> THEN Genesis ELSE entries[Len(entries)].hash,
          fact,
          clock + 1)

(* A write that starts in the middle of a line spoils that line.           *)
LineWritten(line) ==
    IF tailOpen THEN [disk EXCEPT ![Len(disk)] = Garbled]
                ELSE Append(disk, line)

(***************************************************************************)
(* verify(): every entry names its predecessor.  The other two checks, the *)
(* recomputed hash and the signature, hold of every entry the process ever *)
(* made or read back: nothing alters an entry and one key signs them all.  *)
(***************************************************************************)
Verify(log) ==
    \A i \in 1..Len(log) :
        log[i].prev = IF i = 1 THEN Genesis ELSE log[i - 1].hash

-----------------------------------------------------------------------------
LogInit ==
    /\ entries = <<>> /\ disk = <<>> /\ tailOpen = FALSE
    /\ up = TRUE
    /\ clock = 0
    /\ acked = {} /\ lost = {} /\ failures = 0

AppendedInMemory(fact) ==
    /\ up
    /\ clock < MaxAppends
    /\ clock' = clock + 1
    /\ entries' = Append(entries, NextEntry(fact))

(* append() returns: the entry is in memory and on its line.               *)
AppendOk(fact) ==
    /\ AppendedInMemory(fact)
    /\ disk' = LineWritten(NextEntry(fact))
    /\ tailOpen' = FALSE
    /\ acked' = acked \cup {NextEntry(fact)}
    /\ UNCHANGED <<up, lost, failures>>

(***************************************************************************)
(* _persist raises after the entry went into _entries: the file could not  *)
(* be opened or written (nothing), or the disk filled up inside the line   *)
(* (fragment) or between the line and its newline (no_newline).            *)
(***************************************************************************)
WriteFailures == {"nothing", "fragment", "no_newline"}

AppendFails(fact, how) ==
    /\ failures < MaxFailures
    /\ AppendedInMemory(fact)
    /\ \/ /\ how = "nothing"
          /\ UNCHANGED <<disk, tailOpen>>
       \/ /\ how = "fragment"
          /\ disk' = LineWritten(Garbled)
          /\ tailOpen' = TRUE
       \/ /\ how = "no_newline"
          /\ disk' = LineWritten(NextEntry(fact))
          /\ tailOpen' = TRUE
    /\ lost' = lost \cup {NextEntry(fact)}
    /\ failures' = failures + 1
    /\ UNCHANGED <<up, acked>>

(* The process dies; what it held in memory is gone.                       *)
CrashLog ==
    /\ up
    /\ up' = FALSE
    /\ entries' = <<>>
    /\ UNCHANGED <<disk, tailOpen, clock, acked, lost, failures>>

(* _load: one line that does not validate fails the constructor.           *)
Loadable == \A i \in 1..Len(disk) : disk[i] # Garbled

(* Mutant: lines that do not validate are skipped.                         *)
DamagedLinesSkipped ==
    /\ ~ up
    /\ up' = TRUE
    /\ entries' = SelectSeq(disk, LAMBDA line : line # Garbled)
    /\ lost' = {}
    /\ UNCHANGED <<disk, tailOpen, clock, acked, failures>>

StartLog ==
    /\ ~ up
    /\ Loadable
    /\ up' = TRUE
    /\ entries' = disk
    /\ lost' = {}
    /\ UNCHANGED <<disk, tailOpen, clock, acked, failures>>

LogNext ==
    \/ \E fact \in Facts : AppendOk(fact)
    \/ \E fact \in Facts, how \in WriteFailures : AppendFails(fact, how)
    \/ CrashLog
    \/ StartLog

LogSpec == LogInit /\ [][LogNext]_wvars

-----------------------------------------------------------------------------
(***************************************************************************)
(* A fact that append() acknowledged is in the log of every later process. *)
(* A restart may refuse a damaged file; it never comes up without it.      *)
(***************************************************************************)
AcknowledgedFactsSurvive ==
    up => \A e \in acked : \E i \in 1..Len(entries) : entries[i] = e

(***************************************************************************)
(* Order is never lost: entries are in the order they were appended, in    *)
(* memory and after any number of restarts, failed writes included.        *)
(***************************************************************************)
LogIsChronological ==
    \A i, j \in 1..Len(entries) : i < j => entries[i].hash < entries[j].hash

(***************************************************************************)
(* Unless a write failed, verify() accepts the log, in every process.      *)
(***************************************************************************)
ChainBreaksOnlyAfterFailedWrite ==
    up /\ failures = 0 => Verify(entries)

(***************************************************************************)
(* While the chain verifies, a sequence number is the position of its      *)
(* entry, so it leads back to one entry (consent.py:58-64 relies on it).   *)
(***************************************************************************)
SequenceNamesOneEntry ==
    up /\ Verify(entries) =>
        \A i \in 1..Len(entries) : entries[i].sequence = i - 1

=============================================================================
