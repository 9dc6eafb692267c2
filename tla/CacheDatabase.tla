--------------------------- MODULE CacheDatabase ---------------------------
(***************************************************************************)
(* The media cache of storage/cache: DatabaseObject (values in files, an   *)
(* append-only binlog that says which key is in which file) and Compactor  *)
(* (rewrites the binlog while the database is in use).                     *)
(*                                                                         *)
(* The database runs on one queue: an operation is never interleaved with  *)
(* another one, but the process may be killed between two of its writes,   *)
(* so an operation that writes twice has a program counter, `op'.  The     *)
(* compactor runs on a queue of its own, reads the binlog file, asks the   *)
(* database for entries and posts the outcome to it.                       *)
(*                                                                         *)
(* What a process wrote before it is killed is on the disk.  A record is   *)
(* written whole (torn records are left out), a checksum tells values      *)
(* apart, and a random place is never drawn twice.  Tags, sizes and the    *)
(* times of use only decide which keys are stale: any keys may be.         *)
(***************************************************************************)
EXTENDS Naturals, Sequences, FiniteSets

CONSTANTS
    Keys, Values,
    NoKey,           \* no key
    NoValue,         \* nothing: no file, or no value
    Broken,          \* a file that was opened for writing and not written yet
    MaxPlaces,       \* bound: files ever created
    MaxLog,          \* bound: records in the binlog
    MaxBundled,      \* Settings::maxBundledRecords
    FaultKinds,      \* which I/O may fail: "data", "log", "compact", "swap"
    MaxFaults        \* bound: failures of a run

ASSUME KeysAreFinite == IsFiniteSet(Keys) /\ NoKey \notin Keys
ASSUME NotValues == NoValue \notin Values /\ Broken \notin Values /\ NoValue # Broken
ASSUME BoundsAreNats ==
    MaxPlaces \in Nat /\ MaxLog \in Nat /\ MaxBundled \in Nat \ {0} /\ MaxFaults \in Nat

Places == 1..MaxPlaces
NoPlace == 0

VARIABLES
    isOpen,          \* the database is open
    logOpen,         \* DatabaseObject::_binlog is open
    map,             \* DatabaseObject::_map: key to place and checksum
    removing,        \* DatabaseObject::_removing: removals not in the binlog yet
    staleKeys,       \* DatabaseObject::_stale: keys that are being cleared
    op,              \* the operation the database is inside of
    compactor,       \* where the compactor is
    till,            \* Compactor::Info::till: the records it rewrites
    readAt,          \* how many of them it has read
    written,         \* CompactorObject::_written
    caughtUp,        \* the records of the binlog that are in the compacted one
    lastCatchUp,     \* how many of them the last CatchUp() copied
    temp,            \* disk: the file binlog-temp
    hasReady, ready, \* disk: the file binlog-ready
    binlog,          \* disk: the file binlog, empty if there is none
    files,           \* disk: the files of the values
    nextPlace,       \* the next random place
    latest,          \* history: the last value given to a key
    kept,            \* history: keys whose last put is done and was not undone
    faults           \* the kinds of the failures so far, MaxFaults at most

disk == <<hasReady, ready, binlog>>
compaction == <<compactor, till, readAt, written, caughtUp, lastCatchUp, temp>>
history == <<latest, kept>>
vars == <<isOpen, logOpen, map, removing, staleKeys, op, compaction, disk, files,
          nextPlace, history, faults>>

\* The failure of an I/O call.
Fault(kind) ==
    kind \in FaultKinds /\ Cardinality(faults) < MaxFaults /\ faults' = faults \cup {kind}

NoEntry == [place |-> NoPlace, sum |-> NoValue]
Entry(p, v) == [place |-> p, sum |-> v]
Entries == [place : Places, sum : Values]

\* The records of the binlog.
StoreRecord(k, e) == [type |-> "store", keys |-> {k}, entry |-> e]
RemoveRecord(ks) == [type |-> "remove", keys |-> ks, entry |-> NoEntry]
Records == [type : {"store"}, keys : {{k} : k \in Keys}, entry : Entries]
           \cup [type : {"remove"}, keys : SUBSET Keys, entry : {NoEntry}]

Operations ==
    [pc : {"idle", "open", "write", "unlink", "move", "swap", "rename"}, key : Keys \cup {NoKey},
     entry : Entries \cup {NoEntry}, kept : BOOLEAN]
Idle == [pc |-> "idle", key |-> NoKey, entry |-> NoEntry, kept |-> FALSE]

MemoryType ==
    /\ isOpen \in BOOLEAN /\ logOpen \in BOOLEAN
    /\ map \in [Keys -> Entries \cup {NoEntry}]
    /\ removing \subseteq Keys /\ Cardinality(removing) < MaxBundled
    /\ staleKeys \subseteq Keys
    /\ op \in Operations
CompactionType ==
    /\ compactor \in {"none", "read", "catchUp", "done"}
    /\ till \in Nat /\ readAt \in Nat /\ caughtUp \in Nat /\ lastCatchUp \in Nat
    /\ written \subseteq Keys
    /\ temp \in Seq(Records)
DiskType ==
    /\ hasReady \in BOOLEAN
    /\ ready \in Seq(Records) /\ binlog \in Seq(Records)
    /\ files \in [Places -> Values \cup {NoValue, Broken}]
    /\ nextPlace \in 1..(MaxPlaces + 1)
HistoryType ==
    /\ latest \in [Keys -> Values \cup {NoValue}]
    /\ kept \subseteq Keys
    /\ faults \subseteq FaultKinds

TypeOK == MemoryType /\ CompactionType /\ DiskType /\ HistoryType

Init ==
    /\ isOpen = FALSE /\ logOpen = FALSE
    /\ map = [k \in Keys |-> NoEntry]
    /\ removing = {} /\ staleKeys = {} /\ op = Idle
    /\ compactor = "none" /\ till = 0 /\ readAt = 0 /\ written = {}
    /\ caughtUp = 0 /\ lastCatchUp = 0 /\ temp = <<>>
    /\ hasReady = FALSE /\ ready = <<>> /\ binlog = <<>>
    /\ files = [p \in Places |-> NoValue]
    /\ nextPlace = 1
    /\ latest = [k \in Keys |-> NoValue] /\ kept = {}
    /\ faults = {}

-----------------------------------------------------------------------------
(***************************************************************************)
(* Reading and writing the binlog.                                         *)
(***************************************************************************)

\* Where a binlog mentions a key, and what readBinlog() makes of the last mention.
Mentions(log, k) == {i \in 1..Len(log) : k \in log[i].keys}
Replay(log) ==
    [k \in Keys |->
        IF Mentions(log, k) = {} THEN NoEntry
        ELSE log[CHOOSE i \in Mentions(log, k) : \A j \in Mentions(log, k) : j <= i].entry]

\* The binlog the next open() finds.
DiskLog == IF hasReady THEN ready ELSE binlog

\* The database is between two operations of its queue.
Free == isOpen /\ op = Idle

\* _binlog.write() and flush(), or a write that fails and closes it for good.
LogWrites(recs) ==
    /\ logOpen /\ Len(binlog) + Len(recs) <= MaxLog
    /\ binlog' = binlog \o recs
    /\ UNCHANGED <<logOpen, faults>>
LogFails ==
    /\ IF logOpen THEN Fault("log") ELSE UNCHANGED faults
    /\ logOpen' = FALSE
    /\ UNCHANGED binlog

\* writeMultiRemove(): the list is taken, whether its record is written or not.
RemovalWritten(listed) ==
    /\ \/ LogWrites(<<RemoveRecord(listed)>>)
       \/ LogFails
    /\ removing' = {}

-----------------------------------------------------------------------------
(***************************************************************************)
(* open(), close() and the end of the process.                             *)
(***************************************************************************)

\* open(): a compacted binlog that was ready when the process ended is taken.
Open ==
    /\ ~isOpen
    /\ isOpen' = TRUE /\ logOpen' = TRUE
    /\ binlog' = DiskLog /\ hasReady' = FALSE /\ ready' = <<>>
    /\ map' = Replay(DiskLog)
    /\ UNCHANGED <<removing, staleKeys, op, compaction, files, nextPlace, history, faults>>

\* _compactor = CompactorWrap(): its guard is destroyed, what it posts is ignored.
NoCompactor ==
    /\ compactor' = "none" /\ till' = 0 /\ readAt' = 0 /\ written' = {}
    /\ caughtUp' = 0 /\ lastCatchUp' = 0 /\ temp' = <<>>

\* clearState().
Closed ==
    /\ isOpen' = FALSE /\ logOpen' = FALSE
    /\ map' = [k \in Keys |-> NoEntry]
    /\ removing' = {} /\ staleKeys' = {} /\ op' = Idle
    /\ NoCompactor
    /\ UNCHANGED <<hasReady, ready, files, nextPlace, history>>

\* close(): what was to be removed is written first (if that fails it is as a Crash).
Close ==
    /\ Free
    /\ \/ logOpen /\ Len(binlog) < MaxLog
       \/ ~logOpen
       \/ removing = {}
    /\ binlog' = IF logOpen /\ removing # {} THEN Append(binlog, RemoveRecord(removing))
                 ELSE binlog
    /\ Closed /\ UNCHANGED faults

\* The process is killed, between any two writes.
Crash == isOpen /\ Closed /\ UNCHANGED <<binlog, faults>>

-----------------------------------------------------------------------------
(***************************************************************************)
(* remove().                                                               *)
(***************************************************************************)

\* Mutant: whether the list is full is asked before the key is added.
RemovesLate(k) ==
    LET listed == removing \cup {k}
    IN /\ IF Cardinality(removing) = MaxBundled
          THEN RemovalWritten(listed)
          ELSE removing' = listed /\ UNCHANGED <<logOpen, binlog, faults>>
       /\ map' = [map EXCEPT ![k] = NoEntry]
       /\ op' = [pc |-> "unlink", key |-> k, entry |-> map[k], kept |-> FALSE]
       /\ UNCHANGED latest

\* The entry is dropped and its removal listed; a full list is written.  The file
\* goes in the next step.
Removes(k) ==
    LET listed == removing \cup {k}
    IN /\ IF Cardinality(listed) = MaxBundled
          THEN RemovalWritten(listed)
          ELSE removing' = listed /\ UNCHANGED <<logOpen, binlog, faults>>
       /\ map' = [map EXCEPT ![k] = NoEntry]
       /\ op' = [pc |-> "unlink", key |-> k, entry |-> map[k], kept |-> FALSE]
       /\ UNCHANGED latest

Remove(k) ==
    /\ Free /\ map[k] # NoEntry
    /\ Removes(k)
    /\ kept' = kept \ {k}
    /\ UNCHANGED <<isOpen, staleKeys, compaction, hasReady, ready, files,
                   nextPlace>>

\* get() of an entry whose file is gone or has another checksum removes it.
Damaged(k) == map[k] # NoEntry /\ files[map[k].place] # map[k].sum
GetDamaged(k) ==
    /\ Free /\ Damaged(k)
    /\ Removes(k)
    /\ UNCHANGED <<isOpen, staleKeys, compaction, hasReady, ready, files, nextPlace, kept>>

\* clearStaleChunk(), one key of it.
ClearStale(k) ==
    /\ Free /\ k \in staleKeys
    /\ staleKeys' = staleKeys \ {k}
    /\ IF map[k] # NoEntry THEN Removes(k)
       ELSE UNCHANGED <<removing, logOpen, binlog, faults, map, op, latest>>
    /\ UNCHANGED <<isOpen, compaction, hasReady, ready, files, nextPlace, kept>>

\* QFile(path).remove().
Unlink ==
    /\ op.pc = "unlink"
    /\ \/ /\ files' = [files EXCEPT ![op.entry.place] = NoValue]
          /\ latest' = [latest EXCEPT ![op.key] = NoValue]
          /\ UNCHANGED faults
       \/ Fault("data") /\ UNCHANGED <<files, latest>>
    /\ op' = Idle
    /\ UNCHANGED <<isOpen, logOpen, map, removing, staleKeys, compaction, disk, nextPlace,
                   kept>>

\* prune() and clearByTag() list keys that are removed chunk by chunk.
MarkStale(ks) ==
    /\ Free /\ ks # {}
    /\ \A k \in ks : map[k] # NoEntry
    /\ staleKeys' = staleKeys \cup ks
    /\ kept' = kept \ ks
    /\ UNCHANGED <<isOpen, logOpen, map, removing, op, compaction, disk, files, nextPlace,
                   latest, faults>>

\* writeBundles() of the timer.
WriteBundles ==
    /\ Free /\ removing # {}
    /\ RemovalWritten(removing)
    /\ UNCHANGED <<isOpen, map, staleKeys, op, compaction, hasReady, ready,
                   files, nextPlace, history>>

-----------------------------------------------------------------------------
(***************************************************************************)
(* put(), and moveIfEmpty().                                               *)
(***************************************************************************)

\* Mutant: put() leaves the key in _stale.
RevivesStale(k) == removing' = removing \ {k} /\ UNCHANGED staleKeys

\* put(): the key is neither to be removed nor to be cleared any more.
Revives(k) == removing' = removing \ {k} /\ staleKeys' = staleKeys \ {k}

\* put() of the value that is there: "Nothing changed".
Unchanged(k, v) == map[k] # NoEntry /\ map[k].sum = v /\ files[map[k].place] = v
PutUnchanged(k, v) ==
    /\ Free /\ Unchanged(k, v)
    /\ Revives(k)
    /\ latest' = [latest EXCEPT ![k] = v]
    /\ kept' = kept \cup {k}
    /\ UNCHANGED <<isOpen, logOpen, map, op, compaction, disk, files, nextPlace, faults>>

\* put(): writeKeyPlace() writes where the value is going to be, its old file or a
\* new one.
PutRecord(k, v) ==
    /\ Free /\ ~Unchanged(k, v)
    /\ LET p == IF map[k] = NoEntry THEN nextPlace ELSE map[k].place
           e == Entry(p, v)
       IN /\ p \in Places
          /\ LogWrites(<<StoreRecord(k, e)>>)
          /\ nextPlace' = IF map[k] = NoEntry THEN nextPlace + 1 ELSE nextPlace
          /\ map' = [map EXCEPT ![k] = e]
          /\ op' = [pc |-> "open", key |-> k, entry |-> e, kept |-> FALSE]
    /\ Revives(k)
    /\ latest' = [latest EXCEPT ![k] = v]
    /\ kept' = kept \ {k}
    /\ UNCHANGED <<isOpen, compaction, hasReady, ready, files>>

\* writeKeyPlaceGeneric() whose record is not written returns an empty path, and
\* put() reports success as for a value that is there already.
PutNotWritten(k, v) ==
    /\ Free /\ ~Unchanged(k, v)
    /\ LogFails
    /\ Revives(k)
    /\ latest' = [latest EXCEPT ![k] = v]
    /\ kept' = kept \cup {k}
    /\ UNCHANGED <<isOpen, map, op, compaction, hasReady, ready, files, nextPlace>>

\* put(): the file is opened and truncated.
PutOpen ==
    /\ op.pc = "open"
    /\ files' = [files EXCEPT ![op.entry.place] = Broken]
    /\ op' = [op EXCEPT !.pc = "write"]
    /\ UNCHANGED <<isOpen, logOpen, map, removing, staleKeys, compaction, disk, nextPlace,
                   history, faults>>

\* put(): the value is written and flushed.
PutWrite ==
    /\ op.pc = "write"
    /\ files' = [files EXCEPT ![op.entry.place] = op.entry.sum]
    /\ kept' = kept \cup {op.key}
    /\ op' = Idle
    /\ UNCHANGED <<isOpen, logOpen, map, removing, staleKeys, compaction, disk, nextPlace,
                   latest, faults>>

\* put(): the file cannot be opened or written, the entry is removed.
PutFails ==
    /\ op.pc \in {"open", "write"}
    /\ Fault("data")
    /\ LET listed == removing \cup {op.key}
       IN IF Cardinality(listed) = MaxBundled
          THEN /\ Len(binlog) < MaxLog
               /\ binlog' = Append(binlog, RemoveRecord(listed))
               /\ removing' = {}
          ELSE removing' = listed /\ UNCHANGED binlog
    /\ map' = [map EXCEPT ![op.key] = NoEntry]
    /\ op' = [op EXCEPT !.pc = "unlink"]
    /\ UNCHANGED <<isOpen, logOpen, staleKeys, compaction, hasReady, ready,
                   files, nextPlace, history>>

\* moveIfEmpty(): the entry of `from' is dropped and its removal written at once.
MoveBegin(from, to) ==
    /\ Free /\ map[to] = NoEntry /\ map[from] # NoEntry
    /\ \/ /\ LogWrites(<<RemoveRecord(removing \cup {from})>>)
          /\ op' = [pc |-> "move", key |-> to, entry |-> map[from],
                    kept |-> from \in kept]
          /\ latest' = [latest EXCEPT ![to] = latest[from], ![from] = NoValue]
       \/ LogFails /\ UNCHANGED <<op, latest>>
    /\ removing' = {}
    /\ map' = [map EXCEPT ![from] = NoEntry]
    /\ kept' = kept \ {from, to}
    /\ UNCHANGED <<isOpen, staleKeys, compaction, hasReady, ready, files,
                   nextPlace>>

\* ... and writeExistingPlace() gives its file to `to'.
MoveEnd ==
    /\ op.pc = "move"
    /\ \/ /\ LogWrites(<<StoreRecord(op.key, op.entry)>>)
          /\ map' = [map EXCEPT ![op.key] = op.entry]
          /\ kept' = IF op.kept THEN kept \cup {op.key} ELSE kept
       \/ LogFails /\ UNCHANGED <<map, kept>>
    /\ removing' = removing \ {op.key}
    /\ staleKeys' = staleKeys \ {op.key}
    /\ op' = Idle
    /\ UNCHANGED <<isOpen, compaction, hasReady, ready, files, nextPlace, latest>>

-----------------------------------------------------------------------------
(***************************************************************************)
(* The compactor.                                                          *)
(***************************************************************************)

Live == {k \in Keys : map[k] # NoEntry}

\* _binlogExcessLength > 0: a removal, or a key stored anew.
Excess ==
    \E i \in 1..Len(binlog) :
        \/ binlog[i].type = "remove"
        \/ \E j \in 1..(i - 1) : binlog[j].keys = binlog[i].keys

\* checkCompactor(): how much excess is enough, and when, depends on the settings.
CompactorStart ==
    /\ Free /\ logOpen /\ compactor = "none"
    /\ Excess
    /\ compactor' = "read"
    /\ till' = Len(binlog) /\ caughtUp' = Len(binlog)
    /\ readAt' = 0 /\ written' = {} /\ lastCatchUp' = 0 /\ temp' = <<>>
    /\ UNCHANGED <<isOpen, logOpen, map, removing, staleKeys, op, disk, files, nextPlace,
                   history, faults>>

\* parseChunk(), getManyRaw() and processValues(): the entry that the database has now
\* for the key of the next record, once for every key.
CompactorRead ==
    /\ Free /\ compactor = "read" /\ readAt < till
    /\ readAt' = readAt + 1
    /\ LET rec == binlog[readAt + 1]
           ks == IF rec.type = "store" THEN (rec.keys \cap Live) \ written ELSE {}
       IN /\ written' = written \cup ks
          /\ \/ ks = {} /\ temp' = temp
             \/ \E k \in ks : temp' = Append(temp, StoreRecord(k, map[k]))
    /\ UNCHANGED <<isOpen, logOpen, map, removing, staleKeys, op, compactor, till, caughtUp,
                   lastCatchUp, disk, files, nextPlace, history, faults>>

\* The records of the binlog after the first n.
After(n) == SubSeq(binlog, n + 1, Len(binlog))

\* finalize(): what was written meanwhile is copied, until there is nothing new or
\* the copying does not get faster than the writing.  What it read is not used again.
CompactorCatchUp ==
    /\ \/ compactor = "read" /\ readAt = till
       \/ compactor = "catchUp"
    /\ LET n == Len(binlog) - caughtUp
       IN /\ compactor' = IF n = 0 \/ (lastCatchUp > 0 /\ n >= lastCatchUp)
                          THEN "done" ELSE "catchUp"
          /\ lastCatchUp' = n
    /\ temp' = temp \o After(caughtUp)
    /\ caughtUp' = Len(binlog)
    /\ till' = 0 /\ readAt' = 0 /\ written' = {}
    /\ UNCHANGED <<isOpen, logOpen, map, removing, staleKeys, op, disk, files, nextPlace,
                   history, faults>>

\* Mutant: what was written after the last CatchUp() is left behind.
CompactorDoneBehind ==
    /\ Free /\ compactor = "done" /\ logOpen
    /\ ready' = temp
    /\ hasReady' = TRUE /\ temp' = <<>>
    /\ logOpen' = FALSE
    /\ op' = [Idle EXCEPT !.pc = "swap"]
    /\ UNCHANGED <<isOpen, map, removing, staleKeys, compactor, till, readAt, written,
                   caughtUp, lastCatchUp, binlog, files, nextPlace, history, faults>>

\* compactorDone(): the last records are copied, the compacted binlog is ready and
\* the old one is closed.
CompactorDone ==
    /\ Free /\ compactor = "done" /\ logOpen
    /\ ready' = temp \o After(caughtUp)
    /\ hasReady' = TRUE /\ temp' = <<>>
    /\ logOpen' = FALSE
    /\ op' = [Idle EXCEPT !.pc = "swap"]
    /\ UNCHANGED <<isOpen, map, removing, staleKeys, compactor, till, readAt, written,
                   caughtUp, lastCatchUp, binlog, files, nextPlace, history, faults>>

\* compactorDone(): File::Move() removes the old binlog ...
SwapRemove ==
    /\ op.pc = "swap"
    /\ binlog' = <<>>
    /\ op' = [op EXCEPT !.pc = "rename"]
    /\ UNCHANGED <<isOpen, logOpen, map, removing, staleKeys, compaction, hasReady, ready,
                   files, nextPlace, history, faults>>

\* ... and renames the new one, which is opened.
SwapRename ==
    /\ op.pc = "rename"
    /\ binlog' = ready /\ hasReady' = FALSE /\ ready' = <<>>
    /\ \/ logOpen' = TRUE /\ UNCHANGED faults
       \/ logOpen' = FALSE /\ Fault("swap")
    /\ op' = Idle /\ NoCompactor
    /\ UNCHANGED <<isOpen, map, removing, staleKeys, files, nextPlace, history>>

\* compactorFail(): the compaction is given up, a binlog that is ready is removed.
CompactorFail ==
    /\ compactor # "none"
    /\ \/ op = Idle /\ Fault("compact")
       \/ op = Idle /\ compactor = "done" /\ ~logOpen /\ UNCHANGED faults
       \/ op.pc \in {"swap", "rename"} /\ Fault("swap")
    /\ NoCompactor
    /\ hasReady' = FALSE /\ ready' = <<>>
    /\ op' = Idle
    /\ UNCHANGED <<isOpen, logOpen, map, removing, staleKeys, binlog, files, nextPlace,
                   history>>

-----------------------------------------------------------------------------
KeyNext ==
    \E k \in Keys :
        \/ Remove(k) \/ GetDamaged(k) \/ ClearStale(k)
        \/ \E v \in Values : PutUnchanged(k, v) \/ PutRecord(k, v) \/ PutNotWritten(k, v)
        \/ \E to \in Keys : MoveBegin(k, to)

Next ==
    \/ Open \/ Close \/ Crash
    \/ KeyNext
    \/ Unlink \/ PutOpen \/ PutWrite \/ PutFails \/ MoveEnd \/ WriteBundles
    \/ \E ks \in SUBSET Keys : MarkStale(ks)
    \/ CompactorStart \/ CompactorRead \/ CompactorCatchUp \/ CompactorDone
    \/ SwapRemove \/ SwapRename \/ CompactorFail

Spec == Init /\ [][Next]_vars

-----------------------------------------------------------------------------
(***************************************************************************)
(* Properties.                                                             *)
(***************************************************************************)

\* What get() returns for an entry.
ValueOf(e) ==
    IF e # NoEntry /\ files[e.place] = e.sum THEN e.sum ELSE NoValue

\* The entries the database has, or will have once it is opened.
Current == IF isOpen THEN map ELSE Replay(DiskLog)

\* A read never returns an old value: it is the value given last to the key, by put()
\* or moveIfEmpty(), or nothing.  After a removal it is nothing, though the removal is
\* not in the binlog yet when the process is killed.
ReadsAreFresh ==
    \A k \in Keys : ValueOf(Current[k]) \in {latest[k], NoValue}

\* A value whose put() was reported as done is there until it is overwritten, moved
\* away, removed or cleared, whatever restarts and compactions come between.
DonePutsAreKept ==
    \A k \in kept : latest[k] # NoValue /\ ValueOf(Current[k]) = latest[k]

\* Both hold after any failure but one of the binlog itself: a record that is not
\* written, or a compacted binlog that does not take its place, is lost with the process.
LogFailed == faults \cap {"log", "swap"} # {}
SafeUnlessLogFailed == LogFailed \/ (ReadsAreFresh /\ DonePutsAreKept)

\* The binlog on the disk says what the database has in memory, up to the removals
\* that are not written yet; so says the compacted binlog while it takes its place.
DiskMatchesMap ==
    isOpen /\ (logOpen \/ op.pc \in {"swap", "rename"}) =>
        \A k \in Keys : \/ Replay(DiskLog)[k] = map[k]
                        \/ k \in removing /\ map[k] = NoEntry

\* No two keys have their value in the same file.
PlacesAreUnique ==
    \A j, k \in Keys :
        j # k /\ Current[j] # NoEntry => Current[j].place # Current[k].place

\* What is on the disk is what the database believes to be there.
DiskIsRight == DiskMatchesMap /\ PlacesAreUnique

\* The value that the operation in progress takes from its key or gives to it.
GivenValue ==
    CASE op.pc \in {"open", "write"} -> op.entry.sum
      [] op.pc \in {"unlink", "move"} -> ValueOf(op.entry)
      [] OTHER -> NoValue

\* The database is a map that may lose values and never returns an old one: through
\* all its writes, ends of the process and compactions it implements CacheStore.
Store == INSTANCE CacheStore WITH
    store <- [k \in Keys |-> ValueOf(Current[k])], busy <- op.key, given <- GivenValue
ImplementsStore == Store!Spec
=============================================================================
