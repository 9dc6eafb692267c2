----------------------- MODULE CacheDatabase_proofs -----------------------
(***************************************************************************)
(* For any keys and values, any lengths of the binlog, any crashes and     *)
(* compactions: the binlog on the disk says what the database has in       *)
(* memory, and as long as writing the binlog itself does not fail, a read  *)
(* is never old and a value that was put is there.  As long as no file     *)
(* fails the database implements CacheStore: whoever uses it sees a map    *)
(* from keys to values that may lose a value and never returns an old one. *)
(***************************************************************************)
EXTENDS CacheDatabase, FiniteSetTheorems, SequenceTheorems, TLAPS

\* Of the records that mention a key, one is the last.
HasLast(log) ==
    \A k \in Keys : Mentions(log, k) # {} =>
        \E i \in Mentions(log, k) : \A j \in Mentions(log, k) : j <= i
LogsOK == HasLast(binlog) /\ HasLast(temp) /\ HasLast(ready)

\* What each step of an operation relies on.
Swapping == op.pc \in {"swap", "rename"}
OpOK ==
    /\ ~isOpen => op = Idle /\ ~logOpen /\ removing = {} /\ compactor = "none"
    /\ op.pc \in {"open", "write", "unlink", "move"} => op.key \in Keys /\ op.entry \in Entries
    /\ op.pc \in {"open", "write"} => logOpen /\ map[op.key] = op.entry
    /\ op.pc \in {"unlink", "move"} => map[op.key] = NoEntry
    /\ Swapping => hasReady /\ ~logOpen /\ compactor = "done"
    /\ isOpen /\ hasReady => Swapping
    /\ op.pc = "idle" => op = Idle

\* A key that is to be removed is not in the map.
RemovingOK == \A k \in removing : map[k] = NoEntry

\* The places of the entries f of all keys: drawn before the place n, and different.
PlacesUnder(f, n) ==
    /\ \A k \in Keys : f[k] # NoEntry => f[k].place < n
    /\ \A j, k \in Keys : j # k /\ f[j] # NoEntry => f[j].place # f[k].place
PlacesOK(f) == PlacesUnder(f, nextPlace)
\* No other key has the file of the operation.
OpPlaceOK(f) ==
    op.pc \in {"unlink", "move"} =>
        \A k \in Keys : k # op.key => f[k].place # op.entry.place
FilesOK ==
    /\ PlacesOK(map) /\ PlacesOK(Replay(binlog)) /\ PlacesOK(Replay(ready))
    /\ OpPlaceOK(map) /\ (logOpen => OpPlaceOK(Replay(binlog)))
    /\ op.entry # NoEntry => op.entry.place < nextPlace

\* A record for the key follows the first n of a binlog, or is one of those that the compactor
\* has not read.
Mentioned(log, n, k) == \E i \in (n + 1)..Len(log) : k \in log[i].keys
Unread(k) == \E i \in (readAt + 1)..till : binlog[i].type = "store" /\ k \in binlog[i].keys

\* The compacted binlog says what the binlog says, but for the removals that are not written yet,
\* when what was not copied is added; while it is made, when what is unread is added too.
CompactorOK ==
    /\ compactor \in {"read", "catchUp"} => caughtUp <= Len(binlog)
    /\ compactor = "read" => till = caughtUp /\ readAt <= till
    /\ logOpen /\ compactor # "none" =>
        /\ caughtUp <= Len(binlog)
        /\ \A k \in Keys : ~Mentioned(binlog, caughtUp, k) =>
              \/ Replay(temp)[k] = Replay(binlog)[k]
              \/ Replay(temp)[k] = NoEntry /\ k \in removing
              \/ Replay(temp)[k] = NoEntry /\ compactor = "read" /\ k \notin written /\ Unread(k)
        /\ compactor = "read" => \A k \in Keys :
              ~Mentioned(binlog, caughtUp, k) /\ k \in written => Replay(temp)[k] = Replay(binlog)[k]

\* As long as the binlog did not fail.
OnDisk == Replay(DiskLog)
SafeOK ==
    ~LogFailed =>
        /\ isOpen => logOpen \/ Swapping
        /\ \A k \in Keys : ValueOf(OnDisk[k]) \in {latest[k], NoValue}
        /\ \A k \in kept : latest[k] # NoValue /\ ValueOf(OnDisk[k]) = latest[k]
        /\ kept \cap (staleKeys \cup removing) = {}
        /\ op.pc \in {"open", "write", "unlink", "move"} => op.key \notin kept
        /\ op.pc \in {"open", "write"} =>
              op.key \notin staleKeys /\ latest[op.key] = op.entry.sum
        /\ op.pc = "unlink" => OnDisk[op.key] \in {op.entry, NoEntry}
        /\ op.pc = "move" =>
              /\ ValueOf(op.entry) \in {latest[op.key], NoValue}
              /\ op.kept => ValueOf(op.entry) = latest[op.key] /\ latest[op.key] # NoValue

\* The inductive invariant.
IInv ==
    TypeOK /\ LogsOK /\ OpOK /\ RemovingOK /\ FilesOK /\ CompactorOK /\ DiskMatchesMap /\ SafeOK

-----------------------------------------------------------------------------
(***************************************************************************)
(* What replaying a binlog gives.                                          *)
(***************************************************************************)
LEMMA RecordFields ==
    ASSUME NEW r \in Records
    PROVE  /\ r.keys \subseteq Keys /\ r.entry \in Entries \cup {NoEntry}
           /\ r.entry # NoEntry => r.type = "store"
BY DEF Records

\* The last mention of a key decides.
LEMMA Last ==
    ASSUME NEW s \in Seq(Records), NEW k \in Keys, NEW i \in 1..Len(s),
           k \in s[i].keys, ~Mentioned(s, i, k)
    PROVE  Replay(s)[k] = s[i].entry
<1>. DEFINE last(x) == x \in Mentions(s, k) /\ \A j \in Mentions(s, k) : j <= x
<1>1. last(i)
  BY DEF Mentions, Mentioned
<1>2. \A x : last(x) => x = i
  BY <1>1 DEF Mentions
<1>3. (CHOOSE x \in Mentions(s, k) : \A j \in Mentions(s, k) : j <= x) = i
  BY <1>1, <1>2
<1>4. Mentions(s, k) # {}
  BY <1>1
<1>. QED
  BY <1>3, <1>4 DEF Replay

LEMMA NoMention ==
    ASSUME NEW s \in Seq(Records), NEW k \in Keys, ~Mentioned(s, 0, k)
    PROVE  Replay(s)[k] = NoEntry
BY DEF Mentioned, Mentions, Replay

\* The last mention is there.
LEMMA LastIs ==
    ASSUME NEW s \in Seq(Records), NEW k \in Keys, HasLast(s), Mentioned(s, 0, k)
    PROVE  \E i \in 1..Len(s) :
              k \in s[i].keys /\ ~Mentioned(s, i, k) /\ Replay(s)[k] = s[i].entry
<1>1. Mentions(s, k) # {}
  BY DEF Mentioned, Mentions
<1>2. PICK i \in Mentions(s, k) : \A j \in Mentions(s, k) : j <= i
  BY <1>1 DEF HasLast
<1>3. i \in 1..Len(s) /\ k \in s[i].keys /\ ~Mentioned(s, i, k)
  BY <1>2 DEF Mentions, Mentioned
<1>. QED
  BY <1>3, Last

LEMMA HasLastIs ==
    ASSUME NEW s \in Seq(Records),
           \A k \in Keys : Mentioned(s, 0, k) =>
              \E i \in 1..Len(s) : k \in s[i].keys /\ ~Mentioned(s, i, k)
    PROVE  HasLast(s)
<1>. SUFFICES ASSUME NEW k \in Keys, Mentions(s, k) # {}
              PROVE  \E i \in Mentions(s, k) : \A j \in Mentions(s, k) : j <= i
  BY DEF HasLast
<1>1. PICK i \in 1..Len(s) : k \in s[i].keys /\ ~Mentioned(s, i, k)
  BY DEF Mentions, Mentioned
<1>2. i \in Mentions(s, k)
  BY <1>1 DEF Mentions
<1>3. ASSUME NEW j \in Mentions(s, k) PROVE j <= i
  <2>1. Len(s) \in Nat /\ j \in 1..Len(s) /\ k \in s[j].keys
    BY LenProperties DEF Mentions
  <2>. QED
    BY <1>1, <2>1 DEF Mentioned
<1>. QED
  BY <1>2, <1>3

LEMMA ReplayType ==
    ASSUME NEW s \in Seq(Records), HasLast(s)
    PROVE  /\ Replay(s) \in [Keys -> Entries \cup {NoEntry}]
           /\ \A k \in Keys : Replay(s)[k] # NoEntry =>
                 \E i \in 1..Len(s) : s[i].type = "store" /\ k \in s[i].keys
<1>1. ASSUME NEW k \in Keys
      PROVE  /\ Replay(s)[k] \in Entries \cup {NoEntry}
             /\ Replay(s)[k] # NoEntry =>
                   \E i \in 1..Len(s) : s[i].type = "store" /\ k \in s[i].keys
  <2>1. CASE ~Mentioned(s, 0, k)
    BY <2>1, NoMention
  <2>2. CASE Mentioned(s, 0, k)
    <3>1. PICK i \in 1..Len(s) : k \in s[i].keys /\ Replay(s)[k] = s[i].entry
      BY <2>2, LastIs
    <3>2. s[i] \in Records
      BY ElementOfSeq
    <3>. QED
      BY <3>1, <3>2, RecordFields
  <2>. QED
    BY <2>1, <2>2
<1>2. Replay(s) = [k \in Keys |-> Replay(s)[k]]
  BY DEF Replay
<1>3. Replay(s) \in [Keys -> Entries \cup {NoEntry}]
  <2>. DEFINE f == Replay(s)
  <2>1. f = [k \in Keys |-> f[k]] /\ \A k \in Keys : f[k] \in Entries \cup {NoEntry}
    BY <1>1, <1>2
  <2>. HIDE DEF f
  <2>2. f \in [Keys -> Entries \cup {NoEntry}]
    BY <2>1
  <2>. QED
    BY <2>2 DEF f
<1>. QED
  BY <1>1, <1>3

\* A copy of a binlog, and of what follows the first n of another.
LEMMA Copied ==
    ASSUME NEW s \in Seq(Records), NEW t \in Seq(Records), HasLast(s), HasLast(t),
           NEW n \in 0..Len(t)
    PROVE  LET c == s \o SubSeq(t, n + 1, Len(t))
           IN /\ c \in Seq(Records) /\ HasLast(c)
              /\ \A k \in Keys : Replay(c)[k] = IF Mentioned(t, n, k) THEN Replay(t)[k]
                                                ELSE Replay(s)[k]
<1>. DEFINE u == SubSeq(t, n + 1, Len(t))
            c == s \o u
<1>1. Len(t) \in Nat /\ \A i \in 1..Len(t) : t[i] \in Records
  BY ElementOfSeq
<1>2. /\ u \in Seq(Records) /\ Len(u) = Len(t) - n
      /\ \A i \in 1..(Len(t) - n) : u[i] = t[n + i]
  <2>1. \A i \in (n + 1)..Len(t) : t[i] \in Records
    BY <1>1
  <2>2. /\ u \in Seq(Records)
        /\ Len(u) = IF n + 1 <= Len(t) THEN Len(t) - (n + 1) + 1 ELSE 0
        /\ \A i \in 1..(Len(t) - (n + 1) + 1) : u[i] = t[n + 1 + i - 1]
    BY <1>1, <2>1, SubSeqProperties
  <2>3. \A i \in 1..(Len(t) - n) : u[i] = t[n + i]
    BY <1>1, <2>2
  <2>. QED
    BY <1>1, <2>2, <2>3
<1>. HIDE DEF u
<1>3. /\ c \in Seq(Records) /\ Len(c) = Len(s) + Len(t) - n
      /\ \A i \in 1..Len(s) : c[i] = s[i]
      /\ \A i \in (n + 1)..Len(t) : c[Len(s) + i - n] = t[i]
  <2>1. /\ c \in Seq(Records) /\ Len(c) = Len(s) + Len(u)
        /\ \A i \in 1..(Len(s) + Len(u)) : c[i] = IF i <= Len(s) THEN s[i] ELSE u[i - Len(s)]
    BY <1>2, ConcatProperties
  <2>2. Len(s) \in Nat
    BY LenProperties
  <2>3. ASSUME NEW i \in (n + 1)..Len(t) PROVE c[Len(s) + i - n] = t[i]
    <3>1. i - n \in 1..(Len(t) - n) /\ n + (i - n) = i
      BY <1>1
    <3>2. u[i - n] = t[i]
      BY <1>2, <3>1
    <3>3. Len(s) + i - n \in 1..(Len(s) + Len(u)) /\ ~(Len(s) + i - n <= Len(s))
          /\ (Len(s) + i - n) - Len(s) = i - n
      BY <1>1, <1>2, <2>2, <3>1
    <3>. QED
      BY <2>1, <3>2, <3>3
  <2>. QED
    BY <1>1, <1>2, <2>1, <2>2, <2>3
<1>. HIDE DEF c
<1>4. ASSUME NEW k \in Keys
      PROVE  /\ Replay(c)[k] = IF Mentioned(t, n, k) THEN Replay(t)[k] ELSE Replay(s)[k]
             /\ Mentioned(c, 0, k) =>
                   \E i \in 1..Len(c) : k \in c[i].keys /\ ~Mentioned(c, i, k)
  <2>0. Len(s) \in Nat
    BY LenProperties
  <2>1. CASE Mentioned(t, n, k)
    <3>1. Mentioned(t, 0, k)
      BY <1>1, <2>1 DEF Mentioned
    <3>2. PICK i \in 1..Len(t) :
             k \in t[i].keys /\ ~Mentioned(t, i, k) /\ Replay(t)[k] = t[i].entry
      BY <3>1, LastIs
    <3>3. i > n
      BY <1>1, <2>1, <3>2 DEF Mentioned
    <3>. DEFINE j == Len(s) + i - n
    <3>4. j \in 1..Len(c) /\ c[j] = t[i]
      BY <1>1, <1>3, <2>0, <3>3
    <3>5. ~Mentioned(c, j, k)
      <4>. SUFFICES ASSUME NEW x \in (j + 1)..Len(c), k \in c[x].keys PROVE FALSE
        BY DEF Mentioned
      <4>1. x - Len(s) + n \in (i + 1)..Len(t) /\ x = Len(s) + (x - Len(s) + n) - n
        BY <1>1, <1>3, <2>0, <3>3
      <4>2. c[x] = t[x - Len(s) + n]
        BY <1>1, <1>3, <3>3, <4>1
      <4>. QED
        BY <3>2, <4>1, <4>2 DEF Mentioned
    <3>. HIDE DEF j
    <3>. QED
      BY <1>3, <2>1, <3>2, <3>4, <3>5, Last
  <2>2. CASE ~Mentioned(t, n, k)
    <3>1. \A x \in (Len(s) + 1)..Len(c) : k \notin c[x].keys
      <4>. SUFFICES ASSUME NEW x \in (Len(s) + 1)..Len(c), k \in c[x].keys PROVE FALSE
        OBVIOUS
      <4>1. x - Len(s) + n \in (n + 1)..Len(t) /\ x = Len(s) + (x - Len(s) + n) - n
        BY <1>1, <1>3, <2>0
      <4>2. c[x] = t[x - Len(s) + n]
        BY <1>3, <4>1
      <4>. QED
        BY <2>2, <4>1, <4>2 DEF Mentioned
    <3>2. CASE Mentioned(s, 0, k)
      <4>1. PICK i \in 1..Len(s) :
               k \in s[i].keys /\ ~Mentioned(s, i, k) /\ Replay(s)[k] = s[i].entry
        BY <3>2, LastIs
      <4>2. i \in 1..Len(c) /\ c[i] = s[i]
        BY <1>1, <1>3, <2>0
      <4>3. ASSUME NEW x \in (i + 1)..Len(c) PROVE k \notin c[x].keys
        <5>1. CASE x <= Len(s)
          BY <1>3, <2>0, <4>1, <5>1 DEF Mentioned
        <5>2. CASE x > Len(s)
          BY <1>1, <1>3, <2>0, <3>1, <5>2
        <5>. QED
          BY <1>1, <1>3, <2>0, <5>1, <5>2
      <4>4. ~Mentioned(c, i, k)
        BY <4>3 DEF Mentioned
      <4>. QED
        BY <1>3, <2>2, <4>1, <4>2, <4>4, Last
    <3>3. CASE ~Mentioned(s, 0, k)
      <4>1. ~Mentioned(c, 0, k)
        BY <1>1, <1>3, <2>0, <3>1, <3>3 DEF Mentioned
      <4>. QED
        BY <1>3, <2>2, <3>3, <4>1, NoMention
    <3>. QED
      BY <3>2, <3>3
  <2>. QED
    BY <2>1, <2>2
<1>5. HasLast(c)
  BY <1>3, <1>4, HasLastIs
<1>. QED
  BY <1>3, <1>4, <1>5 DEF c, u

\* One record more.
LEMMA Appended ==
    ASSUME NEW s \in Seq(Records), HasLast(s), NEW r \in Records
    PROVE  LET c == s \o <<r>>
           IN /\ c \in Seq(Records) /\ HasLast(c) /\ Len(c) = Len(s) + 1
              /\ c = Append(s, r)
              /\ \A i \in 1..Len(s) : c[i] = s[i]
              /\ \A n \in 0..Len(s), k \in Keys :
                    Mentioned(c, n, k) <=> Mentioned(s, n, k) \/ k \in r.keys
              /\ \A k \in Keys : Replay(c)[k] = IF k \in r.keys THEN r.entry ELSE Replay(s)[k]
<1>. DEFINE t == <<r>>
            c == s \o t
<1>1. t \in Seq(Records) /\ Len(t) = 1 /\ t[1] = r
  OBVIOUS
<1>2. \A n \in 0..1, k \in Keys : Mentioned(t, n, k) <=> n = 0 /\ k \in r.keys
  BY <1>1 DEF Mentioned
<1>3. HasLast(t)
  <2>1. \A k \in Keys : Mentioned(t, 0, k) =>
           \E i \in 1..Len(t) : k \in t[i].keys /\ ~Mentioned(t, i, k)
    BY <1>1, <1>2
  <2>. HIDE DEF t
  <2>. QED
    BY <1>1, <2>1, HasLastIs
<1>4. SubSeq(t, 1, 1) = t
  <2>. HIDE DEF t
  <2>. QED
    BY <1>1, SubSeqFull
<1>5. /\ c \in Seq(Records) /\ HasLast(c)
      /\ \A k \in Keys : Replay(c)[k] = IF Mentioned(t, 0, k) THEN Replay(t)[k] ELSE Replay(s)[k]
  <2>. HIDE DEF t
  <2>1. 0 \in 0..Len(t) /\ SubSeq(t, 0 + 1, Len(t)) = t
    BY <1>1, <1>4
  <2>. DEFINE d == s \o SubSeq(t, 0 + 1, Len(t))
  <2>2. d = c
    BY <2>1
  <2>3. /\ d \in Seq(Records) /\ HasLast(d)
        /\ \A k \in Keys : Replay(d)[k] = IF Mentioned(t, 0, k) THEN Replay(t)[k] ELSE Replay(s)[k]
    BY <1>1, <1>3, <2>1, Copied
  <2>. HIDE DEF d, c
  <2>. QED
    BY <2>2, <2>3
<1>6. ASSUME NEW k \in Keys, k \in r.keys PROVE Replay(t)[k] = r.entry
  <2>1. 1 \in 1..Len(t) /\ k \in t[1].keys /\ ~Mentioned(t, 1, k)
    BY <1>1, <1>2, <1>6
  <2>. HIDE DEF t
  <2>. QED
    BY <1>1, <2>1, Last
<1>7. /\ Len(c) = Len(s) + 1 /\ c = Append(s, r)
      /\ \A i \in 1..Len(s) : c[i] = s[i]
      /\ c[Len(s) + 1] = r
  OBVIOUS
<1>8. Len(s) \in Nat
  BY LenProperties
<1>. HIDE DEF c, t
<1>9. \A n \in 0..Len(s), k \in Keys : Mentioned(c, n, k) <=> Mentioned(s, n, k) \/ k \in r.keys
  BY <1>7, <1>8 DEF Mentioned
<1>. QED
  BY <1>2, <1>5, <1>6, <1>7, <1>9 DEF c, t

-----------------------------------------------------------------------------
(***************************************************************************)
(* What the invariant says of entries and of a binlog that is open.        *)
(***************************************************************************)
LEMMA EntryFacts ==
    /\ \A e \in Entries : e.place \in Places /\ e.sum \in Values /\ e.place # NoPlace
    /\ NoEntry \notin Entries /\ NoEntry.place = NoPlace
    /\ \A p \in Places, v \in Values :
          Entry(p, v) \in Entries /\ Entry(p, v).place = p /\ Entry(p, v).sum = v
BY BoundsAreNats DEF Entries, Entry, NoEntry, Places, NoPlace

LEMMA RecordFacts ==
    /\ \A ks \in SUBSET Keys : /\ RemoveRecord(ks) \in Records
                               /\ RemoveRecord(ks).keys = ks /\ RemoveRecord(ks).entry = NoEntry
    /\ \A k \in Keys, e \in Entries : /\ StoreRecord(k, e) \in Records
                                      /\ StoreRecord(k, e).keys = {k}
                                      /\ StoreRecord(k, e).entry = e
BY DEF Records, RemoveRecord, StoreRecord

LEMMA Operation ==
    ASSUME NEW c \in {"idle", "open", "write", "unlink", "move", "swap", "rename"},
           NEW k \in Keys \cup {NoKey}, NEW e \in Entries \cup {NoEntry}, NEW b \in BOOLEAN
    PROVE  LET o == [pc |-> c, key |-> k, entry |-> e, kept |-> b]
           IN o \in Operations /\ o.pc = c /\ o.key = k /\ o.entry = e /\ o.kept = b
BY DEF Operations

LEMMA IdleFacts == Idle \in Operations /\ Idle.pc = "idle" /\ Idle.entry = NoEntry
BY DEF Idle, Operations

LEMMA RemovingFacts ==
    ASSUME TypeOK
    PROVE  /\ IsFiniteSet(removing) /\ Cardinality(removing) \in Nat
           /\ \A k \in Keys : /\ IsFiniteSet(removing \cup {k})
                              /\ Cardinality(removing \cup {k}) \in Nat
                              /\ Cardinality(removing \cup {k}) <= MaxBundled
                              /\ Cardinality(removing \ {k}) < MaxBundled
<1>1. IsFiniteSet(removing)
  BY KeysAreFinite, FS_Subset DEF TypeOK, MemoryType
<1>2. Cardinality(removing) \in Nat /\ Cardinality(removing) < MaxBundled
  BY <1>1, FS_CardinalityType DEF TypeOK, MemoryType
<1>3. ASSUME NEW k \in Keys
      PROVE  /\ IsFiniteSet(removing \cup {k}) /\ Cardinality(removing \cup {k}) \in Nat
             /\ Cardinality(removing \cup {k}) <= MaxBundled
             /\ Cardinality(removing \ {k}) < MaxBundled
  BY <1>1, <1>2, FS_AddElement, FS_RemoveElement, BoundsAreNats
<1>. QED
  BY <1>1, <1>2, <1>3

LEMMA ReplayTypes ==
    ASSUME IInv
    PROVE  /\ Replay(binlog) \in [Keys -> Entries \cup {NoEntry}]
           /\ Replay(ready) \in [Keys -> Entries \cup {NoEntry}]
           /\ Replay(temp) \in [Keys -> Entries \cup {NoEntry}]
BY ReplayType DEF IInv, LogsOK, TypeOK, DiskType, CompactionType

LEMMA OpenLog ==
    ASSUME IInv, logOpen
    PROVE  /\ isOpen /\ ~hasReady /\ ~Swapping /\ DiskLog = binlog /\ OnDisk = Replay(binlog)
           /\ \A k \in Keys : \/ Replay(binlog)[k] = map[k]
                              \/ k \in removing /\ map[k] = NoEntry
<1>1. isOpen /\ ~hasReady /\ ~Swapping
  BY DEF IInv, OpOK
<1>2. DiskLog = binlog
  BY <1>1 DEF DiskLog
<1>. QED
  BY <1>1, <1>2 DEF IInv, DiskMatchesMap, OnDisk

\* What a file has for an entry.
LEMMA FileFacts ==
    /\ ValueOf(NoEntry) = NoValue
    /\ \A e \in Entries : ValueOf(e) = IF files[e.place] = e.sum THEN e.sum ELSE NoValue
BY EntryFacts DEF ValueOf

\* The binlog grows by one record, while it is open.
Grows(r) == logOpen /\ binlog' = binlog \o <<r>> /\ UNCHANGED <<hasReady, ready, compaction>>
LEMMA Growing ==
    ASSUME IInv, NEW r \in Records, Grows(r), removing \ r.keys \subseteq removing'
    PROVE  /\ binlog' \in Seq(Records) /\ LogsOK' /\ CompactorOK'
           /\ \A k \in Keys :
                 Replay(binlog)'[k] = IF k \in r.keys THEN r.entry ELSE Replay(binlog)[k]
<1>. USE DEF Grows, compaction
<1>1. binlog \in Seq(Records) /\ HasLast(binlog) /\ caughtUp \in Nat /\ Len(binlog) \in Nat
      /\ till \in Nat /\ readAt \in Nat
  BY LenProperties DEF IInv, TypeOK, DiskType, CompactionType, LogsOK
<1>2. /\ binlog' \in Seq(Records) /\ HasLast(binlog') /\ Len(binlog') = Len(binlog) + 1
      /\ \A i \in 1..Len(binlog) : binlog'[i] = binlog[i]
      /\ \A n \in 0..Len(binlog), k \in Keys :
            Mentioned(binlog', n, k) <=> Mentioned(binlog, n, k) \/ k \in r.keys
      /\ \A k \in Keys :
            Replay(binlog')[k] = IF k \in r.keys THEN r.entry ELSE Replay(binlog)[k]
  BY <1>1, Appended
<1>3. LogsOK'
  BY <1>2 DEF IInv, LogsOK
<1>4. CompactorOK'
  <2>1. CASE compactor = "none"
    BY <2>1 DEF CompactorOK
  <2>2. CASE compactor # "none"
    <3>1. /\ caughtUp \in 0..Len(binlog) /\ caughtUp <= Len(binlog')
          /\ compactor = "read" => till = caughtUp /\ readAt <= till
      BY <1>1, <1>2, <2>2 DEF IInv, CompactorOK
    <3>2. compactor = "read" => \A k \in Keys : Unread(k) => Unread(k)'
      BY <1>1, <1>2, <3>1 DEF Unread
    <3>3. ASSUME NEW k \in Keys, ~Mentioned(binlog', caughtUp, k)
          PROVE  /\ \/ Replay(temp)[k] = Replay(binlog')[k]
                    \/ Replay(temp)[k] = NoEntry /\ k \in removing'
                    \/ /\ Replay(temp)[k] = NoEntry /\ compactor = "read" /\ k \notin written
                       /\ Unread(k)'
                 /\ compactor = "read" /\ k \in written =>
                       Replay(temp)[k] = Replay(binlog')[k]
      <4>1. k \notin r.keys /\ ~Mentioned(binlog, caughtUp, k)
        BY <1>2, <3>1, <3>3
      <4>2. Replay(binlog')[k] = Replay(binlog)[k]
        BY <1>2, <4>1
      <4>3. /\ \/ Replay(temp)[k] = Replay(binlog)[k]
               \/ Replay(temp)[k] = NoEntry /\ k \in removing
               \/ /\ Replay(temp)[k] = NoEntry /\ compactor = "read" /\ k \notin written
                  /\ Unread(k)
            /\ compactor = "read" /\ k \in written => Replay(temp)[k] = Replay(binlog)[k]
        BY <2>2, <4>1 DEF IInv, CompactorOK
      <4>. QED
        BY <3>2, <4>1, <4>2, <4>3
    <3>. QED
      BY <2>2, <3>1, <3>3 DEF CompactorOK
  <2>. QED
    BY <2>1, <2>2
<1>. QED
  BY <1>2, <1>3, <1>4

\* It stays as it is, or is closed.
LEMMA NotGrowing ==
    ASSUME IInv, binlog' = binlog, UNCHANGED compaction,
           logOpen' => logOpen /\ removing \subseteq removing'
    PROVE  CompactorOK'
<1>1. \A k \in Keys : Unread(k)' <=> Unread(k)
  BY DEF Unread, compaction
<1>2. CASE logOpen'
  <2>1. ASSUME NEW k \in Keys, compactor # "none", ~Mentioned(binlog, caughtUp, k)
        PROVE  /\ \/ Replay(temp)[k] = Replay(binlog)[k]
                  \/ Replay(temp)[k] = NoEntry /\ k \in removing'
                  \/ /\ Replay(temp)[k] = NoEntry /\ compactor = "read" /\ k \notin written
                     /\ Unread(k)'
               /\ compactor = "read" /\ k \in written => Replay(temp)[k] = Replay(binlog)[k]
    BY <1>1, <1>2, <2>1 DEF IInv, CompactorOK
  <2>. QED
    BY <1>2, <2>1 DEF IInv, CompactorOK, compaction
<1>3. CASE ~logOpen'
  BY <1>3 DEF IInv, CompactorOK, compaction
<1>. QED
  BY <1>2, <1>3

-----------------------------------------------------------------------------
(***************************************************************************)
(* Removing.                                                               *)
(***************************************************************************)

\* Removals are listed, or written with those that were listed before, or that fails.
LogAsBefore == UNCHANGED logOpen /\ (UNCHANGED faults \/ Fault("data"))
Listed(listed) ==
    \/ Grows(RemoveRecord(listed)) /\ removing' = {} /\ LogAsBefore
    \/ LogFails /\ removing' = {}
    \/ Cardinality(listed) < MaxBundled /\ removing' = listed /\ UNCHANGED binlog /\ LogAsBefore
LEMMA WrittenIsListed ==
    ASSUME NEW listed, RemovalWritten(listed), UNCHANGED <<hasReady, ready, compaction>>
    PROVE  Listed(listed)
BY DEF RemovalWritten, LogWrites, Listed, Grows, LogAsBefore

LEMMA LogStays ==
    ASSUME faults \subseteq FaultKinds, LogAsBefore
    PROVE  faults' \subseteq FaultKinds /\ (LogFailed' <=> LogFailed)
BY DEF LogAsBefore, Fault, LogFailed

\* The database goes on without a binlog.
LEMMA LogIsLost ==
    ASSUME IInv, isOpen, ~Swapping, LogFails
    PROVE  LogFailed' /\ ~logOpen' /\ faults' \subseteq FaultKinds /\ binlog' = binlog
<1>1. faults \subseteq FaultKinds /\ (logOpen \/ LogFailed)
  BY DEF IInv, TypeOK, HistoryType, SafeOK
<1>2. CASE logOpen
  BY <1>1, <1>2 DEF LogFails, Fault, LogFailed
<1>3. CASE ~logOpen
  BY <1>1, <1>3 DEF LogFails, LogFailed
<1>. QED
  BY <1>2, <1>3

Drops(listed) == map' = [k \in Keys |-> IF k \in listed THEN NoEntry ELSE map[k]]
LEMMA Listing ==
    ASSUME IInv, isOpen, ~Swapping, NEW listed \in SUBSET Keys, removing \subseteq listed,
           Listed(listed), Drops(listed), ~Swapping',
           UNCHANGED <<isOpen, hasReady, ready, compaction>>
    PROVE  /\ binlog' \in Seq(Records) /\ logOpen' \in BOOLEAN /\ faults' \subseteq FaultKinds
           /\ removing' \subseteq listed /\ Cardinality(removing') < MaxBundled
           /\ LogsOK' /\ CompactorOK' /\ RemovingOK' /\ DiskMatchesMap'
           /\ (logOpen' => logOpen) /\ (LogFailed => LogFailed')
           /\ (logOpen => logOpen' \/ LogFailed')
           /\ \A k \in Keys : \/ Replay(binlog)'[k] = Replay(binlog)[k]
                              \/ k \in listed /\ Replay(binlog)'[k] = NoEntry
<1>. USE DEF compaction
<1>0. /\ binlog \in Seq(Records) /\ logOpen \in BOOLEAN /\ faults \subseteq FaultKinds
      /\ isOpen /\ MaxBundled \in Nat /\ MaxBundled > 0 /\ LogsOK
      /\ \A k \in Keys : map'[k] = IF k \in listed THEN NoEntry ELSE map[k]
  BY BoundsAreNats DEF IInv, TypeOK, DiskType, MemoryType, HistoryType, Drops
<1>1. RemovingOK'
  BY <1>0 DEF Listed, RemovingOK
<1>2. CASE Grows(RemoveRecord(listed)) /\ removing' = {} /\ LogAsBefore
  <2>1. logOpen' = logOpen /\ faults' \subseteq FaultKinds /\ (LogFailed' <=> LogFailed)
    BY <1>0, <1>2, LogStays DEF LogAsBefore
  <2>2. PICK r \in Records : Grows(r) /\ r.keys = listed /\ r.entry = NoEntry
    BY <1>2, RecordFacts
  <2>3. /\ binlog' \in Seq(Records) /\ LogsOK' /\ CompactorOK'
        /\ \A k \in Keys :
              Replay(binlog)'[k] = IF k \in listed THEN NoEntry ELSE Replay(binlog)[k]
    BY <2>2, Growing
  <2>4. logOpen /\ ~hasReady /\ \A k \in Keys : k \notin listed => Replay(binlog)[k] = map[k]
    BY <1>2, OpenLog DEF Grows
  <2>5. DiskLog' = binlog'
    BY <1>0, <2>4 DEF DiskLog
  <2>6. \A k \in Keys : Replay(DiskLog)'[k] = map'[k]
    BY <1>0, <2>3, <2>4, <2>5
  <2>7. DiskMatchesMap'
    BY <2>6 DEF DiskMatchesMap
  <2>. QED
    BY <1>0, <1>1, <1>2, <2>1, <2>3, <2>7, FS_EmptySet
<1>3. CASE LogFails /\ removing' = {}
  <2>1. binlog' = binlog /\ logOpen' = FALSE
    BY <1>3 DEF LogFails
  <2>2. faults' \subseteq FaultKinds /\ faults \subseteq faults' /\ (logOpen => "log" \in faults')
    BY <1>0, <1>3 DEF LogFails, Fault
  <2>3. LogsOK' /\ CompactorOK'
    BY <1>0, <2>1, NotGrowing DEF LogsOK
  <2>4. DiskMatchesMap'
    BY <2>1 DEF DiskMatchesMap, Swapping
  <2>5. (LogFailed => LogFailed') /\ (logOpen => logOpen' \/ LogFailed')
    BY <2>2 DEF LogFailed
  <2>. QED
    BY <1>0, <1>1, <1>3, <2>1, <2>2, <2>3, <2>4, <2>5, FS_EmptySet
<1>4. CASE Cardinality(listed) < MaxBundled /\ removing' = listed
           /\ UNCHANGED binlog /\ LogAsBefore
  <2>0. logOpen' = logOpen /\ faults' \subseteq FaultKinds /\ (LogFailed' <=> LogFailed)
    BY <1>0, <1>4, LogStays DEF LogAsBefore
  <2>1. LogsOK' /\ CompactorOK'
    BY <1>0, <1>4, <2>0, NotGrowing DEF LogsOK
  <2>2. DiskMatchesMap'
    <3>1. CASE logOpen
      <4>1. DiskLog' = binlog /\ DiskLog = binlog
        BY <1>4, <2>0, <3>1, OpenLog DEF DiskLog
      <4>2. \A k \in Keys : \/ Replay(binlog)[k] = map'[k]
                            \/ k \in removing' /\ map'[k] = NoEntry
        BY <1>0, <1>4, <3>1, OpenLog
      <4>. QED
        BY <4>1, <4>2 DEF DiskMatchesMap
    <3>2. CASE ~logOpen
      BY <1>4, <2>0, <3>2 DEF DiskMatchesMap, Swapping
    <3>. QED
      BY <3>1, <3>2
  <2>. QED
    BY <1>0, <1>1, <1>4, <2>0, <2>1, <2>2
<1>. QED
  BY <1>2, <1>3, <1>4 DEF Listed

\* Places stay different when entries are dropped.
LEMMA Dropped ==
    ASSUME NEW f \in [Keys -> Entries \cup {NoEntry}], NEW g, NEW n, PlacesUnder(f, n),
           \A k \in Keys : g[k] = f[k] \/ g[k] = NoEntry
    PROVE  PlacesUnder(g, n)
<1>1. ASSUME NEW k \in Keys, g[k] # NoEntry PROVE g[k].place < n
  BY <1>1 DEF PlacesUnder
<1>2. ASSUME NEW j \in Keys, NEW k \in Keys, j # k, g[j] # NoEntry
      PROVE  g[j].place # g[k].place
  <2>1. g[j] = f[j] /\ f[j] \in Entries
    BY <1>2
  <2>2. f[j].place # f[k].place /\ f[j].place # NoEntry.place
    BY <1>2, <2>1, EntryFacts DEF PlacesUnder
  <2>. QED
    BY <2>1, <2>2
<1>. QED
  BY <1>1, <1>2 DEF PlacesUnder

\* An entry is dropped, by remove(), by get() of a damaged one, when it is stale, or when its
\* value cannot be written.
DropsEntry(k) ==
    /\ Listed(removing \cup {k})
    /\ map' = [map EXCEPT ![k] = NoEntry] /\ latest' = latest
    /\ op' \in Operations /\ op'.pc = "unlink" /\ op'.key = k /\ op'.entry = map[k]
LEMMA Removing ==
    ASSUME IInv, isOpen, ~Swapping, NEW k \in Keys, map[k] # NoEntry, DropsEntry(k),
           UNCHANGED <<isOpen, hasReady, ready, compaction, files, nextPlace>>,
           staleKeys' \subseteq staleKeys, kept' \subseteq kept, ~LogFailed => k \notin kept'
    PROVE  IInv'
<1>. DEFINE listed == removing \cup {k}
<1>0. /\ isOpen /\ ~hasReady
      /\ map \in [Keys -> Entries \cup {NoEntry}] /\ map[k] \in Entries /\ removing \subseteq Keys
  BY DEF IInv, TypeOK, MemoryType, OpOK
<1>1. /\ listed \in SUBSET Keys /\ removing \subseteq listed /\ Listed(listed)
      /\ map' = [map EXCEPT ![k] = NoEntry] /\ latest' = latest
  BY <1>0 DEF DropsEntry
<1>2. op' \in Operations /\ op'.pc = "unlink" /\ op'.key = k /\ op'.entry = map[k]
  BY DEF DropsEntry
<1>3. Drops(listed) /\ map' \in [Keys -> Entries \cup {NoEntry}]
      /\ map'[k] = NoEntry /\ \A j \in Keys : j # k => map'[j] = map[j]
  BY <1>0, <1>1 DEF Drops, IInv, RemovingOK
<1>4. ~Swapping'
  BY <1>2 DEF Swapping
<1>. HIDE DEF listed
<1>5. /\ binlog' \in Seq(Records) /\ logOpen' \in BOOLEAN /\ faults' \subseteq FaultKinds
      /\ removing' \subseteq listed /\ Cardinality(removing') < MaxBundled
      /\ LogsOK' /\ CompactorOK' /\ RemovingOK' /\ DiskMatchesMap'
      /\ (logOpen' => logOpen) /\ (LogFailed => LogFailed')
      /\ (logOpen => logOpen' \/ LogFailed')
      /\ \A j \in Keys : \/ Replay(binlog)'[j] = Replay(binlog)[j]
                         \/ j \in listed /\ Replay(binlog)'[j] = NoEntry
  BY <1>1, <1>3, <1>4, Listing
<1>6. TypeOK'
  <2>1. MemoryType'
    BY <1>1, <1>2, <1>3, <1>5 DEF IInv, TypeOK, MemoryType
  <2>2. CompactionType' /\ DiskType' /\ HistoryType'
    BY <1>1, <1>5 DEF IInv, TypeOK, CompactionType, DiskType, HistoryType, compaction
  <2>. QED
    BY <2>1, <2>2 DEF TypeOK
<1>7. OpOK'
  BY <1>0, <1>2, <1>3 DEF OpOK, Swapping
<1>8. FilesOK'
  <2>1. PlacesOK(map)' /\ PlacesOK(Replay(ready))'
    <3>1. PlacesUnder(map', nextPlace)
      BY <1>0, <1>3, Dropped DEF IInv, FilesOK, PlacesOK
    <3>. QED
      BY <3>1 DEF IInv, FilesOK, PlacesOK
  <2>2. PlacesOK(Replay(binlog))'
    <3>1. PlacesUnder(Replay(binlog'), nextPlace)
      BY <1>5, ReplayTypes, Dropped DEF IInv, FilesOK, PlacesOK
    <3>. QED
      BY <3>1 DEF PlacesOK
  <2>3. OpPlaceOK(map)'
    <3>1. \A j \in Keys : j # k => map[j].place # map[k].place
      BY <1>0, EntryFacts DEF IInv, FilesOK, PlacesOK, PlacesUnder
    <3>. QED
      BY <1>2, <1>3, <3>1 DEF OpPlaceOK
  <2>4. logOpen' => OpPlaceOK(Replay(binlog))'
    <3>. SUFFICES ASSUME logOpen PROVE OpPlaceOK(Replay(binlog))'
      BY <1>5
    <3>1. Replay(binlog)[k] = map[k]
      BY OpenLog
    <3>2. \A j \in Keys : j # k => Replay(binlog)[j].place # map[k].place
      BY <1>0, <3>1, EntryFacts, ReplayTypes DEF IInv, FilesOK, PlacesOK, PlacesUnder
    <3>. QED
      BY <1>0, <1>2, <1>5, <3>2, EntryFacts DEF OpPlaceOK
  <2>5. map[k].place < nextPlace
    BY DEF IInv, FilesOK, PlacesOK, PlacesUnder
  <2>. QED
    BY <1>2, <2>1, <2>2, <2>3, <2>4, <2>5 DEF FilesOK
<1>9. SafeOK'
  <2>. SUFFICES ASSUME ~LogFailed' PROVE SafeOK'
    BY DEF SafeOK
  <2>1. ~LogFailed /\ logOpen /\ logOpen'
    BY <1>0, <1>5 DEF IInv, SafeOK
  <2>2. OnDisk = Replay(binlog) /\ OnDisk' = Replay(binlog)'
    BY <1>0, <2>1, OpenLog DEF OnDisk, DiskLog
  <2>3. \A e : ValueOf(e)' = ValueOf(e)
    BY DEF ValueOf
  <2>4. \A j \in Keys : ValueOf(OnDisk[j])' \in {latest'[j], NoValue}
    BY <1>1, <1>5, <2>1, <2>2, FileFacts DEF IInv, SafeOK, ValueOf
  <2>5. kept' \cap listed = {}
    BY <2>1 DEF IInv, SafeOK, listed
  <2>6. \A j \in kept' : latest'[j] # NoValue /\ ValueOf(OnDisk[j])' = latest'[j]
    BY <1>1, <1>5, <2>1, <2>2, <2>5 DEF IInv, SafeOK, TypeOK, HistoryType, ValueOf
  <2>7. kept' \cap (staleKeys' \cup removing') = {}
    BY <1>5, <2>1, <2>5 DEF IInv, SafeOK
  <2>8. OnDisk'[k] \in {map[k], NoEntry}
    BY <1>5, <2>1, <2>2, OpenLog
  <2>. QED
    BY <1>2, <2>1, <2>4, <2>6, <2>7, <2>8 DEF SafeOK
<1>. QED
  BY <1>5, <1>6, <1>7, <1>8, <1>9 DEF IInv

LEMMA RemovesEntry ==
    ASSUME IInv, Free, NEW k \in Keys, map[k] # NoEntry, Removes(k),
           UNCHANGED <<hasReady, ready, compaction>>
    PROVE  isOpen /\ ~Swapping /\ DropsEntry(k)
<1>. DEFINE listed == removing \cup {k}
<1>1. isOpen /\ ~Swapping
  BY IdleFacts DEF Free, Swapping
<1>2. Cardinality(listed) \in Nat /\ Cardinality(listed) <= MaxBundled /\ MaxBundled \in Nat
  BY RemovingFacts, BoundsAreNats DEF IInv
<1>3. /\ IF Cardinality(listed) = MaxBundled
         THEN RemovalWritten(listed)
         ELSE removing' = listed /\ UNCHANGED <<logOpen, binlog, faults>>
      /\ map' = [map EXCEPT ![k] = NoEntry] /\ latest' = latest
      /\ op' = [pc |-> "unlink", key |-> k, entry |-> map[k], kept |-> FALSE]
  BY DEF Removes
<1>4. map[k] \in Entries
  BY DEF IInv, TypeOK, MemoryType
<1>5. op' \in Operations /\ op'.pc = "unlink" /\ op'.key = k /\ op'.entry = map[k]
  BY <1>3, <1>4, Operation
<1>. HIDE DEF listed
<1>6. Listed(listed)
  BY <1>2, <1>3, WrittenIsListed DEF Listed, LogAsBefore
<1>. QED
  BY <1>1, <1>3, <1>5, <1>6 DEF DropsEntry, listed

LEMMA RemoveStep ==
    ASSUME IInv, NEW k \in Keys, Remove(k)
    PROVE  IInv'
<1>1. /\ Free /\ map[k] # NoEntry /\ Removes(k) /\ kept' = kept \ {k}
      /\ UNCHANGED <<isOpen, staleKeys, compaction, hasReady, ready, files, nextPlace>>
  BY DEF Remove
<1>2. isOpen /\ ~Swapping /\ DropsEntry(k)
  BY <1>1, RemovesEntry
<1>. QED
  BY <1>1, <1>2, Removing

\* As long as the binlog does not fail, a kept value is not damaged: its file is as put() left it.
LEMMA GetDamagedStep ==
    ASSUME IInv, NEW k \in Keys, GetDamaged(k)
    PROVE  IInv'
<1>1. /\ Free /\ Damaged(k) /\ Removes(k) /\ kept' = kept
      /\ UNCHANGED <<isOpen, staleKeys, compaction, hasReady, ready, files, nextPlace>>
  BY DEF GetDamaged
<1>2. isOpen /\ ~Swapping /\ DropsEntry(k)
  BY <1>1, RemovesEntry DEF Damaged
<1>3. ASSUME ~LogFailed, k \in kept PROVE FALSE
  <2>1. OnDisk[k] = map[k] /\ ValueOf(OnDisk[k]) # NoValue
    BY <1>2, <1>3, OpenLog DEF IInv, SafeOK
  <2>. QED
    BY <1>1, <2>1 DEF Damaged, ValueOf
<1>. QED
  BY <1>1, <1>2, <1>3, Removing DEF Damaged

\* Only which keys are being cleared changes, and what is promised of them.
LEMMA Marking ==
    ASSUME IInv, Free, staleKeys' \subseteq Keys, kept' \subseteq kept,
           ~LogFailed => kept' \cap staleKeys' = {},
           UNCHANGED <<isOpen, logOpen, map, removing, op, compaction, disk, files, nextPlace,
                       latest, faults>>
    PROVE  IInv'
<1>. USE DEF compaction, disk
<1>1. op.pc = "idle" /\ ~Swapping
  BY IdleFacts DEF Free, Swapping
<1>2. TypeOK'
  BY DEF IInv, TypeOK, MemoryType, CompactionType, DiskType, HistoryType
<1>3. LogsOK' /\ RemovingOK' /\ DiskMatchesMap'
  BY DEF IInv, LogsOK, RemovingOK, DiskMatchesMap, DiskLog
<1>4. OpOK'
  BY DEF IInv, OpOK, Swapping
<1>5. FilesOK'
  BY DEF IInv, FilesOK, PlacesOK, OpPlaceOK
<1>6. CompactorOK'
  BY NotGrowing
<1>7. SafeOK'
  <2>1. LogFailed' <=> LogFailed
    BY DEF LogFailed
  <2>2. OnDisk' = OnDisk
    BY DEF OnDisk, DiskLog
  <2>3. \A e : ValueOf(e)' = ValueOf(e)
    BY DEF ValueOf
  <2>4. op'.pc = "idle"
    BY <1>1
  <2>. QED
    BY <1>1, <2>1, <2>2, <2>4 DEF IInv, SafeOK, Swapping, ValueOf
<1>. QED
  BY <1>2, <1>3, <1>4, <1>5, <1>6, <1>7 DEF IInv

LEMMA MarkStaleStep ==
    ASSUME IInv, NEW ks \in SUBSET Keys, MarkStale(ks)
    PROVE  IInv'
<1>1. staleKeys \subseteq Keys /\ (~LogFailed => kept \cap staleKeys = {})
  BY DEF IInv, TypeOK, MemoryType, SafeOK
<1>2. staleKeys' \subseteq Keys /\ kept' \subseteq kept /\ (~LogFailed => kept' \cap staleKeys' = {})
  BY <1>1 DEF MarkStale
<1>. QED
  BY <1>2, Marking DEF MarkStale

LEMMA ClearStaleStep ==
    ASSUME IInv, NEW k \in Keys, ClearStale(k)
    PROVE  IInv'
<1>1. /\ Free /\ k \in staleKeys /\ staleKeys' = staleKeys \ {k} /\ kept' = kept
      /\ UNCHANGED <<isOpen, compaction, hasReady, ready, files, nextPlace>>
  BY DEF ClearStale
<1>2. staleKeys \subseteq Keys /\ (~LogFailed => kept \cap staleKeys = {})
  BY DEF IInv, TypeOK, MemoryType, SafeOK
<1>3. CASE map[k] # NoEntry
  <2>1. Removes(k)
    BY <1>3 DEF ClearStale
  <2>2. isOpen /\ ~Swapping /\ DropsEntry(k)
    BY <1>1, <1>3, <2>1, RemovesEntry
  <2>3. ~LogFailed => k \notin kept'
    BY <1>1, <1>2
  <2>. QED
    BY <1>1, <1>3, <2>2, <2>3, Removing
<1>4. CASE map[k] = NoEntry
  <2>1. UNCHANGED <<removing, logOpen, binlog, faults, map, op, latest>>
    BY <1>4 DEF ClearStale
  <2>2. staleKeys' \subseteq Keys /\ (~LogFailed => kept' \cap staleKeys' = {})
    BY <1>1, <1>2
  <2>. QED
    BY <1>1, <2>1, <2>2, Marking DEF disk
<1>. QED
  BY <1>3, <1>4

LEMMA WriteBundlesStep ==
    ASSUME IInv, WriteBundles
    PROVE  IInv'
<1>0. /\ Free /\ isOpen /\ ~Swapping /\ op.pc = "idle" /\ RemovalWritten(removing)
      /\ UNCHANGED <<isOpen, map, staleKeys, op, compaction, hasReady, ready,
                     files, nextPlace, history>>
  BY IdleFacts DEF WriteBundles, Free, Swapping
<1>1. removing \in SUBSET Keys /\ map \in [Keys -> Entries \cup {NoEntry}]
  BY DEF IInv, TypeOK, MemoryType
<1>2. Listed(removing)
  BY <1>0, WrittenIsListed
<1>3. Drops(removing)
  BY <1>0, <1>1 DEF Drops, IInv, RemovingOK
<1>4. ~Swapping'
  BY <1>0 DEF Swapping
<1>5. /\ binlog' \in Seq(Records) /\ logOpen' \in BOOLEAN /\ faults' \subseteq FaultKinds
      /\ removing' \subseteq removing /\ Cardinality(removing') < MaxBundled
      /\ LogsOK' /\ CompactorOK' /\ RemovingOK' /\ DiskMatchesMap'
      /\ (logOpen' => logOpen) /\ (LogFailed => LogFailed')
      /\ (logOpen => logOpen' \/ LogFailed')
      /\ \A k \in Keys : \/ Replay(binlog)'[k] = Replay(binlog)[k]
                         \/ k \in removing /\ Replay(binlog)'[k] = NoEntry
  BY <1>0, <1>1, <1>2, <1>3, <1>4, Listing
<1>6. TypeOK'
  <2>1. MemoryType'
    BY <1>0, <1>1, <1>5 DEF IInv, TypeOK, MemoryType
  <2>2. CompactionType' /\ DiskType' /\ HistoryType'
    BY <1>0, <1>5 DEF IInv, TypeOK, CompactionType, DiskType, HistoryType, compaction, history
  <2>. QED
    BY <2>1, <2>2 DEF TypeOK
<1>7. OpOK'
  BY <1>0, <1>5 DEF IInv, OpOK, Swapping
<1>8. FilesOK'
  <2>1. PlacesOK(map)' /\ PlacesOK(Replay(ready))'
    BY <1>0 DEF IInv, FilesOK, PlacesOK
  <2>2. PlacesOK(Replay(binlog))'
    <3>1. PlacesUnder(Replay(binlog'), nextPlace)
      BY <1>5, ReplayTypes, Dropped DEF IInv, FilesOK, PlacesOK
    <3>. QED
      BY <1>0, <3>1 DEF PlacesOK
  <2>. QED
    BY <1>0, <2>1, <2>2 DEF IInv, FilesOK, OpPlaceOK
<1>9. SafeOK'
  <2>. SUFFICES ASSUME ~LogFailed' PROVE SafeOK'
    BY DEF SafeOK
  <2>1. ~LogFailed /\ logOpen /\ logOpen'
    BY <1>0, <1>5 DEF IInv, SafeOK
  <2>2. OnDisk = Replay(binlog) /\ OnDisk' = Replay(binlog)'
    BY <1>0, <2>1, OpenLog DEF OnDisk, DiskLog
  <2>3. \A j \in Keys : ValueOf(OnDisk[j])' \in {latest'[j], NoValue}
    BY <1>0, <1>5, <2>1, <2>2, FileFacts DEF IInv, SafeOK, ValueOf, history
  <2>4. kept \cap removing = {}
    BY <2>1 DEF IInv, SafeOK
  <2>5. \A j \in kept' : latest'[j] # NoValue /\ ValueOf(OnDisk[j])' = latest'[j]
    BY <1>0, <1>5, <2>1, <2>2, <2>4 DEF IInv, SafeOK, TypeOK, HistoryType, ValueOf, history
  <2>6. kept' \cap (staleKeys' \cup removing') = {}
    BY <1>0, <1>5, <2>1 DEF IInv, SafeOK, history
  <2>. QED
    BY <1>0, <2>1, <2>3, <2>5, <2>6 DEF SafeOK
<1>. QED
  BY <1>5, <1>6, <1>7, <1>8, <1>9 DEF IInv

\* The file of an operation's entry is no other key's.
LEMMA OwnFile ==
    ASSUME IInv, logOpen, op.pc \in {"open", "write", "unlink", "move"}
    PROVE  /\ op.key \in Keys /\ op.entry \in Entries
           /\ \A k \in Keys : k # op.key => OnDisk[k].place # op.entry.place
<1>1. op.key \in Keys /\ op.entry \in Entries
  BY DEF IInv, OpOK
<1>2. OnDisk = Replay(binlog)
  BY OpenLog
<1>3. CASE op.pc \in {"unlink", "move"}
  BY <1>1, <1>2, <1>3 DEF IInv, FilesOK, OpPlaceOK
<1>4. CASE op.pc \in {"open", "write"}
  <2>1. map[op.key] = op.entry /\ op.entry # NoEntry
    BY <1>1, <1>4, EntryFacts DEF IInv, OpOK
  <2>2. Replay(binlog)[op.key] = op.entry
    BY <1>1, <2>1, OpenLog
  <2>. QED
    BY <1>1, <1>2, <2>1, <2>2 DEF IInv, FilesOK, PlacesOK, PlacesUnder
<1>. QED
  BY <1>1, <1>3, <1>4

\* What is read of a key whose file is another one, and of the key itself.
LEMMA FileWritten ==
    ASSUME NEW p \in Places, NEW x, files \in [Places -> Values \cup {NoValue, Broken}],
           files' = [files EXCEPT ![p] = x], NEW e \in Entries \cup {NoEntry}
    PROVE  /\ e.place # p => ValueOf(e)' = ValueOf(e)
           /\ e.place = p => ValueOf(e)' = IF x = e.sum THEN x ELSE NoValue
           /\ ValueOf(e)' \in {e.sum, NoValue}
<1>1. CASE e = NoEntry
  BY <1>1, EntryFacts, BoundsAreNats DEF ValueOf, NoEntry, NoPlace, Places
<1>2. CASE e \in Entries
  <2>1. e.place \in Places /\ e # NoEntry
    BY <1>2, EntryFacts
  <2>2. files'[e.place] = IF e.place = p THEN x ELSE files[e.place]
    BY <2>1
  <2>. QED
    BY <2>1, <2>2 DEF ValueOf
<1>. QED
  BY <1>1, <1>2

\* The entry is not in the map any more, only its file changes.
LEMMA UnlinkStep ==
    ASSUME IInv, Unlink
    PROVE  IInv'
<1>. USE DEF compaction, disk
<1>0. /\ op.pc = "unlink" /\ op' = Idle /\ op'.pc = "idle" /\ op'.entry = NoEntry
      /\ op.key \in Keys /\ op.entry \in Entries /\ op.entry.place \in Places
      /\ UNCHANGED <<isOpen, logOpen, map, removing, staleKeys, compaction, disk, nextPlace, kept>>
  BY IdleFacts, EntryFacts DEF Unlink, IInv, OpOK
<1>1. ~Swapping /\ ~Swapping'
  BY <1>0 DEF Swapping
<1>2. TypeOK'
  <2>1. MemoryType'
    BY <1>0, IdleFacts DEF IInv, TypeOK, MemoryType
  <2>2. CompactionType' /\ DiskType' /\ HistoryType'
    BY <1>0 DEF IInv, TypeOK, CompactionType, DiskType, HistoryType, Unlink, Fault
  <2>. QED
    BY <2>1, <2>2 DEF TypeOK
<1>3. LogsOK' /\ RemovingOK' /\ DiskMatchesMap'
  BY <1>0, <1>1 DEF IInv, LogsOK, RemovingOK, DiskMatchesMap, DiskLog, Swapping
<1>4. OpOK'
  BY <1>0, <1>1 DEF IInv, OpOK, Swapping
<1>5. FilesOK'
  BY <1>0 DEF IInv, FilesOK, PlacesOK, OpPlaceOK
<1>6. CompactorOK'
  BY <1>0, NotGrowing
<1>7. SafeOK'
  <2>. SUFFICES ASSUME ~LogFailed' PROVE SafeOK'
    BY DEF SafeOK
  <2>1. ~LogFailed
    BY DEF LogFailed, Unlink, Fault
  <2>2. logOpen \/ ~isOpen
    BY <1>1, <2>1 DEF IInv, SafeOK
  <2>3. logOpen
    BY <1>0, <2>2, IdleFacts DEF IInv, OpOK
  <2>4. OnDisk' = OnDisk /\ OnDisk \in [Keys -> Entries \cup {NoEntry}]
        /\ op.key \notin kept /\ OnDisk[op.key] \in {op.entry, NoEntry}
        /\ (\A k \in Keys : ValueOf(OnDisk[k]) \in {latest[k], NoValue})
        /\ (\A k \in kept : latest[k] # NoValue /\ ValueOf(OnDisk[k]) = latest[k])
        /\ kept \cap (staleKeys \cup removing) = {}
    BY <1>0, <2>1, <2>3, OpenLog, ReplayTypes DEF IInv, SafeOK, OnDisk, DiskLog
  <2>5. CASE UNCHANGED files /\ UNCHANGED latest
    <3>1. \A e : ValueOf(e)' = ValueOf(e)
      BY <2>5 DEF ValueOf
    <3>. QED
      BY <1>0, <1>1, <2>1, <2>3, <2>4, <2>5 DEF SafeOK, ValueOf
  <2>6. CASE /\ files' = [files EXCEPT ![op.entry.place] = NoValue]
             /\ latest' = [latest EXCEPT ![op.key] = NoValue]
    <3>1. files \in [Places -> Values \cup {NoValue, Broken}] /\ latest \in [Keys -> Values \cup {NoValue}]
      BY DEF IInv, TypeOK, DiskType, HistoryType
    <3>2. ASSUME NEW k \in Keys, k # op.key
          PROVE  ValueOf(OnDisk[k])' = ValueOf(OnDisk[k]) /\ latest'[k] = latest[k]
      <4>1. OnDisk[k].place # op.entry.place /\ OnDisk[k] \in Entries \cup {NoEntry}
        BY <1>0, <2>3, <2>4, <3>2, OwnFile
      <4>2. PICK e \in Entries \cup {NoEntry} : e = OnDisk[k] /\ e = OnDisk'[k]
        BY <2>4, <4>1
      <4>3. ValueOf(e)' = ValueOf(e)
        BY <1>0, <2>6, <3>1, <4>1, <4>2, FileWritten
      <4>. QED
        BY <2>6, <3>1, <3>2, <4>2, <4>3 DEF ValueOf
    <3>3. ASSUME NEW k \in Keys, k = op.key
          PROVE  ValueOf(OnDisk[k])' = NoValue /\ latest'[k] = NoValue
      <4>1. PICK e \in {op.entry, NoEntry} : e = OnDisk[k] /\ e = OnDisk'[k]
        BY <2>4, <3>3
      <4>2. e = NoEntry \/ (e \in Entries /\ e.place = op.entry.place /\ e.sum # NoValue)
        BY <1>0, EntryFacts, NotValues
      <4>3. ValueOf(e)' = NoValue
        BY <1>0, <2>6, <3>1, <4>2, FileWritten, EntryFacts DEF ValueOf
      <4>. QED
        BY <1>0, <2>6, <3>1, <3>3, <4>1, <4>3 DEF ValueOf
    <3>4. \A k \in Keys : ValueOf(OnDisk[k])' \in {latest'[k], NoValue}
      BY <2>4, <3>2, <3>3
    <3>5. \A k \in kept' : k \in Keys /\ k # op.key
      BY <1>0, <2>4 DEF IInv, TypeOK, HistoryType
    <3>6. \A k \in kept' : latest'[k] # NoValue /\ ValueOf(OnDisk[k])' = latest'[k]
      BY <1>0, <2>4, <3>2, <3>5
    <3>. QED
      BY <1>0, <1>1, <2>3, <2>4, <3>4, <3>6 DEF SafeOK
  <2>. QED
    BY <2>5, <2>6 DEF Unlink
<1>. QED
  BY <1>2, <1>3, <1>4, <1>5, <1>6, <1>7 DEF IInv

LEMMA PutUnchangedStep ==
    ASSUME IInv, NEW k \in Keys, NEW v \in Values, PutUnchanged(k, v)
    PROVE  IInv'
<1>. USE DEF compaction, disk
<1>0. /\ op.pc = "idle" /\ ~Swapping /\ ~Swapping' /\ isOpen
      /\ UNCHANGED <<isOpen, logOpen, map, op, compaction, disk, files, nextPlace, faults>>
      /\ latest' = [latest EXCEPT ![k] = v] /\ kept' = kept \cup {k}
      /\ staleKeys' = staleKeys \ {k}
      /\ map[k] # NoEntry /\ ValueOf(map[k]) = v
  BY IdleFacts DEF PutUnchanged, Revives, Unchanged, Free, Swapping, ValueOf
<1>1. k \notin removing /\ removing' = removing
  BY <1>0 DEF PutUnchanged, Revives, IInv, RemovingOK
<1>2. TypeOK'
  BY <1>0, <1>1 DEF IInv, TypeOK, MemoryType, CompactionType, DiskType, HistoryType
<1>3. LogsOK' /\ RemovingOK' /\ DiskMatchesMap'
  BY <1>0, <1>1 DEF IInv, LogsOK, RemovingOK, DiskMatchesMap, DiskLog
<1>4. OpOK'
  BY <1>0, <1>1 DEF IInv, OpOK, Swapping
<1>5. FilesOK'
  BY <1>0 DEF IInv, FilesOK, PlacesOK, OpPlaceOK
<1>6. CompactorOK'
  BY <1>0, <1>1, NotGrowing
<1>7. SafeOK'
  <2>. SUFFICES ASSUME ~LogFailed' PROVE SafeOK'
    BY DEF SafeOK
  <2>1. ~LogFailed /\ logOpen
    BY <1>0 DEF LogFailed, IInv, SafeOK
  <2>2. OnDisk' = OnDisk /\ OnDisk[k] = map[k]
    BY <1>0, <1>1, <2>1, OpenLog DEF OnDisk, DiskLog
  <2>3. latest \in [Keys -> Values \cup {NoValue}] /\ kept \subseteq Keys /\ v # NoValue
    BY NotValues DEF IInv, TypeOK, HistoryType
  <2>4. ASSUME NEW j \in Keys PROVE ValueOf(OnDisk[j])' = ValueOf(OnDisk[j])
    BY <1>0, <2>2 DEF ValueOf
  <2>5. \A j \in Keys : latest'[j] = IF j = k THEN v ELSE latest[j]
    BY <1>0, <2>3
  <2>6. \A j \in Keys : ValueOf(OnDisk[j])' \in {latest'[j], NoValue}
    BY <1>0, <2>1, <2>2, <2>4, <2>5 DEF IInv, SafeOK
  <2>7. \A j \in kept' : latest'[j] # NoValue /\ ValueOf(OnDisk[j])' = latest'[j]
    BY <1>0, <2>1, <2>2, <2>3, <2>4, <2>5 DEF IInv, SafeOK
  <2>8. kept' \cap (staleKeys' \cup removing') = {}
    BY <1>0, <1>1, <2>1 DEF IInv, SafeOK
  <2>. QED
    BY <1>0, <2>1, <2>6, <2>7, <2>8 DEF SafeOK
<1>. QED
  BY <1>2, <1>3, <1>4, <1>5, <1>6, <1>7 DEF IInv

\* An entry is added: its place is a new one, or the one its key had.
LEMMA Added ==
    ASSUME NEW f \in [Keys -> Entries \cup {NoEntry}], NEW g, NEW n \in Nat, NEW m \in Nat,
           PlacesUnder(f, n), NEW k \in Keys, NEW e \in Entries, g[k] = e,
           \A j \in Keys : j # k => g[j] = f[j],
           n <= m, e.place < m, \A j \in Keys : j # k => f[j].place # e.place
    PROVE  PlacesUnder(g, m)
<1>1. ASSUME NEW j \in Keys, g[j] # NoEntry PROVE g[j].place < m
  <2>1. CASE j = k
    BY <2>1
  <2>2. CASE j # k
    <3>1. f[j] \in Entries /\ g[j] = f[j]
      BY <1>1, <2>2
    <3>2. f[j].place < n /\ f[j].place \in Nat
      BY <3>1, EntryFacts, BoundsAreNats DEF PlacesUnder, Places
    <3>. QED
      BY <3>1, <3>2
  <2>. QED
    BY <2>1, <2>2
<1>2. ASSUME NEW i \in Keys, NEW j \in Keys, i # j, g[i] # NoEntry
      PROVE  g[i].place # g[j].place
  BY <1>2, EntryFacts DEF PlacesUnder
<1>. QED
  BY <1>1, <1>2 DEF PlacesUnder

LEMMA More ==
    ASSUME NEW f \in [Keys -> Entries \cup {NoEntry}], NEW n \in Nat, NEW m \in Nat,
           PlacesUnder(f, n), n <= m
    PROVE  PlacesUnder(f, m)
<1>1. ASSUME NEW j \in Keys, f[j] # NoEntry PROVE f[j].place < m
  <2>1. f[j] \in Entries /\ f[j].place < n /\ f[j].place \in Nat
    BY <1>1, EntryFacts, BoundsAreNats DEF PlacesUnder, Places
  <2>. QED
    BY <2>1
<1>. QED
  BY <1>1 DEF PlacesUnder

\* The entry in the map and the record in the binlog; the value is written after them.
LEMMA PutRecordStep ==
    ASSUME IInv, NEW k \in Keys, NEW v \in Values, PutRecord(k, v)
    PROVE  IInv'
<1>. USE DEF compaction, disk
<1>. DEFINE p == IF map[k] = NoEntry THEN nextPlace ELSE map[k].place
            n == IF map[k] = NoEntry THEN nextPlace + 1 ELSE nextPlace
<1>0. /\ isOpen /\ ~Swapping
      /\ p \in Places /\ LogWrites(<<StoreRecord(k, Entry(p, v))>>) /\ nextPlace' = n
      /\ map' = [map EXCEPT ![k] = Entry(p, v)]
      /\ op' = [pc |-> "open", key |-> k, entry |-> Entry(p, v), kept |-> FALSE]
      /\ latest' = [latest EXCEPT ![k] = v] /\ kept' = kept \ {k}
      /\ removing' = removing \ {k} /\ staleKeys' = staleKeys \ {k}
      /\ UNCHANGED <<isOpen, compaction, hasReady, ready, files>>
  BY IdleFacts DEF PutRecord, Revives, Free, Swapping
<1>1. /\ map \in [Keys -> Entries \cup {NoEntry}] /\ nextPlace \in 1..(MaxPlaces + 1)
      /\ latest \in [Keys -> Values \cup {NoValue}] /\ kept \subseteq Keys /\ v # NoValue
      /\ removing \subseteq Keys /\ staleKeys \subseteq Keys /\ Nat \subseteq Int /\ MaxPlaces \in Nat
  BY NotValues, BoundsAreNats DEF IInv, TypeOK, MemoryType, DiskType, HistoryType
<1>2. /\ n \in 1..(MaxPlaces + 1) /\ nextPlace \in Nat /\ n \in Nat /\ nextPlace <= n
      /\ \A j \in Keys : j # k => map[j].place # p
      /\ p < n
  <2>1. CASE map[k] = NoEntry
    <3>1. ASSUME NEW j \in Keys PROVE map[j].place # p
      <4>1. CASE map[j] = NoEntry
        BY <1>1, <2>1, <4>1, EntryFacts DEF NoPlace
      <4>2. CASE map[j] \in Entries
        <5>1. map[j] # NoEntry /\ map[j].place \in Nat
          BY <4>2, EntryFacts DEF Places
        <5>2. map[j].place < nextPlace
          BY <5>1 DEF IInv, FilesOK, PlacesOK, PlacesUnder
        <5>. QED
          BY <1>1, <2>1, <5>1, <5>2
      <4>. QED
        BY <1>1, <4>1, <4>2
    <3>. QED
      BY <1>0, <1>1, <2>1, <3>1 DEF Places
  <2>2. CASE map[k] # NoEntry
    BY <1>0, <1>1, <2>2 DEF IInv, FilesOK, PlacesOK, PlacesUnder, Places
  <2>. QED
    BY <2>1, <2>2
<1>3. PICK e \in Entries : e = Entry(p, v) /\ e.place = p /\ e.sum = v /\ e # NoEntry
  BY <1>0, EntryFacts
<1>. HIDE DEF p, n
<1>4. PICK r \in Records : Grows(r) /\ r.keys = {k} /\ r.entry = e
  BY <1>0, <1>3, RecordFacts DEF LogWrites, Grows
<1>5. /\ binlog' \in Seq(Records) /\ LogsOK' /\ CompactorOK'
      /\ \A j \in Keys : Replay(binlog)'[j] = IF j = k THEN e ELSE Replay(binlog)[j]
  BY <1>0, <1>4, Growing
<1>6. /\ logOpen /\ logOpen' = logOpen /\ faults' = faults /\ ~hasReady
      /\ DiskLog' = binlog' /\ OnDisk' = Replay(binlog)' /\ OnDisk = Replay(binlog)
      /\ \A j \in Keys : Replay(binlog)[j] = map[j] \/ (j \in removing /\ map[j] = NoEntry)
  BY <1>0, OpenLog DEF LogWrites, DiskLog, OnDisk
<1>7. \A j \in Keys : map'[j] = IF j = k THEN e ELSE map[j]
  BY <1>0, <1>1, <1>3
<1>8. op' \in Operations /\ op'.pc = "open" /\ op'.key = k /\ op'.entry = e
  BY <1>0, <1>3, Operation
<1>9. TypeOK'
  <2>1. MemoryType'
    <3>1. map' \in [Keys -> Entries \cup {NoEntry}]
      BY <1>0, <1>1, <1>3
    <3>2. removing' \subseteq Keys /\ Cardinality(removing') < MaxBundled
      BY <1>0, <1>1, RemovingFacts DEF IInv
    <3>3. logOpen' \in BOOLEAN /\ isOpen' \in BOOLEAN /\ staleKeys' \subseteq Keys
      BY <1>0, <1>1, <1>6 DEF IInv, TypeOK, MemoryType
    <3>. QED
      BY <1>8, <3>1, <3>2, <3>3 DEF MemoryType
  <2>2. HistoryType'
    BY <1>0, <1>1, <1>6 DEF IInv, TypeOK, HistoryType
  <2>3. CompactionType' /\ DiskType'
    BY <1>0, <1>2, <1>5 DEF IInv, TypeOK, CompactionType, DiskType
  <2>. QED
    BY <2>1, <2>2, <2>3 DEF TypeOK
<1>10. OpOK'
  BY <1>0, <1>3, <1>6, <1>7, <1>8 DEF IInv, OpOK, Swapping
<1>11. RemovingOK'
  BY <1>0, <1>1, <1>7 DEF IInv, RemovingOK
<1>12. DiskMatchesMap'
  <2>1. \A j \in Keys : Replay(binlog)'[j] = map'[j] \/ (j \in removing' /\ map'[j] = NoEntry)
    BY <1>0, <1>5, <1>6, <1>7
  <2>. QED
    BY <1>6, <2>1 DEF DiskMatchesMap
<1>13. FilesOK'
  <2>1. PlacesUnder(map, nextPlace) /\ PlacesUnder(Replay(binlog), nextPlace)
        /\ PlacesUnder(Replay(ready), nextPlace)
    BY DEF IInv, FilesOK, PlacesOK
  <2>2. PlacesUnder(map', n)
    BY <1>1, <1>2, <1>3, <1>7, <2>1, Added
  <2>3. PlacesUnder(Replay(binlog'), n)
    <3>1. \A j \in Keys : j # k => Replay(binlog)[j].place # p
      <4>1. CASE map[k] = NoEntry
        <5>1. ASSUME NEW j \in Keys, j # k, Replay(binlog)[j] # NoEntry
              PROVE  Replay(binlog)[j].place # p
          <6>1. Replay(binlog)[j].place < nextPlace /\ Replay(binlog)[j].place \in Nat
            BY <2>1, <5>1, ReplayTypes, EntryFacts DEF PlacesUnder, Places
          <6>. QED
            BY <1>1, <4>1, <6>1 DEF p
        <5>2. NoEntry.place # p
          BY <1>0, EntryFacts DEF Places, NoPlace
        <5>. QED
          BY <5>1, <5>2
      <4>2. CASE map[k] # NoEntry
        BY <1>6, <2>1, <4>2 DEF PlacesUnder, p
      <4>. QED
        BY <4>1, <4>2
    <3>2. Replay(binlog) \in [Keys -> Entries \cup {NoEntry}]
      BY ReplayTypes
    <3>3. Replay(binlog')[k] = e /\ \A j \in Keys : j # k => Replay(binlog')[j] = Replay(binlog)[j]
      BY <1>5
    <3>4. PICK f, g : f \in [Keys -> Entries \cup {NoEntry}] /\ f = Replay(binlog) /\ g = Replay(binlog')
      BY <3>2
    <3>5. PlacesUnder(g, n)
      BY <1>2, <1>3, <2>1, <3>1, <3>3, <3>4, Added
    <3>. QED
      BY <3>4, <3>5
  <2>4. PlacesUnder(Replay(ready), n)
    BY <1>2, <2>1, ReplayTypes, More
  <2>. QED
    BY <1>0, <1>2, <1>3, <1>8, <2>2, <2>3, <2>4 DEF FilesOK, PlacesOK, OpPlaceOK
<1>14. SafeOK'
  <2>. SUFFICES ASSUME ~LogFailed' PROVE SafeOK'
    BY DEF SafeOK
  <2>1. ~LogFailed
    BY <1>6 DEF LogFailed
  <2>2. latest'[k] = v /\ \A j \in Keys : j # k => latest'[j] = latest[j]
    BY <1>0, <1>1
  <2>3. \A j \in Keys : OnDisk'[j] = IF j = k THEN e ELSE OnDisk[j]
    BY <1>5, <1>6
  <2>4. ASSUME NEW j \in Keys, j # k PROVE ValueOf(OnDisk[j])' = ValueOf(OnDisk[j])
    BY <1>0, <2>3, <2>4 DEF ValueOf
  <2>5. ValueOf(e)' \in {v, NoValue}
    BY <1>3 DEF ValueOf
  <2>6. \A j \in Keys : ValueOf(OnDisk[j])' \in {latest'[j], NoValue}
    <3>1. ASSUME NEW j \in Keys PROVE ValueOf(OnDisk[j])' \in {latest'[j], NoValue}
      <4>1. CASE j = k
        BY <2>2, <2>3, <2>5, <4>1 DEF ValueOf
      <4>2. CASE j # k
        BY <2>1, <2>2, <2>4, <4>2 DEF IInv, SafeOK
      <4>. QED
        BY <4>1, <4>2
    <3>. QED
      BY <3>1
  <2>7. \A j \in kept' : latest'[j] # NoValue /\ ValueOf(OnDisk[j])' = latest'[j]
    BY <1>0, <1>1, <2>1, <2>2, <2>4 DEF IInv, SafeOK
  <2>8. kept' \cap (staleKeys' \cup removing') = {}
    BY <1>0, <2>1 DEF IInv, SafeOK
  <2>9. k \notin kept' /\ k \notin staleKeys'
    BY <1>0
  <2>. QED
    BY <1>3, <1>6, <1>8, <2>2, <2>6, <2>7, <2>8, <2>9 DEF SafeOK
<1>. QED
  BY <1>5, <1>9, <1>10, <1>11, <1>12, <1>13, <1>14 DEF IInv

\* The database goes on without a binlog: nothing is promised any more.
LEMMA PutNotWrittenStep ==
    ASSUME IInv, NEW k \in Keys, NEW v \in Values, PutNotWritten(k, v)
    PROVE  IInv'
<1>. USE DEF compaction, disk
<1>0. /\ isOpen /\ op.pc = "idle" /\ ~Swapping /\ ~Swapping' /\ LogFails
      /\ removing' = removing \ {k} /\ staleKeys' = staleKeys \ {k}
      /\ latest' = [latest EXCEPT ![k] = v] /\ kept' = kept \cup {k}
      /\ UNCHANGED <<isOpen, map, op, compaction, hasReady, ready, files, nextPlace>>
  BY IdleFacts DEF PutNotWritten, Revives, Free, Swapping
<1>1. LogFailed' /\ ~logOpen' /\ logOpen' \in BOOLEAN /\ faults' \subseteq FaultKinds /\ binlog' = binlog
  BY <1>0, LogIsLost DEF LogFails
<1>2. TypeOK'
  <2>1. removing' \subseteq Keys /\ Cardinality(removing') < MaxBundled
    BY <1>0, RemovingFacts DEF IInv, TypeOK, MemoryType
  <2>2. MemoryType'
    BY <1>0, <1>1, <2>1 DEF IInv, TypeOK, MemoryType
  <2>3. CompactionType' /\ DiskType' /\ HistoryType'
    BY <1>0, <1>1 DEF IInv, TypeOK, CompactionType, DiskType, HistoryType
  <2>. QED
    BY <2>2, <2>3 DEF TypeOK
<1>3. LogsOK' /\ RemovingOK' /\ DiskMatchesMap'
  BY <1>0, <1>1 DEF IInv, LogsOK, RemovingOK, DiskMatchesMap, Swapping
<1>4. OpOK'
  BY <1>0, <1>1 DEF IInv, OpOK, Swapping
<1>5. FilesOK'
  BY <1>0, <1>1 DEF IInv, FilesOK, PlacesOK, OpPlaceOK
<1>6. CompactorOK'
  BY <1>0, <1>1, NotGrowing
<1>. QED
  BY <1>1, <1>2, <1>3, <1>4, <1>5, <1>6 DEF IInv, SafeOK

\* What put() does to the file, at the two steps that the map and the binlog do not see.
LEMMA PutFileStep ==
    ASSUME IInv, PutOpen \/ PutWrite
    PROVE  IInv'
<1>. USE DEF compaction, disk
<1>0. /\ op.pc \in {"open", "write"} /\ op.key \in Keys /\ op.entry \in Entries
      /\ op.entry.place \in Places /\ op.entry.sum \in Values /\ op.entry # NoEntry
      /\ logOpen /\ isOpen /\ map[op.key] = op.entry /\ ~Swapping
      /\ UNCHANGED <<isOpen, logOpen, map, removing, staleKeys, compaction, disk, nextPlace, latest,
                     faults>>
  BY EntryFacts, OpenLog DEF PutOpen, PutWrite, IInv, OpOK, Swapping, history
<1>1. PICK k \in Keys, e \in Entries, x \in Values \cup {Broken} :
         /\ k = op.key /\ e = op.entry
         /\ files' = [files EXCEPT ![e.place] = x]
         /\ \/ op' = [op EXCEPT !.pc = "write"] /\ kept' = kept /\ x = Broken
            \/ op' = Idle /\ kept' = kept \cup {k} /\ x = e.sum
  BY <1>0 DEF PutOpen, PutWrite, history
<1>2. /\ op' \in Operations /\ ~Swapping'
      /\ \/ op'.pc = "write" /\ op'.key = k /\ op'.entry = e
         \/ op' = Idle /\ op'.pc = "idle" /\ op'.entry = NoEntry
  BY <1>1, IdleFacts DEF IInv, TypeOK, MemoryType, Operations, Swapping
<1>3. TypeOK'
  <2>1. MemoryType'
    BY <1>0, <1>2 DEF IInv, TypeOK, MemoryType
  <2>2. CompactionType' /\ DiskType' /\ HistoryType'
    BY <1>0, <1>1 DEF IInv, TypeOK, CompactionType, DiskType, HistoryType
  <2>. QED
    BY <2>1, <2>2 DEF TypeOK
<1>4. LogsOK' /\ RemovingOK' /\ DiskMatchesMap'
  BY <1>0 DEF IInv, LogsOK, RemovingOK, DiskMatchesMap, DiskLog
<1>5. OpOK'
  <2>1. map'[k] = e /\ ~hasReady /\ hasReady' = hasReady
    BY <1>0, <1>1, OpenLog
  <2>. QED
    BY <1>0, <1>2, <2>1 DEF OpOK, Swapping
<1>6. FilesOK'
  <2>1. e.place < nextPlace
    BY <1>0, <1>1 DEF IInv, FilesOK
  <2>. QED
    BY <1>0, <1>2, <2>1 DEF IInv, FilesOK, PlacesOK, OpPlaceOK
<1>7. CompactorOK'
  BY <1>0, NotGrowing
<1>8. SafeOK'
  <2>. SUFFICES ASSUME ~LogFailed' PROVE SafeOK'
    BY DEF SafeOK
  <2>1. ~LogFailed
    BY <1>0 DEF LogFailed
  <2>2. /\ OnDisk' = OnDisk /\ OnDisk \in [Keys -> Entries \cup {NoEntry}] /\ OnDisk[k] = e
        /\ \A j \in Keys : j # k => OnDisk[j].place # e.place
    BY <1>0, <1>1, OpenLog, ReplayTypes, OwnFile DEF OnDisk, DiskLog
  <2>3. /\ k \notin kept /\ k \notin staleKeys /\ latest[k] = e.sum
        /\ kept \cap (staleKeys \cup removing) = {} /\ kept \subseteq Keys
        /\ \A j \in Keys : ValueOf(OnDisk[j]) \in {latest[j], NoValue}
        /\ \A j \in kept : latest[j] # NoValue /\ ValueOf(OnDisk[j]) = latest[j]
    BY <1>0, <1>1, <2>1 DEF IInv, SafeOK, TypeOK, HistoryType
  <2>4. k \notin removing
    BY <1>0, <1>1 DEF IInv, RemovingOK
  <2>5. files \in [Places -> Values \cup {NoValue, Broken}] /\ e.place \in Places /\ e.sum # NoValue
        /\ e.sum # Broken
    BY EntryFacts, NotValues DEF IInv, TypeOK, DiskType
  <2>6. ASSUME NEW j \in Keys, j # k PROVE ValueOf(OnDisk[j])' = ValueOf(OnDisk[j])
    <3>1. PICK f \in Entries \cup {NoEntry} : f = OnDisk[j] /\ f = OnDisk'[j] /\ f.place # e.place
      BY <2>2, <2>6
    <3>2. ValueOf(f)' = ValueOf(f)
      BY <1>1, <2>5, <3>1, FileWritten
    <3>. QED
      BY <3>1, <3>2 DEF ValueOf
  <2>7. ValueOf(OnDisk[k])' = IF x = e.sum THEN x ELSE NoValue
    <3>1. ValueOf(e)' = IF x = e.sum THEN x ELSE NoValue
      BY <1>1, <2>5, FileWritten
    <3>. QED
      BY <2>2, <3>1 DEF ValueOf
  <2>8. \A j \in Keys : ValueOf(OnDisk[j])' \in {latest'[j], NoValue}
    BY <1>0, <2>3, <2>6, <2>7
  <2>9. \A j \in kept' : latest'[j] # NoValue /\ ValueOf(OnDisk[j])' = latest'[j]
    <3>1. ASSUME NEW j \in kept' PROVE latest'[j] # NoValue /\ ValueOf(OnDisk[j])' = latest'[j]
      <4>1. CASE j \in kept
        BY <1>0, <2>3, <2>6, <4>1
      <4>2. CASE j \notin kept
        <5>1. j = k /\ x = e.sum
          BY <1>1, <3>1, <4>2
        <5>. QED
          BY <1>0, <2>3, <2>5, <2>7, <5>1
      <4>. QED
        BY <4>1, <4>2
    <3>. QED
      BY <3>1
  <2>10. kept' \cap (staleKeys' \cup removing') = {}
    BY <1>0, <1>1, <2>3, <2>4
  <2>11. op'.pc = "write" => k \notin kept'
    BY <1>1, <1>2, <2>3, IdleFacts
  <2>. QED
    BY <1>0, <1>2, <2>3, <2>8, <2>9, <2>10, <2>11 DEF SafeOK
<1>. QED
  BY <1>3, <1>4, <1>5, <1>6, <1>7, <1>8 DEF IInv

LEMMA PutFailsStep ==
    ASSUME IInv, PutFails
    PROVE  IInv'
<1>0. /\ op.pc \in {"open", "write"} /\ op.key \in Keys /\ op.entry \in Entries
      /\ map[op.key] = op.entry /\ map[op.key] # NoEntry /\ logOpen /\ isOpen /\ ~Swapping
      /\ UNCHANGED <<isOpen, hasReady, ready, compaction, files, nextPlace>>
      /\ staleKeys' = staleKeys /\ kept' = kept /\ latest' = latest
  BY EntryFacts, OpenLog DEF PutFails, IInv, OpOK, Swapping, history
<1>1. PICK k \in Keys : k = op.key
  BY <1>0
<1>. DEFINE listed == removing \cup {k}
<1>2. /\ Cardinality(listed) \in Nat /\ Cardinality(listed) <= MaxBundled /\ MaxBundled \in Nat
      /\ listed \in SUBSET Keys
  BY RemovingFacts, BoundsAreNats DEF IInv, TypeOK, MemoryType
<1>3. /\ IF Cardinality(listed) = MaxBundled
         THEN binlog' = Append(binlog, RemoveRecord(listed)) /\ removing' = {}
         ELSE removing' = listed /\ UNCHANGED binlog
      /\ Fault("data") /\ logOpen' = logOpen
      /\ map' = [map EXCEPT ![k] = NoEntry] /\ op' = [op EXCEPT !.pc = "unlink"]
  BY <1>1 DEF PutFails
<1>4. op' \in Operations /\ op'.pc = "unlink" /\ op'.key = k /\ op'.entry = map[k]
  BY <1>0, <1>1, <1>3 DEF IInv, TypeOK, MemoryType, Operations
<1>. HIDE DEF listed
<1>5. binlog \o <<RemoveRecord(listed)>> = Append(binlog, RemoveRecord(listed))
  <2>1. binlog \in Seq(Records) /\ HasLast(binlog) /\ RemoveRecord(listed) \in Records
    BY <1>2, RecordFacts DEF IInv, TypeOK, DiskType, LogsOK
  <2>. QED
    BY <2>1, Appended
<1>6. Listed(listed)
  BY <1>0, <1>2, <1>3, <1>5 DEF Listed, Grows, LogAsBefore
<1>7. DropsEntry(k)
  BY <1>0, <1>3, <1>4, <1>6 DEF DropsEntry, listed
<1>8. ~LogFailed => k \notin kept'
  BY <1>0, <1>1 DEF IInv, SafeOK
<1>. QED
  BY <1>0, <1>1, <1>7, <1>8, Removing

\* The entry of `from' is in neither the map nor the binlog until it is given to `to'.
LEMMA MoveBeginStep ==
    ASSUME IInv, NEW from \in Keys, NEW to \in Keys, MoveBegin(from, to)
    PROVE  IInv'
<1>. USE DEF compaction
<1>. DEFINE listed == removing \cup {from}
            Written == LogWrites(<<RemoveRecord(listed)>>)
<1>0. /\ isOpen /\ op = Idle /\ op.pc = "idle" /\ op.entry = NoEntry /\ ~Swapping /\ ~hasReady
      /\ map[to] = NoEntry /\ map[from] # NoEntry /\ from # to
      /\ removing' = {} /\ map' = [map EXCEPT ![from] = NoEntry] /\ kept' = kept \ {from, to}
      /\ UNCHANGED <<isOpen, staleKeys, compaction, hasReady, ready, files, nextPlace>>
  BY IdleFacts DEF MoveBegin, Free, Swapping, IInv, OpOK
<1>1. /\ map \in [Keys -> Entries \cup {NoEntry}] /\ removing \subseteq Keys /\ kept \subseteq Keys
      /\ latest \in [Keys -> Values \cup {NoValue}]
  BY DEF IInv, TypeOK, MemoryType, HistoryType
<1>2. PICK e \in Entries : e = map[from] /\ e # NoEntry
  BY <1>0, <1>1
<1>3. /\ map' \in [Keys -> Entries \cup {NoEntry}]
      /\ \A j \in Keys : map'[j] = IF j = from THEN NoEntry ELSE map[j]
  BY <1>0, <1>1
<1>4. /\ op' \in Operations /\ ~Swapping'
      /\ \/ /\ Written /\ op'.pc = "move" /\ op'.key = to /\ op'.entry = e
            /\ op'.kept = (from \in kept)
            /\ latest' = [latest EXCEPT ![to] = latest[from], ![from] = NoValue]
         \/ LogFails /\ op' = op /\ latest' = latest
  <2>1. CASE LogFails /\ UNCHANGED <<op, latest>>
    BY <1>0, <2>1, IdleFacts DEF Swapping
  <2>2. CASE /\ Written
             /\ op' = [pc |-> "move", key |-> to, entry |-> map[from], kept |-> from \in kept]
             /\ latest' = [latest EXCEPT ![to] = latest[from], ![from] = NoValue]
    <3>1. /\ op' \in Operations /\ op'.pc = "move" /\ op'.key = to /\ op'.entry = e
          /\ op'.kept = (from \in kept)
      <4>1. (from \in kept) \in BOOLEAN
        OBVIOUS
      <4>. QED
        BY <1>2, <2>2, <4>1, Operation
    <3>. QED
      BY <2>2, <3>1 DEF Swapping
  <2>. QED
    BY <2>1, <2>2 DEF MoveBegin
<1>5. listed \in SUBSET Keys /\ removing \subseteq listed /\ RemovalWritten(listed) /\ Drops(listed)
  <2>1. Drops(listed)
    BY <1>0, <1>3 DEF Drops, IInv, RemovingOK, TypeOK, MemoryType
  <2>. QED
    BY <1>0, <1>1, <1>4, <2>1 DEF RemovalWritten
<1>. HIDE DEF listed, Written
<1>6. Listed(listed)
  BY <1>0, <1>5, WrittenIsListed
<1>7. /\ binlog' \in Seq(Records) /\ logOpen' \in BOOLEAN /\ faults' \subseteq FaultKinds
      /\ Cardinality(removing') < MaxBundled
      /\ LogsOK' /\ CompactorOK' /\ RemovingOK' /\ DiskMatchesMap'
      /\ (logOpen' => logOpen) /\ (LogFailed => LogFailed')
      /\ (logOpen => logOpen' \/ LogFailed')
      /\ \A j \in Keys : Replay(binlog)'[j] \in {Replay(binlog)[j], NoEntry}
  BY <1>0, <1>4, <1>5, <1>6, Listing
<1>8. logOpen' => /\ DiskLog' = binlog' /\ OnDisk' = Replay(binlog)'
                  /\ \A j \in Keys : Replay(binlog)'[j] = map'[j]
  BY <1>0, <1>7 DEF DiskMatchesMap, DiskLog, OnDisk
<1>9. TypeOK'
  <2>1. MemoryType'
    BY <1>0, <1>3, <1>4, <1>7 DEF IInv, TypeOK, MemoryType
  <2>2. latest' \in [Keys -> Values \cup {NoValue}]
    BY <1>1, <1>4
  <2>3. CompactionType' /\ DiskType' /\ HistoryType'
    BY <1>0, <1>7, <2>2 DEF IInv, TypeOK, CompactionType, DiskType, HistoryType
  <2>. QED
    BY <2>1, <2>3 DEF TypeOK
<1>10. OpOK'
  BY <1>0, <1>2, <1>3, <1>4 DEF OpOK, Swapping
<1>11. FilesOK'
  <2>1. PlacesUnder(map', nextPlace) /\ PlacesOK(Replay(ready))'
    BY <1>0, <1>1, <1>3, Dropped DEF IInv, FilesOK, PlacesOK
  <2>2. PlacesUnder(Replay(binlog'), nextPlace)
    BY <1>7, ReplayTypes, Dropped DEF IInv, FilesOK, PlacesOK
  <2>3. e.place < nextPlace /\ \A j \in Keys : map'[j].place # e.place
    BY <1>2, <1>3, EntryFacts DEF IInv, FilesOK, PlacesOK, PlacesUnder
  <2>. QED
    BY <1>0, <1>4, <1>8, <2>1, <2>2, <2>3 DEF FilesOK, PlacesOK, OpPlaceOK
<1>12. SafeOK'
  <2>. SUFFICES ASSUME ~LogFailed' PROVE SafeOK'
    BY DEF SafeOK
  <2>1. ~LogFailed /\ logOpen /\ logOpen' /\ Written
    <3>1. ~LogFailed /\ logOpen /\ logOpen'
      BY <1>0, <1>7 DEF IInv, SafeOK
    <3>. QED
      BY <1>0, <1>4, <3>1, LogIsLost
  <2>2. /\ \A j \in Keys : OnDisk'[j] = map'[j]
        /\ \A j \in Keys : OnDisk'[j] \in {OnDisk[j], NoEntry}
        /\ OnDisk[from] = e
    BY <1>0, <1>2, <1>7, <1>8, <2>1, OpenLog
  <2>3. /\ op'.pc = "move" /\ op'.key = to /\ op'.entry = e /\ op'.kept = (from \in kept)
        /\ latest'[to] = latest[from] /\ \A j \in Keys \ {from, to} : latest'[j] = latest[j]
    <3>1. LogFails => FALSE
      BY <1>0, <2>1, LogIsLost
    <3>. QED
      BY <1>0, <1>1, <1>4, <3>1
  <2>4. \A f : ValueOf(f)' = IF f # NoEntry /\ files[f.place] = f.sum THEN f.sum ELSE NoValue
    BY <1>0 DEF ValueOf
  <2>5. /\ \A j \in Keys : ValueOf(OnDisk[j]) \in {latest[j], NoValue}
        /\ \A j \in kept : latest[j] # NoValue /\ ValueOf(OnDisk[j]) = latest[j]
        /\ kept \cap (staleKeys \cup removing) = {}
    BY <2>1 DEF IInv, SafeOK
  <2>6. ASSUME NEW j \in Keys, OnDisk'[j] = NoEntry PROVE ValueOf(OnDisk[j])' = NoValue
    BY <2>6 DEF ValueOf
  <2>7. ASSUME NEW j \in Keys, OnDisk'[j] = OnDisk[j]
        PROVE  ValueOf(OnDisk[j])' = ValueOf(OnDisk[j])
    BY <1>0, <2>7 DEF ValueOf
  <2>8. \A j \in Keys : ValueOf(OnDisk[j])' \in {latest'[j], NoValue}
    <3>1. ASSUME NEW j \in Keys PROVE ValueOf(OnDisk[j])' \in {latest'[j], NoValue}
      <4>1. CASE j \in {from, to}
        BY <1>0, <1>3, <2>2, <2>6, <4>1
      <4>2. CASE j \notin {from, to}
        BY <2>2, <2>3, <2>5, <2>6, <2>7, <4>2
      <4>. QED
        BY <4>1, <4>2
    <3>. QED
      BY <3>1
  <2>9. \A j \in kept' : latest'[j] # NoValue /\ ValueOf(OnDisk[j])' = latest'[j]
    <3>1. ASSUME NEW j \in kept' PROVE latest'[j] # NoValue /\ ValueOf(OnDisk[j])' = latest'[j]
      <4>1. j \in kept /\ j \in Keys \ {from, to} /\ j \notin removing
        BY <1>0, <1>1, <2>5
      <4>2. OnDisk'[j] = OnDisk[j]
        BY <1>0, <1>3, <2>1, <2>2, <4>1, OpenLog
      <4>. QED
        BY <2>3, <2>5, <2>7, <4>1, <4>2
    <3>. QED
      BY <3>1
  <2>10. kept' \cap (staleKeys' \cup removing') = {} /\ to \notin kept'
    BY <1>0, <2>5
  <2>11. /\ ValueOf(e)' \in {latest'[to], NoValue}
         /\ from \in kept => ValueOf(e)' = latest'[to] /\ latest'[to] # NoValue
    <3>1. ValueOf(e)' = ValueOf(e) /\ ValueOf(e) = ValueOf(OnDisk[from])
      BY <1>0, <2>2 DEF ValueOf
    <3>. QED
      BY <2>3, <2>5, <3>1
  <2>12. /\ ValueOf(op.entry)' \in {latest'[op'.key], NoValue}
         /\ op'.kept => ValueOf(op.entry)' = latest'[op'.key] /\ latest'[op'.key] # NoValue
    <3>1. ValueOf(op.entry)' = ValueOf(e)'
      BY <2>3 DEF ValueOf
    <3>. QED
      BY <2>3, <2>11, <3>1
  <2>. QED
    BY <2>1, <2>3, <2>8, <2>9, <2>10, <2>12 DEF SafeOK
<1>. QED
  BY <1>7, <1>9, <1>10, <1>11, <1>12 DEF IInv

LEMMA MoveEndStep ==
    ASSUME IInv, MoveEnd
    PROVE  IInv'
<1>. USE DEF compaction
<1>0. PICK k \in Keys, e \in Entries :
         /\ k = op.key /\ e = op.entry /\ op.pc = "move" /\ map[k] = NoEntry
         /\ \/ /\ LogWrites(<<StoreRecord(k, e)>>)
               /\ map' = [map EXCEPT ![k] = e]
               /\ kept' = IF op.kept THEN kept \cup {k} ELSE kept
            \/ LogFails /\ UNCHANGED <<map, kept>>
         /\ removing' = removing \ {k} /\ staleKeys' = staleKeys \ {k} /\ op' = Idle
         /\ UNCHANGED <<isOpen, compaction, hasReady, ready, files, nextPlace, latest>>
  <2>1. op.pc = "move" /\ op.key \in Keys /\ op.entry \in Entries /\ map[op.key] = NoEntry
    BY DEF MoveEnd, IInv, OpOK
  <2>. QED
    BY <2>1 DEF MoveEnd
<1>1. /\ isOpen /\ ~Swapping /\ ~hasReady /\ op'.pc = "idle" /\ op'.entry = NoEntry /\ ~Swapping'
      /\ op' \in Operations
  BY <1>0, IdleFacts DEF IInv, OpOK, Swapping
<1>2. /\ map \in [Keys -> Entries \cup {NoEntry}] /\ removing \subseteq Keys /\ staleKeys \subseteq Keys
      /\ kept \subseteq Keys /\ latest \in [Keys -> Values \cup {NoValue}]
      /\ removing' \subseteq Keys /\ Cardinality(removing') < MaxBundled
  BY <1>0, RemovingFacts DEF IInv, TypeOK, MemoryType, HistoryType
<1>3. CASE LogFails /\ UNCHANGED <<map, kept>>
  <2>1. LogFailed' /\ ~logOpen' /\ logOpen' \in BOOLEAN /\ faults' \subseteq FaultKinds /\ binlog' = binlog
    BY <1>1, <1>3, LogIsLost DEF LogFails
  <2>2. TypeOK'
    <3>1. MemoryType'
      BY <1>0, <1>1, <1>2, <1>3, <2>1 DEF IInv, TypeOK, MemoryType
    <3>2. CompactionType' /\ DiskType' /\ HistoryType'
      BY <1>0, <1>3, <2>1 DEF IInv, TypeOK, CompactionType, DiskType, HistoryType
    <3>. QED
      BY <3>1, <3>2 DEF TypeOK
  <2>3. LogsOK' /\ RemovingOK' /\ DiskMatchesMap'
    BY <1>0, <1>1, <1>3, <2>1 DEF IInv, LogsOK, RemovingOK, DiskMatchesMap, Swapping
  <2>4. OpOK'
    BY <1>0, <1>1, <2>1 DEF OpOK, Swapping
  <2>5. FilesOK'
    BY <1>0, <1>1, <1>3, <2>1 DEF IInv, FilesOK, PlacesOK, OpPlaceOK
  <2>6. CompactorOK'
    BY <1>0, <2>1, NotGrowing
  <2>. QED
    BY <2>1, <2>2, <2>3, <2>4, <2>5, <2>6 DEF IInv, SafeOK
<1>4. CASE /\ LogWrites(<<StoreRecord(k, e)>>)
           /\ map' = [map EXCEPT ![k] = e]
           /\ kept' = IF op.kept THEN kept \cup {k} ELSE kept
  <2>1. PICK r \in Records : Grows(r) /\ r.keys = {k} /\ r.entry = e
    <3>1. Grows(StoreRecord(k, e))
      BY <1>0, <1>4 DEF LogWrites, Grows
    <3>. QED
      BY <3>1, RecordFacts
  <2>2. /\ binlog' \in Seq(Records) /\ LogsOK' /\ CompactorOK'
        /\ \A j \in Keys : Replay(binlog)'[j] = IF j = k THEN e ELSE Replay(binlog)[j]
    BY <1>0, <2>1, Growing
  <2>3. /\ logOpen /\ logOpen' = logOpen /\ faults' = faults /\ e # NoEntry
        /\ DiskLog' = binlog' /\ OnDisk' = Replay(binlog)' /\ OnDisk = Replay(binlog)
        /\ \A j \in Keys : Replay(binlog)[j] = map[j] \/ (j \in removing /\ map[j] = NoEntry)
    BY <1>0, <1>1, <1>4, OpenLog, EntryFacts DEF LogWrites, DiskLog, OnDisk
  <2>4. /\ map' \in [Keys -> Entries \cup {NoEntry}]
        /\ \A j \in Keys : map'[j] = IF j = k THEN e ELSE map[j]
    BY <1>2, <1>4
  <2>5. TypeOK'
    <3>1. MemoryType'
      BY <1>0, <1>1, <1>2, <2>3, <2>4 DEF IInv, TypeOK, MemoryType
    <3>2. CompactionType' /\ DiskType' /\ HistoryType'
      BY <1>0, <1>2, <1>4, <2>2, <2>3 DEF IInv, TypeOK, CompactionType, DiskType, HistoryType
    <3>. QED
      BY <3>1, <3>2 DEF TypeOK
  <2>6. OpOK'
    BY <1>0, <1>1 DEF OpOK, Swapping
  <2>7. RemovingOK'
    BY <1>0, <1>2, <2>4 DEF IInv, RemovingOK
  <2>8. DiskMatchesMap'
    <3>1. \A j \in Keys : Replay(binlog)'[j] = map'[j] \/ (j \in removing' /\ map'[j] = NoEntry)
      BY <1>0, <2>2, <2>3, <2>4
    <3>. QED
      BY <2>3, <3>1 DEF DiskMatchesMap
  <2>9. FilesOK'
    <3>1. /\ PlacesUnder(map, nextPlace) /\ PlacesUnder(Replay(binlog), nextPlace)
          /\ PlacesOK(Replay(ready))' /\ nextPlace \in Nat /\ e.place < nextPlace
          /\ \A j \in Keys : j # k => map[j].place # e.place
          /\ \A j \in Keys : j # k => Replay(binlog)[j].place # e.place
      BY <1>0, <2>3, OwnFile DEF IInv, FilesOK, PlacesOK, OpPlaceOK, TypeOK, DiskType
    <3>2. PICK f, g : f \in [Keys -> Entries \cup {NoEntry}] /\ f = Replay(binlog) /\ g = Replay(binlog')
      BY ReplayTypes
    <3>3. PlacesUnder(g, nextPlace)
      BY <2>2, <3>1, <3>2, Added
    <3>4. PlacesUnder(map', nextPlace)
      BY <1>2, <2>4, <3>1, Added
    <3>. QED
      BY <1>0, <1>1, <3>1, <3>2, <3>3, <3>4 DEF FilesOK, PlacesOK, OpPlaceOK
  <2>10. SafeOK'
    <3>. SUFFICES ASSUME ~LogFailed' PROVE SafeOK'
      BY DEF SafeOK
    <3>1. /\ ~LogFailed /\ k \notin kept
          /\ ValueOf(e) \in {latest[k], NoValue}
          /\ op.kept => ValueOf(e) = latest[k] /\ latest[k] # NoValue
          /\ \A j \in Keys : ValueOf(OnDisk[j]) \in {latest[j], NoValue}
          /\ \A j \in kept : latest[j] # NoValue /\ ValueOf(OnDisk[j]) = latest[j]
          /\ kept \cap (staleKeys \cup removing) = {}
      BY <1>0, <2>3 DEF LogFailed, IInv, SafeOK
    <3>2. \A j \in Keys : OnDisk'[j] = IF j = k THEN e ELSE OnDisk[j]
      BY <2>2, <2>3
    <3>3. \A j \in Keys : ValueOf(OnDisk[j])' = IF j = k THEN ValueOf(e) ELSE ValueOf(OnDisk[j])
      BY <1>0, <3>2 DEF ValueOf
    <3>4. \A j \in Keys : ValueOf(OnDisk[j])' \in {latest'[j], NoValue}
      BY <1>0, <3>1, <3>3
    <3>5. \A j \in kept' : latest'[j] # NoValue /\ ValueOf(OnDisk[j])' = latest'[j]
      BY <1>0, <1>2, <1>4, <3>1, <3>3
    <3>6. kept' \cap (staleKeys' \cup removing') = {}
      BY <1>0, <1>4, <3>1
    <3>. QED
      BY <1>1, <2>3, <3>4, <3>5, <3>6 DEF SafeOK
  <2>. QED
    BY <2>2, <2>5, <2>6, <2>7, <2>8, <2>9, <2>10 DEF IInv
<1>. QED
  BY <1>0, <1>3, <1>4

-----------------------------------------------------------------------------
(***************************************************************************)
(* open(), close() and the end of the process.                             *)
(***************************************************************************)
LEMMA Empty ==
    /\ <<>> \in Seq(Records) /\ Len(<<>>) = 0 /\ HasLast(<<>>)
    /\ \A k \in Keys : Replay(<<>>)[k] = NoEntry
    /\ \A n : PlacesUnder(Replay(<<>>), n)
<1>1. <<>> \in Seq(Records) /\ Len(<<>>) = 0
  OBVIOUS
<1>2. \A k \in Keys : Mentions(<<>>, k) = {}
  BY <1>1 DEF Mentions
<1>3. HasLast(<<>>) /\ \A k \in Keys : Replay(<<>>)[k] = NoEntry
  BY <1>2 DEF HasLast, Replay
<1>. QED
  BY <1>1, <1>3 DEF PlacesUnder

LEMMA OpenStep ==
    ASSUME IInv, Open
    PROVE  IInv'
<1>. USE DEF compaction, history
<1>0. /\ ~isOpen /\ isOpen' /\ logOpen' /\ op = Idle /\ op' = Idle /\ op'.pc = "idle"
      /\ op'.entry = NoEntry /\ ~Swapping' /\ removing = {} /\ compactor = "none"
      /\ binlog' = DiskLog /\ ~hasReady' /\ ready' = <<>> /\ map' = Replay(DiskLog)
      /\ isOpen' = TRUE /\ logOpen' = TRUE /\ hasReady' = FALSE
      /\ UNCHANGED <<removing, staleKeys, op, compaction, files, nextPlace, history, faults>>
  BY IdleFacts DEF Open, IInv, OpOK, Swapping
<1>1. /\ DiskLog \in Seq(Records) /\ HasLast(DiskLog)
      /\ Replay(DiskLog) \in [Keys -> Entries \cup {NoEntry}]
      /\ PlacesUnder(Replay(DiskLog), nextPlace)
  BY ReplayTypes DEF DiskLog, IInv, TypeOK, DiskType, LogsOK, FilesOK, PlacesOK
<1>2. DiskLog' = DiskLog
  BY <1>0 DEF DiskLog
<1>3. TypeOK'
  <2>1. MemoryType'
    BY <1>0, <1>1 DEF IInv, TypeOK, MemoryType
  <2>2. CompactionType' /\ DiskType' /\ HistoryType'
    BY <1>0, <1>1, Empty DEF IInv, TypeOK, CompactionType, DiskType, HistoryType
  <2>. QED
    BY <2>1, <2>2 DEF TypeOK
<1>4. LogsOK' /\ RemovingOK' /\ DiskMatchesMap' /\ CompactorOK'
  BY <1>0, <1>1, <1>2, Empty DEF IInv, LogsOK, RemovingOK, DiskMatchesMap, CompactorOK
<1>5. OpOK'
  BY <1>0 DEF OpOK, Swapping
<1>6. FilesOK'
  BY <1>0, <1>1, Empty DEF FilesOK, PlacesOK, OpPlaceOK
<1>7. SafeOK'
  <2>1. OnDisk' = OnDisk /\ (LogFailed' <=> LogFailed) /\ op'.pc = "idle"
    BY <1>0, <1>2 DEF OnDisk, LogFailed
  <2>2. \A k \in Keys : ValueOf(OnDisk[k])' = ValueOf(OnDisk[k])
    BY <1>0, <2>1 DEF ValueOf
  <2>3. kept \subseteq Keys
    BY DEF IInv, TypeOK, HistoryType
  <2>. QED
    BY <1>0, <2>1, <2>2, <2>3 DEF IInv, SafeOK
<1>. QED
  BY <1>3, <1>4, <1>5, <1>6, <1>7 DEF IInv

\* The binlog the next open() finds: with what was to be removed, or as it was.
LEMMA Ending ==
    ASSUME IInv, isOpen, Closed, faults' = faults,
           binlog' = binlog \/ (logOpen /\ binlog' = Append(binlog, RemoveRecord(removing)))
    PROVE  IInv'
<1>. USE DEF compaction, history
<1>0. /\ ~isOpen' /\ ~logOpen' /\ isOpen' = FALSE /\ logOpen' = FALSE
      /\ map' = [k \in Keys |-> NoEntry] /\ removing' = {} /\ staleKeys' = {}
      /\ op' = Idle /\ op' \in Operations /\ op'.pc = "idle" /\ op'.entry = NoEntry /\ ~Swapping'
      /\ compactor' = "none" /\ till' = 0 /\ readAt' = 0 /\ written' = {}
      /\ caughtUp' = 0 /\ lastCatchUp' = 0 /\ temp' = <<>>
      /\ UNCHANGED <<hasReady, ready, files, nextPlace, history, faults>>
  BY IdleFacts DEF Closed, NoCompactor, Swapping
<1>1. /\ binlog \in Seq(Records) /\ HasLast(binlog) /\ removing \subseteq Keys
      /\ Replay(binlog) \in [Keys -> Entries \cup {NoEntry}] /\ MaxBundled > 0
  BY ReplayTypes, BoundsAreNats DEF IInv, TypeOK, DiskType, MemoryType, LogsOK
<1>2. /\ binlog' \in Seq(Records) /\ HasLast(binlog')
      /\ \A k \in Keys : \/ Replay(binlog')[k] = Replay(binlog)[k]
                         \/ logOpen /\ k \in removing /\ Replay(binlog')[k] = NoEntry
  <2>1. CASE binlog' = binlog
    BY <1>1, <2>1
  <2>2. CASE logOpen /\ binlog' = Append(binlog, RemoveRecord(removing))
    <3>1. PICK r \in Records : r = RemoveRecord(removing) /\ r.keys = removing /\ r.entry = NoEntry
      BY <1>1, RecordFacts
    <3>2. LET c == binlog \o <<r>>
          IN /\ c \in Seq(Records) /\ HasLast(c) /\ c = Append(binlog, r)
             /\ \A k \in Keys : Replay(c)[k] = IF k \in r.keys THEN r.entry ELSE Replay(binlog)[k]
      BY <1>1, Appended
    <3>. QED
      BY <2>2, <3>1, <3>2
  <2>. QED
    BY <2>1, <2>2
<1>3. TypeOK'
  <2>1. MemoryType'
    BY <1>0, <1>1, FS_EmptySet DEF MemoryType
  <2>2. CompactionType' /\ DiskType' /\ HistoryType'
    BY <1>0, <1>2, Empty DEF IInv, TypeOK, CompactionType, DiskType, HistoryType
  <2>. QED
    BY <2>1, <2>2 DEF TypeOK
<1>4. LogsOK' /\ RemovingOK' /\ DiskMatchesMap' /\ CompactorOK'
  BY <1>0, <1>2, Empty DEF IInv, LogsOK, RemovingOK, DiskMatchesMap, CompactorOK
<1>5. OpOK'
  BY <1>0 DEF OpOK, Swapping
<1>6. FilesOK'
  <2>1. PlacesUnder(Replay(binlog'), nextPlace)
    BY <1>1, <1>2, Dropped DEF IInv, FilesOK, PlacesOK
  <2>2. PlacesUnder(map', nextPlace)
    BY <1>0 DEF PlacesUnder
  <2>. QED
    BY <1>0, <2>1, <2>2 DEF IInv, FilesOK, PlacesOK, OpPlaceOK
<1>7. SafeOK'
  <2>. SUFFICES ASSUME ~LogFailed' PROVE SafeOK'
    BY DEF SafeOK
  <2>1. /\ ~LogFailed /\ kept \subseteq Keys
        /\ \A k \in Keys : ValueOf(OnDisk[k]) \in {latest[k], NoValue}
        /\ \A k \in kept : latest[k] # NoValue /\ ValueOf(OnDisk[k]) = latest[k]
        /\ kept \cap (staleKeys \cup removing) = {}
    BY <1>0 DEF LogFailed, IInv, SafeOK, TypeOK, HistoryType
  <2>2. \A k \in Keys : OnDisk'[k] = OnDisk[k] \/ (k \in removing /\ OnDisk'[k] = NoEntry)
    <3>1. CASE logOpen
      BY <1>0, <1>2, <3>1, OpenLog DEF OnDisk, DiskLog
    <3>2. CASE ~logOpen
      BY <1>0, <3>2 DEF OnDisk, DiskLog
    <3>. QED
      BY <3>1, <3>2
  <2>3. \A k \in Keys : \/ ValueOf(OnDisk[k])' = ValueOf(OnDisk[k])
                        \/ k \in removing /\ ValueOf(OnDisk[k])' = NoValue
    BY <1>0, <2>2 DEF ValueOf
  <2>. QED
    BY <1>0, <2>1, <2>3 DEF SafeOK
<1>. QED
  BY <1>2, <1>3, <1>4, <1>5, <1>6, <1>7 DEF IInv

LEMMA CloseStep ==
    ASSUME IInv, Close
    PROVE  IInv'
<1>1. isOpen /\ Closed /\ faults' = faults
  BY DEF Close, Free
<1>2. binlog' = binlog \/ (logOpen /\ binlog' = Append(binlog, RemoveRecord(removing)))
  BY DEF Close
<1>. QED
  BY <1>1, <1>2, Ending

LEMMA CrashStep ==
    ASSUME IInv, Crash
    PROVE  IInv'
BY Ending DEF Crash

-----------------------------------------------------------------------------
(***************************************************************************)
(* The compactor.                                                          *)
(***************************************************************************)

\* What the compactor does on its own changes nothing of the database, nor of its binlog.
LEMMA Compacting ==
    ASSUME IInv, compactor # "none", compactor' # "none",
           UNCHANGED <<isOpen, logOpen, map, removing, staleKeys, op, disk, files, nextPlace,
                       history, faults>>,
           Swapping => compactor' = "done", CompactionType', HasLast(temp'), CompactorOK'
    PROVE  IInv'
<1>. USE DEF disk, history
<1>1. TypeOK'
  BY DEF IInv, TypeOK, MemoryType, DiskType, HistoryType
<1>2. LogsOK' /\ RemovingOK' /\ DiskMatchesMap'
  BY DEF IInv, LogsOK, RemovingOK, DiskMatchesMap, DiskLog
<1>3. OpOK'
  <2>1. isOpen
    BY DEF IInv, OpOK
  <2>. QED
    BY <2>1 DEF IInv, OpOK, Swapping
<1>4. FilesOK'
  BY DEF IInv, FilesOK, PlacesOK, OpPlaceOK
<1>5. SafeOK'
  <2>1. OnDisk' = OnDisk /\ (LogFailed' <=> LogFailed) /\ (Swapping' <=> Swapping)
    BY DEF OnDisk, DiskLog, LogFailed, Swapping
  <2>2. \A e : ValueOf(e)' = IF e # NoEntry /\ files[e.place] = e.sum THEN e.sum ELSE NoValue
    BY DEF ValueOf
  <2>3. \A k \in Keys : ValueOf(OnDisk[k])' = ValueOf(OnDisk[k])
    BY <2>1 DEF ValueOf
  <2>4. ValueOf(op.entry)' = ValueOf(op.entry) /\ kept \subseteq Keys
    BY DEF ValueOf, IInv, TypeOK, HistoryType
  <2>. QED
    BY <2>1, <2>3, <2>4 DEF IInv, SafeOK
<1>. QED
  BY <1>1, <1>2, <1>3, <1>4, <1>5 DEF IInv

LEMMA CompactorStartStep ==
    ASSUME IInv, CompactorStart
    PROVE  IInv'
<1>0. /\ compactor = "none" /\ compactor' = "read" /\ till' = Len(binlog) /\ caughtUp' = Len(binlog)
      /\ readAt' = 0 /\ written' = {} /\ lastCatchUp' = 0 /\ temp' = <<>> /\ op = Idle
      /\ op.pc = "idle" /\ ~Swapping /\ ~Swapping'
      /\ UNCHANGED <<isOpen, logOpen, map, removing, staleKeys, op, disk, files, nextPlace,
                     history, faults>>
  BY IdleFacts DEF CompactorStart, Free, Swapping
<1>1. binlog \in Seq(Records) /\ HasLast(binlog) /\ Len(binlog) \in Nat /\ isOpen
  BY LenProperties DEF IInv, TypeOK, DiskType, LogsOK, CompactorStart, Free
<1>2. CompactionType'
  BY <1>0, <1>1, Empty DEF CompactionType
<1>3. CompactorOK'
  <2>1. \A k \in Keys : \/ Replay(temp')[k] = Replay(binlog')[k]
                        \/ Replay(temp')[k] = NoEntry /\ Unread(k)'
    <3>1. ASSUME NEW k \in Keys, Replay(binlog)[k] # NoEntry PROVE Unread(k)'
      BY <1>0, <1>1, <3>1, ReplayType DEF Unread, disk
    <3>. QED
      BY <1>0, <3>1, Empty DEF disk
  <2>2. binlog' = binlog
    BY <1>0 DEF disk
  <2>. QED
    BY <1>0, <1>1, <2>1, <2>2 DEF CompactorOK
<1>. USE DEF disk, history
<1>4. TypeOK'
  BY <1>0, <1>2 DEF IInv, TypeOK, MemoryType, DiskType, HistoryType
<1>5. LogsOK' /\ RemovingOK' /\ DiskMatchesMap'
  BY <1>0, Empty DEF IInv, LogsOK, RemovingOK, DiskMatchesMap, DiskLog
<1>6. OpOK'
  BY <1>0, <1>1 DEF IInv, OpOK, Swapping
<1>7. FilesOK'
  BY <1>0 DEF IInv, FilesOK, PlacesOK, OpPlaceOK
<1>8. SafeOK'
  <2>1. OnDisk' = OnDisk /\ (LogFailed' <=> LogFailed)
    BY <1>0 DEF OnDisk, DiskLog, LogFailed
  <2>2. \A k \in Keys : ValueOf(OnDisk[k])' = ValueOf(OnDisk[k])
    BY <1>0, <2>1 DEF ValueOf
  <2>3. kept \subseteq Keys
    BY DEF IInv, TypeOK, HistoryType
  <2>. QED
    BY <1>0, <2>1, <2>2, <2>3 DEF IInv, SafeOK
<1>. QED
  BY <1>3, <1>4, <1>5, <1>6, <1>7, <1>8 DEF IInv

\* A key whose record was read is in the compacted binlog as the map has it now.
LEMMA CompactorReadStep ==
    ASSUME IInv, CompactorRead
    PROVE  IInv'
<1>. DEFINE rec == binlog[readAt + 1]
            ks == IF rec.type = "store" THEN (rec.keys \cap Live) \ written ELSE {}
<1>0. /\ compactor = "read" /\ compactor' = "read" /\ readAt < till /\ readAt' = readAt + 1
      /\ written' = written \cup ks
      /\ (ks = {} /\ temp' = temp) \/ \E k \in ks : temp' = Append(temp, StoreRecord(k, map[k]))
      /\ op = Idle /\ ~Swapping
      /\ UNCHANGED <<isOpen, logOpen, map, removing, staleKeys, op, till, caughtUp,
                     lastCatchUp, disk, files, nextPlace, history, faults>>
  BY IdleFacts DEF CompactorRead, Free, Swapping
<1>1. /\ readAt \in Nat /\ till \in Nat /\ till = caughtUp /\ caughtUp <= Len(binlog)
      /\ binlog \in Seq(Records) /\ temp \in Seq(Records) /\ HasLast(temp) /\ Len(binlog) \in Nat
      /\ map \in [Keys -> Entries \cup {NoEntry}] /\ written \subseteq Keys
  BY <1>0, LenProperties
     DEF IInv, CompactorOK, TypeOK, MemoryType, CompactionType, DiskType, LogsOK
<1>2. /\ rec \in Records /\ (rec.type = "store" => \E k \in Keys : rec.keys = {k})
      /\ ks \subseteq Keys
  <2>1. readAt + 1 \in 1..Len(binlog)
    BY <1>0, <1>1
  <2>2. rec \in Records
    BY <1>1, <2>1, ElementOfSeq
  <2>. HIDE DEF rec
  <2>. QED
    BY <2>2 DEF Records, Live
<1>3. /\ temp' \in Seq(Records) /\ HasLast(temp')
      /\ \A j \in Keys : Replay(temp')[j] = IF j \in ks THEN map[j] ELSE Replay(temp)[j]
  <2>1. CASE ks = {} /\ temp' = temp
    BY <1>1, <2>1
  <2>2. CASE \E k \in ks : temp' = Append(temp, StoreRecord(k, map[k]))
    <3>1. PICK k \in ks : temp' = Append(temp, StoreRecord(k, map[k]))
      BY <2>2
    <3>2. ks = {k} /\ k \in Keys /\ map[k] \in Entries
      BY <1>1, <1>2, <3>1 DEF Live
    <3>3. PICK r \in Records : r = StoreRecord(k, map[k]) /\ r.keys = {k} /\ r.entry = map[k]
      BY <3>2, RecordFacts
    <3>4. LET c == temp \o <<r>>
          IN /\ c \in Seq(Records) /\ HasLast(c) /\ c = Append(temp, r)
             /\ \A j \in Keys : Replay(c)[j] = IF j \in r.keys THEN r.entry ELSE Replay(temp)[j]
      BY <1>1, Appended
    <3>. HIDE DEF ks
    <3>. QED
      BY <3>1, <3>2, <3>3, <3>4
  <2>. QED
    BY <1>0, <2>1, <2>2
<1>4. CompactionType'
  BY <1>0, <1>1, <1>2, <1>3 DEF IInv, TypeOK, CompactionType
<1>5. CompactorOK'
  <2>1. caughtUp' <= Len(binlog') /\ till' = caughtUp' /\ readAt' <= till'
    BY <1>0, <1>1 DEF disk
  <2>2. ASSUME logOpen, NEW k \in Keys, ~Mentioned(binlog, caughtUp, k)
        PROVE  /\ \/ Replay(temp')[k] = Replay(binlog)[k]
                  \/ Replay(temp')[k] = NoEntry /\ k \in removing
                  \/ Replay(temp')[k] = NoEntry /\ k \notin written' /\ Unread(k)'
               /\ k \in written' => Replay(temp')[k] = Replay(binlog)[k]
    <3>1. Replay(binlog)[k] = map[k] \/ (k \in removing /\ map[k] = NoEntry)
      BY <2>2, OpenLog
    <3>2. /\ \/ Replay(temp)[k] = Replay(binlog)[k]
             \/ Replay(temp)[k] = NoEntry /\ k \in removing
             \/ Replay(temp)[k] = NoEntry /\ k \notin written /\ Unread(k)
          /\ k \in written => Replay(temp)[k] = Replay(binlog)[k]
      BY <1>0, <2>2 DEF IInv, CompactorOK
    <3>3. CASE k \in ks
      <4>1. map[k] # NoEntry
        BY <3>3 DEF Live
      <4>. HIDE DEF ks
      <4>. QED
        BY <1>3, <3>1, <3>3, <4>1
    <3>4. CASE k \notin ks
      <4>1. Replay(temp')[k] = Replay(temp)[k] /\ (k \in written' <=> k \in written)
        BY <1>0, <1>3, <3>4
      <4>2. ASSUME k \notin written, Unread(k), map[k] # NoEntry PROVE Unread(k)'
        <5>1. PICK i \in (readAt + 1)..till : binlog[i].type = "store" /\ k \in binlog[i].keys
          BY <4>2 DEF Unread
        <5>2. i # readAt + 1
          BY <3>4, <4>2, <5>1 DEF Live
        <5>3. i \in (readAt' + 1)..till'
          BY <1>0, <1>1, <5>1, <5>2
        <5>. QED
          BY <1>0, <5>1, <5>3 DEF Unread, disk
      <4>. HIDE DEF ks
      <4>. QED
        BY <3>1, <3>2, <4>1, <4>2
    <3>. QED
      BY <3>3, <3>4
  <2>3. binlog' = binlog
    BY <1>0 DEF disk
  <2>. QED
    BY <1>0, <2>1, <2>2, <2>3 DEF CompactorOK
<1>. QED
  BY <1>0, <1>3, <1>4, <1>5, Compacting

\* What was written meanwhile is added: the compacted binlog followed by the rest of the binlog
\* says what the binlog says, when no record is unread.
LEMMA CaughtUp ==
    ASSUME IInv, caughtUp <= Len(binlog), compactor # "none",
           compactor = "read" => readAt = till
    PROVE  LET c == temp \o After(caughtUp)
           IN /\ c \in Seq(Records) /\ HasLast(c)
              /\ logOpen => \A k \in Keys : \/ Replay(c)[k] = Replay(binlog)[k]
                                            \/ Replay(c)[k] = NoEntry /\ k \in removing
<1>. DEFINE c == temp \o After(caughtUp)
<1>1. /\ temp \in Seq(Records) /\ binlog \in Seq(Records) /\ HasLast(temp) /\ HasLast(binlog)
      /\ caughtUp \in 0..Len(binlog) /\ till \in Nat
  BY LenProperties DEF IInv, TypeOK, CompactionType, DiskType, LogsOK
<1>2. /\ c \in Seq(Records) /\ HasLast(c)
      /\ \A k \in Keys : Replay(c)[k] = IF Mentioned(binlog, caughtUp, k) THEN Replay(binlog)[k]
                                        ELSE Replay(temp)[k]
  BY <1>1, Copied DEF After
<1>. HIDE DEF c
<1>3. ASSUME logOpen, NEW k \in Keys
      PROVE  Replay(c)[k] = Replay(binlog)[k] \/ (Replay(c)[k] = NoEntry /\ k \in removing)
  <2>1. CASE Mentioned(binlog, caughtUp, k)
    BY <1>2, <2>1
  <2>2. CASE ~Mentioned(binlog, caughtUp, k)
    <3>1. compactor = "read" => ~Unread(k)
      BY <1>1 DEF Unread
    <3>2. \/ Replay(temp)[k] = Replay(binlog)[k]
          \/ Replay(temp)[k] = NoEntry /\ k \in removing
          \/ Replay(temp)[k] = NoEntry /\ compactor = "read" /\ k \notin written /\ Unread(k)
      BY <1>3, <2>2 DEF IInv, CompactorOK
    <3>. QED
      BY <1>2, <2>2, <3>1, <3>2
  <2>. QED
    BY <2>1, <2>2
<1>. QED
  BY <1>2, <1>3 DEF c

LEMMA CompactorCatchUpStep ==
    ASSUME IInv, CompactorCatchUp
    PROVE  IInv'
<1>0. /\ compactor \in {"read", "catchUp"} /\ (compactor = "read" => readAt = till)
      /\ compactor' \in {"catchUp", "done"} /\ lastCatchUp' = Len(binlog) - caughtUp
      /\ temp' = temp \o After(caughtUp) /\ caughtUp' = Len(binlog)
      /\ till' = 0 /\ readAt' = 0 /\ written' = {}
      /\ UNCHANGED <<isOpen, logOpen, map, removing, staleKeys, op, disk, files, nextPlace,
                     history, faults>>
  BY DEF CompactorCatchUp
<1>1. /\ caughtUp \in Nat /\ Len(binlog) \in Nat /\ caughtUp <= Len(binlog) /\ ~Swapping
  BY <1>0, LenProperties DEF IInv, CompactorOK, OpOK, TypeOK, CompactionType, DiskType
<1>2. /\ temp' \in Seq(Records) /\ HasLast(temp')
      /\ logOpen => \A k \in Keys : \/ Replay(temp')[k] = Replay(binlog)[k]
                                    \/ Replay(temp')[k] = NoEntry /\ k \in removing
  BY <1>0, <1>1, CaughtUp
<1>3. CompactionType'
  BY <1>0, <1>1, <1>2 DEF CompactionType
<1>4. CompactorOK'
  <2>1. binlog' = binlog
    BY <1>0 DEF disk
  <2>. QED
    BY <1>0, <1>1, <1>2, <2>1 DEF CompactorOK
<1>. QED
  BY <1>0, <1>1, <1>2, <1>3, <1>4, Compacting

LEMMA CompactorDoneStep ==
    ASSUME IInv, CompactorDone
    PROVE  IInv'
<1>0. /\ isOpen /\ compactor = "done" /\ logOpen /\ ~logOpen' /\ hasReady' /\ temp' = <<>>
      /\ logOpen' = FALSE /\ hasReady' = TRUE
      /\ ready' = temp \o After(caughtUp) /\ op' = [Idle EXCEPT !.pc = "swap"]
      /\ UNCHANGED <<isOpen, map, removing, staleKeys, compactor, till, readAt, written,
                     caughtUp, lastCatchUp, binlog, files, nextPlace, history, faults>>
  BY DEF CompactorDone, Free
<1>1. op' \in Operations /\ op'.pc = "swap" /\ op'.entry = NoEntry /\ Swapping'
  BY <1>0 DEF Idle, Operations, Swapping
<1>2. caughtUp <= Len(binlog)
  BY <1>0 DEF IInv, CompactorOK
<1>3. /\ ready' \in Seq(Records) /\ HasLast(ready')
      /\ \A k \in Keys : \/ Replay(ready')[k] = Replay(binlog)[k]
                         \/ Replay(ready')[k] = NoEntry /\ k \in removing
  BY <1>0, <1>2, CaughtUp
<1>4. /\ OnDisk = Replay(binlog) /\ DiskLog' = ready' /\ OnDisk' = Replay(ready')
      /\ \A k \in Keys : Replay(binlog)[k] = map[k] \/ (k \in removing /\ map[k] = NoEntry)
  BY <1>0, OpenLog DEF DiskLog, OnDisk
<1>5. TypeOK'
  <2>1. MemoryType'
    BY <1>0, <1>1 DEF IInv, TypeOK, MemoryType
  <2>2. CompactionType' /\ DiskType' /\ HistoryType'
    BY <1>0, <1>3, Empty DEF IInv, TypeOK, CompactionType, DiskType, HistoryType, history
  <2>. QED
    BY <2>1, <2>2 DEF TypeOK
<1>6. LogsOK' /\ RemovingOK' /\ CompactorOK'
  BY <1>0, <1>3, Empty DEF IInv, LogsOK, RemovingOK, CompactorOK
<1>7. DiskMatchesMap'
  <2>1. \A k \in Keys : Replay(ready')[k] = map[k] \/ (k \in removing /\ map[k] = NoEntry)
    BY <1>3, <1>4 DEF IInv, RemovingOK
  <2>. QED
    BY <1>0, <1>4, <2>1 DEF DiskMatchesMap
<1>8. OpOK'
  BY <1>0, <1>1 DEF OpOK
<1>9. FilesOK'
  <2>1. PlacesUnder(Replay(ready'), nextPlace)
    BY <1>3, ReplayTypes, Dropped DEF IInv, FilesOK, PlacesOK
  <2>. QED
    BY <1>0, <1>1, <2>1 DEF IInv, FilesOK, PlacesOK, OpPlaceOK
<1>10. SafeOK'
  <2>. SUFFICES ASSUME ~LogFailed' PROVE SafeOK'
    BY DEF SafeOK
  <2>1. /\ ~LogFailed /\ kept \subseteq Keys
        /\ \A k \in Keys : ValueOf(OnDisk[k]) \in {latest[k], NoValue}
        /\ \A k \in kept : latest[k] # NoValue /\ ValueOf(OnDisk[k]) = latest[k]
        /\ kept \cap (staleKeys \cup removing) = {}
    BY <1>0 DEF LogFailed, IInv, SafeOK, TypeOK, HistoryType
  <2>2. \A k \in Keys : \/ ValueOf(OnDisk[k])' = ValueOf(OnDisk[k])
                        \/ k \in removing /\ ValueOf(OnDisk[k])' = NoValue
    BY <1>0, <1>3, <1>4 DEF ValueOf
  <2>. QED
    BY <1>0, <1>1, <2>1, <2>2 DEF SafeOK, history
<1>. QED
  BY <1>5, <1>6, <1>7, <1>8, <1>9, <1>10 DEF IInv

\* The binlog that is ready is the one the next open() takes, until it is the only one.
LEMMA SwapRemoveStep ==
    ASSUME IInv, SwapRemove
    PROVE  IInv'
<1>. USE DEF compaction, history
<1>0. /\ Swapping /\ hasReady /\ ~logOpen /\ compactor = "done" /\ isOpen
      /\ binlog' = <<>> /\ op' = [op EXCEPT !.pc = "rename"]
      /\ UNCHANGED <<isOpen, logOpen, map, removing, staleKeys, compaction, hasReady, ready,
                     files, nextPlace, history, faults>>
  BY IdleFacts DEF SwapRemove, Swapping, IInv, OpOK
<1>1. op' \in Operations /\ op'.pc = "rename" /\ op'.entry = op.entry /\ Swapping'
  BY <1>0 DEF IInv, TypeOK, MemoryType, Operations, Swapping
<1>2. DiskLog' = DiskLog /\ OnDisk' = OnDisk
  BY <1>0 DEF DiskLog, OnDisk
<1>3. TypeOK'
  <2>1. MemoryType'
    BY <1>0, <1>1 DEF IInv, TypeOK, MemoryType
  <2>2. CompactionType' /\ DiskType' /\ HistoryType'
    BY <1>0, Empty DEF IInv, TypeOK, CompactionType, DiskType, HistoryType
  <2>. QED
    BY <2>1, <2>2 DEF TypeOK
<1>4. LogsOK' /\ RemovingOK' /\ CompactorOK'
  BY <1>0, Empty DEF IInv, LogsOK, RemovingOK, CompactorOK
<1>5. DiskMatchesMap'
  BY <1>0, <1>2 DEF IInv, DiskMatchesMap, Swapping
<1>6. OpOK'
  BY <1>0, <1>1 DEF OpOK
<1>7. FilesOK'
  BY <1>0, <1>1, Empty DEF IInv, FilesOK, PlacesOK, OpPlaceOK
<1>8. SafeOK'
  <2>1. (LogFailed' <=> LogFailed) /\ kept \subseteq Keys
    BY <1>0 DEF LogFailed, IInv, TypeOK, HistoryType
  <2>2. \A k \in Keys : ValueOf(OnDisk[k])' = ValueOf(OnDisk[k])
    BY <1>0, <1>2 DEF ValueOf
  <2>. QED
    BY <1>0, <1>1, <2>1, <2>2 DEF IInv, SafeOK
<1>. QED
  BY <1>3, <1>4, <1>5, <1>6, <1>7, <1>8 DEF IInv

LEMMA SwapRenameStep ==
    ASSUME IInv, SwapRename
    PROVE  IInv'
<1>. USE DEF history
<1>0. /\ Swapping /\ hasReady /\ isOpen /\ binlog' = ready /\ ~hasReady' /\ ready' = <<>>
      /\ hasReady' = FALSE
      /\ op' = Idle /\ op' \in Operations /\ op'.pc = "idle" /\ op'.entry = NoEntry /\ ~Swapping'
      /\ compactor' = "none" /\ till' = 0 /\ readAt' = 0 /\ written' = {}
      /\ caughtUp' = 0 /\ lastCatchUp' = 0 /\ temp' = <<>>
      /\ UNCHANGED <<isOpen, map, removing, staleKeys, files, nextPlace, history>>
  BY IdleFacts DEF SwapRename, NoCompactor, Swapping, IInv, OpOK
<1>1. DiskLog' = DiskLog /\ OnDisk' = OnDisk
  BY <1>0 DEF DiskLog, OnDisk
<1>2. /\ faults' \subseteq FaultKinds /\ (LogFailed => LogFailed') /\ logOpen' \in BOOLEAN
      /\ logOpen' \/ LogFailed'
  BY DEF SwapRename, Fault, LogFailed, IInv, TypeOK, HistoryType
<1>3. TypeOK'
  <2>1. MemoryType'
    BY <1>0, <1>2 DEF IInv, TypeOK, MemoryType
  <2>2. CompactionType' /\ DiskType' /\ HistoryType'
    BY <1>0, <1>2, Empty DEF IInv, TypeOK, CompactionType, DiskType, HistoryType
  <2>. QED
    BY <2>1, <2>2 DEF TypeOK
<1>4. LogsOK' /\ RemovingOK' /\ CompactorOK'
  BY <1>0, Empty DEF IInv, LogsOK, RemovingOK, CompactorOK
<1>5. DiskMatchesMap'
  BY <1>0, <1>1 DEF IInv, DiskMatchesMap, Swapping
<1>6. OpOK'
  BY <1>0 DEF OpOK, Swapping
<1>7. FilesOK'
  BY <1>0, Empty DEF IInv, FilesOK, PlacesOK, OpPlaceOK
<1>8. SafeOK'
  <2>1. kept \subseteq Keys
    BY DEF IInv, TypeOK, HistoryType
  <2>2. \A k \in Keys : ValueOf(OnDisk[k])' = ValueOf(OnDisk[k])
    BY <1>0, <1>1 DEF ValueOf
  <2>. QED
    BY <1>0, <1>2, <2>1, <2>2 DEF IInv, SafeOK
<1>. QED
  BY <1>3, <1>4, <1>5, <1>6, <1>7, <1>8 DEF IInv

LEMMA CompactorFailStep ==
    ASSUME IInv, CompactorFail
    PROVE  IInv'
<1>. USE DEF history
<1>0. /\ isOpen /\ hasReady' = FALSE /\ ready' = <<>>
      /\ op' = Idle /\ op' \in Operations /\ op'.pc = "idle" /\ op'.entry = NoEntry /\ ~Swapping'
      /\ compactor' = "none" /\ till' = 0 /\ readAt' = 0 /\ written' = {}
      /\ caughtUp' = 0 /\ lastCatchUp' = 0 /\ temp' = <<>>
      /\ UNCHANGED <<isOpen, logOpen, map, removing, staleKeys, binlog, files, nextPlace, history>>
  BY IdleFacts DEF CompactorFail, NoCompactor, Swapping, IInv, OpOK
<1>1. faults' \subseteq FaultKinds /\ (LogFailed => LogFailed')
  BY DEF CompactorFail, Fault, LogFailed, IInv, TypeOK, HistoryType
<1>2. TypeOK'
  <2>1. MemoryType'
    BY <1>0 DEF IInv, TypeOK, MemoryType
  <2>2. CompactionType' /\ DiskType' /\ HistoryType'
    BY <1>0, <1>1, Empty DEF IInv, TypeOK, CompactionType, DiskType, HistoryType
  <2>. QED
    BY <2>1, <2>2 DEF TypeOK
<1>3. LogsOK' /\ RemovingOK' /\ CompactorOK'
  BY <1>0, Empty DEF IInv, LogsOK, RemovingOK, CompactorOK
<1>4. OpOK'
  BY <1>0 DEF OpOK, Swapping
<1>5. FilesOK'
  BY <1>0, Empty DEF IInv, FilesOK, PlacesOK, OpPlaceOK
<1>6. DiskMatchesMap' /\ SafeOK'
  <2>1. CASE Swapping
    <3>1. ~logOpen' /\ LogFailed'
      BY <1>0, <2>1, IdleFacts DEF Swapping, IInv, OpOK, CompactorFail, Fault, LogFailed
    <3>. QED
      BY <1>0, <3>1 DEF DiskMatchesMap, SafeOK
  <2>2. CASE ~Swapping
    <3>1. ~hasReady /\ DiskLog' = DiskLog /\ OnDisk' = OnDisk /\ kept \subseteq Keys
      BY <1>0, <2>2 DEF IInv, OpOK, DiskLog, OnDisk, TypeOK, HistoryType
    <3>2. \A k \in Keys : ValueOf(OnDisk[k])' = ValueOf(OnDisk[k])
      BY <1>0, <3>1 DEF ValueOf
    <3>3. DiskMatchesMap'
      BY <1>0, <3>1 DEF IInv, DiskMatchesMap
    <3>4. SafeOK'
      BY <1>0, <1>1, <2>2, <3>1, <3>2 DEF IInv, SafeOK
    <3>. QED
      BY <3>3, <3>4
  <2>. QED
    BY <2>1, <2>2
<1>. QED
  BY <1>2, <1>3, <1>4, <1>5, <1>6 DEF IInv

-----------------------------------------------------------------------------
(***************************************************************************)
(* The inductive invariant.                                                *)
(***************************************************************************)
LEMMA Initially == Init => IInv
<1>. SUFFICES ASSUME Init PROVE IInv
  OBVIOUS
<1>0. /\ isOpen = FALSE /\ logOpen = FALSE /\ map = [k \in Keys |-> NoEntry]
      /\ removing = {} /\ staleKeys = {} /\ op = Idle /\ op \in Operations /\ op.pc = "idle"
      /\ op.entry = NoEntry /\ ~Swapping
      /\ compactor = "none" /\ till = 0 /\ readAt = 0 /\ written = {}
      /\ caughtUp = 0 /\ lastCatchUp = 0 /\ temp = <<>>
      /\ hasReady = FALSE /\ ready = <<>> /\ binlog = <<>>
      /\ files = [p \in Places |-> NoValue] /\ nextPlace = 1
      /\ latest = [k \in Keys |-> NoValue] /\ kept = {} /\ faults = {}
  BY IdleFacts DEF Init, Swapping
<1>1. TypeOK
  <2>1. MemoryType
    <3>1. Cardinality(removing) < MaxBundled
      BY <1>0, BoundsAreNats, FS_EmptySet
    <3>2. map \in [Keys -> Entries \cup {NoEntry}]
      BY <1>0
    <3>3. isOpen \in BOOLEAN /\ logOpen \in BOOLEAN
      BY <1>0
    <3>. QED
      BY <1>0, <3>1, <3>2, <3>3 DEF MemoryType
  <2>2. nextPlace \in 1..(MaxPlaces + 1)
    BY <1>0, BoundsAreNats
  <2>3. CompactionType /\ DiskType /\ HistoryType
    BY <1>0, <2>2, Empty DEF CompactionType, DiskType, HistoryType
  <2>. QED
    BY <2>1, <2>3 DEF TypeOK
<1>2. LogsOK /\ RemovingOK /\ DiskMatchesMap /\ CompactorOK /\ OpOK
  BY <1>0, Empty DEF LogsOK, RemovingOK, DiskMatchesMap, CompactorOK, OpOK
<1>3. FilesOK
  <2>1. PlacesUnder(map, nextPlace)
    BY <1>0 DEF PlacesUnder
  <2>. QED
    BY <1>0, <2>1, Empty DEF FilesOK, PlacesOK, OpPlaceOK
<1>4. SafeOK
  <2>1. \A k \in Keys : OnDisk[k] = NoEntry
    BY <1>0, Empty DEF OnDisk, DiskLog
  <2>. QED
    BY <1>0, <2>1 DEF SafeOK, ValueOf
<1>. QED
  BY <1>1, <1>2, <1>3, <1>4 DEF IInv

LEMMA KeySteps ==
    ASSUME IInv, KeyNext
    PROVE  IInv'
<1>1. PICK k \in Keys :
         \/ Remove(k) \/ GetDamaged(k) \/ ClearStale(k)
         \/ \E v \in Values : PutUnchanged(k, v) \/ PutRecord(k, v) \/ PutNotWritten(k, v)
         \/ \E to \in Keys : MoveBegin(k, to)
  BY DEF KeyNext
<1>2. CASE Remove(k) \/ GetDamaged(k) \/ ClearStale(k)
  BY <1>2, RemoveStep, GetDamagedStep, ClearStaleStep
<1>3. CASE \E v \in Values : PutUnchanged(k, v) \/ PutRecord(k, v) \/ PutNotWritten(k, v)
  BY <1>3, PutUnchangedStep, PutRecordStep, PutNotWrittenStep
<1>4. CASE \E to \in Keys : MoveBegin(k, to)
  BY <1>4, MoveBeginStep
<1>. QED
  BY <1>1, <1>2, <1>3, <1>4

LEMMA Steps == IInv /\ Next => IInv'
<1>. SUFFICES ASSUME IInv, Next PROVE IInv'
  OBVIOUS
<1>1. CASE Open \/ Close \/ Crash
  BY <1>1, OpenStep, CloseStep, CrashStep
<1>2. CASE KeyNext
  BY <1>2, KeySteps
<1>3. CASE Unlink \/ PutOpen \/ PutWrite \/ PutFails \/ MoveEnd \/ WriteBundles
  BY <1>3, UnlinkStep, PutFileStep, PutFailsStep, MoveEndStep, WriteBundlesStep
<1>4. CASE \E ks \in SUBSET Keys : MarkStale(ks)
  BY <1>4, MarkStaleStep
<1>5. CASE CompactorStart \/ CompactorRead \/ CompactorCatchUp \/ CompactorDone
  BY <1>5, CompactorStartStep, CompactorReadStep, CompactorCatchUpStep, CompactorDoneStep
<1>6. CASE SwapRemove \/ SwapRename \/ CompactorFail
  BY <1>6, SwapRemoveStep, SwapRenameStep, CompactorFailStep
<1>. QED
  BY <1>1, <1>2, <1>3, <1>4, <1>5, <1>6 DEF Next

LEMMA Stutter == IInv /\ UNCHANGED vars => IInv'
<1>. SUFFICES ASSUME IInv, UNCHANGED vars PROVE IInv'
  OBVIOUS
<1>. USE DEF vars, compaction, disk, history
<1>1. TypeOK' /\ LogsOK' /\ OpOK' /\ RemovingOK'
  BY DEF IInv, TypeOK, MemoryType, CompactionType, DiskType, HistoryType, LogsOK, OpOK, Swapping,
         RemovingOK
<1>2. FilesOK' /\ DiskMatchesMap'
  BY DEF IInv, FilesOK, PlacesOK, OpPlaceOK, DiskMatchesMap, DiskLog
<1>3. CompactorOK'
  BY NotGrowing
<1>4. SafeOK'
  <2>1. OnDisk' = OnDisk /\ (LogFailed' <=> LogFailed) /\ (Swapping' <=> Swapping)
    BY DEF OnDisk, DiskLog, LogFailed, Swapping
  <2>2. \A k \in Keys : ValueOf(OnDisk[k])' = ValueOf(OnDisk[k])
    BY <2>1 DEF ValueOf
  <2>3. ValueOf(op.entry)' = ValueOf(op.entry) /\ kept \subseteq Keys
    BY DEF ValueOf, IInv, TypeOK, HistoryType
  <2>. QED
    BY <2>1, <2>2, <2>3 DEF IInv, SafeOK
<1>. QED
  BY <1>1, <1>2, <1>3, <1>4 DEF IInv

\* The conjuncts of the invariant hold together in every state: the ones about memory and disk
\* whatever fails, SafeOK as long as the binlog does not.
THEOREM Inductive == Spec => []IInv
BY Initially, Steps, Stutter, PTL DEF Spec

\* Every variable of the cache database keeps its type; the list of removals that are not
\* written never reaches the length at which it is written.
THEOREM TypesAreRight == Spec => []TypeOK
BY Inductive, PTL DEF IInv

-----------------------------------------------------------------------------
(***************************************************************************)
(* What the database promises.                                             *)
(***************************************************************************)

\* The binlog on the disk, or the compacted one that takes its place, gives back the map, but
\* for removals that are not written yet; no two keys have the same file.
THEOREM DiskStaysRight == Spec => []DiskIsRight
<1>1. ASSUME IInv PROVE PlacesAreUnique
  <2>1. PlacesUnder(Current, nextPlace)
    BY <1>1 DEF IInv, FilesOK, PlacesOK, Current, DiskLog
  <2>. QED
    BY <2>1 DEF PlacesAreUnique, PlacesUnder
<1>2. IInv => DiskIsRight
  BY <1>1 DEF IInv, DiskIsRight
<1>. QED
  BY <1>2, Inductive, PTL

\* As long as the binlog does not fail.
LEMMA Safely ==
    ASSUME IInv, ~LogFailed
    PROVE  ReadsAreFresh /\ DonePutsAreKept
<1>1. /\ \A k \in Keys : ValueOf(OnDisk[k]) \in {latest[k], NoValue}
      /\ \A k \in kept : latest[k] # NoValue /\ ValueOf(OnDisk[k]) = latest[k]
      /\ kept \cap (staleKeys \cup removing) = {} /\ kept \subseteq Keys
  BY DEF IInv, SafeOK, TypeOK, HistoryType
<1>2. \A k \in Keys : Current[k] = OnDisk[k] \/ (k \in removing /\ Current[k] = NoEntry)
  <2>1. CASE isOpen
    BY <2>1 DEF IInv, SafeOK, DiskMatchesMap, Swapping, Current, OnDisk
  <2>2. CASE ~isOpen
    BY <2>2 DEF Current, OnDisk
  <2>. QED
    BY <2>1, <2>2
<1>3. ReadsAreFresh
  BY <1>1, <1>2, FileFacts DEF ReadsAreFresh
<1>4. DonePutsAreKept
  BY <1>1, <1>2 DEF DonePutsAreKept
<1>. QED
  BY <1>3, <1>4

\* A read gives the value that was put last or nothing, and a value whose put() was reported is
\* there, through crashes, compactions and failures of the files; unless a record of the binlog
\* was not written or a compacted binlog did not take its place.
THEOREM SafeUnlessItFails == Spec => []SafeUnlessLogFailed
<1>1. IInv => SafeUnlessLogFailed
  BY Safely DEF SafeUnlessLogFailed
<1>. QED
  BY <1>1, Inductive, PTL

\* The same when the disk never fails where the binlog is: values of which put() said that they
\* are there are there.
THEOREM PutsStay ==
    FaultKinds \cap {"log", "swap"} = {} => (Spec => []DonePutsAreKept)
<1>. SUFFICES ASSUME FaultKinds \cap {"log", "swap"} = {} PROVE Spec => []DonePutsAreKept
  OBVIOUS
<1>1. IInv => DonePutsAreKept
  <2>1. IInv => ~LogFailed
    BY DEF IInv, TypeOK, HistoryType, LogFailed
  <2>. QED
    BY <2>1, Safely
<1>. QED
  BY <1>1, Inductive, PTL

-----------------------------------------------------------------------------
(***************************************************************************)
(* The refinement of CacheStore.                                           *)
(***************************************************************************)

\* The binlog and the files of the values do not fail; a compaction may.
Reliable == FaultKinds \subseteq {"compact"}

\* A removal that is not written yet is of a key whose file is gone, or goes next: if the
\* process ends now, nothing is read of that key after it.
RemovedOK == \A k \in removing : latest[k] = NoValue \/ (op.pc = "unlink" /\ op.key = k)
SwapsNoKey == Swapping => op.key = NoKey
RInv == IInv /\ RemovedOK /\ SwapsNoKey

-----------------------------------------------------------------------------
LEMMA Works ==
    ASSUME IInv, Reliable
    PROVE  /\ ~LogFailed /\ ~Fault("data") /\ ~Fault("log") /\ ~Fault("swap")
           /\ isOpen => logOpen \/ Swapping
           /\ isOpen /\ ~Swapping => logOpen /\ ~LogFails
           /\ Free => isOpen /\ ~Swapping /\ op = Idle /\ op.pc = "idle" /\ op.key = NoKey
<1>1. ~LogFailed /\ ~Fault("data") /\ ~Fault("log") /\ ~Fault("swap")
  BY DEF IInv, TypeOK, HistoryType, Reliable, LogFailed, Fault
<1>2. isOpen => logOpen \/ Swapping
  BY <1>1 DEF IInv, SafeOK
<1>3. isOpen /\ ~Swapping => logOpen /\ ~LogFails
  BY <1>1, <1>2 DEF LogFails
<1>4. Free => isOpen /\ ~Swapping /\ op = Idle /\ op.pc = "idle" /\ op.key = NoKey
  BY DEF Free, Swapping, Idle
<1>. QED
  BY <1>1, <1>2, <1>3, <1>4

\* Only Unlink ends the removal of a key, and with it its latest value is gone.
LEMMA RemovedStep ==
    ASSUME IInv, RemovedOK, SwapsNoKey, Reliable, Next
    PROVE  RemovedOK' /\ SwapsNoKey'
<1>. USE DEF history
<1>1. CASE Open
  BY <1>1 DEF Open, RemovedOK, SwapsNoKey, Swapping
<1>2. CASE Close \/ Crash
  BY <1>2, IdleFacts DEF Close, Crash, Closed, RemovedOK, SwapsNoKey, Swapping
<1>3. ASSUME NEW k \in Keys, Remove(k) \/ GetDamaged(k) \/ (ClearStale(k) /\ map[k] # NoEntry)
      PROVE  RemovedOK' /\ SwapsNoKey'
  <2>1. /\ Free /\ Removes(k) /\ removing' \subseteq removing \cup {k}
        /\ op'.pc = "unlink" /\ op'.key = k /\ latest' = latest
    BY <1>3 DEF Remove, GetDamaged, ClearStale, Removes, RemovalWritten
  <2>2. op.pc # "unlink"
    BY <2>1, IdleFacts DEF Free
  <2>. QED
    BY <2>1, <2>2 DEF RemovedOK, SwapsNoKey, Swapping
<1>4. ASSUME NEW k \in Keys, ClearStale(k), map[k] = NoEntry PROVE RemovedOK' /\ SwapsNoKey'
  BY <1>4 DEF ClearStale, RemovedOK, SwapsNoKey, Swapping
<1>5. ASSUME NEW k \in Keys, NEW v \in Values,
             PutUnchanged(k, v) \/ PutRecord(k, v) \/ PutNotWritten(k, v)
      PROVE  RemovedOK' /\ SwapsNoKey'
  <2>1. /\ Free /\ removing' = removing \ {k} /\ latest' = [latest EXCEPT ![k] = v]
        /\ op' = Idle \/ op'.pc = "open"
    BY <1>5 DEF PutUnchanged, PutRecord, PutNotWritten, Revives, Free
  <2>2. op.pc # "unlink" /\ ~Swapping'
    BY <2>1, IdleFacts DEF Free, Swapping
  <2>3. latest \in [Keys -> Values \cup {NoValue}] /\ removing \subseteq Keys
    BY DEF IInv, TypeOK, HistoryType, MemoryType
  <2>. QED
    BY <2>1, <2>2, <2>3 DEF RemovedOK, SwapsNoKey
<1>6. ASSUME NEW k \in Keys, NEW to \in Keys, MoveBegin(k, to) PROVE RemovedOK' /\ SwapsNoKey'
  <2>1. Free /\ removing' = {} /\ (op' = op \/ op'.pc = "move")
    BY <1>6 DEF MoveBegin
  <2>. QED
    BY <2>1, IdleFacts DEF RemovedOK, SwapsNoKey, Swapping, Free
<1>7. CASE Unlink
  <2>1. /\ op.pc = "unlink" /\ op' = Idle /\ removing' = removing
        /\ latest' = [latest EXCEPT ![op.key] = NoValue]
    BY <1>7, Works DEF Unlink
  <2>2. latest \in [Keys -> Values \cup {NoValue}] /\ removing \subseteq Keys
    BY DEF IInv, TypeOK, HistoryType, MemoryType
  <2>. QED
    BY <2>1, <2>2, IdleFacts DEF RemovedOK, SwapsNoKey, Swapping
<1>8. CASE PutOpen \/ PutWrite \/ MoveEnd
  <2>1. /\ op.pc # "unlink" /\ removing' \subseteq removing /\ latest' = latest
        /\ op' = Idle \/ op' = [op EXCEPT !.pc = "write"]
    BY <1>8 DEF PutOpen, PutWrite, MoveEnd
  <2>2. ~Swapping'
    BY <2>1, IdleFacts DEF Swapping, IInv, TypeOK, MemoryType, Operations
  <2>. QED
    BY <2>1, <2>2 DEF RemovedOK, SwapsNoKey
<1>9. CASE PutFails
  BY <1>9, Works DEF PutFails
<1>10. CASE WriteBundles
  BY <1>10 DEF WriteBundles, RemovalWritten, RemovedOK, SwapsNoKey, Swapping
<1>11. ASSUME NEW ks \in SUBSET Keys, MarkStale(ks) PROVE RemovedOK' /\ SwapsNoKey'
  BY <1>11 DEF MarkStale, RemovedOK, SwapsNoKey, Swapping
<1>12. CASE CompactorStart \/ CompactorRead \/ CompactorCatchUp
  BY <1>12 DEF CompactorStart, CompactorRead, CompactorCatchUp, RemovedOK, SwapsNoKey, Swapping
<1>13. CASE CompactorDone
  <2>1. op'.key = NoKey /\ Free /\ removing' = removing /\ latest' = latest
    BY <1>13 DEF CompactorDone, Idle
  <2>2. op.pc # "unlink"
    BY <2>1, IdleFacts DEF Free
  <2>. QED
    BY <2>1, <2>2 DEF RemovedOK, SwapsNoKey
<1>14. CASE SwapRemove
  <2>1. /\ op.pc = "swap" /\ op' = [op EXCEPT !.pc = "rename"]
        /\ removing' = removing /\ latest' = latest
    BY <1>14 DEF SwapRemove
  <2>2. op'.key = op.key
    BY <2>1 DEF IInv, TypeOK, MemoryType, Operations
  <2>. QED
    BY <2>1, <2>2 DEF RemovedOK, SwapsNoKey, Swapping
<1>15. CASE SwapRename \/ CompactorFail
  <2>1. op.pc # "unlink" /\ op' = Idle /\ removing' = removing /\ latest' = latest
    BY <1>15, IdleFacts DEF SwapRename, CompactorFail
  <2>. QED
    BY <2>1, IdleFacts DEF RemovedOK, SwapsNoKey, Swapping
<1>16. CASE KeyNext
  BY <1>3, <1>4, <1>5, <1>6, <1>16 DEF KeyNext
<1>. QED
  BY <1>1, <1>2, <1>7, <1>8, <1>9, <1>10, <1>11, <1>12, <1>13, <1>14, <1>15, <1>16 DEF Next

-----------------------------------------------------------------------------
(***************************************************************************)
(* Steps of CacheStore, by what is read of every key before and after.     *)
(***************************************************************************)
Reads == [k \in Keys |-> ValueOf(Current[k])]
Same == \A j \in Keys : ValueOf(Current[j])' = ValueOf(Current[j])
Becomes(k, v) == \A j \in Keys : ValueOf(Current[j])' = IF j = k THEN v ELSE ValueOf(Current[j])
Gives(k, v) == op'.key = k /\ GivenValue' = v

LEMMA ReadsChange ==
    /\ Same => Reads' = Reads
    /\ \A k \in Keys : \A v : Becomes(k, v) => Reads' = [Reads EXCEPT ![k] = v]
    /\ \A k \in Keys : Becomes(k, NoValue) => Reads' = Store!Without({k})
BY DEF Reads, Same, Becomes, Store!Without

LEMMA StoreVars == Store!vars = <<Reads, op.key, GivenValue>>
BY DEF Store!vars, Reads

LEMMA StoreStays ==
    ASSUME Same, Gives(op.key, GivenValue)
    PROVE  UNCHANGED Store!vars
BY ReadsChange DEF Store!vars, Reads, Gives

LEMMA StorePut ==
    ASSUME NEW k \in Keys, NEW v \in Values, op.key = NoKey, Gives(k, v),
           Becomes(k, v) \/ Becomes(k, NoValue)
    PROVE  Store!Next
<1>1. Store!Put(k, v)
  BY ReadsChange DEF Store!Put, Store!Is, Reads, Gives
<1>. QED
  BY <1>1 DEF Store!Next

LEMMA StoreRemove ==
    ASSUME NEW k \in Keys, op.key = NoKey, Gives(k, ValueOf(Current[k])), Becomes(k, NoValue)
    PROVE  Store!Next
<1>1. Store!Remove(k)
  BY ReadsChange DEF Store!Remove, Store!Is, Reads, Gives
<1>. QED
  BY <1>1 DEF Store!Next

LEMMA StoreMove ==
    ASSUME NEW k \in Keys, NEW to \in Keys, op.key = NoKey, ValueOf(Current[to]) = NoValue,
           Gives(to, ValueOf(Current[k])), Becomes(k, NoValue)
    PROVE  Store!Next
<1>1. Store!Move(k, to)
  BY ReadsChange DEF Store!Move, Store!Is, Reads, Gives
<1>. QED
  BY <1>1 DEF Store!Next

LEMMA StoreEnd ==
    ASSUME op.key \in Keys, Gives(NoKey, NoValue),
           Becomes(op.key, GivenValue) \/ Becomes(op.key, NoValue)
    PROVE  Store!Next
<1>1. op.key # NoKey
  BY KeysAreFinite
<1>2. PICK k, v : k \in Keys /\ k = op.key /\ v = GivenValue
  OBVIOUS
<1>3. Becomes(k, v) \/ Becomes(k, NoValue)
  BY <1>2 DEF Becomes
<1>4. Reads' = [Reads EXCEPT ![k] = v] \/ Reads' = Store!Without({k})
  <2>1. k \in Keys
    BY <1>2
  <2>2. Becomes(k, v) => Reads' = [Reads EXCEPT ![k] = v]
    BY <2>1, ReadsChange
  <2>3. Becomes(k, NoValue) => Reads' = Store!Without({k})
    BY <2>1, ReadsChange
  <2>. QED
    BY <1>3, <2>2, <2>3
<1>5. Store!End
  BY <1>1, <1>2, <1>4 DEF Store!End, Store!Is, Reads, Gives
<1>. QED
  BY <1>5 DEF Store!Next

LEMMA StoreLose ==
    ASSUME NEW k \in Keys, Gives(op.key, GivenValue), Becomes(k, NoValue)
    PROVE  Store!Next
<1>1. Store!Lose(k)
  BY ReadsChange DEF Store!Lose, Reads, Gives
<1>. QED
  BY <1>1 DEF Store!Next

-----------------------------------------------------------------------------
(***************************************************************************)
(* The operations.                                                         *)
(***************************************************************************)
Simulated == Store!Next \/ UNCHANGED Store!vars

\* What is read of an entry depends on its file alone.
LEMMA ValueIs ==
    ASSUME files' = files, NEW e
    PROVE  ValueOf(e)' = ValueOf(e)
BY DEF ValueOf

LEMMA GivenFacts ==
    /\ op.pc \in {"idle", "swap", "rename"} => GivenValue = NoValue
    /\ op.pc \in {"open", "write"} => GivenValue = op.entry.sum
    /\ op.pc \in {"unlink", "move"} => GivenValue = ValueOf(op.entry)
BY DEF GivenValue

LEMMA GivenFactsAfter ==
    /\ op'.pc \in {"idle", "swap", "rename"} => GivenValue' = NoValue
    /\ op'.pc \in {"open", "write"} => GivenValue' = op'.entry.sum
    /\ op'.pc \in {"unlink", "move"} => GivenValue' = ValueOf(op.entry)'
BY DEF GivenValue

LEMMA IdleKey == Idle.key = NoKey
BY DEF Idle

\* The database's map and files are as they were, and so is the operation or there is none.
LEMMA Quietly ==
    ASSUME UNCHANGED <<isOpen, files, map>>, isOpen,
           \/ op' = op
           \/ /\ op.pc \in {"idle", "swap", "rename"} /\ op'.pc \in {"idle", "swap", "rename"}
              /\ op.key = NoKey /\ op'.key = NoKey
    PROVE  Simulated
<1>1. Same
  BY DEF Same, Current, ValueOf
<1>2. Gives(op.key, GivenValue)
  <2>1. CASE op' = op
    BY <2>1 DEF Gives, GivenValue, ValueOf
  <2>2. CASE /\ op.pc \in {"idle", "swap", "rename"} /\ op'.pc \in {"idle", "swap", "rename"}
             /\ op.key = NoKey /\ op'.key = NoKey
    BY <2>2, GivenFacts, GivenFactsAfter DEF Gives
  <2>. QED
    BY <2>1, <2>2
<1>. QED
  BY <1>1, <1>2, StoreStays DEF Simulated

LEMMA RemovesSimulated ==
    ASSUME RInv, Reliable, NEW k \in Keys, Free, map[k] # NoEntry, Removes(k),
           UNCHANGED <<isOpen, hasReady, ready, compaction, files>>
    PROVE  Simulated
<1>1. /\ isOpen /\ op.key = NoKey /\ map \in [Keys -> Entries \cup {NoEntry}]
      /\ map' = [map EXCEPT ![k] = NoEntry] /\ isOpen' = isOpen
      /\ op'.pc = "unlink" /\ op'.key = k /\ op'.entry = map[k] /\ files' = files
  BY Works, RemovesEntry DEF RInv, DropsEntry, IInv, TypeOK, MemoryType
<1>2. PICK e : e = map[k]
  OBVIOUS
<1>3. Becomes(k, NoValue)
  BY <1>1, FileFacts DEF Becomes, Current, ValueOf
<1>4. Gives(k, ValueOf(e))
  <2>1. GivenValue' = ValueOf(op.entry)'
    BY <1>1, GivenFactsAfter
  <2>. QED
    BY <1>1, <1>2, <2>1 DEF Gives, ValueOf
<1>5. ValueOf(Current[k]) = ValueOf(e)
  BY <1>1, <1>2 DEF Current
<1>. QED
  BY <1>1, <1>3, <1>4, <1>5, StoreRemove DEF Simulated

LEMMA UnlinkSimulated ==
    ASSUME RInv, Reliable, Unlink
    PROVE  Simulated
<1>1. /\ op.pc = "unlink" /\ op.key \in Keys /\ op.entry \in Entries /\ map[op.key] = NoEntry
      /\ isOpen /\ op' = Idle /\ map' = map /\ isOpen' = isOpen
      /\ files' = [files EXCEPT ![op.entry.place] = NoValue]
      /\ map \in [Keys -> Entries \cup {NoEntry}]
      /\ files \in [Places -> Values \cup {NoValue, Broken}]
      /\ \A j \in Keys : j # op.key => map[j].place # op.entry.place
  BY IdleFacts, Works
     DEF RInv, Unlink, IInv, OpOK, TypeOK, MemoryType, DiskType, FilesOK, OpPlaceOK
<1>2. PICK k \in Keys, p \in Places : k = op.key /\ p = op.entry.place
  BY <1>1, EntryFacts
<1>3. Becomes(k, NoValue)
  <2>1. ASSUME NEW j \in Keys, j # k PROVE ValueOf(map[j])' = ValueOf(map[j])
    <3>1. PICK e \in Entries \cup {NoEntry} : e = map[j] /\ e.place # p
      BY <1>1, <1>2, <2>1
    <3>2. ValueOf(e)' = ValueOf(e)
      BY <1>1, <1>2, <3>1, FileWritten
    <3>. QED
      BY <1>1, <3>1, <3>2 DEF ValueOf
  <2>2. ValueOf(map[k])' = NoValue
    BY <1>1, <1>2 DEF ValueOf
  <2>. QED
    BY <1>1, <2>1, <2>2 DEF Becomes, Current
<1>4. Gives(NoKey, NoValue)
  BY <1>1, IdleFacts, IdleKey, GivenFactsAfter DEF Gives
<1>5. Becomes(op.key, NoValue)
  BY <1>2, <1>3 DEF Becomes
<1>. QED
  BY <1>1, <1>4, <1>5, StoreEnd DEF Simulated

\* put() of what is there gives nothing; else the old value is gone as soon as the record is there.
LEMMA PutSimulated ==
    ASSUME RInv, Reliable, NEW k \in Keys, NEW v \in Values,
           PutUnchanged(k, v) \/ PutRecord(k, v) \/ PutNotWritten(k, v)
    PROVE  Simulated
<1>1. ~PutNotWritten(k, v)
  BY Works DEF RInv, PutNotWritten
<1>2. CASE PutUnchanged(k, v)
  BY <1>2, Works, Quietly DEF RInv, PutUnchanged
<1>3. CASE PutRecord(k, v)
  <2>1. PICK p \in Places :
           /\ map' = [map EXCEPT ![k] = Entry(p, v)]
           /\ op' = [pc |-> "open", key |-> k, entry |-> Entry(p, v), kept |-> FALSE]
    BY <1>3 DEF PutRecord
  <2>2. PICK e \in Entries : e = Entry(p, v) /\ e.sum = v
    BY EntryFacts
  <2>3. /\ isOpen /\ isOpen' = isOpen /\ files' = files /\ op.key = NoKey
        /\ map \in [Keys -> Entries \cup {NoEntry}] /\ map' = [map EXCEPT ![k] = e]
        /\ op'.pc = "open" /\ op'.key = k /\ op'.entry = e
    <3>1. isOpen /\ op.key = NoKey /\ map \in [Keys -> Entries \cup {NoEntry}]
      BY <1>3, Works DEF RInv, PutRecord, IInv, TypeOK, MemoryType
    <3>2. isOpen' = isOpen /\ files' = files
      BY <1>3 DEF PutRecord
    <3>3. op'.pc = "open" /\ op'.key = k /\ op'.entry = e
      BY <2>1, <2>2
    <3>. QED
      BY <2>1, <2>2, <3>1, <3>2, <3>3
  <2>4. ValueOf(e)' \in {v, NoValue}
    BY <2>2 DEF ValueOf
  <2>5. Becomes(k, ValueOf(e)')
    BY <2>3 DEF Becomes, Current, ValueOf
  <2>6. Becomes(k, v) \/ Becomes(k, NoValue)
    BY <2>4, <2>5
  <2>7. Gives(k, v)
    BY <2>2, <2>3, GivenFactsAfter DEF Gives
  <2>. QED
    BY <2>3, <2>6, <2>7, StorePut DEF Simulated
<1>. QED
  BY <1>1, <1>2, <1>3

\* The file is truncated, and a value is lost; it is written, and the value is there.
LEMMA PutFileSimulated ==
    ASSUME RInv, Reliable, PutOpen \/ PutWrite
    PROVE  Simulated
<1>1. /\ op.pc \in {"open", "write"} /\ op.key \in Keys /\ op.entry \in Entries
      /\ map[op.key] = op.entry /\ isOpen /\ map' = map /\ isOpen' = isOpen
      /\ map \in [Keys -> Entries \cup {NoEntry}]
      /\ files \in [Places -> Values \cup {NoValue, Broken}]
      /\ op \in Operations
  BY OpenLog DEF PutOpen, PutWrite, RInv, IInv, OpOK, TypeOK, MemoryType, DiskType
<1>2. PICK k \in Keys, e \in Entries, x \in Values \cup {Broken} :
         /\ k = op.key /\ e = op.entry
         /\ files' = [files EXCEPT ![e.place] = x]
         /\ \/ op' = [op EXCEPT !.pc = "write"] /\ x = Broken
            \/ op' = Idle /\ x = e.sum
  BY <1>1, EntryFacts DEF PutOpen, PutWrite
<1>3. /\ e.place \in Places /\ e.sum # NoValue /\ e.sum # Broken /\ e # NoEntry
      /\ files \in [Places -> Values \cup {NoValue, Broken}]
  BY <1>1, EntryFacts, NotValues
<1>4. Becomes(k, IF x = e.sum THEN x ELSE NoValue)
  <2>1. ASSUME NEW j \in Keys, j # k PROVE ValueOf(map[j])' = ValueOf(map[j])
    <3>1. PICK f \in Entries \cup {NoEntry} : f = map[j] /\ f.place # e.place
      BY <1>1, <1>2, <1>3, <2>1 DEF RInv, IInv, FilesOK, PlacesOK, PlacesUnder
    <3>2. ValueOf(f)' = ValueOf(f)
      BY <1>2, <1>1, <1>3, <3>1, FileWritten
    <3>. QED
      BY <1>1, <3>1, <3>2 DEF ValueOf
  <2>2. ValueOf(map[k])' = IF x = e.sum THEN x ELSE NoValue
    <3>1. ValueOf(e)' = IF x = e.sum THEN x ELSE NoValue
      BY <1>2, <1>3, FileWritten
    <3>. QED
      BY <1>1, <1>2, <3>1 DEF ValueOf
  <2>. QED
    BY <1>1, <2>1, <2>2 DEF Becomes, Current
<1>5. GivenValue = e.sum
  BY <1>1, <1>2, GivenFacts
<1>6. CASE op' = [op EXCEPT !.pc = "write"] /\ x = Broken
  <2>1. op'.pc = "write" /\ op'.key = op.key /\ op'.entry = op.entry
    BY <1>1, <1>6 DEF Operations
  <2>2. Gives(op.key, GivenValue)
    BY <1>2, <1>5, <2>1, GivenFactsAfter DEF Gives
  <2>3. Becomes(k, NoValue)
    BY <1>3, <1>4, <1>6
  <2>. QED
    BY <2>2, <2>3, StoreLose DEF Simulated
<1>7. CASE op' = Idle /\ x = e.sum
  <2>1. Gives(NoKey, NoValue)
    BY <1>7, IdleFacts, IdleKey, GivenFactsAfter DEF Gives
  <2>2. Becomes(op.key, GivenValue)
    BY <1>2, <1>4, <1>5, <1>7 DEF Becomes
  <2>. QED
    BY <1>1, <2>1, <2>2, StoreEnd DEF Simulated
<1>. QED
  BY <1>2, <1>6, <1>7

LEMMA MoveBeginSimulated ==
    ASSUME RInv, Reliable, NEW from \in Keys, NEW to \in Keys, MoveBegin(from, to)
    PROVE  Simulated
<1>1. /\ isOpen /\ op.key = NoKey /\ map \in [Keys -> Entries \cup {NoEntry}]
      /\ map[to] = NoEntry /\ map[from] \in Entries /\ isOpen' = isOpen /\ files' = files
      /\ map' = [map EXCEPT ![from] = NoEntry]
      /\ op' = [pc |-> "move", key |-> to, entry |-> map[from], kept |-> from \in kept]
  BY Works DEF RInv, MoveBegin, IInv, TypeOK, MemoryType
<1>2. PICK e \in Entries : e = map[from] /\ op'.pc = "move" /\ op'.key = to /\ op'.entry = e
  BY <1>1
<1>3. Becomes(from, NoValue)
  BY <1>1, FileFacts DEF Becomes, Current, ValueOf
<1>4. Gives(to, ValueOf(e))
  <2>1. GivenValue' = ValueOf(op.entry)'
    BY <1>2, GivenFactsAfter
  <2>. QED
    BY <1>1, <1>2, <2>1 DEF Gives, ValueOf
<1>5. ValueOf(Current[from]) = ValueOf(e) /\ ValueOf(Current[to]) = NoValue
  BY <1>1, <1>2, FileFacts DEF Current
<1>. QED
  BY <1>1, <1>3, <1>4, <1>5, StoreMove DEF Simulated

LEMMA MoveEndSimulated ==
    ASSUME RInv, Reliable, MoveEnd
    PROVE  Simulated
<1>1. /\ op.pc = "move" /\ op.key \in Keys /\ op.entry \in Entries /\ isOpen /\ isOpen' = isOpen
      /\ files' = files /\ op' = Idle /\ map \in [Keys -> Entries \cup {NoEntry}]
  BY IdleFacts DEF RInv, MoveEnd, IInv, OpOK, TypeOK, MemoryType
<1>2. ~LogFails
  <2>1. ~Swapping
    BY <1>1 DEF Swapping
  <2>. QED
    BY <1>1, <2>1, Works DEF RInv
<1>3. PICK k \in Keys, e \in Entries : k = op.key /\ e = op.entry /\ map' = [map EXCEPT ![k] = e]
  BY <1>1, <1>2 DEF MoveEnd
<1>4. Becomes(k, ValueOf(e))
  BY <1>1, <1>3 DEF Becomes, Current, ValueOf
<1>5. GivenValue = ValueOf(e)
  BY <1>1, <1>3, GivenFacts
<1>6. Becomes(op.key, GivenValue)
  BY <1>3, <1>4, <1>5 DEF Becomes
<1>7. Gives(NoKey, NoValue)
  BY <1>1, IdleFacts, IdleKey, GivenFactsAfter DEF Gives
<1>. QED
  BY <1>1, <1>6, <1>7, StoreEnd DEF Simulated

\* What is read after the end of the process: what was read before, or, of the key an operation
\* is at, also what that operation takes from it or gives to it.
LEMMA CrashSimulated ==
    ASSUME RInv, Reliable, Crash
    PROVE  Simulated
<1>. USE DEF history
<1>1. /\ isOpen /\ ~isOpen' /\ op' = Idle /\ op'.pc = "idle" /\ op'.key = NoKey
      /\ UNCHANGED <<files, hasReady, ready, binlog>>
  BY IdleFacts, IdleKey DEF Crash, Closed
<1>2. Gives(NoKey, NoValue)
  BY <1>1, GivenFactsAfter DEF Gives
<1>3. \A j \in Keys : Current[j] = map[j] /\ Current'[j] = OnDisk[j]
  BY <1>1 DEF Current, OnDisk, DiskLog
<1>4. \A j \in Keys : ValueOf(Current[j])' = ValueOf(OnDisk[j])
  BY <1>1, <1>3 DEF ValueOf
<1>5. /\ \A j \in Keys : OnDisk[j] = map[j] \/ (j \in removing /\ map[j] = NoEntry)
      /\ \A j \in Keys : ValueOf(OnDisk[j]) \in {latest[j], NoValue}
      /\ op.pc = "unlink" => OnDisk[op.key] \in {op.entry, NoEntry}
      /\ op.pc \in {"open", "write", "unlink", "move"} => op.key \in Keys /\ op.entry \in Entries
      /\ op.pc \in {"open", "write"} => map[op.key] = op.entry
      /\ op.pc \in {"unlink", "move"} => map[op.key] = NoEntry
  <2>1. ~LogFailed /\ (logOpen \/ Swapping)
    BY <1>1, Works DEF RInv
  <2>. QED
    BY <1>1, <2>1 DEF RInv, IInv, SafeOK, OpOK, DiskMatchesMap, OnDisk, Swapping
<1>6. ASSUME NEW j \in Keys, op.pc # "unlink" \/ j # op.key
      PROVE  ValueOf(OnDisk[j]) = ValueOf(Current[j])
  <2>1. CASE OnDisk[j] = map[j]
    BY <1>3, <2>1
  <2>2. CASE j \in removing /\ map[j] = NoEntry
    <3>1. latest[j] = NoValue
      BY <1>6, <2>2 DEF RInv, RemovedOK
    <3>. QED
      BY <1>3, <1>5, <2>2, <3>1, FileFacts
  <2>. QED
    BY <1>5, <2>1, <2>2
<1>7. CASE op.pc \in {"idle", "swap", "rename"}
  <2>1. op.key = NoKey
    BY <1>7, IdleKey DEF RInv, IInv, OpOK, SwapsNoKey, Swapping
  <2>2. Same
    BY <1>4, <1>6, <1>7 DEF Same
  <2>. QED
    BY <1>2, <1>7, <2>1, <2>2, GivenFacts, StoreStays DEF Simulated
<1>8. CASE op.pc = "unlink"
  <2>1. ValueOf(OnDisk[op.key]) \in {GivenValue, NoValue}
    BY <1>5, <1>8, FileFacts, GivenFacts
  <2>2. Becomes(op.key, ValueOf(OnDisk[op.key]))
    BY <1>4, <1>6 DEF Becomes
  <2>3. Becomes(op.key, GivenValue) \/ Becomes(op.key, NoValue)
    BY <2>1, <2>2
  <2>. QED
    BY <1>2, <1>5, <1>8, <2>3, StoreEnd DEF Simulated
<1>9. CASE op.pc \in {"open", "write", "move"}
  <2>1. ValueOf(Current[op.key]) \in {GivenValue, NoValue}
    <3>1. CASE op.pc \in {"open", "write"}
      BY <1>3, <1>5, <3>1, FileFacts, GivenFacts
    <3>2. CASE op.pc = "move"
      BY <1>3, <1>5, <3>2, FileFacts
    <3>. QED
      BY <1>9, <3>1, <3>2
  <2>2. Becomes(op.key, ValueOf(Current[op.key]))
    BY <1>4, <1>6, <1>9 DEF Becomes
  <2>3. Becomes(op.key, GivenValue) \/ Becomes(op.key, NoValue)
    BY <2>1, <2>2
  <2>. QED
    BY <1>2, <1>5, <1>9, <2>3, StoreEnd DEF Simulated
<1>. QED
  BY <1>7, <1>8, <1>9 DEF RInv, IInv, TypeOK, MemoryType, Operations

LEMMA CloseSimulated ==
    ASSUME RInv, Reliable, Close
    PROVE  Simulated
<1>1. /\ isOpen /\ ~isOpen' /\ op.pc = "idle" /\ op.key = NoKey /\ op'.pc = "idle" /\ op'.key = NoKey
      /\ logOpen /\ ~hasReady /\ DiskLog' = binlog' /\ files' = files
  BY Works, OpenLog, IdleFacts, IdleKey DEF RInv, Close, Closed, Free, DiskLog
<1>2. \A j \in Keys : Replay(binlog')[j] = map[j]
  <2>1. /\ \A j \in Keys : Replay(binlog)[j] = map[j] \/ j \in removing
        /\ \A j \in removing : map[j] = NoEntry
    BY <1>1, OpenLog DEF RInv, IInv, RemovingOK
  <2>2. CASE removing = {}
    BY <2>1, <2>2 DEF Close
  <2>3. CASE removing # {}
    <3>1. binlog \in Seq(Records) /\ HasLast(binlog) /\ removing \in SUBSET Keys
      BY DEF RInv, IInv, TypeOK, MemoryType, DiskType, LogsOK
    <3>2. PICK r \in Records : r = RemoveRecord(removing) /\ r.keys = removing /\ r.entry = NoEntry
      BY <3>1, RecordFacts
    <3>3. LET c == binlog \o <<r>>
          IN /\ c = Append(binlog, r)
             /\ \A j \in Keys : Replay(c)[j] = IF j \in r.keys THEN r.entry ELSE Replay(binlog)[j]
      BY <3>1, Appended
    <3>4. binlog' = Append(binlog, r)
      BY <1>1, <2>3, <3>2 DEF Close
    <3>. QED
      BY <2>1, <3>2, <3>3, <3>4
  <2>. QED
    BY <2>2, <2>3
<1>3. Same
  BY <1>1, <1>2 DEF Same, Current, ValueOf
<1>4. Gives(op.key, GivenValue)
  BY <1>1, GivenFacts, GivenFactsAfter DEF Gives
<1>. QED
  BY <1>3, <1>4, StoreStays DEF Simulated

LEMMA OpenSimulated ==
    ASSUME RInv, Open
    PROVE  Simulated
<1>1. Same
  BY DEF Open, Same, Current, ValueOf
<1>2. op = Idle /\ op' = op
  BY DEF Open, RInv, IInv, OpOK
<1>3. Gives(op.key, GivenValue)
  BY <1>2, IdleFacts, GivenFacts, GivenFactsAfter DEF Gives
<1>. QED
  BY <1>1, <1>3, StoreStays DEF Simulated

-----------------------------------------------------------------------------
LEMMA KeySimulated ==
    ASSUME RInv, Reliable, KeyNext
    PROVE  Simulated
<1>1. ASSUME NEW k \in Keys, Remove(k) \/ GetDamaged(k) \/ (ClearStale(k) /\ map[k] # NoEntry)
      PROVE  Simulated
  <2>1. /\ Free /\ map[k] # NoEntry /\ Removes(k)
        /\ UNCHANGED <<isOpen, hasReady, ready, compaction, files>>
    BY <1>1 DEF Remove, GetDamaged, Damaged, ClearStale
  <2>. QED
    BY <2>1, RemovesSimulated
<1>2. ASSUME NEW k \in Keys, ClearStale(k), map[k] = NoEntry PROVE Simulated
  <2>1. Free /\ UNCHANGED <<isOpen, files, map>> /\ op' = op
    BY <1>2 DEF ClearStale
  <2>. QED
    BY <2>1, Quietly DEF Free
<1>. QED
  BY <1>1, <1>2, PutSimulated, MoveBeginSimulated DEF KeyNext

\* Every step of the database is one of the map it promises, or none.
LEMMA StepSimulated ==
    ASSUME RInv, Reliable, Next
    PROVE  Simulated
<1>1. CASE Open \/ Close \/ Crash
  BY <1>1, OpenSimulated, CloseSimulated, CrashSimulated
<1>2. CASE KeyNext
  BY <1>2, KeySimulated
<1>3. CASE Unlink \/ PutOpen \/ PutWrite \/ MoveEnd
  BY <1>3, UnlinkSimulated, PutFileSimulated, MoveEndSimulated
<1>4. CASE PutFails
  BY <1>4, Works DEF RInv, PutFails
<1>5. CASE WriteBundles \/ (\E ks \in SUBSET Keys : MarkStale(ks)) \/ CompactorStart \/ CompactorRead
  <2>1. isOpen /\ UNCHANGED <<isOpen, files, map>> /\ op' = op
    BY <1>5 DEF WriteBundles, MarkStale, CompactorStart, CompactorRead, Free
  <2>. QED
    BY <2>1, Quietly
<1>6. CASE CompactorCatchUp
  <2>1. isOpen /\ UNCHANGED <<isOpen, files, map>> /\ op' = op
    BY <1>6 DEF CompactorCatchUp, RInv, IInv, OpOK
  <2>. QED
    BY <2>1, Quietly
<1>7. CASE CompactorDone \/ SwapRemove \/ SwapRename \/ CompactorFail
  <2>1. /\ isOpen /\ UNCHANGED <<isOpen, files, map>> /\ op.pc \in {"idle", "swap", "rename"}
        /\ op.key = NoKey
    BY <1>7, IdleFacts, IdleKey
       DEF CompactorDone, SwapRemove, SwapRename, CompactorFail, Free, RInv, IInv, OpOK,
           SwapsNoKey, Swapping
  <2>2. op' \in {Idle, [Idle EXCEPT !.pc = "swap"], [op EXCEPT !.pc = "rename"]}
    BY <1>7 DEF CompactorDone, SwapRemove, SwapRename, CompactorFail
  <2>3. op'.pc \in {"idle", "swap", "rename"} /\ op'.key = NoKey
    <3>1. op \in Operations /\ Idle \in Operations
      BY IdleFacts DEF RInv, IInv, TypeOK, MemoryType
    <3>. QED
      BY <2>1, <2>2, <3>1, IdleFacts, IdleKey DEF Operations
  <2>. QED
    BY <2>1, <2>3, Quietly
<1>. QED
  BY <1>1, <1>2, <1>3, <1>4, <1>5, <1>6, <1>7 DEF Next

\* Where no file of a value and no write of the binlog fails, the database implements CacheStore:
\* through all writes of its operations, ends of the process and compactions, complete or given
\* up, what it returns is the map it promises, with a value lost at worst.
THEOREM Implements == Reliable => (Spec => ImplementsStore)
<1>. SUFFICES ASSUME Reliable PROVE Spec => ImplementsStore
  OBVIOUS
<1>1. Init => RemovedOK /\ SwapsNoKey /\ Store!Init
  <2>. SUFFICES ASSUME Init PROVE RemovedOK /\ SwapsNoKey /\ Store!Init
    OBVIOUS
  <2>1. removing = {} /\ op = Idle /\ ~Swapping /\ ~isOpen /\ ~hasReady /\ binlog = <<>>
    BY IdleFacts DEF Init, Swapping
  <2>2. \A k \in Keys : ValueOf(Current[k]) = NoValue
    BY <2>1, Empty, FileFacts DEF Current, DiskLog
  <2>3. Store!Init
    BY <2>1, <2>2, IdleFacts, IdleKey, GivenFacts DEF Store!Init
  <2>. QED
    BY <2>1, <2>3 DEF RemovedOK, SwapsNoKey
<1>2. RInv /\ Next => Simulated
  BY StepSimulated
<1>3. RInv /\ Next => (RemovedOK /\ SwapsNoKey)'
  BY RemovedStep DEF RInv
<1>4. RInv /\ UNCHANGED vars => (RemovedOK /\ SwapsNoKey)' /\ UNCHANGED Store!vars
  <2>. SUFFICES ASSUME RInv, UNCHANGED vars
                PROVE  (RemovedOK /\ SwapsNoKey)' /\ UNCHANGED Store!vars
    OBVIOUS
  <2>1. (RemovedOK /\ SwapsNoKey)'
    BY DEF vars, history, RInv, RemovedOK, SwapsNoKey, Swapping
  <2>2. Same /\ Gives(op.key, GivenValue)
    BY DEF vars, disk, history, Same, Current, DiskLog, ValueOf, Gives, GivenValue
  <2>. QED
    BY <2>1, <2>2, StoreStays
<1>5. Spec => []IInv
  BY Inductive
<1>. QED
  BY <1>1, <1>2, <1>3, <1>4, <1>5, PTL DEF Spec, RInv, Simulated, ImplementsStore, Store!Spec

=============================================================================
