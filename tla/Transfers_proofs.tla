--------------------------- MODULE Transfers_proofs ---------------------------
(***************************************************************************)
(* Uploads and downloads keep their promises, whatever the files are and   *)
(* whatever fails.                                                         *)
(***************************************************************************)
EXTENDS Transfers, SequenceTheorems, FiniteSetTheorems, WellFoundedInduction, TLAPS

-----------------------------------------------------------------------------
(***************************************************************************)
(* However the files of an album are prepared, uploaded, cancelled and     *)
(* deleted, and whatever fails, the album goes once and whole, and nothing *)
(* goes before the server has all of it.                                   *)
(***************************************************************************)
\* The bounds are numbers, an album is finite, and every file has a part.
AlbumSetting ==
    /\ AlbumItems \subseteq Items /\ IsFiniteSet(AlbumItems)
    /\ ItemParts \in [Items -> Nat \ {0}]
    /\ NoItem \notin Items /\ NoItem \notin SUBSET AlbumItems

Distinct(q) == \A i, j \in 1..Len(q) : q[i] = q[j] => i = j

\* Of a file in the queue every part that is not left was sent: the server has it, or it is
\* among the requests, which are those of the current file.
Uploaders ==
    [queue : Seq(Items), current : Sending!Optional(Items), left : [Items -> Nat],
     requests : SUBSET (Items \X Nat), forgotten : SUBSET (Items \X Nat), timer : BOOLEAN,
     ready : SUBSET Items]
UploadOK(u, has) ==
    /\ u \in Uploaders /\ Distinct(u.queue)
    /\ u.current # NoItem => u.current \in Sending!ToSet(u.queue)
    /\ \A r \in u.requests : r[1] = u.current
    /\ \A i \in Sending!ToSet(u.queue) :
          IF i = u.current
          THEN u.left[i] <= ItemParts[i] /\ \A n \in u.left[i] + 1..ItemParts[i] : <<i,
            n>> \in has \cup u.requests
          ELSE u.left[i] = ItemParts[i]
    /\ u.ready \cap Sending!ToSet(u.queue) = {}
       /\ \A i \in u.ready : Sending!PartsOf(i) \subseteq has

\* Nothing was asked or sent for a file that is prepared or uploaded.
EarlyItem(i) == item[i] = "preparing" \/ i \in Sending!ToSet(queue)
EarlyItemsOK ==
    \A i \in Items :
        /\ i \in Sending!ToSet(queue) => item[i] = "local"
        /\ item[i] = "preparing" => partsLeft[i] = ItemParts[i]
        /\ EarlyItem(i) => sent[i] = 0 /\ i \notin mediaAsked \cup media
           /\ \A s \in sends : i \notin s
SavedOK ==
    \A i \in Items : sent[i] > 0 \/ i \in mediaAsked \cup media => Sending!PartsOf(i) \subseteq saved

\* The album is what is not gone, until it is sent.
AlbumOK ==
    /\ album # NoItem =>
        /\ album = {i \in AlbumItems : item[i] # "gone"} /\ media \subseteq album
        /\ \A i \in album : item[i] # "done"
    /\ album = NoItem => media = {} /\ \A i \in AlbumItems : ~EarlyItem(i)

\* What is sent of the album is all that is left of it, and if it is more than one item the album
\* is there until the answer; with nothing deleted that is the only request.
SendsOK ==
    /\ \A s \in sends :
          /\ s \subseteq Items /\ s # {}
          /\ s \cap AlbumItems # {} => s \subseteq AlbumItems
          /\ s \cap AlbumItems # {} => \A i \in s : ~(i \in mediaAsked /\ item[i] = "local")
          /\ s \cap AlbumItems # {} /\ album # NoItem => Sending!Cardinality(s) # 1
    /\ "deleted" \notin stuck /\ album # NoItem
       /\ album \notin sends => \A i \in album : sent[i] = 0

Types ==
    /\ item \in [Items -> {"preparing", "local", "done", "gone"}]
    /\ album \in {NoItem} \cup SUBSET AlbumItems /\ media \subseteq AlbumItems
    /\ mediaAsked \subseteq AlbumItems /\ sent \in [Items -> Nat]

\* The inductive invariant.
SendingIInv ==
    /\ Types /\ UploadOK(Sending!Uploader, saved) /\ EarlyItemsOK /\ SavedOK /\ AlbumOK /\ SendsOK
    /\ Sending!SentTogether /\ Sending!AlbumIsThere /\ Sending!SentOnce


\* One number of members.
LEMMA SendingCounts == \A S : Sending!Cardinality(S) = Cardinality(S)
  BY DEF Sending!Cardinality, Cardinality

\* To remove the first of them removes the only one.
LEMMA RemoveFirstIs ==
    ASSUME NEW S, NEW q \in Seq(S), Distinct(q), NEW e
    PROVE  /\ Sending!RemoveFirst(q, e) \in Seq(S) /\ Distinct(Sending!RemoveFirst(q, e))
           /\ Sending!ToSet(Sending!RemoveFirst(q, e)) = Sending!ToSet(q) \ {e}
<1>1. CASE ~\E i \in 1..Len(q) : q[i] = e
  <2>1. Sending!RemoveFirst(q, e) = q
    BY <1>1 DEF Sending!RemoveFirst
  <2>2. e \notin Sending!ToSet(q)
    BY <1>1 DEF Sending!ToSet
  <2> QED BY <2>1, <2>2
<1>2. CASE \E i \in 1..Len(q) : q[i] = e
  <2>1. PICK k \in 1..Len(q) : q[k] = e
    BY <1>2
  <2>2. {i \in 1..Len(q) : q[i] = e} = {k}
    BY <2>1 DEF Distinct
  <2>3. Sending!Min({k}) = k
    BY <2>1 DEF Sending!Min
  <2>4. Sending!SelectInSeq(q, LAMBDA v : v = e) = k
    BY <2>2, <2>3 DEF Sending!SelectInSeq
  <2>0. /\ k \in Int /\ Len(q) \in Nat /\ 1 <= k /\ k <= Len(q)
        /\ (\A i \in 1..k - 1 : q[i] \in S) /\ (\A i \in k + 1..Len(q) : q[i] \in S)
    BY <2>1
  <2> DEFINE a == SubSeq(q, 1, k - 1)
             b == SubSeq(q, k + 1, Len(q))
             r == a \o b
  <2>5. Sending!RemoveFirst(q, e) = r
    BY <1>2, <2>4 DEF Sending!RemoveFirst, Sending!RemoveAt
  <2>10. a \in Seq(S) /\ Len(a) = k - 1 /\ \A i \in 1..k - 1 : a[i] = q[i]
    BY <2>0, SubSeqProperties
  <2>11. b \in Seq(S) /\ Len(b) = Len(q) - k /\ \A i \in 1..Len(q) - k : b[i] = q[k + i]
    BY <2>0, SubSeqProperties
  <2> HIDE DEF a, b
  <2>6. r \in Seq(S) /\ Len(r) = Len(q) - 1
    <3>1. r \in Seq(S) /\ Len(r) = Len(a) + Len(b)
      BY <2>10, <2>11, ConcatProperties
    <3> QED BY <2>0, <2>10, <2>11, <3>1
  <2>12. \A i \in 1..Len(r) : r[i] = IF i <= Len(a) THEN a[i] ELSE b[i - Len(a)]
    <3>1. /\ Len(r) = Len(a) + Len(b)
          /\ \A i \in 1..Len(a) + Len(b) : r[i] = IF i <= Len(a) THEN a[i] ELSE b[i - Len(a)]
      BY <2>10, <2>11, ConcatProperties
    <3> QED BY <3>1
  <2> HIDE DEF r
  <2>7. \A i \in 1..Len(r) : r[i] = q[IF i < k THEN i ELSE i + 1]
    <3> SUFFICES ASSUME NEW i \in 1..Len(r) PROVE r[i] = q[IF i < k THEN i ELSE i + 1]
      OBVIOUS
    <3>1. i \in Int /\ 1 <= i /\ i <= Len(q) - 1 /\ Len(a) = k - 1
      BY <2>6, <2>10
    <3>2. r[i] = IF i <= k - 1 THEN a[i] ELSE b[i - (k - 1)]
      BY <2>12, <3>1
    <3>3. CASE i < k
      <4>1. i \in 1..k - 1
        BY <2>0, <3>1, <3>3
      <4> QED BY <2>0, <2>10, <3>1, <3>2, <3>3, <4>1
    <3>4. CASE ~(i < k)
      <4>1. i - (k - 1) \in 1..Len(q) - k /\ k + (i - (k - 1)) = i + 1
        BY <2>0, <3>1, <3>4
      <4>2. b[i - (k - 1)] = q[i + 1]
        BY <2>11, <4>1
      <4> QED BY <2>0, <3>1, <3>2, <3>4, <4>2
    <3> QED BY <3>3, <3>4
  <2>8. Distinct(r)
    <3> SUFFICES ASSUME NEW i \in 1..Len(r), NEW j \in 1..Len(r), r[i] = r[j] PROVE i = j
      BY DEF Distinct
    <3>1. (IF i < k THEN i ELSE i + 1) = (IF j < k THEN j ELSE j + 1)
      BY <2>1, <2>6, <2>7 DEF Distinct
    <3> QED BY <2>1, <2>6, <3>1
  <2>9. Sending!ToSet(r) = Sending!ToSet(q) \ {e}
    <3>1. ASSUME NEW i \in 1..Len(r) PROVE r[i] \in Sending!ToSet(q) /\ r[i] # e
      <4>1. (IF i < k THEN i ELSE i + 1) \in 1..Len(q) \ {k}
        BY <2>1, <2>6
      <4> QED BY <2>1, <2>7, <4>1 DEF Sending!ToSet, Distinct
    <3>2. ASSUME NEW i \in 1..Len(q), q[i] # e PROVE q[i] \in Sending!ToSet(r)
      <4>1. (IF i < k THEN i ELSE i - 1) \in 1..Len(r)
        BY <2>1, <2>6, <3>2
      <4>2. r[IF i < k THEN i ELSE i - 1] = q[i]
        BY <2>1, <2>6, <2>7, <3>2, <4>1
      <4> QED BY <2>6, <4>1, <4>2 DEF Sending!ToSet
    <3> QED BY <2>6, <3>1, <3>2 DEF Sending!ToSet
  <2> QED BY <2>5, <2>6, <2>8, <2>9
<1> QED BY <1>1, <1>2

\* A file that is added is one more.
LEMMA AppendIs ==
    ASSUME NEW S, NEW q \in Seq(S), Distinct(q), NEW e \in S, e \notin Sending!ToSet(q)
    PROVE  Append(q, e) \in Seq(S) /\ Distinct(Append(q, e))
           /\ Sending!ToSet(Append(q, e)) = Sending!ToSet(q) \cup {e}
<1> DEFINE r == Append(q, e)
<1>1. r \in Seq(S) /\ Len(r) = Len(q) + 1 /\ r[Len(q) + 1] = e /\ \A i \in 1..Len(q) : r[i] = q[i]
  OBVIOUS
<1> HIDE DEF r
<1>2. \A i \in 1..Len(q) : q[i] # e
  BY DEF Sending!ToSet
<1>3. Distinct(r)
  BY <1>1, <1>2 DEF Distinct
<1>4. Sending!ToSet(r) = Sending!ToSet(q) \cup {e}
  <2>1. DOMAIN r = 1..Len(q) + 1 /\ DOMAIN q = 1..Len(q)
    BY <1>1
  <2> QED BY <1>1, <2>1 DEF Sending!ToSet
<1> QED BY <1>1, <1>3, <1>4 DEF r

\* No file is new in it, and the others are left as they are.
UploadKeeps(u, v) ==
    /\ Sending!ToSet(v.queue) \cup v.ready \subseteq Sending!ToSet(u.queue) \cup u.ready
    /\ \A i \in Items \ (Sending!ToSet(u.queue) \cup u.ready) : v.left[i] = u.left[i]

LEMMA UploadKeepsOn == ASSUME NEW u, NEW v, NEW w, UploadKeeps(u, v), UploadKeeps(v, w)
    PROVE UploadKeeps(u, w)
  BY DEF UploadKeeps

LEMMA QueuedAre ==
    ASSUME AlbumSetting, NEW u, NEW has, UploadOK(u, has)
    PROVE  \A i \in Sending!ToSet(u.queue) : i \in Items /\ i # NoItem
<1>1. u.queue \in Seq(Items)
  BY DEF UploadOK, Uploaders
<1>2. Sending!ToSet(u.queue) \subseteq Items
  BY <1>1 DEF Sending!ToSet
<1> QED BY <1>2 DEF AlbumSetting

LEMMA SendPartIs ==
    ASSUME AlbumSetting, NEW u, NEW has, UploadOK(u, has), NEW i \in Sending!ToSet(u.queue),
           u.left[i] > 0,
           u.requests # {} => i = u.current,
           u.current = NoItem \/ i = u.current
    PROVE  UploadOK(Sending!SendPart(u, i), has) /\ UploadKeeps(u, Sending!SendPart(u, i))
<1> DEFINE v == Sending!SendPart(u, i)
<1>0. u \in Uploaders /\ i \in Items /\ i # NoItem
  BY DEF UploadOK, Uploaders, Sending!ToSet, AlbumSetting
<1> DEFINE l == [u.left EXCEPT ![i] = @ - 1]
           rs == u.requests \cup {<<i, u.left[i]>>}
           u1 == [u EXCEPT !.current = i]
           u2 == [u1 EXCEPT !.left = l]
           u3 == [u2 EXCEPT !.requests = rs]
<1>a. u1 \in Uploaders /\ u1.queue = u.queue /\ u1.current = i /\ u1.left = u.left
      /\ u1.requests = u.requests /\ u1.ready = u.ready
  BY <1>0 DEF Uploaders, Sending!Optional
<1>b. l \in [Items -> Nat] /\ rs \in SUBSET (Items \X Nat)
  <2>1. u.left \in [Items -> Nat] /\ u.requests \subseteq Items \X Nat
    BY <1>0 DEF Uploaders
  <2> QED BY <1>0, <2>1
<1>c. v = [u3 EXCEPT !.timer = TRUE]
  BY <1>0 DEF Sending!SendPart, Uploaders
<1> HIDE DEF l, rs, u1, v
<1>d. u2 \in Uploaders /\ u2.queue = u.queue /\ u2.current = i /\ u2.left = l
      /\ u2.requests = u.requests /\ u2.ready = u.ready
  BY <1>a, <1>b DEF Uploaders
<1> HIDE DEF u2
<1>e. u3 \in Uploaders /\ u3.queue = u.queue /\ u3.current = i /\ u3.left = l
      /\ u3.requests = rs /\ u3.ready = u.ready
  BY <1>b, <1>d DEF Uploaders
<1> HIDE DEF u3
<1>1. v \in Uploaders /\ v.queue = u.queue /\ v.current = i /\ v.left = l
      /\ v.requests = rs /\ v.ready = u.ready
  BY <1>c, <1>e DEF Uploaders
<1>2. u.left[i] \in Nat /\ u.left \in [Items -> Nat]
  BY <1>0 DEF Uploaders
<1>3. v.left \in [Items -> Nat] /\ v.left[i] = u.left[i] - 1
      /\ \A j \in Items : j # i => v.left[j] = u.left[j]
  BY <1>0, <1>1, <1>2 DEF l
<1>5. \A r \in v.requests : r[1] = i
  BY <1>1 DEF UploadOK, rs
<1>6. ASSUME NEW j \in Sending!ToSet(v.queue)
      PROVE  IF j = i
             THEN v.left[j] <= ItemParts[j] /\ \A n \in v.left[j] + 1..ItemParts[j] : <<j,
               n>> \in has \cup v.requests
             ELSE v.left[j] = ItemParts[j]
  <2>1. j \in Sending!ToSet(u.queue) /\ j \in Items
    BY <1>0, <1>1 DEF Uploaders, Sending!ToSet
  <2>2. CASE j # i
    <3>1. j # u.current
      BY <1>0, <2>1, <2>2, NoItem \notin Items DEF AlbumSetting
    <3> QED BY <1>3, <2>1, <2>2, <3>1 DEF UploadOK
  <2>3. CASE j = i
    <3>1. u.left[i] <= ItemParts[i] /\ ItemParts[i] \in Nat
      BY <1>0, <2>1 DEF UploadOK, AlbumSetting
    <3>2. ASSUME NEW n \in v.left[i] + 1..ItemParts[i] PROVE <<i, n>> \in has \cup v.requests
      <4>1. CASE n = u.left[i]
        BY <1>1, <4>1 DEF rs
      <4>2. CASE n # u.left[i]
        <5>1. n \in u.left[i] + 1..ItemParts[i]
          BY <1>2, <1>3, <3>1, <3>2, <4>2
        <5>2. i = u.current
          BY <1>0, <2>1, <2>3, <3>1, <5>1 DEF UploadOK
        <5> QED BY <1>1, <2>1, <2>3, <5>1, <5>2 DEF UploadOK, rs
      <4> QED BY <4>1, <4>2
    <3> QED BY <1>2, <1>3, <2>3, <3>1, <3>2
  <2> QED BY <2>2, <2>3
<1>7. UploadOK(v, has)
  BY <1>1, <1>5, <1>6 DEF UploadOK
<1>8. UploadKeeps(u, v)
  BY <1>1, <1>3 DEF UploadKeeps
<1> QED BY <1>7, <1>8 DEF v

\* What sendNext() chooses.
LEMMA CurrentIs ==
    ASSUME AlbumSetting, NEW u, NEW has, UploadOK(u, has), u.queue # <<>>
    PROVE  /\ Sending!Current(u) \in Sending!ToSet(u.queue) /\ Sending!Current(u) \in Items
           /\ u.current = NoItem \/ Sending!Current(u) = u.current
           /\ u.requests # {} => Sending!Current(u) = u.current
<1>1. u.queue \in Seq(Items) /\ u.requests \subseteq Items \X Nat
  BY DEF UploadOK, Uploaders
<1>2. Head(u.queue) \in Sending!ToSet(u.queue)
  BY <1>1 DEF Sending!ToSet
<1>3. Sending!ToSet(u.queue) \subseteq Items
  BY <1>1 DEF Sending!ToSet
<1>4. u.current = NoItem \/ u.current \in Sending!ToSet(u.queue)
  BY DEF UploadOK
<1>5. u.requests # {} => u.current # NoItem
  <2>1. ASSUME NEW r \in u.requests PROVE u.current \in Items
    BY <1>1, <2>1 DEF UploadOK
  <2> QED BY <2>1 DEF AlbumSetting
<1> QED BY <1>2, <1>3, <1>4, <1>5 DEF Sending!Current

LEMMA DequeueIs ==
    ASSUME NEW u \in Uploaders, Distinct(u.queue), NEW i
    PROVE  /\ Sending!Dequeue(u, i) \in Uploaders /\ Distinct(Sending!Dequeue(u, i).queue)
           /\ Sending!ToSet(Sending!Dequeue(u, i).queue) = Sending!ToSet(u.queue) \ {i}
           /\ Sending!Dequeue(u, i).current = u.current /\ Sending!Dequeue(u, i).left = u.left
           /\ Sending!Dequeue(u, i).requests = u.requests /\ Sending!Dequeue(u, i).ready = u.ready
<1>1. u.queue \in Seq(Items)
  BY DEF Uploaders
<1> DEFINE q == Sending!RemoveFirst(u.queue, i)
<1>2. q \in Seq(Items) /\ Distinct(q) /\ Sending!ToSet(q) = Sending!ToSet(u.queue) \ {i}
  BY <1>1, RemoveFirstIs
<1>3. Sending!Dequeue(u, i) = [u EXCEPT !.queue = q]
  BY DEF Sending!Dequeue
<1> HIDE DEF q
<1> QED BY <1>2, <1>3 DEF Uploaders

\* With no current file the first one is begun.
LEMMA SendFromIs ==
    ASSUME AlbumSetting, NEW u, NEW has, UploadOK(u, has), u.current = NoItem
    PROVE  UploadOK(Sending!SendFrom(u), has) /\ UploadKeeps(u, Sending!SendFrom(u))
<1>1. CASE u.queue = <<>>
  <2>1. Sending!SendFrom(u) = u
    BY <1>1 DEF Sending!SendFrom
  <2> QED BY <2>1 DEF UploadKeeps
<1>2. CASE u.queue # <<>>
  <2> DEFINE i == Sending!Current(u)
  <2>1. i \in Sending!ToSet(u.queue) /\ i \in Items /\ (u.requests # {} => i = u.current)
    BY <1>2, CurrentIs
  <2>2. Sending!SendFrom(u) = Sending!SendPart(u, i)
    BY <1>2 DEF Sending!SendFrom
  <2> HIDE DEF i
  <2>3. u.left[i] = ItemParts[i] /\ ItemParts[i] \in Nat \ {0}
    BY <2>1 DEF UploadOK, AlbumSetting
  <2>4. u.left[i] > 0
    BY <2>3
  <2> QED BY <2>1, <2>2, <2>4, SendPartIs
<1> QED BY <1>1, <1>2

LEMMA SendNextIs ==
    ASSUME AlbumSetting, NEW u, NEW has, UploadOK(u, has), NEW paused
    PROVE  UploadOK(Sending!SendNext(u, paused), has) /\ UploadKeeps(u, Sending!SendNext(u, paused))
<1>1. CASE Sending!Cardinality(u.requests) >= ParallelLimit \/ paused \/ u.queue = <<>>
  <2>1. Sending!SendNext(u, paused) = u
    BY <1>1 DEF Sending!SendNext
  <2> QED BY <2>1 DEF UploadKeeps
<1>2. CASE ~(Sending!Cardinality(u.requests) >= ParallelLimit \/ paused \/ u.queue = <<>>)
  <2> DEFINE i == Sending!Current(u)
  <2>1. /\ i \in Sending!ToSet(u.queue) /\ i \in Items
        /\ u.current = NoItem \/ i = u.current
        /\ u.requests # {} => i = u.current
    BY <1>2, CurrentIs
  <2>2. Sending!SendNext(u, paused) =
            IF u.left[i] > 0 THEN Sending!SendPart(u, i)
            ELSE IF u.requests # {} THEN [u EXCEPT !.current = i]
            ELSE Sending!SendFrom([Sending!Dequeue(u, i) EXCEPT !.current = NoItem,
              !.ready = @ \cup {i}])
    BY <1>2 DEF Sending!SendNext
  <2> HIDE DEF i
  <2>3. u \in Uploaders /\ Distinct(u.queue) /\ i # NoItem
    BY <2>1 DEF UploadOK, AlbumSetting
  <2>4. u.left[i] \in Nat /\ ItemParts[i] \in Nat \ {0}
    BY <2>1, <2>3 DEF Uploaders, AlbumSetting
  <2>5. CASE u.left[i] > 0
    BY <2>1, <2>2, <2>5, SendPartIs
  <2>6. CASE ~(u.left[i] > 0) /\ u.requests # {}
    <3>1. [u EXCEPT !.current = i] = u
      BY <2>1, <2>3, <2>6 DEF Uploaders
    <3> QED BY <2>2, <2>6, <3>1 DEF UploadKeeps
  <2>7. CASE ~(u.left[i] > 0) /\ u.requests = {}
    <3>1. u.left[i] = 0 /\ i = u.current
      BY <2>1, <2>4, <2>7 DEF UploadOK
    <3>2. Sending!PartsOf(i) \subseteq has
      <4>1. \A n \in u.left[i] + 1..ItemParts[i] : <<i, n>> \in has \cup u.requests
        BY <2>1, <3>1 DEF UploadOK
      <4> QED BY <2>7, <3>1, <4>1 DEF Sending!PartsOf
    <3> DEFINE d == Sending!Dequeue(u, i)
               e == [d EXCEPT !.current = NoItem]
               f == [e EXCEPT !.ready = d.ready \cup {i}]
    <3>3. /\ d \in Uploaders /\ Distinct(d.queue)
             /\ Sending!ToSet(d.queue) = Sending!ToSet(u.queue) \ {i}
          /\ d.left = u.left /\ d.requests = u.requests /\ d.ready = u.ready
      BY <2>3, DequeueIs
    <3>4. Sending!SendNext(u,
          paused) = Sending!SendFrom([d EXCEPT !.current = NoItem, !.ready = @ \cup {i}])
      BY <2>2, <2>7
    <3> HIDE DEF d
    <3>5. /\ e \in Uploaders /\ e.queue = d.queue /\ e.current = NoItem
          /\ e.left = d.left /\ e.requests = d.requests /\ e.ready = d.ready
      BY <3>3 DEF Uploaders, Sending!Optional
    <3>6. [d EXCEPT !.current = NoItem, !.ready = @ \cup {i}] = f
      BY <3>3 DEF Uploaders
    <3> HIDE DEF e
    <3>7. d.ready \cup {i} \subseteq Items
      BY <2>1, <3>3 DEF Uploaders
    <3>8. /\ f \in Uploaders /\ f.queue = d.queue /\ f.current = NoItem
          /\ f.left = u.left /\ f.requests = {} /\ f.ready = u.ready \cup {i}
      BY <2>7, <3>3, <3>5, <3>7 DEF Uploaders
    <3> HIDE DEF f
    <3>9. \A j \in Sending!ToSet(f.queue) : j \in Sending!ToSet(u.queue) /\ j # i
          /\ u.left[j] = ItemParts[j] /\ j # NoItem
      BY <3>1, <3>3, <3>8, QueuedAre DEF UploadOK
    <3>10. UploadOK(f, has)
      BY <3>2, <3>3, <3>8, <3>9 DEF UploadOK
    <3>11. UploadKeeps(u, f)
      BY <2>1, <3>3, <3>8 DEF UploadKeeps
    <3>12. UploadOK(Sending!SendFrom(f), has) /\ UploadKeeps(f, Sending!SendFrom(f))
      BY <3>8, <3>10, SendFromIs
    <3> QED BY <3>4, <3>6, <3>11, <3>12, UploadKeepsOn
  <2> QED BY <2>5, <2>6, <2>7
<1> QED BY <1>1, <1>2

\* When the current file fails or is cancelled it is out of the queue, its requests are
\* forgotten, and the next one is begun; what the server has of the one is all the same.
LEMMA CurrentFailedIs ==
    ASSUME AlbumSetting, NEW u, NEW some, UploadOK(u, some), NEW paused,
           NEW has, \A i \in u.ready : Sending!PartsOf(i) \subseteq has
    PROVE  /\ UploadOK(Sending!CurrentFailed(u, paused), has)
              /\ UploadKeeps(u, Sending!CurrentFailed(u, paused))
           /\ u.current \in Items \ u.ready =>
                u.current \notin Sending!ToSet(Sending!CurrentFailed(u,
                  paused).queue) \cup Sending!CurrentFailed(u, paused).ready
<1>0. u \in Uploaders /\ Distinct(u.queue)
  BY DEF UploadOK
<1> DEFINE d == IF u.current = NoItem THEN u ELSE Sending!Dequeue(u, u.current)
<1>1. /\ d \in Uploaders /\ Distinct(d.queue)
         /\ Sending!ToSet(d.queue) = Sending!ToSet(u.queue) \ {u.current}
      /\ d.left = u.left /\ d.requests = u.requests /\ d.ready = u.ready /\ d.current = u.current
  <2>1. CASE u.current = NoItem
    <3>1. u.current \notin Sending!ToSet(u.queue)
      BY <1>0, <2>1 DEF Uploaders, Sending!ToSet, AlbumSetting
    <3> QED BY <1>0, <2>1, <3>1
  <2>2. CASE u.current # NoItem
    BY <1>0, <2>2, DequeueIs
  <2> QED BY <2>1, <2>2
<1> DEFINE d1 == [d EXCEPT !.requests = {}]
           d2 == [d1 EXCEPT !.forgotten = d.forgotten \cup d.requests]
           f == [d2 EXCEPT !.current = NoItem]
<1>2. Sending!CurrentFailed(u, paused) = Sending!SendNext(Sending!Forget(d), paused)
  BY DEF Sending!CurrentFailed
<1> HIDE DEF d
<1>3. Sending!Forget(d) = f
  BY <1>1 DEF Sending!Forget, Uploaders
<1>4. /\ d1 \in Uploaders /\ d1.queue = d.queue /\ d1.left = d.left
      /\ d1.requests = {} /\ d1.ready = d.ready
  BY <1>1 DEF Uploaders
<1> HIDE DEF d1
<1>5. d.forgotten \cup d.requests \subseteq Items \X Nat
  BY <1>1 DEF Uploaders
<1>6. /\ d2 \in Uploaders /\ d2.queue = d.queue /\ d2.left = d.left
      /\ d2.requests = {} /\ d2.ready = d.ready
  BY <1>4, <1>5 DEF Uploaders
<1> HIDE DEF d2
<1>7. /\ f \in Uploaders /\ f.queue = d.queue /\ f.left = u.left /\ f.current = NoItem
      /\ f.requests = {} /\ f.ready = u.ready
  BY <1>1, <1>6 DEF Uploaders, Sending!Optional
<1> HIDE DEF f
<1>8. \A j \in Sending!ToSet(f.queue) : j \in Sending!ToSet(u.queue) /\ u.left[j] = ItemParts[j]
      /\ j # NoItem
  BY <1>1, <1>7, QueuedAre DEF UploadOK
<1>9. UploadOK(f, has)
  BY <1>1, <1>7, <1>8 DEF UploadOK
<1>10. UploadKeeps(u, f)
  BY <1>1, <1>7 DEF UploadKeeps
<1> DEFINE v == Sending!SendNext(f, paused)
<1>11. UploadOK(v, has) /\ UploadKeeps(f, v)
  BY <1>9, SendNextIs
<1>12. u.current \in Items \ u.ready => u.current \notin Sending!ToSet(v.queue) \cup v.ready
  BY <1>1, <1>7, <1>11 DEF UploadKeeps
<1> QED BY <1>2, <1>3, <1>10, <1>11, <1>12, UploadKeepsOn

LEMMA CancelUploadIs ==
    ASSUME AlbumSetting, NEW u, NEW has, UploadOK(u, has), NEW paused, NEW i \in Items,
           i \notin u.ready
    PROVE  /\ UploadOK(Sending!CancelUpload(u, i, paused), has)
              /\ UploadKeeps(u, Sending!CancelUpload(u, i, paused))
           /\ i \notin Sending!ToSet(Sending!CancelUpload(u, i,
              paused).queue) \cup Sending!CancelUpload(u, i, paused).ready
<1>1. CASE u.current = i
  <2>1. \A j \in u.ready : Sending!PartsOf(j) \subseteq has
    BY DEF UploadOK
  <2> QED BY <1>1, <2>1, CurrentFailedIs DEF Sending!CancelUpload
<1>2. CASE u.current # i
  <2> DEFINE d == Sending!Dequeue(u, i)
  <2>1. /\ d \in Uploaders /\ Distinct(d.queue)
           /\ Sending!ToSet(d.queue) = Sending!ToSet(u.queue) \ {i}
        /\ d.left = u.left /\ d.requests = u.requests /\ d.ready = u.ready /\ d.current = u.current
    BY DequeueIs DEF UploadOK
  <2>2. Sending!CancelUpload(u, i, paused) = d
    BY <1>2 DEF Sending!CancelUpload
  <2> HIDE DEF d
  <2>3. UploadOK(d, has)
    BY <1>2, <2>1 DEF UploadOK
  <2> QED BY <2>1, <2>2, <2>3 DEF UploadKeeps
<1> QED BY <1>1, <1>2

LEMMA SendsIs ==
    ASSUME Types, NEW new \in SUBSET (SUBSET Items), Sending!Sends(new),
           \A s, t \in new : s \cap t # {} => s = t
    PROVE  /\ sends' = sends \cup new /\ sent' \in [Items -> Nat]
           /\ \A i \in Items : sent'[i] = IF \E s \in new : i \in s THEN sent[i] + 1 ELSE sent[i]
<1>1. ASSUME NEW i \in Items
      PROVE  Sending!Cardinality({s \in new : i \in s}) = IF \E s \in new : i \in s THEN 1 ELSE 0
  <2>1. CASE \E s \in new : i \in s
    <3>1. PICK s \in new : i \in s
      BY <2>1
    <3>2. {t \in new : i \in t} = {s}
      BY <3>1
    <3> QED BY <2>1, <3>2, SendingCounts, FS_Singleton
  <2>2. CASE ~\E s \in new : i \in s
    <3>1. {t \in new : i \in t} = {}
      BY <2>2
    <3> QED BY <2>2, <3>1, SendingCounts, FS_EmptySet
  <2> QED BY <2>1, <2>2
<1>2. sent' = [i \in Items |-> sent[i] + Sending!Cardinality({s \in new : i \in s})]
  BY DEF Sending!Sends
<1>3. \A i \in Items : sent[i] \in Nat
  BY DEF Types
<1> QED BY <1>1, <1>2, <1>3 DEF Sending!Sends

\* What the uploader has ready was not sent or asked for before, and is now.
LEMMA UploaderIs ==
    ASSUME NEW u, UploadOK(u, saved'), NEW messages, Sending!UploaderBecomes(u, messages)
    PROVE  /\ UploadOK(Sending!Uploader', saved') /\ queue' = u.queue /\ partsLeft' = u.left
           /\ mediaAsked \subseteq mediaAsked'
           /\ \A i \in mediaAsked' \ mediaAsked :
                i \in u.ready /\ i \in AlbumItems /\ messages[i] = "local"
<1>1. /\ Sending!Uploader'.queue = u.queue /\ Sending!Uploader'.current = u.current
         /\ Sending!Uploader'.left = u.left
      /\ Sending!Uploader'.requests = u.requests /\ Sending!Uploader'.forgotten = u.forgotten
      /\ Sending!Uploader'.timer = u.timer /\ Sending!Uploader'.ready = {}
  BY DEF Sending!UploaderBecomes, Sending!Uploader
<1>2. Sending!Uploader' \in Uploaders
  <2>1. /\ u.queue \in Seq(Items) /\ u.current \in Sending!Optional(Items)
           /\ u.left \in [Items -> Nat]
        /\ u.requests \in SUBSET (Items \X Nat) /\ u.forgotten \in SUBSET (Items \X Nat)
        /\ u.timer \in BOOLEAN
    BY DEF UploadOK, Uploaders
  <2> QED BY <2>1 DEF Sending!UploaderBecomes, Sending!Uploader, Uploaders
<1>3. UploadOK(Sending!Uploader', saved')
  BY <1>1, <1>2 DEF UploadOK
<1> QED BY <1>3 DEF Sending!UploaderBecomes

LEMMA SinglesAre ==
    ASSUME NEW u, NEW has, UploadOK(u, has), NEW messages
    PROVE  /\ Sending!Singles(u, messages) \in SUBSET (SUBSET Items)
           /\ \A s, t \in Sending!Singles(u, messages) : s \cap t # {} => s = t
           /\ \A s \in Sending!Singles(u, messages) :
                \E i \in u.ready \ AlbumItems : s = {i} /\ messages[i] = "local"
<1>1. u.ready \subseteq Items
  BY DEF UploadOK, Uploaders
<1> QED BY <1>1 DEF Sending!Singles

\* A step that goes on with the uploads.
LEMMA UploadsKeep ==
    ASSUME AlbumSetting, SendingIInv, NEW u, UploadOK(u, saved'), saved \subseteq saved',
           \A i \in Sending!ToSet(u.queue) \cup u.ready : EarlyItem(i),
           item' \in [Items -> {"preparing", "local", "done", "gone"}],
           \A i \in Items :
              \/ item'[i] = item[i]
              \/ item[i] = "preparing" /\ item'[i] = "local"
              \/ /\ item[i] = "local" /\ item'[i] = "gone"
                 /\ album = NoItem \/ i \notin AlbumItems,
           \A i \in Sending!ToSet(u.queue) : item'[i] = "local",
           \A i \in Items : item'[i] = "preparing" => u.left[i] = ItemParts[i],
           NEW messages, \A i \in u.ready : messages[i] = "local" => item[i] = "local"
             /\ item'[i] = "local",
           Sending!UploaderBecomes(u, messages), Sending!Sends(Sending!Singles(u, messages)),
             Sending!NoAlbum,
           "deleted" \in stuck => "deleted" \in stuck'
    PROVE  SendingIInv'
<1> DEFINE new == Sending!Singles(u, messages)
<1>1. /\ UploadOK(Sending!Uploader', saved') /\ queue' = u.queue /\ partsLeft' = u.left
      /\ mediaAsked \subseteq mediaAsked'
      /\ \A i \in mediaAsked' \ mediaAsked :
           i \in u.ready /\ i \in AlbumItems /\ messages[i] = "local"
  BY UploaderIs
<1>2. /\ new \in SUBSET (SUBSET Items) /\ \A s, t \in new : s \cap t # {} => s = t
      /\ \A s \in new : \E i \in u.ready \ AlbumItems : s = {i} /\ messages[i] = "local"
  BY SinglesAre
<1> HIDE DEF new
<1>t. Types
  BY DEF SendingIInv
<1>3. /\ sends' = sends \cup new /\ sent' \in [Items -> Nat]
      /\ \A i \in Items : sent'[i] = IF \E s \in new : i \in s THEN sent[i] + 1 ELSE sent[i]
  BY <1>t, <1>2, SendsIs DEF new
<1>4. album' = album /\ media' = media
  BY DEF Sending!NoAlbum
<1>5. u.ready \subseteq Items /\ Sending!ToSet(u.queue) \subseteq Items
      /\ u.ready \cap Sending!ToSet(u.queue) = {}
  <2>1. u.queue \in Seq(Items)
    BY DEF UploadOK, Uploaders
  <2> QED BY <2>1 DEF UploadOK, Uploaders, Sending!ToSet
<1>6. \A i \in u.ready : Sending!PartsOf(i) \subseteq saved'
  BY DEF UploadOK
\* Whatever is early was so, and what is ready is not any more.
<1>7. \A i \in Items : EarlyItem(i)' => EarlyItem(i)
  BY <1>1 DEF EarlyItem
<1>8. \A i \in u.ready : messages[i] = "local" => EarlyItem(i) /\ ~EarlyItem(i)'
      /\ item[i] = "local"
  BY <1>1, <1>5 DEF EarlyItem
<1>9. \A i \in Items : ~EarlyItem(i) /\ item'[i] = "local" => item[i] = "local"
  BY DEF EarlyItem
<1>10. \A i \in Items :
          /\ item[i] = "gone" => item'[i] = "gone"
          /\ album # NoItem /\ i \in AlbumItems /\ item'[i] = "gone" => item[i] = "gone"
          /\ item'[i] = "done" => item[i] = "done"
  OBVIOUS
<1>11. EarlyItemsOK /\ SavedOK /\ AlbumOK /\ SendsOK /\ Sending!SentTogether
       /\ Sending!AlbumIsThere /\ Sending!SentOnce
  BY DEF SendingIInv
<1>12. \A i \in Items : EarlyItem(i) => sent[i] = 0 /\ i \notin mediaAsked \cup media
       /\ \A s \in sends : i \notin s
  BY <1>11 DEF EarlyItemsOK
<1>13. Types'
  BY <1>t, <1>1, <1>3, <1>4 DEF Types
<1>14. EarlyItemsOK'
  <2> SUFFICES ASSUME NEW i \in Items
               PROVE  /\ i \in Sending!ToSet(queue') => item'[i] = "local"
                      /\ item'[i] = "preparing" => partsLeft'[i] = ItemParts[i]
                      /\ EarlyItem(i)' => /\ sent'[i] = 0 /\ i \notin mediaAsked' \cup media'
                                      /\ \A s \in sends' : i \notin s
    BY DEF EarlyItemsOK
  <2>1. ASSUME EarlyItem(i)'
        PROVE  sent'[i] = 0 /\ i \notin mediaAsked' \cup media' /\ \A s \in sends' : i \notin s
    <3>1. sent[i] = 0 /\ i \notin mediaAsked \cup media /\ \A s \in sends : i \notin s
      BY <1>7, <1>12, <2>1
    <3>2. \A s \in new : i \notin s
      BY <1>2, <1>8, <2>1
    <3>3. i \notin mediaAsked' \ mediaAsked
      BY <1>1, <1>8, <2>1
    <3> QED BY <1>3, <1>4, <3>1, <3>2, <3>3
  <2> QED BY <1>1, <2>1
<1>15. SavedOK'
  <2> SUFFICES ASSUME NEW i \in Items, sent'[i] > 0 \/ i \in mediaAsked' \cup media'
               PROVE  Sending!PartsOf(i)' \subseteq saved'
    BY DEF SavedOK
  <2>1. Sending!PartsOf(i)' = Sending!PartsOf(i)
    BY DEF Sending!PartsOf
  <2>2. CASE i \in u.ready
    BY <1>6, <2>1, <2>2
  <2>3. CASE i \notin u.ready
    <3>1. sent'[i] = sent[i] /\ (i \in mediaAsked' => i \in mediaAsked)
      BY <1>1, <1>2, <1>3, <2>3
    <3> QED BY <1>4, <1>11, <2>1, <3>1 DEF SavedOK
  <2> QED BY <2>2, <2>3
<1>16. AlbumOK'
  <2>1. ASSUME album # NoItem
        PROVE  /\ album = {i \in AlbumItems : item'[i] # "gone"} /\ media \subseteq album
               /\ \A i \in album : item'[i] # "done"
    BY <1>10, <1>11, <2>1 DEF AlbumOK, AlbumSetting
  <2>2. ASSUME album = NoItem PROVE media = {} /\ \A i \in AlbumItems : ~EarlyItem(i)'
    BY <1>7, <1>11, <2>2 DEF AlbumOK, AlbumSetting
  <2> QED BY <1>4, <2>1, <2>2 DEF AlbumOK
<1>17. SendsOK'
  <2>1. ASSUME NEW s \in sends'
        PROVE  /\ s \subseteq Items /\ s # {}
               /\ s \cap AlbumItems # {} => s \subseteq AlbumItems
               /\ s \cap AlbumItems # {} => \A i \in s : ~(i \in mediaAsked' /\ item'[i] = "local")
               /\ s \cap AlbumItems # {} /\ album' # NoItem => Sending!Cardinality(s) # 1
    <3>1. CASE s \in new
      BY <1>2, <3>1
    <3>2. CASE s \in sends
      <4>1. \A i \in s : i \in Items /\ ~EarlyItem(i)
        BY <1>11, <1>12, <3>2 DEF SendsOK
      <4>2. \A i \in s : i \in mediaAsked' => i \in mediaAsked
        BY <1>1, <1>8, <4>1
      <4> QED BY <1>4, <1>9, <1>11, <3>2, <4>1, <4>2 DEF SendsOK
    <3> QED BY <1>3, <3>1, <3>2
  <2>2. ASSUME "deleted" \notin stuck', album' # NoItem, album' \notin sends', NEW i \in album'
        PROVE  sent'[i] = 0
    <3>1. i \in AlbumItems /\ i \in Items
      BY <1>4, <1>11, <2>2 DEF AlbumOK, AlbumSetting
    <3>2. sent[i] = 0
      BY <1>3, <1>4, <1>11, <2>2 DEF SendsOK
    <3> QED BY <1>2, <1>3, <3>1, <3>2
  <2> QED BY <2>1, <2>2 DEF SendsOK
<1>18. Sending!SentTogether'
  <2>1. \A s \in new : s \cap AlbumItems = {}
    BY <1>2
  <2> QED BY <1>3, <1>10, <1>11, <2>1 DEF Sending!SentTogether, AlbumSetting
<1>19. Sending!AlbumIsThere'
  <2> SUFFICES ASSUME NEW i \in mediaAsked', item'[i] = "local"
               PROVE  album # NoItem /\ i \in album \ media
    BY <1>4 DEF Sending!AlbumIsThere
  <2>1. i \in AlbumItems /\ i \in Items
    BY <1>t, <1>1 DEF Types, AlbumSetting
  <2>2. CASE i \in mediaAsked
    BY <1>9, <1>11, <1>12, <2>1, <2>2 DEF Sending!AlbumIsThere
  <2>3. CASE i \notin mediaAsked
    <3>1. EarlyItem(i) /\ item[i] = "local"
      BY <1>1, <1>8, <2>3
    <3> QED BY <1>11, <1>12, <2>1, <3>1 DEF AlbumOK
  <2> QED BY <2>2, <2>3
<1>20. Sending!SentOnce'
  <2> SUFFICES ASSUME "deleted" \notin stuck, NEW i \in Items PROVE sent'[i] <= 1
    BY DEF Sending!SentOnce
  <2>1. sent[i] <= 1 /\ sent[i] \in Nat
    BY <1>t, <1>11 DEF Sending!SentOnce, Types
  <2>2. CASE \E s \in new : i \in s
    <3>1. sent[i] = 0
      BY <1>2, <1>8, <1>12, <2>2
    <3> QED BY <1>3, <3>1
  <2>3. CASE ~\E s \in new : i \in s
    BY <1>3, <2>1, <2>3
  <2> QED BY <2>2, <2>3
<1> QED BY <1>1, <1>13, <1>14, <1>15, <1>16, <1>17, <1>18, <1>19, <1>20 DEF SendingIInv

\* The same, told by what the step begins with.
LEMMA GoesOn ==
    ASSUME AlbumSetting, SendingIInv, NEW v, v.left = partsLeft, v.ready = {},
           \A i \in Sending!ToSet(v.queue) : EarlyItem(i) /\ item'[i] = "local",
           NEW u, UploadOK(u, saved'), UploadKeeps(v, u), Sending!Step(u), saved \subseteq saved',
           item' \in [Items -> {"preparing", "local", "done", "gone"}],
           \A i \in Items : item'[i] = item[i] \/ (item[i] = "preparing" /\ item'[i] = "local"),
           "deleted" \in stuck' <=> "deleted" \in stuck
    PROVE  SendingIInv'
<1>1. \A i \in Sending!ToSet(u.queue) \cup u.ready : EarlyItem(i) /\ item'[i] = "local"
  BY DEF UploadKeeps
<1>2. ASSUME NEW i \in Items, item'[i] = "preparing" PROVE u.left[i] = ItemParts[i]
  <2>1. item[i] = "preparing" /\ i \notin Sending!ToSet(v.queue)
    BY <1>2
  <2>2. u.left[i] = partsLeft[i]
    BY <2>1 DEF UploadKeeps
  <2> QED BY <2>1, <2>2 DEF SendingIInv, EarlyItemsOK
<1>3. Sending!UploaderBecomes(u, item) /\ Sending!Sends(Sending!Singles(u, item)) /\ Sending!NoAlbum
  BY DEF Sending!Step
<1>4. /\ \A i \in Items :
            \/ item'[i] = item[i]
            \/ item[i] = "preparing" /\ item'[i] = "local"
            \/ item[i] = "local" /\ item'[i] = "gone" /\ (album = NoItem \/ i \notin AlbumItems)
      /\ \A i \in u.ready : item[i] = "local" => item[i] = "local" /\ item'[i] = "local"
      /\ \A i \in Sending!ToSet(u.queue) \cup u.ready : EarlyItem(i)
      /\ \A i \in Sending!ToSet(u.queue) : item'[i] = "local"
      /\ "deleted" \in stuck => "deleted" \in stuck'
  BY <1>1
<1> QED BY <1>2, <1>3, <1>4, UploadsKeep

\* What the uploader is now.
LEMMA UploaderNow ==
    ASSUME SendingIInv
    PROVE  /\ Sending!Uploader \in Uploaders /\ UploadOK(Sending!Uploader, saved)
           /\ Sending!Uploader.queue = queue /\ Sending!Uploader.current = uploadingId
              /\ Sending!Uploader.left = partsLeft
           /\ Sending!Uploader.requests = requests /\ Sending!Uploader.ready = {}
           /\ queue \in Seq(Items) /\ \A i \in Sending!ToSet(queue) : EarlyItem(i)
              /\ item[i] = "local"
<1>1. UploadOK(Sending!Uploader, saved) /\ EarlyItemsOK
  BY DEF SendingIInv
<1>2. Sending!Uploader \in Uploaders /\ queue \in Seq(Items)
  BY <1>1 DEF UploadOK, Uploaders, Sending!Uploader
<1>3. \A i \in Sending!ToSet(queue) : EarlyItem(i) /\ item[i] = "local"
  BY <1>1, <1>2 DEF EarlyItemsOK, EarlyItem, Sending!ToSet
<1> QED BY <1>1, <1>2, <1>3 DEF Sending!Uploader

LEMMA PreparedKeeps == ASSUME AlbumSetting, SendingIInv, NEW i \in Items, Sending!Prepared(i)
    PROVE SendingIInv'
<1> DEFINE q == Append(queue, i)
           v == [Sending!Uploader EXCEPT !.queue = q]
           u == Sending!SendNext(v, Sending!Paused)
<1>0. Types /\ EarlyItemsOK
  BY DEF SendingIInv
<1>1. i \notin Sending!ToSet(queue)
  BY <1>0 DEF Sending!Prepared, EarlyItemsOK
<1>2. q \in Seq(Items) /\ Distinct(q) /\ Sending!ToSet(q) = Sending!ToSet(queue) \cup {i}
  BY <1>1, UploaderNow, AppendIs DEF UploadOK
<1>3. Sending!Step(u) /\ saved' = saved /\ stuck' = stuck /\ item' = [item EXCEPT ![i] = "local"]
  <2>1. [Sending!Uploader EXCEPT !.queue = Append(@, i)] = v
    BY UploaderNow DEF Uploaders
  <2> QED BY <2>1 DEF Sending!Prepared
<1> HIDE DEF q
<1>4. /\ v \in Uploaders /\ v.queue = q /\ v.current = uploadingId /\ v.left = partsLeft
      /\ v.requests = requests /\ v.ready = {}
  BY <1>2, UploaderNow DEF Uploaders
<1> HIDE DEF v
<1>5. \A j \in Sending!ToSet(queue) :
          IF j = uploadingId
          THEN partsLeft[j] <= ItemParts[j] /\ \A n \in partsLeft[j] + 1..ItemParts[j] : <<j,
            n>> \in saved \cup requests
          ELSE partsLeft[j] = ItemParts[j]
  BY UploaderNow DEF UploadOK
<1>6. uploadingId # i /\ partsLeft[i] = ItemParts[i]
  <2>1. uploadingId # NoItem => uploadingId \in Sending!ToSet(queue)
    BY UploaderNow DEF UploadOK
  <2> QED BY <1>0, <1>1, <2>1 DEF Sending!Prepared, EarlyItemsOK, AlbumSetting
<1>7. UploadOK(v, saved)
  <2>1. \A r \in requests : r[1] = uploadingId
    BY UploaderNow DEF UploadOK
  <2>2. uploadingId # NoItem => uploadingId \in Sending!ToSet(queue)
    BY UploaderNow DEF UploadOK
  <2> QED BY <1>2, <1>4, <1>5, <1>6, <2>1, <2>2 DEF UploadOK
<1>8. UploadOK(u, saved) /\ UploadKeeps(v, u)
  BY <1>7, SendNextIs
<1> HIDE DEF u
<1>9. \A j \in Sending!ToSet(v.queue) : EarlyItem(j) /\ item'[j] = "local"
  BY <1>0, <1>2, <1>3, <1>4, UploaderNow DEF Sending!Prepared, EarlyItem, Types
<1>10. /\ item' \in [Items -> {"preparing", "local", "done", "gone"}]
       /\ \A j \in Items : item'[j] = item[j] \/ (item[j] = "preparing" /\ item'[j] = "local")
  BY <1>0, <1>3 DEF Types, Sending!Prepared
<1>11. UploadOK(u, saved') /\ saved \subseteq saved'
  BY <1>3, <1>8
<1> QED BY <1>3, <1>4, <1>8, <1>9, <1>10, <1>11, GoesOn

\* A step that leaves the messages as they are.
LEMMA GoesOnAsIs ==
    ASSUME AlbumSetting, SendingIInv, NEW v, UploadOK(v, saved'), v.left = partsLeft, v.ready = {},
           Sending!ToSet(v.queue) \subseteq Sending!ToSet(queue),
           NEW u, UploadOK(u, saved'), UploadKeeps(v, u), Sending!Step(u), saved \subseteq saved',
           item' = item, "deleted" \in stuck' <=> "deleted" \in stuck
    PROVE  SendingIInv'
<1>1. item \in [Items -> {"preparing", "local", "done", "gone"}]
  BY DEF SendingIInv, Types
<1>2. \A i \in Sending!ToSet(v.queue) : EarlyItem(i) /\ item'[i] = "local"
  BY UploaderNow
<1> QED BY <1>1, <1>2, GoesOn

LEMMA TimerKeeps == ASSUME AlbumSetting, SendingIInv, Sending!TimerFires PROVE SendingIInv'
<1> DEFINE v == [Sending!Uploader EXCEPT !.timer = FALSE]
           u == Sending!SendNext(v, Sending!Paused)
<1>1. Sending!Step(u) /\ saved' = saved /\ stuck' = stuck /\ item' = item
  BY DEF Sending!TimerFires
<1>2. /\ v \in Uploaders /\ v.queue = queue /\ v.current = uploadingId /\ v.left = partsLeft
      /\ v.requests = requests /\ v.ready = {}
  BY UploaderNow DEF Uploaders
<1> HIDE DEF v
<1>3. UploadOK(v, saved)
  BY <1>2, UploaderNow DEF UploadOK
<1>4. UploadOK(u, saved) /\ UploadKeeps(v, u)
  BY <1>3, SendNextIs
<1> HIDE DEF u
<1> QED BY <1>1, <1>2, <1>3, <1>4, GoesOnAsIs

\* The uploader without a request that was answered.
LEMMA UploadAnswered ==
    ASSUME SendingIInv, NEW r, NEW has, saved \cup {r} \subseteq has
    PROVE  LET v == [Sending!Uploader EXCEPT !.requests = @ \ {r}, !.forgotten = @ \ {r}]
           IN UploadOK(v, has) /\ v.left = partsLeft /\ v.ready = {} /\ v.queue = queue
<1> DEFINE w == [Sending!Uploader EXCEPT !.requests = requests \ {r}]
           v == [w EXCEPT !.forgotten = w.forgotten \ {r}]
<1>1. [Sending!Uploader EXCEPT !.requests = @ \ {r}, !.forgotten = @ \ {r}] = v
  BY UploaderNow DEF Uploaders
<1>2. /\ w \in Uploaders /\ w.queue = queue /\ w.current = uploadingId /\ w.left = partsLeft
      /\ w.requests = requests \ {r} /\ w.ready = {}
  BY UploaderNow DEF Uploaders
<1> HIDE DEF w
<1>3. w.forgotten \ {r} \in SUBSET (Items \X Nat)
  BY <1>2 DEF Uploaders
<1>4. /\ v \in Uploaders /\ v.queue = queue /\ v.current = uploadingId /\ v.left = partsLeft
      /\ v.requests = requests \ {r} /\ v.ready = {}
  BY <1>2, <1>3 DEF Uploaders
<1> HIDE DEF v
<1>5. UploadOK(v, has)
  BY <1>4, UploaderNow DEF UploadOK
<1> QED BY <1>1, <1>4, <1>5

LEMMA PartLoadedKeeps == ASSUME AlbumSetting, SendingIInv, NEW r, Sending!PartLoaded(r)
    PROVE SendingIInv'
<1> DEFINE v == [Sending!Uploader EXCEPT !.requests = @ \ {r}, !.forgotten = @ \ {r}]
           u == Sending!SendNext(v, Sending!Paused)
<1>1. Sending!Step(u) /\ saved' = saved \cup {r} /\ stuck' = stuck /\ item' = item
  BY DEF Sending!PartLoaded
<1>2. UploadOK(v, saved') /\ v.left = partsLeft /\ v.ready = {} /\ v.queue = queue
  BY <1>1, UploadAnswered
<1> HIDE DEF v
<1>3. UploadOK(u, saved') /\ UploadKeeps(v, u)
  BY <1>2, SendNextIs
<1> HIDE DEF u
<1> QED BY <1>1, <1>2, <1>3, GoesOnAsIs

LEMMA PartFailedKeeps == ASSUME AlbumSetting, SendingIInv, NEW r, Sending!PartFailed(r)
    PROVE SendingIInv'
<1>1. saved' = saved /\ item' = item /\ ("deleted" \in stuck' <=> "deleted" \in stuck)
  BY DEF Sending!PartFailed
<1>2. CASE r \in requests
  <2> DEFINE w == [Sending!Uploader EXCEPT !.requests = @ \ {r}]
             v == Sending!CurrentFailed(w, Sending!Paused)
             u == Sending!SendNext(v, Sending!Paused)
  <2>1. Sending!Step(u)
    BY <1>2 DEF Sending!PartFailed
  <2>2. /\ w \in Uploaders /\ w.queue = queue /\ w.current = uploadingId /\ w.left = partsLeft
        /\ w.requests = requests \ {r} /\ w.ready = {}
    BY UploaderNow DEF Uploaders
  <2> HIDE DEF w
  <2>3. UploadOK(w, saved \cup {r})
    BY <2>2, UploaderNow DEF UploadOK
  <2>4. UploadOK(v, saved) /\ UploadKeeps(w, v)
    BY <2>2, <2>3, CurrentFailedIs
  <2> HIDE DEF v
  <2>5. UploadOK(u, saved) /\ UploadKeeps(v, u)
    BY <2>4, SendNextIs
  <2>6. UploadKeeps(w, u)
    BY <2>4, <2>5, UploadKeepsOn
  <2> HIDE DEF u
  <2>7. \A i \in Sending!ToSet(w.queue) : EarlyItem(i) /\ item'[i] = "local"
    BY <1>1, <2>2, UploaderNow
  <2>8. item' \in [Items -> {"preparing", "local", "done", "gone"}]
    BY <1>1 DEF SendingIInv, Types
  <2> QED BY <1>1, <2>1, <2>2, <2>5, <2>6, <2>7, <2>8, GoesOn
<1>3. CASE r \notin requests
  <2> DEFINE v == [Sending!Uploader EXCEPT !.forgotten = @ \ {r}]
             u == Sending!SendNext(v, Sending!Paused)
  <2>1. Sending!Step(u)
    BY <1>3 DEF Sending!PartFailed
  <2>2. Sending!Uploader.forgotten \ {r} \in SUBSET (Items \X Nat)
    BY UploaderNow DEF Uploaders
  <2>3. /\ v \in Uploaders /\ v.queue = queue /\ v.current = uploadingId /\ v.left = partsLeft
        /\ v.requests = requests /\ v.ready = {}
    BY <2>2, UploaderNow DEF Uploaders
  <2> HIDE DEF v
  <2>4. UploadOK(v, saved)
    BY <2>3, UploaderNow DEF UploadOK
  <2>5. UploadOK(u, saved) /\ UploadKeeps(v, u)
    BY <2>4, SendNextIs
  <2> HIDE DEF u
  <2> QED BY <1>1, <2>1, <2>3, <2>4, <2>5, GoesOnAsIs
<1> QED BY <1>2, <1>3

LEMMA UnpauseKeeps == ASSUME AlbumSetting, SendingIInv, Sending!Unpause PROVE SendingIInv'
<1> DEFINE u == Sending!SendNext(Sending!Uploader, FALSE)
<1>1. Sending!Step(u) /\ saved' = saved /\ stuck' = stuck /\ item' = item
  BY DEF Sending!Unpause
<1>2. UploadOK(u, saved) /\ UploadKeeps(Sending!Uploader, u)
  BY UploaderNow, SendNextIs
<1> HIDE DEF u
<1> QED BY <1>1, <1>2, UploaderNow, GoesOnAsIs

\* A step in which the album becomes the items, of which those with a media are told, and is
\* sent when they are all there.
AlbumStep(items, with, new) ==
    /\ album # NoItem /\ items \subseteq album /\ with \subseteq AlbumItems
    /\ UploadOK(Sending!Uploader', saved') /\ saved \subseteq saved'
    /\ \A i \in Items : EarlyItem(i)' => EarlyItem(i)
    /\ item' \in [Items -> {"preparing", "local", "done", "gone"}]
    /\ \A i \in Items : item'[i] = item[i] \/ (item[i] = "local" /\ item'[i] = "gone")
    /\ items = {i \in AlbumItems : item'[i] # "gone"}
    /\ \A i \in Items : item'[i] = "preparing" => partsLeft'[i] = ItemParts[i]
    /\ \A i \in Sending!ToSet(queue') : item'[i] = "local"
    /\ mediaAsked' \subseteq AlbumItems
    /\ \A i \in mediaAsked' :
          /\ ~EarlyItem(i)' /\ Sending!PartsOf(i) \subseteq saved'
          /\ item'[i] = "local" => i \notin with
          /\ \A s \in sends : i \in s => i \in mediaAsked
    /\ \A i \in with \cap items : ~EarlyItem(i)' /\ Sending!PartsOf(i) \subseteq saved'
    /\ new \in SUBSET (SUBSET Items) /\ \A s, t \in new : s \cap t # {} => s = t
    /\ \A s \in new : \E i \in Items \ AlbumItems :
          s = {i} /\ EarlyItem(i) /\ ~EarlyItem(i)' /\ Sending!PartsOf(i) \subseteq saved'
    /\ Sending!AlbumBecomes(items, with) /\ Sending!Sends(Sending!AlbumSends(items, with) \cup new)
    /\ album \in sends => "deleted" \in stuck'
    /\ "deleted" \in stuck => "deleted" \in stuck'

LEMMA AlbumMoves ==
    ASSUME AlbumSetting, SendingIInv, NEW items, NEW with, NEW new, AlbumStep(items, with, new)
    PROVE  SendingIInv'
<1> USE DEF AlbumStep
<1> DEFINE all == Sending!AlbumSends(items, with) \cup new
<1>t. Types
  BY DEF SendingIInv
<1>1. EarlyItemsOK /\ SavedOK /\ AlbumOK /\ SendsOK /\ Sending!SentTogether /\ Sending!AlbumIsThere
      /\ Sending!SentOnce
  BY DEF SendingIInv
<1>2. items \subseteq AlbumItems /\ AlbumItems \subseteq Items /\ items # NoItem
      /\ with \cap items # NoItem
      /\ IsFiniteSet(items)
  <2>1. album \subseteq AlbumItems /\ IsFiniteSet(AlbumItems)
    BY <1>1 DEF AlbumOK, AlbumSetting
  <2> QED BY <2>1, FS_Subset DEF AlbumSetting
<1>3. \A s \in new : s \cap AlbumItems = {} /\ s # {}
  OBVIOUS
<1>4. /\ all \in SUBSET (SUBSET Items) /\ \A s, t \in all : s \cap t # {} => s = t
      /\ \A s \in all : s \in new \/ (s = items /\ Sending!Ready(items, with))
  <2>1. \A s \in all : s \in new \/ (s = items /\ Sending!Ready(items, with))
    BY DEF Sending!AlbumSends
  <2>2. \A s \in all : s \in new \/ s = items
    BY <2>1
  <2> HIDE DEF all
  <2>3. \A s \in new : s \cap items = {}
    BY <1>2, <1>3
  <2>4. items \in SUBSET Items
    BY <1>2
  <2>5. ASSUME NEW s \in all, NEW t \in all, s \cap t # {} PROVE s = t
    <3>1. CASE s \in new /\ t \in new
      BY <2>5, <3>1
    <3>2. CASE s = items /\ t \in new
      BY <2>3, <2>5, <3>2
    <3>3. CASE t = items /\ s \in new
      BY <2>3, <2>5, <3>3
    <3> QED BY <2>2, <3>1, <3>2, <3>3
  <2>6. all \in SUBSET (SUBSET Items)
    BY <2>2, <2>4
  <2> QED BY <2>1, <2>5, <2>6
<1>5. Sending!Ready(items, with) => items \in all /\ items # {} /\ items \subseteq with \cap items
  BY DEF Sending!AlbumSends, Sending!Ready
<1> HIDE DEF all
<1>6. /\ sends' = sends \cup all /\ sent' \in [Items -> Nat]
      /\ \A i \in Items : sent'[i] = IF \E s \in all : i \in s THEN sent[i] + 1 ELSE sent[i]
  BY <1>t, <1>4, SendsIs DEF all
<1> DEFINE over == items = {} \/ (Sending!Ready(items, with) /\ Sending!Cardinality(items) = 1)
<1>6a. IF over THEN album' = NoItem /\ media' = {} ELSE album' = items /\ media' = with \cap items
  BY DEF Sending!AlbumBecomes
<1> HIDE DEF over
<1>6b. /\ media' \subseteq with \cap items
       /\ (album' = NoItem /\ media' = {}) \/ (album' = items /\ media' = with \cap items)
       /\ album' = NoItem <=> over
  BY <1>2, <1>6a
<1>7. /\ media' \subseteq with \cap items
      /\ (album' = NoItem /\ media' = {}) \/ (album' = items /\ media' = with \cap items)
      /\ album' = NoItem => items = {} \/ (Sending!Ready(items, with)
         /\ Sending!Cardinality(items) = 1)
      /\ items = {} \/ (Sending!Ready(items, with)
         /\ Sending!Cardinality(items) = 1) => album' = NoItem
  BY <1>6b DEF over
<1>8. \A i \in Items : (item[i] = "gone" => item'[i] = "gone")
      /\ (item'[i] = "local" => item[i] = "local")
                       /\ (item'[i] = "done" => item[i] = "done")
  OBVIOUS
<1>9. \A i \in Items : EarlyItem(i) => sent[i] = 0 /\ i \notin mediaAsked \cup media
      /\ \A s \in sends : i \notin s
  BY <1>1 DEF EarlyItemsOK
<1>10. \A i \in Items : i \in items \/ i \notin AlbumItems \/ item'[i] = "gone"
  OBVIOUS
<1>11. Types'
  BY <1>t, <1>2, <1>6, <1>7 DEF Types
<1>12. EarlyItemsOK'
  <2> SUFFICES ASSUME NEW i \in Items, EarlyItem(i)'
               PROVE  sent'[i] = 0 /\ i \notin mediaAsked' \cup media'
                      /\ \A s \in sends' : i \notin s
    BY DEF EarlyItemsOK
  <2>1. \A s \in all : i \notin s
    BY <1>4, <1>5
  <2> QED BY <1>6, <1>7, <1>9, <2>1
<1>13. SavedOK'
  <2> SUFFICES ASSUME NEW i \in Items, sent'[i] > 0 \/ i \in mediaAsked' \cup media'
               PROVE  Sending!PartsOf(i)' \subseteq saved'
    BY DEF SavedOK
  <2>1. Sending!PartsOf(i)' = Sending!PartsOf(i)
    BY DEF Sending!PartsOf
  <2>2. CASE i \in mediaAsked' \cup media'
    BY <1>7, <2>1, <2>2
  <2>3. CASE \E s \in all : i \in s
    <3>1. PICK s \in all : i \in s
      BY <2>3
    <3>2. CASE s \in new
      BY <2>1, <3>1, <3>2
    <3>3. CASE s = items /\ Sending!Ready(items, with)
      <4>1. i \in with \cap items
        BY <1>5, <3>1, <3>3
      <4> QED BY <2>1, <4>1
    <3> QED BY <1>4, <3>2, <3>3
  <2>4. CASE sent'[i] > 0 /\ ~\E s \in all : i \in s
    BY <1>1, <1>6, <2>1, <2>4 DEF SavedOK
  <2> QED BY <2>2, <2>3, <2>4
<1>14. AlbumOK'
  <2>1. \A i \in items : item'[i] # "done"
    BY <1>1, <1>2, <1>8 DEF AlbumOK
  <2>2. ASSUME album' = NoItem, NEW i \in AlbumItems PROVE ~EarlyItem(i)'
    <3>1. CASE i \in items
      BY <1>5, <1>7, <2>2, <3>1
    <3>2. CASE i \notin items
      BY <1>2, <1>10, <3>2 DEF EarlyItem
    <3> QED BY <3>1, <3>2
  <2>3. album' # NoItem => album' = items /\ media' \subseteq items
    BY <1>7
  <2>4. album' = NoItem => media' = {}
    BY <1>2, <1>7
  <2> QED BY <2>1, <2>2, <2>3, <2>4 DEF AlbumOK
<1>15. SendsOK'
  <2>1. ASSUME NEW s \in sends'
        PROVE  /\ s \subseteq Items /\ s # {}
               /\ s \cap AlbumItems # {} => s \subseteq AlbumItems
               /\ s \cap AlbumItems # {} => \A i \in s : ~(i \in mediaAsked' /\ item'[i] = "local")
               /\ s \cap AlbumItems # {} /\ album' # NoItem => Sending!Cardinality(s) # 1
    <3>1. CASE s \in sends
      <4>1. /\ s \subseteq Items /\ s # {}
            /\ s \cap AlbumItems # {} => s \subseteq AlbumItems
            /\ s \cap AlbumItems # {} => \A i \in s : ~(i \in mediaAsked /\ item[i] = "local")
            /\ s \cap AlbumItems # {} => Sending!Cardinality(s) # 1
        BY <1>1, <3>1 DEF SendsOK
      <4> QED BY <1>8, <3>1, <4>1
    <3>2. CASE s \in new
      BY <1>3, <3>2
    <3>3. CASE s = items /\ Sending!Ready(items, with)
      <4>1. s \subseteq with \cap items /\ s # {} /\ s \subseteq AlbumItems /\ s \subseteq Items
        BY <1>2, <1>5, <3>3
      <4>2. album' # NoItem => Sending!Cardinality(s) # 1
        BY <1>7, <3>3
      <4>3. \A i \in s : ~(i \in mediaAsked' /\ item'[i] = "local")
        <5>1. \A i \in mediaAsked' : item'[i] = "local" => i \notin with
          OBVIOUS
        <5> HIDE DEF AlbumStep
        <5> QED BY <4>1, <5>1
      <4> QED BY <4>1, <4>2, <4>3
    <3> QED BY <1>4, <1>6, <3>1, <3>2, <3>3
  <2>2. ASSUME "deleted" \notin stuck', album' # NoItem, album' \notin sends', NEW i \in album'
        PROVE  sent'[i] = 0
    <3>1. album' = items /\ i \in items
      BY <1>7, <2>2
    <3>2. ~Sending!Ready(items, with)
      BY <1>5, <1>6, <2>2, <3>1
    <3>3. \A s \in all : i \notin s
      BY <1>2, <1>3, <1>4, <3>1, <3>2
    <3>4. sent[i] = 0
      BY <1>1, <2>2, <3>1 DEF SendsOK
    <3> QED BY <1>2, <1>6, <3>1, <3>3, <3>4
  <2> QED BY <2>1, <2>2 DEF SendsOK
<1>16. Sending!SentTogether'
  <2> SUFFICES ASSUME NEW s \in sends', s \cap AlbumItems # {}, NEW i \in AlbumItems \ s
               PROVE  item'[i] = "gone"
    BY DEF Sending!SentTogether
  <2>1. CASE s \in sends
    BY <1>1, <1>2, <1>8, <2>1 DEF Sending!SentTogether
  <2>2. CASE s = items
    BY <1>2, <1>10, <2>2
  <2>3. s \notin new
    BY <1>3
  <2>4. s \in sends \/ s \in all
    BY <1>6
  <2>5. s \in all => s = items
    BY <1>4, <2>3
  <2> QED BY <2>1, <2>2, <2>4, <2>5
<1>17. Sending!AlbumIsThere'
  <2> SUFFICES ASSUME NEW i \in mediaAsked', item'[i] = "local"
               PROVE  album' # NoItem /\ i \in album' \ media'
    BY DEF Sending!AlbumIsThere
  <2>1. i \in items /\ i \notin with
    OBVIOUS
  <2> QED BY <1>5, <1>7, <2>1
<1>18. Sending!SentOnce'
  <2> SUFFICES ASSUME "deleted" \notin stuck', NEW i \in Items PROVE sent'[i] <= 1
    BY DEF Sending!SentOnce
  <2>1. sent[i] <= 1 /\ sent[i] \in Nat
    BY <1>t, <1>1 DEF Sending!SentOnce, Types
  <2>2. CASE \E s \in all : i \in s
    <3>1. PICK s \in all : i \in s
      BY <2>2
    <3>2. CASE s \in new
      <4>1. sent[i] = 0
        BY <1>9, <3>1, <3>2
      <4> QED BY <1>6, <2>2, <4>1
    <3>3. CASE s = items
      <4>1. sent[i] = 0
        BY <1>1, <3>1, <3>3 DEF SendsOK
      <4> QED BY <1>6, <2>2, <4>1
    <3> QED BY <1>4, <3>2, <3>3
  <2>3. CASE ~\E s \in all : i \in s
    BY <1>6, <2>1, <2>3
  <2> QED BY <2>2, <2>3
<1>19. \A i \in Sending!ToSet(queue') : item'[i] = "local"
  OBVIOUS
<1>20. EarlyItemsOK'
  BY <1>12
<1> QED BY <1>11, <1>13, <1>14, <1>15, <1>16, <1>17, <1>18, <1>20 DEF SendingIInv

\* A step in which at most a media is not asked for any more.
LEMMA OnlyAsked ==
    ASSUME AlbumSetting, SendingIInv, mediaAsked' \subseteq mediaAsked,
           "deleted" \in stuck' <=> "deleted" \in stuck,
           UNCHANGED <<item, queue, uploadingId, partsLeft, requests, forgotten, timer, saved,
                       album, media, sends, sent>>
    PROVE  SendingIInv'
<1>1. Types /\ UploadOK(Sending!Uploader, saved) /\ EarlyItemsOK /\ SavedOK /\ AlbumOK /\ SendsOK
      /\ Sending!SentTogether /\ Sending!AlbumIsThere /\ Sending!SentOnce
  BY DEF SendingIInv
<1>2. \A i : (EarlyItem(i)' <=> EarlyItem(i)) /\ Sending!PartsOf(i)' = Sending!PartsOf(i)
  BY DEF EarlyItem, Sending!PartsOf
<1>3. Types'
  BY <1>1 DEF Types
<1>4. UploadOK(Sending!Uploader', saved')
  <2>1. Sending!Uploader' = Sending!Uploader
    BY DEF Sending!Uploader
  <2> QED BY <1>1, <2>1
<1>5. EarlyItemsOK'
  BY <1>1, <1>2 DEF EarlyItemsOK
<1>6. SavedOK'
  BY <1>1, <1>2 DEF SavedOK
<1>7. AlbumOK'
  BY <1>1, <1>2 DEF AlbumOK
<1>8. SendsOK'
  BY <1>1 DEF SendsOK
<1>9. Sending!SentTogether' /\ Sending!AlbumIsThere' /\ Sending!SentOnce'
  BY <1>1 DEF Sending!SentTogether, Sending!AlbumIsThere, Sending!SentOnce
<1> QED BY <1>3, <1>4, <1>5, <1>6, <1>7, <1>8, <1>9 DEF SendingIInv

LEMMA MediaUploadedKeeps == ASSUME AlbumSetting, SendingIInv, NEW i \in Items,
    Sending!MediaUploaded(i) PROVE SendingIInv'
<1>1. /\ i \in mediaAsked /\ mediaAsked' = mediaAsked \ {i}
      /\ UNCHANGED <<item, queue, uploadingId, partsLeft, requests, forgotten, timer, saved, stuck>>
  BY DEF Sending!MediaUploaded
<1>2. Types /\ UploadOK(Sending!Uploader, saved) /\ EarlyItemsOK /\ SavedOK /\ AlbumOK /\ SendsOK
      /\ Sending!SentTogether /\ Sending!AlbumIsThere /\ Sending!SentOnce
  BY DEF SendingIInv
<1>3. CASE item[i] = "local"
  <2> DEFINE with == media \cup {i}
  <2>1. Sending!AlbumBecomes(album, with) /\ Sending!Sends(Sending!AlbumSends(album, with) \cup {})
    <3>1. Sending!AlbumSends(album, with) \cup {} = Sending!AlbumSends(album, with)
      OBVIOUS
    <3> QED BY <1>3, <3>1 DEF Sending!MediaUploaded
  <2>2. album # NoItem /\ i \in album /\ i \notin media /\ i \in AlbumItems
    BY <1>1, <1>2, <1>3 DEF Sending!AlbumIsThere, Types
  <2>3. UploadOK(Sending!Uploader', saved') /\ saved \subseteq saved'
    <3>1. Sending!Uploader' = Sending!Uploader
      BY <1>1 DEF Sending!Uploader
    <3> QED BY <1>1, <1>2, <3>1
  <2>4. \A j \in Items : EarlyItem(j)' <=> EarlyItem(j)
    BY <1>1 DEF EarlyItem
  <2>5. album \subseteq AlbumItems /\ album = {j \in AlbumItems : item'[j] # "gone"}
    BY <1>1, <1>2, <2>2 DEF AlbumOK
  <2>6. /\ \A j \in Items : item'[j] = "preparing" => partsLeft'[j] = ItemParts[j]
        /\ \A j \in Sending!ToSet(queue') : item'[j] = "local"
    BY <1>1, <1>2, UploaderNow DEF EarlyItemsOK
  <2>7. \A j \in mediaAsked \cup media : j \in Items /\ ~EarlyItem(j)
        /\ Sending!PartsOf(j) \subseteq saved
    BY <1>2 DEF EarlyItemsOK, SavedOK, Types, AlbumSetting
  <2>8. /\ mediaAsked' \subseteq AlbumItems
        /\ \A j \in mediaAsked' :
               /\ ~EarlyItem(j)' /\ Sending!PartsOf(j) \subseteq saved'
               /\ item'[j] = "local" => j \notin with
               /\ \A s \in sends : j \in s => j \in mediaAsked
    <3>1. mediaAsked \subseteq AlbumItems
      BY <1>2 DEF Types
    <3>2. \A j \in mediaAsked : item[j] = "local" => j \notin media
      BY <1>2 DEF Sending!AlbumIsThere
    <3> QED BY <1>1, <2>4, <2>7, <3>1, <3>2
  <2>9. \A j \in with \cap album : ~EarlyItem(j)' /\ Sending!PartsOf(j) \subseteq saved'
    BY <1>1, <2>4, <2>7
  <2>10. album \notin sends
    BY <1>1, <1>2, <1>3, <2>2 DEF SendsOK
  <2>11. with \in SUBSET AlbumItems
    BY <1>2, <2>2 DEF Types
  <2> HIDE DEF with
  <2>12. /\ \A j \in Items : EarlyItem(j)' => EarlyItem(j)
         /\ item' \in [Items -> {"preparing", "local", "done", "gone"}]
         /\ \A j \in Items : item'[j] = item[j] \/ (item[j] = "local" /\ item'[j] = "gone")
         /\ "deleted" \in stuck => "deleted" \in stuck'
    BY <1>1, <1>2, <2>4 DEF Types
  <2> DEFINE new == {}
  <2>13. /\ new \in SUBSET (SUBSET Items) /\ \A s, t \in new : s \cap t # {} => s = t
         /\ \A s \in new : \E j \in Items \ AlbumItems :
               s = {j} /\ EarlyItem(j) /\ ~EarlyItem(j)' /\ Sending!PartsOf(j) \subseteq saved'
    OBVIOUS
  <2>14. Sending!Sends(Sending!AlbumSends(album, with) \cup new)
    BY <2>1
  <2> HIDE DEF new
  <2>15. album \in SUBSET album /\ (album \in sends => "deleted" \in stuck')
    BY <2>10
  <2>16. AlbumStep(album, with, new)
    BY <2>1, <2>2, <2>3, <2>5, <2>6, <2>8, <2>9, <2>11, <2>12, <2>13, <2>14, <2>15 DEF AlbumStep
  <2> QED BY <2>16, AlbumMoves
<1>4. CASE item[i] # "local"
  <2>1. Sending!NoAlbum /\ Sending!Sends({})
    BY <1>4 DEF Sending!MediaUploaded
  <2>2. sends' = sends /\ sent' \in [Items -> Nat] /\ \A j \in Items : sent'[j] = sent[j]
    <3> DEFINE new == {}
    <3>1. /\ new \in SUBSET (SUBSET Items) /\ \A s, t \in new : s \cap t # {} => s = t
          /\ \A j : ~\E s \in new : j \in s
      OBVIOUS
    <3>2. sends \cup new = sends /\ Sending!Sends(new)
      BY <2>1
    <3> HIDE DEF new
    <3> QED BY <1>2, <3>1, <3>2, SendsIs
  <2>3. sent' = sent
    BY <1>2, <2>2 DEF Types
  <2>4. UNCHANGED <<item, queue, uploadingId, partsLeft, requests, forgotten, timer, saved,
                    album, media, sends, sent>>
    BY <1>1, <2>1, <2>2, <2>3 DEF Sending!NoAlbum
  <2> QED BY <1>1, <2>4, OnlyAsked
<1> QED BY <1>3, <1>4

LEMMA MediaRejectedKeeps == ASSUME AlbumSetting, SendingIInv, NEW i \in Items,
    Sending!MediaRejected(i) PROVE SendingIInv'
<1>1. mediaAsked' \subseteq mediaAsked /\ ("deleted" \in stuck' <=> "deleted" \in stuck)
  BY DEF Sending!MediaRejected
<1>2. UNCHANGED <<item, queue, uploadingId, partsLeft, requests, forgotten, timer, saved,
                  album, media, sends, sent>>
  BY DEF Sending!MediaRejected
<1> QED BY <1>1, <1>2, OnlyAsked

LEMMA UnpreparedKeeps == ASSUME AlbumSetting, SendingIInv, NEW i \in Items, Sending!Unprepared(i)
    PROVE SendingIInv'
<1>1. /\ item[i] = "preparing" /\ item' = [item EXCEPT ![i] = "gone"] /\ media' = media
      /\ UNCHANGED <<queue, uploadingId, partsLeft, requests, forgotten, timer, saved,
                     mediaAsked, sends, sent>>
      /\ ("deleted" \in stuck' <=> "deleted" \in stuck)
      /\ IF i \in AlbumItems THEN album' = album \ {i} ELSE album' = album
  <2>1. CASE i \in AlbumItems
    <3>1. /\ album' = album \ {i} /\ media' = media
          /\ stuck' = stuck \cup IF album' \subseteq media THEN {"removed last"} ELSE {}
      BY <2>1 DEF Sending!Unprepared
    <3>2. "deleted" \in stuck' <=> "deleted" \in stuck
      BY <3>1
    <3> QED BY <2>1, <3>1, <3>2 DEF Sending!Unprepared
  <2>2. CASE i \notin AlbumItems
    BY <2>2 DEF Sending!Unprepared, Sending!NoAlbum
  <2> QED BY <2>1, <2>2
<1>2. Types /\ UploadOK(Sending!Uploader, saved) /\ EarlyItemsOK /\ SavedOK /\ AlbumOK /\ SendsOK
      /\ Sending!SentTogether /\ Sending!AlbumIsThere /\ Sending!SentOnce
  BY DEF SendingIInv
<1>3. item'[i] = "gone" /\ \A j \in Items : j # i => item'[j] = item[j]
  BY <1>1, <1>2 DEF Types
<1>4. /\ \A j \in Items : (EarlyItem(j)' => EarlyItem(j))
         /\ Sending!PartsOf(j)' = Sending!PartsOf(j)
      /\ i \notin Sending!ToSet(queue) /\ EarlyItem(i)
  <2>1. i \notin Sending!ToSet(queue)
    BY <1>1, <1>2 DEF EarlyItemsOK
  <2> QED BY <1>1, <1>3, <2>1 DEF EarlyItem, Sending!PartsOf
<1>5. i \notin mediaAsked \cup media /\ \A s \in sends : i \notin s
  BY <1>2, <1>4 DEF EarlyItemsOK
<1>6. /\ album # NoItem => album = {j \in AlbumItems : item[j] # "gone"} /\ media \subseteq album
      /\ album = NoItem => media = {} /\ i \notin AlbumItems
      /\ album' # NoItem => album # NoItem
      /\ album' = NoItem => album = NoItem
  <2>1. album # NoItem => album = {j \in AlbumItems : item[j] # "gone"} /\ media \subseteq album
    BY <1>2 DEF AlbumOK
  <2>2. album = NoItem => media = {} /\ i \notin AlbumItems
    BY <1>2, <1>4 DEF AlbumOK
  <2>3. album # NoItem => album \ {i} # NoItem
    BY <1>2 DEF Types, AlbumSetting
  <2> QED BY <1>1, <2>1, <2>2, <2>3
<1>7. Types'
  <2>1. item' \in [Items -> {"preparing", "local", "done", "gone"}]
    BY <1>1, <1>2 DEF Types
  <2>2. album' \in {NoItem} \cup SUBSET AlbumItems
    BY <1>1, <1>2, <1>6 DEF Types
  <2> QED BY <1>1, <1>2, <2>1, <2>2 DEF Types
<1>8. UploadOK(Sending!Uploader', saved')
  <2>1. Sending!Uploader' = Sending!Uploader
    BY <1>1 DEF Sending!Uploader
  <2> QED BY <1>1, <1>2, <2>1
<1>9. EarlyItemsOK'
  BY <1>1, <1>2, <1>3, <1>4 DEF EarlyItemsOK
<1>10. SavedOK'
  BY <1>1, <1>2, <1>4 DEF SavedOK
<1>11. AlbumOK'
  <2>1. ASSUME album' # NoItem
        PROVE  /\ album' = {j \in AlbumItems : item'[j] # "gone"} /\ media' \subseteq album'
               /\ \A j \in album' : item'[j] # "done"
    <3>1. \A j \in album : item[j] # "done" /\ j \in Items
      BY <1>2, <1>6, <2>1 DEF AlbumOK, AlbumSetting
    <3> QED BY <1>1, <1>3, <1>5, <1>6, <2>1, <3>1 DEF AlbumSetting
  <2>2. ASSUME album' = NoItem PROVE media' = {} /\ \A j \in AlbumItems : ~EarlyItem(j)'
    BY <1>1, <1>2, <1>4, <1>6, <2>2 DEF AlbumOK, AlbumSetting
  <2> QED BY <2>1, <2>2 DEF AlbumOK
<1>12. SendsOK'
  <2>1. ASSUME NEW s \in sends'
        PROVE  /\ s \subseteq Items /\ s # {}
               /\ s \cap AlbumItems # {} => s \subseteq AlbumItems
               /\ s \cap AlbumItems # {} => \A j \in s : ~(j \in mediaAsked' /\ item'[j] = "local")
               /\ s \cap AlbumItems # {} /\ album' # NoItem => Sending!Cardinality(s) # 1
    BY <1>1, <1>2, <1>3, <1>5, <1>6 DEF SendsOK
  <2>2. ASSUME "deleted" \notin stuck', album' # NoItem, album' \notin sends', NEW j \in album'
        PROVE  sent'[j] = 0
    <3>1. album \notin sends
      <4>1. CASE i \in album
        BY <1>5, <4>1
      <4>2. CASE i \notin album
        BY <1>1, <2>2, <4>2, <1>6
      <4> QED BY <4>1, <4>2
    <3> QED BY <1>1, <1>2, <1>6, <2>2, <3>1 DEF SendsOK
  <2> QED BY <2>1, <2>2 DEF SendsOK
<1>13. Sending!SentTogether'
  BY <1>1, <1>2, <1>3 DEF Sending!SentTogether, AlbumSetting
<1>14. Sending!AlbumIsThere'
  <2> SUFFICES ASSUME NEW j \in mediaAsked', item'[j] = "local"
               PROVE  album' # NoItem /\ j \in album' \ media'
    BY DEF Sending!AlbumIsThere
  <2>1. j # i /\ j \in Items /\ item[j] = "local"
    BY <1>1, <1>2, <1>3, <1>5 DEF Types, AlbumSetting
  <2>2. album # NoItem /\ j \in album \ media
    BY <1>1, <1>2, <2>1 DEF Sending!AlbumIsThere
  <2> QED BY <1>1, <1>6, <2>1, <2>2
<1>15. Sending!SentOnce'
  BY <1>1, <1>2 DEF Sending!SentOnce
<1> QED BY <1>7, <1>8, <1>9, <1>10, <1>11, <1>12, <1>13, <1>14, <1>15 DEF SendingIInv

LEMMA PauseKeeps == ASSUME AlbumSetting, SendingIInv, NEW i \in Items, Sending!Pause(i)
    PROVE SendingIInv'
<1>1. /\ mediaAsked' \subseteq mediaAsked /\ ("deleted" \in stuck' <=> "deleted" \in stuck)
      /\ UNCHANGED <<item, queue, uploadingId, partsLeft, requests, forgotten, timer, saved,
                     album, media, sends, sent>>
  BY DEF Sending!Pause
<1> QED BY <1>1, OnlyAsked

LEMMA SendAnswerKeeps == ASSUME AlbumSetting, SendingIInv, NEW s, NEW done,
    Sending!SendAnswered(s, done) PROVE SendingIInv'
<1>1. /\ s \in sends /\ sends' = sends \ {s} /\ stuck' = stuck
      /\ item' = [i \in Items |-> IF done /\ i \in s /\ item[i] = "local" THEN "done" ELSE item[i]]
      /\ album' = IF s \subseteq AlbumItems /\ Sending!Cardinality(s) > 1 THEN NoItem ELSE album
      /\ media' = IF album' = NoItem THEN {} ELSE media
      /\ UNCHANGED <<queue, uploadingId, partsLeft, requests, forgotten, timer, saved,
                     mediaAsked, sent>>
  BY DEF Sending!SendAnswered
<1>2. Types /\ UploadOK(Sending!Uploader, saved) /\ EarlyItemsOK /\ SavedOK /\ AlbumOK /\ SendsOK
      /\ Sending!SentTogether /\ Sending!AlbumIsThere /\ Sending!SentOnce
  BY DEF SendingIInv
<1>3. \A i \in Items :
         /\ item'[i] = item[i] \/ (i \in s /\ item[i] = "local" /\ item'[i] = "done")
         /\ item'[i] = "local" => item[i] = "local"
         /\ item'[i] = "gone" <=> item[i] = "gone"
         /\ item'[i] = "preparing" <=> item[i] = "preparing"
  BY <1>1
<1>4. \A i \in Items : /\ EarlyItem(i)' <=> EarlyItem(i)
                       /\ Sending!PartsOf(i)' = Sending!PartsOf(i)
                       /\ EarlyItem(i) => i \notin s
  <2>1. \A i \in Items : EarlyItem(i) => i \notin s
    BY <1>1, <1>2 DEF EarlyItemsOK
  <2> QED BY <1>1, <1>3, <2>1 DEF EarlyItem, Sending!PartsOf
<1>5. s \subseteq Items /\ s # {} /\ (s \cap AlbumItems # {} => s \subseteq AlbumItems)
  BY <1>1, <1>2 DEF SendsOK
\* While the album is there, its items are in no request that is answered now, or in all of it.
<1>6. /\ album' = NoItem => media' = {}
         /\ (album = NoItem \/ (s \subseteq AlbumItems /\ s \cap AlbumItems # {}))
      /\ album' # NoItem => album' = album /\ media' = media /\ s \cap AlbumItems = {}
  <2>1. CASE s \subseteq AlbumItems /\ Sending!Cardinality(s) > 1
    BY <1>1, <1>5, <2>1
  <2>2. CASE ~(s \subseteq AlbumItems /\ Sending!Cardinality(s) > 1)
    <3>1. album' = album
      BY <1>1, <2>2
    <3>2. ASSUME album # NoItem, s \cap AlbumItems # {} PROVE FALSE
      <4>1. s \subseteq AlbumItems /\ Sending!Cardinality(s) # 1
        BY <1>1, <1>2, <3>2 DEF SendsOK
      <4>2. IsFiniteSet(s)
        BY <4>1, FS_Subset DEF AlbumSetting
      <4>3. Sending!Cardinality(s) \in Nat /\ Sending!Cardinality(s) # 0
        BY <1>5, <4>2, FS_CardinalityType, SendingCounts, FS_EmptySet
      <4> QED BY <2>2, <4>1, <4>3
    <3> QED BY <1>1, <3>1, <3>2
  <2> QED BY <2>1, <2>2
<1>7. Types'
  <2>1. item' \in [Items -> {"preparing", "local", "done", "gone"}]
    BY <1>1, <1>2 DEF Types
  <2> QED BY <1>1, <1>2, <1>6, <2>1 DEF Types
<1>8. UploadOK(Sending!Uploader', saved')
  <2>1. Sending!Uploader' = Sending!Uploader
    BY <1>1 DEF Sending!Uploader
  <2> QED BY <1>1, <1>2, <2>1
<1>9. media' \subseteq media
  BY <1>6
<1>10. EarlyItemsOK'
  <2> SUFFICES ASSUME NEW i \in Items
               PROVE  /\ i \in Sending!ToSet(queue') => item'[i] = "local"
                      /\ item'[i] = "preparing" => partsLeft'[i] = ItemParts[i]
                      /\ EarlyItem(i)' => /\ sent'[i] = 0 /\ i \notin mediaAsked' \cup media'
                                      /\ \A t \in sends' : i \notin t
    BY DEF EarlyItemsOK
  <2>1. i \in Sending!ToSet(queue') => item'[i] = "local"
    BY <1>1, <1>2, <1>3, <1>4 DEF EarlyItemsOK, EarlyItem
  <2>2. item'[i] = "preparing" => partsLeft'[i] = ItemParts[i]
    BY <1>1, <1>2, <1>3 DEF EarlyItemsOK
  <2>3. EarlyItem(i)' => /\ sent'[i] = 0 /\ i \notin mediaAsked' \cup media'
                     /\ \A t \in sends' : i \notin t
    BY <1>1, <1>2, <1>4, <1>9 DEF EarlyItemsOK
  <2> QED BY <2>1, <2>2, <2>3
<1>11. SavedOK'
  BY <1>1, <1>2, <1>4, <1>9 DEF SavedOK
<1>12. AlbumOK'
  <2>1. ASSUME album' # NoItem
        PROVE  /\ album' = {j \in AlbumItems : item'[j] # "gone"} /\ media' \subseteq album'
               /\ \A j \in album' : item'[j] # "done"
    <3>1. /\ album = {j \in AlbumItems : item[j] # "gone"} /\ media \subseteq album
          /\ \A j \in album : item[j] # "done"
      BY <1>2, <1>6, <2>1 DEF AlbumOK
    <3>2. \A j \in AlbumItems : j \in Items /\ item'[j] = item[j]
      BY <1>3, <1>6, <2>1 DEF AlbumSetting
    <3> QED BY <1>6, <2>1, <3>1, <3>2
  <2>2. ASSUME album' = NoItem, NEW j \in AlbumItems PROVE ~EarlyItem(j)'
    <3>1. j \in Items
      BY DEF AlbumSetting
    <3>2. CASE album = NoItem
      BY <1>2, <1>4, <3>1, <3>2 DEF AlbumOK
    <3>3. CASE j \in s
      BY <1>4, <3>1, <3>3
    <3>4. CASE j \notin s /\ s \cap AlbumItems # {}
      <4>1. item[j] = "gone"
        BY <1>1, <1>2, <3>4 DEF Sending!SentTogether
      <4> QED BY <1>2, <1>4, <3>1, <4>1 DEF EarlyItem, EarlyItemsOK
    <3> QED BY <1>6, <2>2, <3>2, <3>3, <3>4
  <2> QED BY <1>6, <2>1, <2>2 DEF AlbumOK
<1>13. SendsOK'
  <2>1. ASSUME NEW t \in sends'
        PROVE  /\ t \subseteq Items /\ t # {}
               /\ t \cap AlbumItems # {} => t \subseteq AlbumItems
               /\ t \cap AlbumItems # {} => \A j \in t : ~(j \in mediaAsked' /\ item'[j] = "local")
               /\ t \cap AlbumItems # {} /\ album' # NoItem => Sending!Cardinality(t) # 1
    <3>1. /\ t \subseteq Items /\ t # {}
          /\ t \cap AlbumItems # {} => t \subseteq AlbumItems
          /\ t \cap AlbumItems # {} => \A j \in t : ~(j \in mediaAsked /\ item[j] = "local")
          /\ t \cap AlbumItems # {} /\ album # NoItem => Sending!Cardinality(t) # 1
      BY <1>1, <1>2 DEF SendsOK
    <3>2. album' # NoItem => album # NoItem
      BY <1>6
    <3> QED BY <1>1, <1>3, <3>1, <3>2
  <2>2. ASSUME "deleted" \notin stuck', album' # NoItem, album' \notin sends', NEW j \in album'
        PROVE  sent'[j] = 0
    <3>1. album \notin sends
      <4>1. album # s
        BY <1>2, <1>5, <1>6, <2>2 DEF AlbumOK
      <4> QED BY <1>1, <1>6, <2>2, <4>1
    <3> QED BY <1>1, <1>2, <1>6, <2>2, <3>1 DEF SendsOK
  <2> QED BY <2>1, <2>2 DEF SendsOK
<1>14. Sending!SentTogether'
  BY <1>1, <1>2, <1>3 DEF Sending!SentTogether, AlbumSetting
<1>15. Sending!AlbumIsThere'
  <2> SUFFICES ASSUME NEW j \in mediaAsked', item'[j] = "local"
               PROVE  album' # NoItem /\ j \in album' \ media'
    BY DEF Sending!AlbumIsThere
  <2>1. j \in mediaAsked /\ j \in AlbumItems /\ j \in Items /\ item[j] = "local"
    BY <1>1, <1>2, <1>3 DEF Types, AlbumSetting
  <2>2. album # NoItem /\ j \in album \ media
    BY <1>2, <2>1 DEF Sending!AlbumIsThere
  <2>3. CASE s \cap AlbumItems # {}
    <3>1. j \in s
      BY <1>1, <1>2, <2>1, <2>3 DEF Sending!SentTogether
    <3> QED BY <1>1, <1>2, <2>1, <2>3, <3>1 DEF SendsOK
  <2>4. CASE s \cap AlbumItems = {}
    <3>1. album' # NoItem
      BY <1>6, <2>2, <2>4
    <3> QED BY <1>6, <2>2, <3>1
  <2> QED BY <2>3, <2>4
<1>16. Sending!SentOnce'
  BY <1>1, <1>2 DEF Sending!SentOnce
<1> QED BY <1>7, <1>8, <1>10, <1>11, <1>12, <1>13, <1>14, <1>15, <1>16 DEF SendingIInv

LEMMA DestroyKeeps == ASSUME AlbumSetting, SendingIInv, NEW i \in Items, Sending!Destroy(i)
    PROVE SendingIInv'
<1> DEFINE stopped == Sending!CancelUpload(Sending!Uploader, i, Sending!Paused)
           u == IF pausedId = i THEN Sending!SendNext(stopped, FALSE) ELSE stopped
<1>1. /\ item[i] = "local" /\ item' = [item EXCEPT ![i] = "gone"] /\ saved' = saved
      /\ Sending!UploaderBecomes(u, item')
      /\ IF i \in AlbumItems /\ album # NoItem
         THEN /\ Sending!AlbumBecomes(album \ {i}, media)
              /\ Sending!Sends(Sending!AlbumSends(album \ {i}, media) \cup Sending!Singles(u,
                 item'))
         ELSE Sending!NoAlbum /\ Sending!Sends(Sending!Singles(u, item'))
      /\ stuck' = stuck \cup IF \E s \in sends : i \in s THEN {"deleted"} ELSE {}
  BY DEF Sending!Destroy
<1>2. /\ UploadOK(stopped, saved) /\ UploadKeeps(Sending!Uploader, stopped)
      /\ i \notin Sending!ToSet(stopped.queue) \cup stopped.ready
  BY UploaderNow, CancelUploadIs
<1> HIDE DEF stopped
<1>3. UploadOK(u, saved) /\ UploadKeeps(Sending!Uploader, u)
      /\ i \notin Sending!ToSet(u.queue) \cup u.ready
  <2>1. CASE pausedId = i
    <3>1. u = Sending!SendNext(stopped, FALSE)
      BY <2>1
    <3> HIDE DEF u
    <3>2. UploadOK(u, saved) /\ UploadKeeps(stopped, u)
      BY <1>2, <3>1, SendNextIs
    <3>3. i \notin Sending!ToSet(u.queue) \cup u.ready
      BY <1>2, <3>2 DEF UploadKeeps
    <3> QED BY <1>2, <3>2, <3>3, UploadKeepsOn
  <2>2. CASE pausedId # i
    <3>1. u = stopped
      BY <2>2
    <3> QED BY <1>2, <3>1
  <2> QED BY <2>1, <2>2
<1> HIDE DEF u
<1>4. Types /\ EarlyItemsOK /\ SavedOK /\ AlbumOK /\ SendsOK /\ Sending!SentTogether
      /\ Sending!AlbumIsThere
  BY DEF SendingIInv
<1>5. /\ item'[i] = "gone" /\ \A j \in Items : j # i => item'[j] = item[j]
      /\ item' \in [Items -> {"preparing", "local", "done", "gone"}]
  BY <1>1, <1>4 DEF Types
<1>6. \A j \in Sending!ToSet(u.queue) \cup u.ready : j \in Items /\ EarlyItem(j)
      /\ item[j] = "local" /\ item'[j] = "local"
  <2>1. Sending!ToSet(u.queue) \cup u.ready \subseteq Sending!ToSet(queue)
    BY <1>3, UploaderNow DEF UploadKeeps
  <2>2. Sending!ToSet(queue) \subseteq Items
    BY UploaderNow DEF Sending!ToSet
  <2> QED BY <1>3, <1>5, <2>1, <2>2, UploaderNow
<1>7. \A j \in Items : item'[j] = "preparing" => u.left[j] = ItemParts[j]
  <2> SUFFICES ASSUME NEW j \in Items, item'[j] = "preparing" PROVE u.left[j] = ItemParts[j]
    OBVIOUS
  <2>1. item[j] = "preparing"
    BY <1>5
  <2>2. j \notin Sending!ToSet(queue) /\ partsLeft[j] = ItemParts[j]
    BY <1>4, <2>1 DEF EarlyItemsOK
  <2> QED BY <1>3, <2>2, UploaderNow DEF UploadKeeps
<1>8. UploadOK(u, saved') /\ saved \subseteq saved'
  BY <1>1, <1>3
<1>9. CASE ~(i \in AlbumItems /\ album # NoItem)
  <2>1. \A j \in Items :
              \/ item'[j] = item[j]
              \/ item[j] = "preparing" /\ item'[j] = "local"
              \/ item[j] = "local" /\ item'[j] = "gone" /\ (album = NoItem \/ j \notin AlbumItems)
    BY <1>1, <1>5, <1>9
  <2>2. Sending!UploaderBecomes(u, item') /\ Sending!Sends(Sending!Singles(u, item'))
        /\ Sending!NoAlbum
    BY <1>1, <1>9
  <2>3. "deleted" \in stuck => "deleted" \in stuck'
    BY <1>1
  <2>4. /\ \A j \in Sending!ToSet(u.queue) \cup u.ready : EarlyItem(j)
        /\ \A j \in Sending!ToSet(u.queue) : item'[j] = "local"
        /\ \A j \in u.ready : item'[j] = "local" => item[j] = "local" /\ item'[j] = "local"
    BY <1>6
  <2> QED BY <1>5, <1>7, <1>8, <2>1, <2>2, <2>3, <2>4, UploadsKeep
<1>10. CASE i \in AlbumItems /\ album # NoItem
  <2> DEFINE items == album \ {i}
             new == Sending!Singles(u, item')
  <2>1. Sending!AlbumBecomes(items, media)
        /\ Sending!Sends(Sending!AlbumSends(items, media) \cup new)
    BY <1>1, <1>10
  <2>2. /\ UploadOK(Sending!Uploader', saved') /\ queue' = u.queue /\ partsLeft' = u.left
        /\ \A j \in mediaAsked' : j \in mediaAsked \/ (j \in u.ready /\ j \in AlbumItems)
    BY <1>1, <1>8, UploaderIs
  <2>3. \A j \in Items : EarlyItem(j)' <=> item'[j] = "preparing" \/ j \in Sending!ToSet(u.queue)
    BY <2>2 DEF EarlyItem
  <2>4. \A j \in Items : EarlyItem(j)' => EarlyItem(j)
    BY <1>5, <1>6, <2>3 DEF EarlyItem
  <2>5. items = {j \in AlbumItems : item'[j] # "gone"} /\ items \in SUBSET album /\ i \in album
    BY <1>1, <1>4, <1>5, <1>10 DEF AlbumOK, AlbumSetting
  <2>6. \A j \in u.ready : ~EarlyItem(j)' /\ Sending!PartsOf(j) \subseteq saved'
    BY <1>6, <1>8, <2>3 DEF UploadOK
  <2>7. \A j \in mediaAsked \cup media : j \in Items /\ ~EarlyItem(j)
        /\ Sending!PartsOf(j) \subseteq saved
    BY <1>4 DEF EarlyItemsOK, SavedOK, Types, AlbumSetting
  <2>8. \A j \in u.ready : j \in Items /\ j \notin media /\ \A s \in sends : j \notin s
    BY <1>4, <1>6 DEF EarlyItemsOK
  <2>9. \A j \in mediaAsked : item'[j] = "local" => j \notin media
    BY <1>4, <1>5, <2>7 DEF Sending!AlbumIsThere
  <2>10. /\ mediaAsked' \subseteq AlbumItems
         /\ \A j \in mediaAsked' :
               /\ ~EarlyItem(j)' /\ Sending!PartsOf(j) \subseteq saved'
               /\ item'[j] = "local" => j \notin media
               /\ \A s \in sends : j \in s => j \in mediaAsked
    <3>1. mediaAsked' \subseteq AlbumItems
      BY <1>4, <2>2 DEF Types
    <3>2. ASSUME NEW j \in mediaAsked'
          PROVE  /\ ~EarlyItem(j)' /\ Sending!PartsOf(j) \subseteq saved'
                 /\ item'[j] = "local" => j \notin media
                 /\ \A s \in sends : j \in s => j \in mediaAsked
      <4>1. CASE j \in mediaAsked
        BY <1>8, <2>4, <2>7, <2>9, <4>1
      <4>2. CASE j \in u.ready
        BY <2>6, <2>8, <4>2
      <4> QED BY <2>2, <4>1, <4>2
    <3> QED BY <3>1, <3>2
  <2>11. \A j \in media \cap items : ~EarlyItem(j)' /\ Sending!PartsOf(j) \subseteq saved'
    BY <1>8, <2>4, <2>7
  <2>12. /\ new \in SUBSET (SUBSET Items) /\ \A s, t \in new : s \cap t # {} => s = t
         /\ \A s \in new : \E j \in Items \ AlbumItems :
               s = {j} /\ EarlyItem(j) /\ ~EarlyItem(j)' /\ Sending!PartsOf(j) \subseteq saved'
    <3>1. /\ new \in SUBSET (SUBSET Items) /\ \A s, t \in new : s \cap t # {} => s = t
          /\ \A s \in new : \E j \in u.ready \ AlbumItems : s = {j} /\ item'[j] = "local"
      BY <1>3, SinglesAre
    <3> HIDE DEF new
    <3> QED BY <1>6, <2>6, <3>1
  <2>13. album \in sends => "deleted" \in stuck'
    BY <1>1, <2>5
  <2>14. media \in SUBSET AlbumItems
    BY <1>4 DEF Types
  <2> HIDE DEF items, new
  <2>15. /\ \A j \in Items : item'[j] = item[j] \/ (item[j] = "local" /\ item'[j] = "gone")
         /\ \A j \in Items : item'[j] = "preparing" => partsLeft'[j] = ItemParts[j]
         /\ \A j \in Sending!ToSet(queue') : item'[j] = "local"
         /\ "deleted" \in stuck => "deleted" \in stuck'
    BY <1>1, <1>5, <1>6, <1>7, <2>2
  <2>16. AlbumStep(items, media, new)
    BY <1>5, <1>8, <1>10, <2>1, <2>2, <2>4, <2>5, <2>10, <2>11, <2>12, <2>13, <2>14, <2>15
       DEF AlbumStep
  <2> QED BY <2>16, AlbumMoves
<1> QED BY <1>9, <1>10

LEMMA SendingBegins == ASSUME AlbumSetting, Sending!Init PROVE SendingIInv
<1>1. Types
  BY DEF Sending!Init, Types, AlbumSetting
<1>2. UploadOK(Sending!Uploader, saved)
  <2>1. /\ Sending!Uploader.queue = <<>> /\ Sending!Uploader.current = NoItem
           /\ Sending!Uploader.left = ItemParts
        /\ Sending!Uploader.requests = {} /\ Sending!Uploader.forgotten = {}
           /\ Sending!Uploader.timer = FALSE
        /\ Sending!Uploader.ready = {}
    BY DEF Sending!Init, Sending!Uploader
  <2>2. Sending!Uploader \in Uploaders
    <3>1. /\ <<>> \in Seq(Items) /\ NoItem \in Sending!Optional(Items)
             /\ ItemParts \in [Items -> Nat]
          /\ {} \in SUBSET (Items \X Nat) /\ FALSE \in BOOLEAN /\ {} \in SUBSET Items
      BY DEF AlbumSetting, Sending!Optional
    <3> QED BY <3>1 DEF Sending!Init, Sending!Uploader, Uploaders
  <2>3. Sending!ToSet(<<>>) = {} /\ Distinct(<<>>)
    BY DEF Sending!ToSet, Distinct
  <2> QED BY <2>1, <2>2, <2>3 DEF UploadOK
<1>3. EarlyItemsOK /\ SavedOK
  BY DEF Sending!Init, EarlyItemsOK, SavedOK, EarlyItem, Sending!ToSet
<1>4. AlbumOK
  BY DEF Sending!Init, AlbumOK, AlbumSetting
<1>5. SendsOK /\ Sending!SentTogether /\ Sending!AlbumIsThere /\ Sending!SentOnce
  BY DEF Sending!Init, SendsOK, Sending!SentTogether, Sending!AlbumIsThere, Sending!SentOnce,
         AlbumSetting
<1> QED BY <1>1, <1>2, <1>3, <1>4, <1>5 DEF SendingIInv

LEMMA SendingKeeps == ASSUME AlbumSetting, SendingIInv, [Sending!Next]_(Sending!vars)
    PROVE SendingIInv'
<1>1. ASSUME NEW i \in Items, Sending!Prepared(i) \/ Sending!MediaUploaded(i) PROVE SendingIInv'
  BY <1>1, PreparedKeeps, MediaUploadedKeeps
<1>2. CASE Sending!TimerFires
  BY <1>2, TimerKeeps
<1>3. ASSUME NEW r, Sending!PartLoaded(r) PROVE SendingIInv'
  BY <1>3, PartLoadedKeeps
<1>4. ASSUME NEW s, NEW done, Sending!SendAnswered(s, done) PROVE SendingIInv'
  BY <1>4, SendAnswerKeeps
<1>5. CASE Sending!Unpause
  BY <1>5, UnpauseKeeps
<1>6. ASSUME NEW i \in Items,
             Sending!Unprepared(i) \/ Sending!Pause(i) \/ Sending!Destroy(i) \/ Sending!MediaRejected(i) PROVE SendingIInv'
  BY <1>6, UnpreparedKeeps, PauseKeeps, DestroyKeeps, MediaRejectedKeeps
<1>7. ASSUME NEW r, Sending!PartFailed(r) PROVE SendingIInv'
  BY <1>7, PartFailedKeeps
<1>8. CASE UNCHANGED Sending!vars
  <2>1. /\ mediaAsked' \subseteq mediaAsked /\ ("deleted" \in stuck' <=> "deleted" \in stuck)
        /\ UNCHANGED <<item, queue, uploadingId, partsLeft, requests, forgotten, timer, saved,
                       album, media, sends, sent>>
    BY <1>8 DEF Sending!vars
  <2> QED BY <2>1, OnlyAsked
<1> QED BY <1>1, <1>2, <1>3, <1>4, <1>5, <1>6, <1>7, <1>8 DEF Sending!Next, Sending!Progress

LEMMA SendingImplies == ASSUME AlbumSetting, SendingIInv PROVE Sending!AlbumGoesOnce
<1>1. Sending!SentIsSaved
  BY DEF SendingIInv, SavedOK, Sending!SentIsSaved
<1>2. Sending!RequestsAreCurrent
  <2>1. /\ uploadingId # NoItem => uploadingId \in Sending!ToSet(queue)
        /\ \A r \in requests : r[1] = uploadingId /\ r \in Items \X Nat
    BY UploaderNow DEF UploadOK, Uploaders
  <2>2. \A r \in requests : r[1] # NoItem
    BY <2>1 DEF AlbumSetting
  <2> QED BY <2>1, <2>2 DEF Sending!RequestsAreCurrent
<1>3. Sending!SentTogether /\ Sending!AlbumIsThere /\ Sending!SentOnce
  BY DEF SendingIInv
<1> QED BY <1>1, <1>2, <1>3 DEF Sending!AlbumGoesOnce

\* For any number of files, parts, requests at once, failed parts, deleted messages and pauses,
\* what is sent was uploaded, requests are those of the current file, and the album goes whole,
\* and once unless an item is deleted while it is being sent: AlbumGoesOnce.
THEOREM AlbumsGoOnce == AlbumSetting => (Sending!Spec => []Sending!AlbumGoesOnce)
<1> SUFFICES ASSUME AlbumSetting PROVE Sending!Spec => []Sending!AlbumGoesOnce
  OBVIOUS
<1>1. Sending!Init => SendingIInv
  BY SendingBegins
<1>2. SendingIInv /\ [Sending!Next]_(Sending!vars) => SendingIInv'
  BY SendingKeeps
<1>3. SendingIInv => Sending!AlbumGoesOnce
  BY SendingImplies
<1> QED BY <1>1, <1>2, <1>3, PTL DEF Sending!Spec

-----------------------------------------------------------------------------
(***************************************************************************)
(* The loaders of a data centre: every part of a file is somewhere until   *)
(* the file is whole, and those who wait for their turn are in the queue,  *)
(* the urgent ones first.                                                  *)
(***************************************************************************)
LoaderSetting ==
    /\ LoaderParts \in [Loaders -> Nat \ {0}]
    /\ MaxStarts \in Nat /\ MaxRedirects \in Nat /\ MaxLoaderFaults \in Nat

HashRequests(s) == {r \in s.sent : r.kind = "hashes"}
\* What is asked is asked for a loader that loads, and what was requested is somewhere.
BusyOK(s) ==
    /\ s.sent # {} => s.alive /\ ~s.finished /\ s.local = "NotFound"
    /\ s.local = "Loaded" => s.finished
PartsOK(l, s) ==
    /\ \A r \in s.sent : r.part < s.next
    /\ \A p \in s.unchecked : p < s.next
    /\ s.lastComplete => s.next >= LoaderParts[l]
Covered(l, s, parts) ==
    s.alive /\ ~s.finished =>
        \A p \in 0..s.next - 1 : \/ p \in s.got \/ p \in s.unchecked \/ p >= LoaderParts[l]
                                 \/ p \in parts
                                 \/ \E r \in s.sent : r.kind # "hashes" /\ r.part = p
HashesOK(s) ==
    /\ HashRequests(s) # {} => s.hashesAsked
    /\ \A r, q \in HashRequests(s) : r = q
    /\ s.hashesAsked => s.unchecked # {}
    /\ s.alive /\ ~s.finished /\ ~s.orphaned /\ s.hashesAsked => HashRequests(s) # {}
WholeOK(l, s) == s.finished /\ ~s.cancelled => s.got = Loader!FileParts(l)
AlmostGood(l, s, parts) ==
    /\ s \in Loader!LoaderStates(l)
    /\ BusyOK(s) /\ PartsOK(l, s) /\ Covered(l, s, parts) /\ HashesOK(s) /\ WholeOK(l, s)
AskedForOK(s) == s.alive /\ ~s.finished /\ ~s.orphaned /\ s.unchecked # {} => s.hashesAsked
LoaderGood(l, s) == AlmostGood(l, s, {}) /\ AskedForOK(s)

\* What LoadNextFromQueue() leaves alone.
AsBusy(s, t) ==
    /\ t.alive = s.alive /\ t.finished = s.finished /\ t.local = s.local /\ t.priority = s.priority

\* Every set of natural numbers has a least one.
Smaller == {ss \in Nat \X Nat : ss[1] < ss[2]}
LEMMA SmallerIsWellFounded == IsWellFoundedOn(Smaller, Nat)
<1>1. Smaller = OpToRel(<, Nat)
  BY DEF Smaller, OpToRel
<1> QED BY <1>1, NatLessThanWellFounded

LEMMA MinIs ==
    ASSUME NEW S \in SUBSET Nat, S # {}
    PROVE  Loader!Min(S) \in S /\ \A x \in S : Loader!Min(S) <= x
<1>1. PICK x \in S : \A y \in S : ~(<<y, x>> \in Smaller)
  BY WFMin, SmallerIsWellFounded
<1>2. ASSUME NEW y \in S PROVE x <= y
  <2>1. <<y, x>> \in Nat \X Nat /\ ~(<<y, x>> \in Smaller)
    BY <1>1
  <2> QED BY <2>1 DEF Smaller
<1> QED BY <1>2 DEF Loader!Min

LEMMA PartsRequest ==
    ASSUME NEW p \in Nat
    PROVE  Loader!PartRequest(p) \in Loader!Requests /\ Loader!PartRequest(p).part = p
           /\ Loader!PartRequest(p).kind = "part"
  BY DEF Loader!PartRequest, Loader!Requests, Loader!Kinds

\* loadPart(), again and again.
LEMMA LoadGood ==
    ASSUME LoaderSetting, NEW l \in Loaders, NEW s, AlmostGood(l, s, {}),
           NEW n \in 0..Loader!Wanted(s),
           n # 0 => s.local = "NotFound"
    PROVE  /\ AlmostGood(l, Loader!LoadParts(s, n), {}) /\ AsBusy(s, Loader!LoadParts(s, n))
           /\ AskedForOK(s) => AskedForOK(Loader!LoadParts(s, n))
<1> DEFINE t == Loader!LoadParts(s, n)
           new == s.sent \cup {Loader!PartRequest(p) : p \in s.next..s.next + n - 1}
           m == s.next + n
<1>0. s \in Loader!LoaderStates(l) /\ Loader!Wanted(s) \in Nat /\ LoaderParts[l] \in Nat \ {0}
  BY DEF AlmostGood, Loader!LoaderStates, Loader!Wanted, LoaderSetting
<1>1. n \in Nat /\ m \in Nat /\ s.next \in Nat
    /\ \A p \in s.next..m - 1 : p \in Nat /\ Loader!PartRequest(p) \in Loader!Requests
    /\ Loader!PartRequest(p).part = p /\ Loader!PartRequest(p).kind = "part"
  BY <1>0, PartsRequest DEF Loader!LoaderStates
<1>2. new \subseteq Loader!Requests
  BY <1>0, <1>1 DEF Loader!LoaderStates
<1>3. t = [s EXCEPT !.next = m, !.sent = new]
  BY <1>0 DEF Loader!LoadParts, Loader!LoaderStates
<1>4. n # 0 => s.alive /\ ~s.finished /\ s.local = "NotFound" /\ ~s.lastComplete
  BY <1>0 DEF Loader!Wanted
<1>6. \A r \in new : r \in s.sent \/ (n # 0 /\ r.kind = "part" /\ r.part \in s.next..m - 1)
  BY <1>1
<1>7. \A p \in s.next..m - 1 : \E r \in new : r.kind # "hashes" /\ r.part = p
  BY <1>1
<1>8. s.sent \subseteq new /\ m >= s.next
  BY <1>1
<1> HIDE DEF t, new
<1>9. t \in Loader!LoaderStates(l) /\ t.next = m /\ t.sent = new /\ t.alive = s.alive
      /\ t.finished = s.finished /\ t.local = s.local /\ t.priority = s.priority
      /\ t.unchecked = s.unchecked /\ t.got = s.got /\ t.hashesAsked = s.hashesAsked
      /\ t.orphaned = s.orphaned /\ t.cancelled = s.cancelled /\ t.lastComplete = s.lastComplete
  BY <1>0, <1>1, <1>2, <1>3 DEF Loader!LoaderStates
<1>10. PartsOK(l, t)
  <2>1. \A r \in s.sent : r.part < s.next /\ r.part \in Nat
    BY <1>0 DEF AlmostGood, PartsOK, Loader!LoaderStates, Loader!Requests
  <2>2. \A p \in s.unchecked : p < s.next /\ p \in Nat
    BY <1>0 DEF AlmostGood, PartsOK, Loader!LoaderStates
  <2> QED BY <2>1, <2>2, <1>9, <1>6, <1>1, <1>0, <1>8 DEF AlmostGood, PartsOK
<1>11. Covered(l, t, {})
  <2> SUFFICES ASSUME s.alive, ~s.finished, NEW p \in 0..m - 1
               PROVE  \/ p \in t.got \/ p \in t.unchecked \/ p >= LoaderParts[l]
                      \/ \E r \in new : r.kind # "hashes" /\ r.part = p
    BY <1>9 DEF Covered
  <2>1. p \in 0..s.next - 1 \/ p \in s.next..m - 1
    BY <1>1
  <2> QED BY <2>1, <1>7, <1>8, <1>9 DEF AlmostGood, Covered
<1>12. BusyOK(t) /\ WholeOK(l, t)
  BY <1>9, <1>6, <1>4 DEF AlmostGood, BusyOK, WholeOK
<1>13. HashesOK(t) /\ (AskedForOK(s) => AskedForOK(t))
  <2>1. HashRequests(t) = HashRequests(s)
    BY <1>9, <1>6, <1>8 DEF HashRequests
  <2> QED BY <2>1, <1>9 DEF AlmostGood, HashesOK, AskedForOK
<1>14. AlmostGood(l, t, {}) /\ AsBusy(s, t) /\ (AskedForOK(s) => AskedForOK(t))
  BY <1>9, <1>10, <1>11, <1>12, <1>13 DEF AlmostGood, AsBusy
<1> QED BY <1>14 DEF t

\* A loader that is loading.
IsLoading(s) == s.alive /\ ~s.finished /\ s.local = "NotFound"

LEMMA FeedGood ==
    ASSUME LoaderSetting, NEW l \in Loaders, NEW s, NEW parts \in SUBSET Nat,
           AlmostGood(l, s, parts),
           IsLoading(s), \A p \in parts : p < s.next
    PROVE  LET t == Loader!Feed(l, s, parts) IN
           /\ AlmostGood(l, t, {}) /\ t.alive /\ t.local = s.local /\ t.priority = s.priority
           /\ AskedForOK(s) => AskedForOK(t)
           /\ t.hashesAsked = s.hashesAsked
<1> DEFINE end == \E p \in parts : p >= LoaderParts[l] \/ (l \in Short /\ p = LoaderParts[l] - 1)
           have == s.got \cup (parts \cap Loader!FileParts(l))
           done == s.lastComplete \/ end
           over == /\ s.sent = {} /\ s.unchecked = {}
                   /\ s.lastComplete \/ end \/ (s.size > 0 /\ s.next >= s.size)
           t == [s EXCEPT !.got = have, !.lastComplete = done, !.finished = over]
<1>0. s \in Loader!LoaderStates(l) /\ LoaderParts[l] \in Nat \ {0} /\ s.next \in Nat
  BY DEF AlmostGood, Loader!LoaderStates, LoaderSetting
<1>1. Loader!Feed(l, s, parts) = t
  BY <1>0 DEF Loader!Feed, Loader!LoaderStates
<1>2. have \subseteq Loader!FileParts(l) /\ done \in BOOLEAN /\ over \in BOOLEAN
  BY <1>0 DEF Loader!LoaderStates
<1>3. end => s.next >= LoaderParts[l]
  BY <1>0
<1>4. over => s.next >= LoaderParts[l]
  BY <1>0, <1>3 DEF AlmostGood, PartsOK, Loader!LoaderStates
<1>5. over => have = Loader!FileParts(l)
  <2> SUFFICES ASSUME over, NEW p \in Loader!FileParts(l) PROVE p \in have
    BY <1>2
  <2>1. p \in 0..s.next - 1 /\ ~(p >= LoaderParts[l])
    BY <1>4, <1>0 DEF Loader!FileParts
  <2> QED BY <2>1 DEF AlmostGood, Covered, IsLoading
<1>6. \A p \in parts : p \in have \/ p >= LoaderParts[l]
  <2> SUFFICES ASSUME NEW p \in parts, ~(p >= LoaderParts[l]) PROVE p \in have
    OBVIOUS
  <2>1. p \in Nat /\ p \in 0..LoaderParts[l] - 1
    BY <1>0
  <2> QED BY <2>1 DEF Loader!FileParts
<1> HIDE DEF have, done, over
<1>7. t \in Loader!LoaderStates(l) /\ t.next = s.next /\ t.sent = s.sent /\ t.alive = s.alive
      /\ t.finished = over /\ t.local = s.local /\ t.priority = s.priority
      /\ t.unchecked = s.unchecked /\ t.got = have /\ t.hashesAsked = s.hashesAsked
      /\ t.orphaned = s.orphaned /\ t.cancelled = s.cancelled /\ t.lastComplete = done
  BY <1>0, <1>2 DEF Loader!LoaderStates
<1>8. over => s.sent = {}
  BY DEF over
<1>9. done => s.next >= LoaderParts[l]
  BY <1>3 DEF done, AlmostGood, PartsOK
<1>10. s.got \subseteq have
  BY DEF have
<1> HIDE DEF t
<1>11. PartsOK(l, t)
  BY <1>7, <1>9 DEF AlmostGood, PartsOK
<1>12. Covered(l, t, {})
  BY <1>7, <1>6, <1>10 DEF AlmostGood, Covered, IsLoading
<1>13. BusyOK(t) /\ WholeOK(l, t)
  BY <1>7, <1>8, <1>5 DEF AlmostGood, BusyOK, WholeOK, IsLoading
<1>14. HashesOK(t) /\ (AskedForOK(s) => AskedForOK(t))
  BY <1>7 DEF AlmostGood, HashesOK, HashRequests, AskedForOK, IsLoading
<1> QED BY <1>1, <1>7, <1>11, <1>12, <1>13, <1>14 DEF AlmostGood, IsLoading

LEMMA MoreHashes ==
    ASSUME LoaderSetting, NEW l \in Loaders, NEW s, AlmostGood(l, s, {}), IsLoading(s)
    PROVE  LoaderGood(l, Loader!RequestMoreHashes(s)) /\ AsBusy(s, Loader!RequestMoreHashes(s))
<1>0. s \in Loader!LoaderStates(l)
  BY DEF AlmostGood
<1>1. CASE s.hashesAsked \/ s.unchecked = {}
  BY <1>1 DEF Loader!RequestMoreHashes, LoaderGood, AskedForOK, AsBusy
<1>2. CASE ~(s.hashesAsked \/ s.unchecked = {})
  <2> DEFINE q == [kind |-> "hashes", part |-> Loader!Min(s.unchecked)]
             new == s.sent \cup {q}
             t == [s EXCEPT !.hashesAsked = TRUE, !.sent = new]
  <2>1. Loader!RequestMoreHashes(s) = t
    BY <1>2 DEF Loader!RequestMoreHashes
  <2>2. q \in Loader!Requests /\ q.part \in s.unchecked /\ q.kind = "hashes"
    BY <1>0, <1>2, MinIs DEF Loader!LoaderStates, Loader!Requests, Loader!Kinds
  <2> HIDE DEF q
  <2>3. HashRequests(s) = {} /\ new \subseteq Loader!Requests
    BY <1>0, <1>2, <2>2 DEF AlmostGood, HashesOK, Loader!LoaderStates
  <2>4. \A r \in new : r \in s.sent \/ r = q
    OBVIOUS
  <2>5. s.sent \subseteq new /\ q \in new
    OBVIOUS
  <2> HIDE DEF new
  <2>6. t \in Loader!LoaderStates(l) /\ t.next = s.next /\ t.sent = new /\ t.alive = s.alive
      /\ t.finished = s.finished /\ t.local = s.local /\ t.priority = s.priority
      /\ t.unchecked = s.unchecked /\ t.got = s.got /\ t.hashesAsked = TRUE
      /\ t.orphaned = s.orphaned /\ t.cancelled = s.cancelled /\ t.lastComplete = s.lastComplete
    BY <1>0, <2>3 DEF Loader!LoaderStates
  <2> HIDE DEF t
  <2>7. BusyOK(t) /\ WholeOK(l, t) /\ AskedForOK(t)
    BY <2>6 DEF AlmostGood, BusyOK, WholeOK, AskedForOK, IsLoading
  <2>8. PartsOK(l, t)
    BY <2>6, <2>4, <2>2 DEF AlmostGood, PartsOK
  <2>9. Covered(l, t, {})
    BY <2>6, <2>5 DEF AlmostGood, Covered
  <2>10. HashesOK(t)
    <3>1. HashRequests(t) = {q}
      BY <2>6, <2>4, <2>5, <2>2, <2>3 DEF HashRequests
    <3> QED BY <3>1, <2>6, <1>2 DEF HashesOK
  <2> QED BY <2>1, <2>6, <2>7, <2>8, <2>9, <2>10 DEF LoaderGood, AlmostGood, AsBusy
<1> QED BY <1>1, <1>2

\* What is left when a request is done, whose part is taken care of.
LEMMA Finishes ==
    ASSUME LoaderSetting, NEW l \in Loaders, NEW s, LoaderGood(l, s), NEW r \in s.sent,
           r.kind # "hashes", NEW t, t = Loader!FinishSent(s, r)
    PROVE  /\ AlmostGood(l, t, {r.part}) /\ AskedForOK(t) /\ IsLoading(t) /\ IsLoading(s)
           /\ r.part \in Nat /\ r.part < t.next
           /\ t.priority = s.priority /\ t.hashesAsked = s.hashesAsked /\ t.next = s.next
           /\ t.unchecked = s.unchecked /\ t.sent = s.sent \ {r} /\ t.hashes = s.hashes
<1> DEFINE new == s.sent \ {r}
<1>0. s \in Loader!LoaderStates(l) /\ t = [s EXCEPT !.sent = new]
  BY DEF LoaderGood, AlmostGood, Loader!FinishSent
<1>1. new \subseteq s.sent /\ \A q \in s.sent : q \in new \/ q = r
  OBVIOUS
<1>2. r.part \in Nat /\ r.part < s.next /\ IsLoading(s)
  BY <1>0
     DEF LoaderGood, AlmostGood, Loader!LoaderStates, Loader!Requests, PartsOK, BusyOK,
         IsLoading
<1> HIDE DEF new
<1>3. t \in Loader!LoaderStates(l) /\ t.next = s.next /\ t.sent = new /\ t.alive = s.alive
      /\ t.finished = s.finished /\ t.local = s.local /\ t.priority = s.priority
      /\ t.unchecked = s.unchecked /\ t.got = s.got /\ t.hashesAsked = s.hashesAsked
      /\ t.orphaned = s.orphaned /\ t.cancelled = s.cancelled /\ t.lastComplete = s.lastComplete
      /\ t.hashes = s.hashes
    BY <1>0, <1>1 DEF Loader!LoaderStates
<1>4. HashRequests(t) = HashRequests(s)
  BY <1>3, <1>1 DEF HashRequests
<1>5. HashesOK(t) /\ AskedForOK(t)
  BY <1>3, <1>4 DEF LoaderGood, AlmostGood, HashesOK, AskedForOK
<1>6. BusyOK(t) /\ WholeOK(l, t) /\ PartsOK(l, t)
  BY <1>3, <1>1 DEF LoaderGood, AlmostGood, BusyOK, WholeOK, PartsOK
<1>7. Covered(l, t, {r.part})
  BY <1>3, <1>1 DEF LoaderGood, AlmostGood, Covered
<1> QED BY <1>0, <1>2, <1>3, <1>5, <1>6, <1>7 DEF AlmostGood, IsLoading, new

\* Only what is sent and known from elsewhere may differ.
SameParts(s, t) ==
    /\ t.next = s.next /\ t.alive = s.alive /\ t.finished = s.finished
    /\ t.priority = s.priority /\ t.unchecked = s.unchecked /\ t.got = s.got
    /\ t.hashesAsked = s.hashesAsked /\ t.orphaned = s.orphaned /\ t.cancelled = s.cancelled
    /\ t.lastComplete = s.lastComplete

\* One request in place of another for the same part.
LEMMA SwapGood ==
    ASSUME LoaderSetting, NEW l \in Loaders, NEW s, LoaderGood(l, s), NEW r \in s.sent,
           r.kind # "hashes",
           NEW q \in Loader!Requests, q.kind # "hashes", q.part = r.part,
             NEW t \in Loader!LoaderStates(l),
           SameParts(s, t), t.local = s.local, t.sent = (s.sent \ {r}) \cup {q}
    PROVE  LoaderGood(l, t) /\ AsBusy(s, t) /\ IsLoading(s)
<1>0. s \in Loader!LoaderStates(l)
  BY DEF LoaderGood, AlmostGood
<1>1. /\ \A x \in t.sent : x \in s.sent \/ x = q
      /\ \A x \in s.sent : x \in t.sent \/ x = r
      /\ q \in t.sent
  OBVIOUS
<1>2. IsLoading(s)
  BY <1>0 DEF LoaderGood, AlmostGood, BusyOK, IsLoading
<1>4. HashRequests(t) = HashRequests(s)
  BY <1>1 DEF HashRequests
<1>5. HashesOK(t) /\ AskedForOK(t)
  BY <1>4 DEF LoaderGood, AlmostGood, HashesOK, AskedForOK, SameParts
<1>6. BusyOK(t) /\ WholeOK(l, t)
  BY <1>2 DEF LoaderGood, AlmostGood, BusyOK, WholeOK, IsLoading, SameParts
<1>7. PartsOK(l, t)
  BY <1>1 DEF LoaderGood, AlmostGood, PartsOK, SameParts
<1>8. Covered(l, t, {})
  BY <1>1 DEF LoaderGood, AlmostGood, Covered, SameParts
<1> QED BY <1>2, <1>5, <1>6, <1>7, <1>8 DEF LoaderGood, AlmostGood, AsBusy, SameParts

\* changeCDNParams(), which asks for the parts of all requests again.
LEMMA ChangeGood ==
    ASSUME LoaderSetting, NEW l \in Loaders, NEW s, NEW r \in Loader!Requests,
           s \in Loader!LoaderStates(l),
           IsLoading(s), PartsOK(l, s), Covered(l, s, {r.part}), s.hashesAsked => s.unchecked # {},
           r.part < s.next, WholeOK(l, s), NEW cdn \in BOOLEAN, NEW h \in SUBSET Nat
    PROVE  LET t == Loader!ChangeCDN(s, r.part, cdn, h) IN LoaderGood(l, t) /\ AsBusy(s, t)
<1> DEFINE new == {Loader!PartRequest(p) : p \in {r.part} \cup {q.part : q \in s.sent}}
           all == s.hashes \cup h
           stale == s.stale \/ Loader!Refreshing(s)
           orphaned == s.orphaned \/ s.unchecked # {}
           t == [s EXCEPT !.cdn = cdn, !.hashes = all, !.sent = new, !.stale = stale,
                          !.orphaned = orphaned]
<1>0. Loader!ChangeCDN(s, r.part, cdn, h) = t
  BY DEF Loader!ChangeCDN, Loader!LoaderStates
<1>1. \A p \in {r.part} \cup {q.part : q \in s.sent} : p \in Nat /\ p < s.next
  BY DEF Loader!LoaderStates, Loader!Requests, PartsOK
<1>2. /\ \A q \in new : q \in Loader!Requests /\ q.kind = "part" /\ q.part < s.next
      /\ \A p \in {r.part} \cup {q.part : q \in s.sent} : \E q \in new : q.kind # "hashes"
         /\ q.part = p
  BY <1>1, PartsRequest
<1>3. new \subseteq Loader!Requests /\ all \subseteq Nat /\ stale \in BOOLEAN
      /\ orphaned \in BOOLEAN
  BY <1>2 DEF Loader!LoaderStates
<1>4. ~orphaned => s.unchecked = {}
  OBVIOUS
<1> HIDE DEF new, all, stale, orphaned
<1>5. t \in Loader!LoaderStates(l) /\ t.next = s.next /\ t.sent = new /\ t.alive = s.alive
      /\ t.finished = s.finished /\ t.local = s.local /\ t.priority = s.priority
      /\ t.unchecked = s.unchecked /\ t.got = s.got /\ t.hashesAsked = s.hashesAsked
      /\ t.orphaned = orphaned /\ t.cancelled = s.cancelled /\ t.lastComplete = s.lastComplete
    BY <1>3 DEF Loader!LoaderStates
<1> HIDE DEF t
<1>6. HashRequests(t) = {}
  BY <1>5, <1>2 DEF HashRequests
<1>7. HashesOK(t) /\ AskedForOK(t)
  BY <1>5, <1>6, <1>4 DEF HashesOK, AskedForOK
<1>8. BusyOK(t) /\ WholeOK(l, t) /\ PartsOK(l, t)
  BY <1>5, <1>2 DEF BusyOK, WholeOK, PartsOK, IsLoading
<1>9. Covered(l, t, {})
  BY <1>5, <1>2 DEF Covered
<1> QED BY <1>0, <1>5, <1>7, <1>8, <1>9 DEF LoaderGood, AlmostGood, AsBusy

\* cancel()
LEMMA CancelGood ==
    ASSUME LoaderSetting, NEW l \in Loaders, NEW s, s \in Loader!LoaderStates(l), PartsOK(l, s),
           s.hashesAsked => s.unchecked # {}
    PROVE  LET t == Loader!Cancelled(s) IN
           LoaderGood(l, t) /\ t.alive = s.alive /\ t.finished /\ t.local = s.local
             /\ t.priority = s.priority
<1> DEFINE stale == s.stale \/ Loader!Refreshing(s)
           t == [s EXCEPT !.sent = {}, !.stale = stale, !.got = {}, !.finished = TRUE,
                          !.cancelled = TRUE]
<1>0. Loader!Cancelled(s) = t
  BY DEF Loader!Cancelled
<1>1. stale \in BOOLEAN
  BY DEF Loader!LoaderStates
<1> HIDE DEF stale
<1>5. t \in Loader!LoaderStates(l) /\ t.next = s.next /\ t.sent = {} /\ t.alive = s.alive
      /\ t.finished = TRUE /\ t.local = s.local /\ t.priority = s.priority
      /\ t.unchecked = s.unchecked /\ t.got = {} /\ t.hashesAsked = s.hashesAsked
      /\ t.orphaned = s.orphaned /\ t.cancelled = TRUE /\ t.lastComplete = s.lastComplete
    BY <1>1 DEF Loader!LoaderStates
<1> HIDE DEF t
<1>6. LoaderGood(l, t)
  BY <1>5
     DEF LoaderGood, AlmostGood, BusyOK, PartsOK, Covered, HashesOK, HashRequests, WholeOK,
         AskedForOK
<1> QED BY <1>0, <1>5, <1>6

\* A loader as it is made.
LEMMA FreshGood ==
    ASSUME LoaderSetting, NEW l \in Loaders, NEW c \in BOOLEAN
    PROVE  /\ LoaderGood(l, Loader!Fresh(l, c)) /\ LoaderGood(l, Loader!Deleted(l))
              /\ Loader!Fresh(l, c).local = "NotTried"
           /\ Loader!Fresh(l, c).priority = 0 /\ Loader!Deleted(l).priority = 0
              /\ ~Loader!Deleted(l).alive
           /\ ~Loader!Deleted(l).finished
<1>0. LoaderParts[l] \in Nat \ {0}
  BY DEF LoaderSetting
<1>1. Loader!Fresh(l, c) \in Loader!LoaderStates(l) /\ Loader!Deleted(l) \in Loader!LoaderStates(l)
  <2> DEFINE size == IF l \in SizeKnown THEN LoaderParts[l] ELSE 0
  <2>1. size \in {0, LoaderParts[l]}
    OBVIOUS
  <2> HIDE DEF size
  <2>2. ASSUME NEW d \in BOOLEAN
        PROVE  [alive |-> TRUE, fromCloud |-> d, local |-> "NotTried", priority |-> 0,
                finished |-> FALSE, cancelled |-> FALSE, size |-> size, next |-> 0,
                lastComplete |-> FALSE, got |-> {}, sent |-> {}, cdn |-> FALSE, hashes |-> {},
                unchecked |-> {}, hashesAsked |-> FALSE, stale |-> FALSE, orphaned |-> FALSE]
               \in Loader!LoaderStates(l)
    BY <2>1 DEF Loader!LoaderStates, Loader!LocalStatus
  <2>3. \A d \in BOOLEAN : Loader!Fresh(l, d) \in Loader!LoaderStates(l)
    BY <2>2 DEF Loader!Fresh, size
  <2>4. [Loader!Fresh(l, FALSE) EXCEPT !.alive = FALSE] \in Loader!LoaderStates(l)
    BY <2>3 DEF Loader!LoaderStates
  <2> QED BY <2>3, <2>4 DEF Loader!Deleted
<1>2. ASSUME NEW t \in {Loader!Fresh(l, c), Loader!Deleted(l)}
      PROVE  /\ t.sent = {} /\ t.local = "NotTried" /\ t.unchecked = {} /\ ~t.lastComplete
             /\ t.next = 0 /\ ~t.hashesAsked /\ ~t.finished /\ t.priority = 0
  BY DEF Loader!Fresh, Loader!Deleted
<1>3. ASSUME NEW t \in {Loader!Fresh(l, c), Loader!Deleted(l)} PROVE LoaderGood(l, t)
  BY <1>1, <1>2
     DEF LoaderGood, AlmostGood, BusyOK, PartsOK, Covered, HashesOK, HashRequests, WholeOK,
         AskedForOK
<1> QED BY <1>2, <1>3 DEF Loader!Deleted, Loader!Fresh

LoaderQueueOK == loaderQueue \in Seq(Loaders) /\ Loader!IsInjective(loaderQueue)

LEMMA PlaceIs ==
    ASSUME LoaderQueueOK, NEW l \in Loaders, Loader!InQueue(l)
    PROVE  /\ Loader!PlaceOf(l) \in 1..Len(loaderQueue) /\ loaderQueue[Loader!PlaceOf(l)] = l
           /\ \A i \in 1..Len(loaderQueue) : loaderQueue[i] = l => i = Loader!PlaceOf(l)
  BY DEF LoaderQueueOK, Loader!IsInjective, Loader!InQueue, Loader!ToSet, Loader!PlaceOf

\* removeFromQueue() closes the gap.
LEMMA WithoutIs ==
    ASSUME LoaderQueueOK, NEW l \in Loaders
    PROVE  LET q == Loader!Without(l) IN
           /\ q \in Seq(Loaders) /\ Loader!IsInjective(q)
              /\ Loader!ToSet(q) = Loader!ToSet(loaderQueue) \ {l}
           /\ Loader!InQueue(l) =>
                /\ Len(q) = Len(loaderQueue) - 1
                /\ \A i \in 1..Len(q) : q[i] = IF i < Loader!PlaceOf(l) THEN loaderQueue[i]
                   ELSE loaderQueue[i + 1]
           /\ ~Loader!InQueue(l) => q = loaderQueue
<1>1. CASE ~Loader!InQueue(l)
  BY <1>1 DEF Loader!Without, LoaderQueueOK, Loader!InQueue
<1>2. CASE Loader!InQueue(l)
  <2> DEFINE k == Loader!PlaceOf(l)
             q == Loader!RemoveAt(loaderQueue, k)
  <2>1. k \in 1..Len(loaderQueue) /\ loaderQueue[k] = l
        /\ \A i \in 1..Len(loaderQueue) : loaderQueue[i] = l => i = k
    BY <1>2, PlaceIs
  <2>2. loaderQueue \in Seq(Loaders) /\ \A i,
        j \in 1..Len(loaderQueue) : loaderQueue[i] = loaderQueue[j] => i = j
    BY DEF LoaderQueueOK, Loader!IsInjective
  <2>3. Loader!Without(l) = q
    BY <1>2 DEF Loader!Without
  <2> HIDE DEF k
  <2>4. q \in Seq(Loaders) /\ Len(q) = Len(loaderQueue) - 1
        /\ \A i \in 1..Len(q) : q[i] = IF i < k THEN loaderQueue[i] ELSE loaderQueue[i + 1]
    <3> DEFINE a == SubSeq(loaderQueue, 1, k - 1)
               b == SubSeq(loaderQueue, k + 1, Len(loaderQueue))
    <3>1. Len(loaderQueue) \in Nat /\ k \in Nat
      BY <2>1, <2>2
    <3>2. a \in Seq(Loaders) /\ Len(a) = k - 1 /\ \A i \in 1..Len(a) : a[i] = loaderQueue[i]
      BY <2>1, <2>2, <3>1
    <3>3. b \in Seq(Loaders) /\ Len(b) = Len(loaderQueue) - k
          /\ \A i \in 1..Len(b) : b[i] = loaderQueue[k + i]
      BY <2>1, <2>2, <3>1
    <3>4. q = a \o b
      BY DEF Loader!RemoveAt
    <3> HIDE DEF a, b, q
    <3>5. q \in Seq(Loaders) /\ Len(q) = Len(a) + Len(b)
          /\ \A i \in 1..Len(q) : q[i] = IF i <= Len(a) THEN a[i] ELSE b[i - Len(a)]
      <4>1. /\ a \o b \in Seq(Loaders) /\ Len(a \o b) = Len(a) + Len(b)
            /\ \A i \in 1..Len(a) + Len(b) : (a \o b)[i] = IF i <= Len(a) THEN a[i]
               ELSE b[i - Len(a)]
        BY <3>2, <3>3, ConcatProperties, Zenon
      <4> QED BY <4>1, <3>4
    <3>6. Len(q) = Len(loaderQueue) - 1
      BY <3>1, <3>2, <3>3, <3>5, <2>1
    <3>7. ASSUME NEW i \in 1..Len(q)
                 PROVE q[i] = IF i < k THEN loaderQueue[i] ELSE loaderQueue[i + 1]
      <4>1. CASE i < k
        <5>1. i \in 1..Len(a) /\ i <= Len(a)
          BY <4>1, <3>1, <3>2
        <5> QED BY <5>1, <4>1, <3>2, <3>5
      <4>2. CASE ~(i < k)
        <5>1. i - Len(a) \in 1..Len(b) /\ ~(i <= Len(a)) /\ k + (i - Len(a)) = i + 1
          BY <4>2, <3>1, <3>2, <3>3, <3>6
        <5>2. q[i] = b[i - Len(a)] /\ b[i - Len(a)] = loaderQueue[k + (i - Len(a))]
          BY <5>1, <3>3, <3>5
        <5> QED BY <5>1, <5>2, <4>2
      <4> QED BY <4>1, <4>2
    <3> QED BY <3>5, <3>6, <3>7
  <2> HIDE DEF q
  <2>5. Loader!IsInjective(q)
    <3> SUFFICES ASSUME NEW i \in 1..Len(q), NEW j \in 1..Len(q), q[i] = q[j] PROVE i = j
      BY <2>4 DEF Loader!IsInjective
    <3>1. Len(loaderQueue) \in Nat
      BY <2>2
    <3>2. q[i] = loaderQueue[IF i < k THEN i ELSE i + 1]
          /\ q[j] = loaderQueue[IF j < k THEN j ELSE j + 1]
      BY <2>4
    <3> DEFINE a == IF i < k THEN i ELSE i + 1
               b == IF j < k THEN j ELSE j + 1
    <3>3. a \in 1..Len(loaderQueue) /\ b \in 1..Len(loaderQueue)
      BY <3>1, <2>1, <2>4
    <3> HIDE DEF a, b
    <3>4. a = b
      BY <2>2, <3>2, <3>3 DEF a, b
    <3> QED BY <3>4, <2>1, <2>4, <3>1 DEF a, b
  <2>6. Loader!ToSet(q) = Loader!ToSet(loaderQueue) \ {l}
    <3>1. Len(loaderQueue) \in Nat
      BY <2>2
    <3>2. ASSUME NEW m \in Loader!ToSet(q) PROVE m \in Loader!ToSet(loaderQueue) /\ m # l
      <4>1. PICK i \in 1..Len(q) : m = q[i]
        BY <2>4 DEF Loader!ToSet
      <4>2. m = loaderQueue[IF i < k THEN i ELSE i + 1]
            /\ (IF i < k THEN i ELSE i + 1) \in 1..Len(loaderQueue)
            /\ (IF i < k THEN i ELSE i + 1) # k
        BY <4>1, <2>4, <3>1, <2>1
      <4> QED BY <4>2, <2>1, <2>2 DEF Loader!ToSet
    <3>3. ASSUME NEW m \in Loader!ToSet(loaderQueue), m # l PROVE m \in Loader!ToSet(q)
      <4>1. PICK i \in 1..Len(loaderQueue) : m = loaderQueue[i]
        BY <2>2 DEF Loader!ToSet
      <4>2. i # k
        BY <4>1, <3>3, <2>1
      <4>3. (IF i < k THEN i ELSE i - 1) \in 1..Len(q) /\ q[IF i < k THEN i ELSE i - 1] = m
        BY <4>1, <4>2, <2>4, <3>1, <2>1
      <4> QED BY <4>3, <2>4 DEF Loader!ToSet
    <3> QED BY <3>2, <3>3
  <2> QED BY <1>2, <2>3, <2>4, <2>5, <2>6 DEF k
<1> QED BY <1>1, <1>2

\* What is put into a queue that it is not in.
LEMMA InsertIs ==
    ASSUME NEW q \in Seq(Loaders), Loader!IsInjective(q), NEW l \in Loaders,
           l \notin Loader!ToSet(q),
           NEW k \in 1..Len(q) + 1
    PROVE  LET t == Loader!InsertAt(q, k, l) IN
           /\ t \in Seq(Loaders) /\ Loader!IsInjective(t)
              /\ Loader!ToSet(t) = Loader!ToSet(q) \cup {l}
           /\ Len(t) = Len(q) + 1
           /\ \A i \in 1..Len(t) : t[i] = IF i < k THEN q[i] ELSE IF i = k THEN l ELSE q[i - 1]
<1> DEFINE t == Loader!InsertAt(q, k, l)
<1>0. Len(q) \in Nat /\ (\A i, j \in 1..Len(q) : q[i] = q[j] => i = j)
      /\ \A i \in 1..Len(q) : q[i] # l
  BY DEF Loader!IsInjective, Loader!ToSet
<1>1. /\ t \in Seq(Loaders) /\ Len(t) = Len(q) + 1
      /\ \A i \in 1..Len(t) : t[i] = IF i < k THEN q[i] ELSE IF i = k THEN l ELSE q[i - 1]
  <2> DEFINE a == SubSeq(q, 1, k - 1)
             b == SubSeq(q, k, Len(q))
             c == a \o <<l>>
  <2>1. a \in Seq(Loaders) /\ Len(a) = k - 1 /\ \A i \in 1..Len(a) : a[i] = q[i]
    BY <1>0
  <2>2. b \in Seq(Loaders) /\ Len(b) = Len(q) - k + 1 /\ \A i \in 1..Len(b) : b[i] = q[k + i - 1]
    BY <1>0
  <2>3. t = c \o b
    BY DEF Loader!InsertAt
  <2> HIDE DEF a, b, t
  <2>4. c \in Seq(Loaders) /\ Len(c) = k /\ \A i \in 1..k : c[i] = IF i < k THEN a[i] ELSE l
    BY <2>1
  <2> HIDE DEF c
  <2>5. t \in Seq(Loaders) /\ Len(t) = Len(c) + Len(b)
        /\ \A i \in 1..Len(t) : t[i] = IF i <= Len(c) THEN c[i] ELSE b[i - Len(c)]
    BY <2>2, <2>3, <2>4
  <2>6. t \in Seq(Loaders) /\ Len(t) = Len(q) + 1
    BY <2>2, <2>4, <2>5, <1>0
  <2>7. ASSUME NEW i \in 1..Len(t)
        PROVE  t[i] = IF i < k THEN q[i] ELSE IF i = k THEN l ELSE q[i - 1]
    <3>1. CASE i < k
      BY <3>1, <2>1, <2>4, <2>5
    <3>2. CASE i = k
      BY <3>2, <2>4, <2>5
    <3>3. CASE i > k
      <4>1. t[i] = b[i - k] /\ i - k \in 1..Len(b)
        BY <3>3, <2>2, <2>4, <2>5
      <4>2. b[i - k] = q[k + (i - k) - 1] /\ k + (i - k) - 1 = i - 1
        BY <4>1, <2>2
      <4> QED BY <3>3, <4>1, <4>2
    <3> QED BY <3>1, <3>2, <3>3, <2>6
  <2> QED BY <2>6, <2>7
<1> HIDE DEF t
<1>2. Loader!IsInjective(t)
  <2> SUFFICES ASSUME NEW i \in 1..Len(t), NEW j \in 1..Len(t), t[i] = t[j] PROVE i = j
    BY DEF Loader!IsInjective
  <2>0. ASSUME NEW h \in 1..Len(t), h # k
        PROVE  t[h] # l
    <3>1. CASE h < k
      <4>1. t[h] = q[h] /\ h \in 1..Len(q)
        BY <3>1, <1>0, <1>1
      <4> QED BY <4>1, <1>0
    <3>2. CASE h > k
      <4>1. t[h] = q[h - 1] /\ h - 1 \in 1..Len(q)
        BY <3>2, <1>0, <1>1
      <4> QED BY <4>1, <1>0
    <3> QED BY <3>1, <3>2, <2>0, <1>0, <1>1
  <2>1. CASE i = k \/ j = k
    <3>1. k \in 1..Len(t) /\ t[k] = l
      BY <1>0, <1>1
    <3> QED BY <2>0, <2>1, <3>1
  <2>2. CASE i # k /\ j # k
    <3>1. t[i] = q[IF i < k THEN i ELSE i - 1] /\ t[j] = q[IF j < k THEN j ELSE j - 1]
      BY <2>2, <1>1
    <3> DEFINE a == IF i < k THEN i ELSE i - 1
               b == IF j < k THEN j ELSE j - 1
    <3>2. a \in 1..Len(q) /\ b \in 1..Len(q)
      BY <2>2, <1>0, <1>1
    <3>3. q[a] = q[b]
      BY <3>1
    <3> HIDE DEF a, b
    <3>4. a = b
      BY <1>0, <3>2, <3>3
    <3> QED BY <3>4, <2>2, <1>1, <1>0 DEF a, b
  <2> QED BY <2>1, <2>2
<1>3. Loader!ToSet(t) = Loader!ToSet(q) \cup {l}
  <2>1. ASSUME NEW m \in Loader!ToSet(t) PROVE m \in Loader!ToSet(q) \cup {l}
    <3>1. PICK i \in 1..Len(t) : m = t[i]
      BY <1>1 DEF Loader!ToSet
    <3>2. i = k \/ (IF i < k THEN i ELSE i - 1) \in 1..Len(q)
      BY <1>0, <1>1
    <3>3. i # k => m = q[IF i < k THEN i ELSE i - 1]
      BY <3>1, <1>1
    <3> QED BY <3>1, <3>2, <3>3, <1>1 DEF Loader!ToSet
  <2>2. ASSUME NEW m \in Loader!ToSet(q) PROVE m \in Loader!ToSet(t)
    <3>1. PICK i \in 1..Len(q) : m = q[i]
      BY DEF Loader!ToSet
    <3>2. (IF i < k THEN i ELSE i + 1) \in 1..Len(t) /\ t[IF i < k THEN i ELSE i + 1] = m
      BY <3>1, <1>0, <1>1
    <3> QED BY <3>2, <1>1 DEF Loader!ToSet
  <2>3. l \in Loader!ToSet(t)
    BY <1>0, <1>1 DEF Loader!ToSet
  <2> QED BY <2>1, <2>2, <2>3
<1> QED BY <1>1, <1>2, <1>3 DEF t

\* Those of U come first.
InOrder(q, U) == \A i, j \in 1..Len(q) : i < j /\ q[j] \in U => q[i] \in U
\* But for l they do.
OthersInOrder(l, U) ==
    \A i, j \in 1..Len(loaderQueue) :
        i < j /\ loaderQueue[i] # l /\ loaderQueue[j] # l
          /\ loaderQueue[j] \in U => loaderQueue[i] \in U

LEMMA WithoutOrdered ==
    ASSUME LoaderQueueOK, NEW l \in Loaders, NEW U, OthersInOrder(l, U)
    PROVE  InOrder(Loader!Without(l), U)
<1> DEFINE q == Loader!Without(l)
           k == Loader!PlaceOf(l)
<1>0. q \in Seq(Loaders) /\ loaderQueue \in Seq(Loaders) /\ Len(q) \in Nat
      /\ Len(loaderQueue) \in Nat
  BY WithoutIs DEF LoaderQueueOK
<1>1. CASE ~Loader!InQueue(l)
  <2>1. q = loaderQueue
    BY <1>1, WithoutIs
  <2>2. \A i \in 1..Len(loaderQueue) : loaderQueue[i] # l
    BY <1>1, <1>0 DEF Loader!InQueue, Loader!ToSet
  <2> QED BY <2>1, <2>2 DEF OthersInOrder, InOrder
<1>2. CASE Loader!InQueue(l)
  <2>1. k \in 1..Len(loaderQueue) /\ \A i \in 1..Len(loaderQueue) : loaderQueue[i] = l => i = k
    BY <1>2, PlaceIs
  <2>2. Len(q) = Len(loaderQueue) - 1
        /\ \A i \in 1..Len(q) : q[i] = IF i < k THEN loaderQueue[i] ELSE loaderQueue[i + 1]
    BY <1>2, WithoutIs
  <2> SUFFICES ASSUME NEW i \in 1..Len(q), NEW j \in 1..Len(q), i < j, q[j] \in U PROVE q[i] \in U
    BY DEF InOrder
  <2> HIDE DEF q, k
  <2> DEFINE a == IF i < k THEN i ELSE i + 1
             b == IF j < k THEN j ELSE j + 1
  <2>3. a \in 1..Len(loaderQueue) /\ b \in 1..Len(loaderQueue) /\ a < b /\ a # k /\ b # k
    BY <1>0, <2>1, <2>2
  <2>4. q[i] = loaderQueue[a] /\ q[j] = loaderQueue[b]
    BY <2>2
  <2> HIDE DEF a, b
  <2> QED BY <2>3, <2>4, <2>1 DEF OthersInOrder
<1> QED BY <1>1, <1>2

LEMMA InsertOrdered ==
    ASSUME NEW q \in Seq(Loaders), Loader!IsInjective(q), NEW l \in Loaders,
           l \notin Loader!ToSet(q),
           NEW k \in 1..Len(q) + 1, NEW U, InOrder(q, U),
           l \in U => \A i \in 1..Len(q) : i < k => q[i] \in U,
           l \notin U => k = Len(q) + 1
    PROVE  InOrder(Loader!InsertAt(q, k, l), U)
<1> DEFINE t == Loader!InsertAt(q, k, l)
<1>0. Len(q) \in Nat
  OBVIOUS
<1>1. Len(t) = Len(q) + 1
      /\ \A i \in 1..Len(t) : t[i] = IF i < k THEN q[i] ELSE IF i = k THEN l ELSE q[i - 1]
  BY InsertIs
<1> HIDE DEF t
<1> SUFFICES ASSUME NEW i \in 1..Len(t), NEW j \in 1..Len(t), i < j, t[j] \in U PROVE t[i] \in U
  BY DEF InOrder, t
<1>2. CASE i < k /\ j <= k
  <2>1. i \in 1..Len(q) /\ t[i] = q[i]
    BY <1>2, <1>1, <1>0
  <2>2. j = k => l \in U
    BY <1>1
  <2>3. j < k => j \in 1..Len(q) /\ t[j] = q[j]
    BY <1>1, <1>0
  <2> QED BY <1>2, <2>1, <2>2, <2>3, <1>0 DEF InOrder
<1>3. CASE i < k /\ j > k
  <2>1. i \in 1..Len(q) /\ t[i] = q[i] /\ j - 1 \in 1..Len(q) /\ t[j] = q[j - 1] /\ i < j - 1
    BY <1>3, <1>1, <1>0
  <2> QED BY <2>1 DEF InOrder
<1>4. CASE i = k
  <2>1. k # Len(q) + 1
    BY <1>4, <1>1, <1>0
  <2> QED BY <2>1, <1>4, <1>1
<1>5. CASE i > k
  <2>1. i - 1 \in 1..Len(q) /\ t[i] = q[i - 1] /\ j - 1 \in 1..Len(q) /\ t[j] = q[j - 1]
        /\ i - 1 < j - 1
    BY <1>5, <1>1, <1>0
  <2> QED BY <2>1 DEF InOrder
<1> QED BY <1>2, <1>3, <1>4, <1>5, <1>1, <1>0

LEMMA BeforeIs ==
    ASSUME LoaderQueueOK, NEW l \in Loaders, NEW k \in 1..Len(loaderQueue) + 1
    PROVE  LET t == Loader!Before(l, k) IN
           /\ t \in Seq(Loaders) /\ Loader!IsInjective(t)
              /\ Loader!ToSet(t) = Loader!ToSet(loaderQueue) \cup {l}
           /\ \A U : /\ OthersInOrder(l, U)
                     /\ l \in U => \A i \in 1..Len(loaderQueue) : i < k => loaderQueue[i] \in U
                     /\ l \notin U => k = Len(loaderQueue) + 1
                     => InOrder(t, U)
<1> DEFINE q == Loader!Without(l)
           p == Loader!PlaceOf(l)
           m == IF Loader!InQueue(l) /\ p < k THEN k - 1 ELSE k
<1>0. loaderQueue \in Seq(Loaders) /\ Len(loaderQueue) \in Nat /\ k \in Nat
  BY DEF LoaderQueueOK
<1>1. q \in Seq(Loaders) /\ Loader!IsInjective(q)
      /\ Loader!ToSet(q) = Loader!ToSet(loaderQueue) \ {l} /\ l \notin Loader!ToSet(q)
      /\ Len(q) \in Nat
  BY WithoutIs
<1>2. Loader!InQueue(l) =>
      /\ p \in 1..Len(loaderQueue) /\ loaderQueue[p] = l /\ Len(q) = Len(loaderQueue) - 1
      /\ \A i \in 1..Len(q) : q[i] = IF i < p THEN loaderQueue[i] ELSE loaderQueue[i + 1]
  BY PlaceIs, WithoutIs
<1>3. ~Loader!InQueue(l) => q = loaderQueue
  BY WithoutIs
<1>4. Loader!Before(l, k) = Loader!InsertAt(q, m, l)
  BY DEF Loader!Before
<1> HIDE DEF q, p
<1>5. m \in 1..Len(q) + 1
  BY <1>0, <1>2, <1>3
<1>6. /\ Loader!InsertAt(q, m, l) \in Seq(Loaders) /\ Loader!IsInjective(Loader!InsertAt(q, m, l))
      /\ Loader!ToSet(Loader!InsertAt(q, m, l)) = Loader!ToSet(loaderQueue) \cup {l}
  BY <1>1, <1>5, InsertIs
<1>7. ASSUME NEW U, OthersInOrder(l, U),
             l \in U => \A i \in 1..Len(loaderQueue) : i < k => loaderQueue[i] \in U,
             l \notin U => k = Len(loaderQueue) + 1
      PROVE  InOrder(Loader!InsertAt(q, m, l), U)
  <2>1. InOrder(q, U)
    BY <1>7, WithoutOrdered DEF q
  <2>2. l \notin U => m = Len(q) + 1
    BY <1>7, <1>0, <1>2, <1>3
  <2>3. ASSUME l \in U, NEW i \in 1..Len(q), i < m PROVE q[i] \in U
    <3>1. CASE ~Loader!InQueue(l)
      BY <3>1, <2>3, <1>3, <1>7
    <3>2. CASE Loader!InQueue(l)
      <4> DEFINE a == IF i < p THEN i ELSE i + 1
      <4>1. a \in 1..Len(loaderQueue) /\ a < k /\ q[i] = loaderQueue[a]
        BY <3>2, <2>3, <1>2, <1>0
      <4> HIDE DEF a
      <4> QED BY <4>1, <1>7, <2>3
    <3> QED BY <3>1, <3>2
  <2> HIDE DEF m
  <2> QED BY <2>1, <2>2, <2>3, <1>1, <1>5, InsertOrdered
<1> QED BY <1>4, <1>6, <1>7

\* Those who go first.
UrgentOnes == {m \in Loaders : loader[m].priority = currentPriority}

LEMMA UrgentIs ==
    ASSUME LoaderQueueOK, NEW i
    PROVE  Loader!Urgent(i) <=> i \in 1..Len(loaderQueue) /\ loaderQueue[i] \in UrgentOnes
  BY DEF LoaderQueueOK, Loader!Urgent, UrgentOnes

LEMMA LastUrgentIs ==
    ASSUME LoaderQueueOK, NEW i \in 1..Len(loaderQueue), Loader!Urgent(i)
    PROVE  /\ Loader!LastUrgent(i) \in i..Len(loaderQueue)
           /\ \A k \in i..Loader!LastUrgent(i) : Loader!Urgent(k)
<1> DEFINE S == {k \in Nat : k >= i /\ ~Loader!Urgent(k)}
           n == Loader!Min(S)
<1>0. Len(loaderQueue) \in Nat
  BY DEF LoaderQueueOK
<1>1. Len(loaderQueue) + 1 \in S
  BY <1>0, UrgentIs
<1>2. n \in S /\ \A k \in S : n <= k
  BY <1>1, MinIs
<1>3. n - 1 \in i..Len(loaderQueue) /\ ~Loader!Urgent((n - 1) + 1)
  BY <1>1, <1>2, <1>0
<1>4. \A k \in i..(n - 1) : Loader!Urgent(k)
  BY <1>2
<1> HIDE DEF n
<1>5. \E j \in i..Len(loaderQueue) : (\A k \in i..j : Loader!Urgent(k)) /\ ~Loader!Urgent(j + 1)
  BY <1>3, <1>4
<1> QED BY <1>5 DEF Loader!LastUrgent

LEMMA FirstOtherIs ==
    ASSUME LoaderQueueOK, NEW i \in 1..Len(loaderQueue), ~Loader!Urgent(i)
    PROVE  /\ Loader!FirstOther(i) \in 1..i
           /\ Loader!FirstOther(i) = 1 \/ Loader!Urgent(Loader!FirstOther(i) - 1)
<1> DEFINE S == {d \in Nat : d < i /\ Loader!Urgent(i - d)}
           n == Loader!Min(S)
<1>0. Len(loaderQueue) \in Nat
  BY DEF LoaderQueueOK
<1>1. \E j \in 1..i : (\A k \in j..i : ~Loader!Urgent(k)) /\ (j = 1 \/ Loader!Urgent(j - 1))
  <2>1. CASE S = {}
    <3>1. ASSUME NEW k \in 1..i PROVE ~Loader!Urgent(k)
      <4>1. i - k \in Nat /\ i - k < i /\ i - (i - k) = k
        BY <1>0
      <4> QED BY <4>1, <2>1
    <3> QED BY <3>1, <1>0
  <2>2. CASE S # {}
    <3>1. n \in S /\ \A d \in S : n <= d
      BY <2>2, MinIs
    <3>2. n # 0
      BY <3>1, <1>0
    <3> DEFINE j == i - n + 1
    <3>3. j \in 1..i /\ Loader!Urgent(j - 1)
      BY <3>1, <3>2, <1>0
    <3>4. ASSUME NEW k \in j..i PROVE ~Loader!Urgent(k)
      <4>1. i - k \in Nat /\ i - k < i /\ i - (i - k) = k /\ ~(n <= i - k)
        BY <1>0, <3>1, <3>2
      <4> QED BY <4>1, <3>1
    <3> QED BY <3>3, <3>4
  <2> QED BY <2>1, <2>2
<1> QED BY <1>1 DEF Loader!FirstOther

\* start(): the loader is in the queue, urgent ones before the others.
LEMMA PlacedIs ==
    ASSUME LoaderQueueOK, NEW l \in Loaders, NEW loadFirst \in BOOLEAN, NEW prior \in BOOLEAN,
           loadFirst => prior
    PROVE  LET t == Loader!Placed(l, loadFirst, prior) IN
           /\ t \in Seq(Loaders) /\ Loader!IsInjective(t)
              /\ Loader!ToSet(t) = Loader!ToSet(loaderQueue) \cup {l}
           /\ InOrder(loaderQueue, UrgentOnes) =>
                /\ prior => InOrder(t, UrgentOnes \cup {l})
                /\ ~prior /\ l \notin UrgentOnes => InOrder(t, UrgentOnes)
<1> DEFINE i == Loader!PlaceOf(l)
           U == UrgentOnes \cup {l}
<1>0. loaderQueue \in Seq(Loaders) /\ Len(loaderQueue) \in Nat
  BY DEF LoaderQueueOK
<1>1. /\ InOrder(loaderQueue, UrgentOnes) => OthersInOrder(l, U) /\ OthersInOrder(l, UrgentOnes)
      /\ InOrder(loaderQueue, UrgentOnes) => \A a, b \in 1..Len(loaderQueue) : a <= b
         /\ Loader!Urgent(b) => Loader!Urgent(a)
  <2>1. InOrder(loaderQueue, UrgentOnes) => OthersInOrder(l, U) /\ OthersInOrder(l, UrgentOnes)
    BY DEF InOrder, OthersInOrder
  <2>2. InOrder(loaderQueue, UrgentOnes) => \A a, b \in 1..Len(loaderQueue) : a <= b
        /\ Loader!Urgent(b) => Loader!Urgent(a)
    BY UrgentIs, <1>0 DEF InOrder
  <2> QED BY <2>1, <2>2
<1>2. \A a \in 1..Len(loaderQueue) : Loader!Urgent(a) => loaderQueue[a] \in U
  BY UrgentIs
<1>3. Loader!InQueue(l) => i \in 1..Len(loaderQueue) /\ loaderQueue[i] = l
  BY PlaceIs
<1> HIDE DEF U
<1>4. ASSUME NEW k \in 1..Len(loaderQueue) + 1, prior,
             InOrder(loaderQueue,
               UrgentOnes) => \A a \in 1..Len(loaderQueue) : a < k => loaderQueue[a] \in U
      PROVE  /\ Loader!Before(l, k) \in Seq(Loaders) /\ Loader!IsInjective(Loader!Before(l, k))
             /\ Loader!ToSet(Loader!Before(l, k)) = Loader!ToSet(loaderQueue) \cup {l}
             /\ InOrder(loaderQueue, UrgentOnes) => InOrder(Loader!Before(l, k), U)
  <2>1. l \in U
    BY DEF U
  <2> QED BY <2>1, <1>4, <1>1, BeforeIs
<1>5. CASE ~prior
  <2>1. Loader!Placed(l, loadFirst, prior) = Loader!Before(l, Len(loaderQueue) + 1)
    BY <1>5 DEF Loader!Placed, Loader!After
  <2>2. Len(loaderQueue) + 1 \in 1..Len(loaderQueue) + 1
    BY <1>0
  <2>3. /\ Loader!Before(l, Len(loaderQueue) + 1) \in Seq(Loaders)
           /\ Loader!IsInjective(Loader!Before(l, Len(loaderQueue) + 1))
        /\ Loader!ToSet(Loader!Before(l, Len(loaderQueue) + 1)) = Loader!ToSet(loaderQueue) \cup {l}
        /\ OthersInOrder(l, UrgentOnes)
           /\ l \notin UrgentOnes => InOrder(Loader!Before(l, Len(loaderQueue) + 1), UrgentOnes)
    BY <2>2, BeforeIs
  <2> QED BY <2>1, <2>3, <1>5, <1>1
<1>6. CASE prior /\ loadFirst
  <2>1. Loader!Placed(l, loadFirst, prior) = Loader!Before(l, 1)
    BY <1>6 DEF Loader!Placed
  <2>2. 1 \in 1..Len(loaderQueue) + 1 /\ \A a \in 1..Len(loaderQueue) : ~(a < 1)
    BY <1>0
  <2> QED BY <2>1, <2>2, <1>4, <1>6 DEF U
<1>7. CASE prior /\ ~loadFirst /\ Loader!InQueue(l)
  <2>0. i \in 1..Len(loaderQueue) /\ loaderQueue[i] = l /\ Loader!InQueue(l)
    BY <1>7, <1>3
  <2>1. CASE Loader!Urgent(i + 1)
    <3> DEFINE k == Loader!LastUrgent(i + 1) + 1
    <3>0. i + 1 \in 1..Len(loaderQueue)
      BY <2>1, UrgentIs
    <3>1. Loader!LastUrgent(i + 1) \in (i + 1)..Len(loaderQueue)
          /\ \A a \in (i + 1)..Loader!LastUrgent(i + 1) : Loader!Urgent(a)
      BY <3>0, <2>1, LastUrgentIs
    <3>2. k \in 1..Len(loaderQueue) + 1
      BY <3>0, <3>1, <1>0
    <3>3. Loader!Placed(l, loadFirst, prior) = Loader!Before(l, k)
      BY <1>7, <2>0, <2>1 DEF Loader!Placed, Loader!After
    <3>4. ASSUME InOrder(loaderQueue, UrgentOnes), NEW a \in 1..Len(loaderQueue), a < k
                 PROVE loaderQueue[a] \in U
      <4>1. a <= i + 1 \/ a \in (i + 1)..Loader!LastUrgent(i + 1)
        BY <3>4, <3>0, <3>1, <1>0
      <4> QED BY <4>1, <3>4, <3>0, <3>1, <2>1, <1>1, <1>2
    <3> HIDE DEF k
    <3> QED BY <3>2, <3>3, <3>4, <1>4, <1>7 DEF U
  <2>2. CASE ~Loader!Urgent(i + 1) /\ ~Loader!Urgent(i) /\ i > 1 /\ ~Loader!Urgent(i - 1)
    <3> DEFINE k == Loader!FirstOther(i - 1)
    <3>0. i - 1 \in 1..Len(loaderQueue)
      BY <2>2, <2>0, <1>0
    <3>1. k \in 1..(i - 1) /\ (k = 1 \/ Loader!Urgent(k - 1))
      BY <3>0, <2>2, FirstOtherIs
    <3>2. k \in 1..Len(loaderQueue) + 1
      BY <3>0, <3>1, <1>0
    <3>3. Loader!Placed(l, loadFirst, prior) = Loader!Before(l, k)
      BY <1>7, <2>0, <2>2 DEF Loader!Placed
    <3> HIDE DEF k
    <3>4. ASSUME InOrder(loaderQueue, UrgentOnes), NEW a \in 1..Len(loaderQueue), a < k
                 PROVE loaderQueue[a] \in U
      <4>1. a <= k - 1 /\ k - 1 \in 1..Len(loaderQueue) /\ Loader!Urgent(k - 1)
        BY <3>4, <3>0, <3>1, <1>0
      <4> QED BY <4>1, <3>4, <1>1, <1>2
    <3> QED BY <3>2, <3>3, <3>4, <1>4, <1>7 DEF U
  <2>3. CASE ~Loader!Urgent(i + 1) /\ ~(~Loader!Urgent(i) /\ i > 1 /\ ~Loader!Urgent(i - 1))
    <3>1. Loader!Placed(l, loadFirst, prior) = loaderQueue
      BY <1>7, <2>0, <2>3 DEF Loader!Placed
    <3>2. loaderQueue \in Seq(Loaders) /\ Loader!IsInjective(loaderQueue)
          /\ Loader!ToSet(loaderQueue) = Loader!ToSet(loaderQueue) \cup {l}
      BY <2>0 DEF LoaderQueueOK, Loader!InQueue
    <3>3. ASSUME InOrder(loaderQueue, UrgentOnes) PROVE InOrder(loaderQueue, U)
      <4> SUFFICES ASSUME NEW a \in 1..Len(loaderQueue), NEW b \in 1..Len(loaderQueue), a < b,
                          loaderQueue[b] \in U
                   PROVE  loaderQueue[a] \in U
        BY DEF InOrder
      <4>1. CASE loaderQueue[b] \in UrgentOnes
        BY <4>1, <3>3 DEF InOrder, U
      <4>2. CASE loaderQueue[b] = l
        <5>1. b = i
          BY <4>2, <2>0, PlaceIs
        <5>2. Loader!Urgent(i) \/ (Loader!Urgent(i - 1) /\ i - 1 \in 1..Len(loaderQueue))
          BY <5>1, <2>3, <2>0, <1>0, UrgentIs
        <5>3. a <= i /\ a <= i - 1
          BY <5>1, <1>0
        <5> QED BY <5>2, <5>3, <3>3, <2>0, <1>1, <1>2
      <4> QED BY <4>1, <4>2 DEF U
    <3> QED BY <3>1, <3>2, <3>3, <1>7 DEF U
  <2> QED BY <2>1, <2>2, <2>3
<1>8. CASE prior /\ ~loadFirst /\ ~Loader!InQueue(l)
  <2>0. Loader!Placed(l, loadFirst, prior) = Loader!FirstPlace(l)
    BY <1>8 DEF Loader!Placed
  <2>1. CASE Loader!Urgent(1)
    <3> DEFINE k == Loader!LastUrgent(1) + 1
    <3>0. 1 \in 1..Len(loaderQueue)
      BY <2>1, UrgentIs
    <3>1. Loader!LastUrgent(1) \in 1..Len(loaderQueue)
          /\ \A a \in 1..Loader!LastUrgent(1) : Loader!Urgent(a)
      BY <3>0, <2>1, LastUrgentIs
    <3>2. k \in 1..Len(loaderQueue) + 1
      BY <3>1, <1>0
    <3>3. Loader!Placed(l, loadFirst, prior) = Loader!Before(l, k)
      BY <2>0, <2>1 DEF Loader!FirstPlace, Loader!After
    <3>4. ASSUME NEW a \in 1..Len(loaderQueue), a < k PROVE loaderQueue[a] \in U
      <4>1. a \in 1..Loader!LastUrgent(1)
        BY <3>4, <3>1, <1>0
      <4> QED BY <4>1, <3>1, <1>2
    <3> HIDE DEF k
    <3> QED BY <3>2, <3>3, <3>4, <1>4, <1>8 DEF U
  <2>2. CASE ~Loader!Urgent(1)
    <3>1. Loader!Placed(l, loadFirst, prior) = Loader!Before(l, 1)
      BY <2>0, <2>2 DEF Loader!FirstPlace
    <3>2. 1 \in 1..Len(loaderQueue) + 1 /\ \A a \in 1..Len(loaderQueue) : ~(a < 1)
      BY <1>0
    <3> QED BY <3>1, <3>2, <1>4, <1>8 DEF U
  <2> QED BY <2>1, <2>2
<1> QED BY <1>5, <1>6, <1>7, <1>8

LoadersOK ==
    /\ loader = [l \in Loaders |-> loader[l]]
    /\ \A l \in Loaders : LoaderGood(l, loader[l]) /\ loader[l].priority <= currentPriority
    /\ LoaderQueueOK /\ Loader!QueueHasTheLoading /\ Loader!UrgentFirst
LoaderBounds ==
    /\ currentPriority \in 1..2
    /\ aborted \in BOOLEAN /\ unhooked \in BOOLEAN /\ demoted \in BOOLEAN
    /\ starts \in 0..MaxStarts /\ redirects \in 0..MaxRedirects
       /\ loaderFaults \in 0..MaxLoaderFaults
LoaderIInv == LoadersOK /\ LoaderBounds

\* The loader l becomes s, and all may ask for more.
LoadersMoved(l, s) ==
    /\ loader' = [m \in Loaders |-> loader'[m]]
    /\ \A m \in Loaders : LoaderGood(m, loader'[m]) /\ AsBusy(Loader!Of(l, s, m), loader'[m])

LEMMA BecomesMoves ==
    ASSUME LoaderIInv, NEW l \in Loaders, NEW s, LoaderGood(l, s), Loader!Becomes(l, s)
    PROVE  LoadersMoved(l, s)
  BY DEF LoaderIInv, LoadersOK, LoadersMoved, Loader!Becomes, AsBusy, Loader!Of

\* LoadNextFromQueue() asks for no more than is wanted, and for those in the queue.
LEMMA ShareIs ==
    ASSUME loaderQueue' \in Seq(Loaders), NEW l, NEW s, NEW m \in Loaders,
           Loader!Wanted(Loader!Of(l, s, m)) \in Nat
    PROVE  /\ Loader!Share(l, s, m) \in 0..Loader!Wanted(Loader!Of(l, s, m))
           /\ Loader!Share(l, s, m) # 0 => m \in Loader!ToSet(loaderQueue')
<1>1. CASE m \notin Loader!ToSet(loaderQueue')
  BY <1>1 DEF Loader!Share
<1>2. CASE m \in Loader!ToSet(loaderQueue')
  <2> DEFINE much(i) == Loader!Wanted(Loader!Of(l, s, loaderQueue'[i]))
             where == CHOOSE i \in DOMAIN loaderQueue' : loaderQueue'[i] = m
             before == Loader!QueriesCount(l, s) + Loader!MapThenSumSet(much, 1..where - 1)
             S == {n \in 1..much(where) : before + n <= QueriesLimit}
  <2>1. Loader!Share(l, s, m) = Cardinality(S)
    <3>1. Loader!Share(l, s, m) = Loader!Cardinality(S)
      BY <1>2 DEF Loader!Share
    <3>2. Loader!Cardinality(S) = Cardinality(S)
      BY DEF Loader!Cardinality, Cardinality
    <3> QED BY <3>1, <3>2
  <2>2. where \in DOMAIN loaderQueue' /\ loaderQueue'[where] = m
    BY <1>2 DEF Loader!ToSet
  <2>3. much(where) = Loader!Wanted(Loader!Of(l, s, m))
    BY <2>2
  <2> HIDE DEF before, much, where
  <2>4. IsFiniteSet(1..much(where)) /\ Cardinality(1..much(where)) = much(where)
    BY <2>3, FS_Interval
  <2>5. S \subseteq 1..much(where)
    OBVIOUS
  <2> HIDE DEF S
  <2>6. Cardinality(S) \in Nat /\ Cardinality(S) <= much(where)
    BY <2>4, <2>5, FS_Subset, FS_CardinalityType
  <2> QED BY <2>1, <2>3, <2>6, <1>2
<1> QED BY <1>1, <1>2

LEMMA WantedIs ==
    ASSUME LoaderSetting, NEW l \in Loaders, NEW s \in Loader!LoaderStates(l)
    PROVE  Loader!Wanted(s) \in Nat
  BY DEF LoaderSetting, Loader!LoaderStates, Loader!Wanted

LEMMA LoadNextMoved ==
    ASSUME LoaderSetting, LoaderIInv, NEW l \in Loaders, NEW s, LoaderGood(l, s),
           loaderQueue' \in Seq(Loaders),
           \A m \in Loader!ToSet(loaderQueue') : Loader!Of(l, s, m).local = "NotFound",
             Loader!LoadNext(l, s)
    PROVE  LoadersMoved(l, s)
<1>1. loader' = [m \in Loaders |-> Loader!LoadParts(Loader!Of(l, s, m), Loader!Share(l, s, m))]
  BY DEF Loader!LoadNext
<1>2. ASSUME NEW m \in Loaders
      PROVE  LoaderGood(m, loader'[m]) /\ AsBusy(Loader!Of(l, s, m), loader'[m])
  <2>1. LoaderGood(m, Loader!Of(l, s, m))
    BY DEF Loader!Of, LoaderIInv, LoadersOK
  <2>2. Loader!Wanted(Loader!Of(l, s, m)) \in Nat
    BY <2>1, WantedIs DEF LoaderGood, AlmostGood
  <2>3. /\ Loader!Share(l, s, m) \in 0..Loader!Wanted(Loader!Of(l, s, m))
        /\ Loader!Share(l, s, m) # 0 => Loader!Of(l, s, m).local = "NotFound"
    BY <2>2, ShareIs
  <2>4. loader'[m] = Loader!LoadParts(Loader!Of(l, s, m), Loader!Share(l, s, m))
    BY <1>1
  <2> QED BY <2>1, <2>3, <2>4, LoadGood DEF LoaderGood
<1> QED BY <1>1, <1>2 DEF LoadersMoved

LEMMA LoadingIs ==
    Loader!QueueHasTheLoading <=> \A m \in Loaders : Loader!InQueue(m) <=> IsLoading(loader[m])
  BY DEF Loader!QueueHasTheLoading, IsLoading
LEMMA UrgentFirstIs == ASSUME LoaderQueueOK
    PROVE Loader!UrgentFirst <=> (~demoted => InOrder(loaderQueue, UrgentOnes))
<1>1. Len(loaderQueue) \in Nat /\ DOMAIN loaderQueue = 1..Len(loaderQueue)
  BY DEF LoaderQueueOK
<1> QED BY <1>1, UrgentIs DEF Loader!UrgentFirst, InOrder

\* A step of a loader whose priority stays and which stays where it was, or leaves the queue.
LEMMA LoaderCalm ==
    ASSUME LoaderIInv, NEW l \in Loaders, NEW s, LoadersMoved(l, s), UNCHANGED currentPriority,
           s.priority <= currentPriority, demoted => demoted',
           \/ loaderQueue' = loaderQueue /\ (IsLoading(s) <=> IsLoading(loader[l]))
              /\ s.priority = loader[l].priority
           \/ loaderQueue' = Loader!Without(l) /\ ~IsLoading(s)
    PROVE  LoadersOK'
<1>0. LoaderQueueOK /\ \A m \in Loaders : Loader!InQueue(m) <=> IsLoading(loader[m])
  BY LoadingIs DEF LoaderIInv, LoadersOK
<1>1. /\ loaderQueue' \in Seq(Loaders) /\ Loader!IsInjective(loaderQueue')
      /\ \/ Loader!ToSet(loaderQueue') = Loader!ToSet(loaderQueue)
         \/ Loader!ToSet(loaderQueue') = Loader!ToSet(loaderQueue) \ {l} /\ ~IsLoading(s)
  BY <1>0, WithoutIs DEF LoaderQueueOK
<1>2. LoaderQueueOK'
  BY <1>1 DEF LoaderQueueOK
<1>3. \A m \in Loaders : Loader!InQueue(m)' <=> IsLoading(loader'[m])
  <2> SUFFICES ASSUME NEW m \in Loaders
                      PROVE m \in Loader!ToSet(loaderQueue') <=> IsLoading(loader'[m])
    BY DEF Loader!InQueue
  <2>1. IsLoading(loader'[m]) <=> IsLoading(Loader!Of(l, s, m))
    BY DEF LoadersMoved, AsBusy, IsLoading
  <2>2. m \in Loader!ToSet(loaderQueue) <=> IsLoading(loader[m])
    BY <1>0 DEF Loader!InQueue
  <2>3. m # l => Loader!Of(l, s, m) = loader[m]
    BY DEF Loader!Of
  <2>4. m = l => Loader!Of(l, s, m) = s
    BY DEF Loader!Of
  <2> QED BY <2>1, <2>2, <2>3, <2>4, <1>1, <1>0, WithoutIs
<1>4. Loader!QueueHasTheLoading'
  BY <1>3 DEF Loader!QueueHasTheLoading, IsLoading, Loader!InQueue
<1>5. \A m \in Loaders : LoaderGood(m, loader'[m])
      /\ loader'[m].priority = Loader!Of(l, s, m).priority
  BY DEF LoadersMoved, AsBusy
<1>6. \A m \in Loaders : loader'[m].priority <= currentPriority'
  BY <1>5 DEF Loader!Of, LoaderIInv, LoadersOK
<1>7. ASSUME ~demoted' PROVE InOrder(loaderQueue', UrgentOnes')
  <2>1. InOrder(loaderQueue, UrgentOnes)
    BY <1>7, <1>0, UrgentFirstIs DEF LoaderIInv, LoadersOK
  <2>2. \A m \in Loaders : m # l => (m \in UrgentOnes' <=> m \in UrgentOnes)
    BY <1>5 DEF Loader!Of, UrgentOnes
  <2>3. CASE loaderQueue' = loaderQueue /\ s.priority = loader[l].priority
    <3>1. \A m \in Loaders : m \in UrgentOnes' <=> m \in UrgentOnes
      BY <2>2, <2>3, <1>5 DEF Loader!Of, UrgentOnes
    <3>2. \A i \in 1..Len(loaderQueue) : loaderQueue[i] \in Loaders
      BY <1>0 DEF LoaderQueueOK
    <3> QED BY <3>1, <3>2, <2>1, <2>3 DEF InOrder
  <2>4. CASE loaderQueue' = Loader!Without(l)
    <3>1. \A i \in 1..Len(loaderQueue) : loaderQueue[i] \in Loaders
      BY <1>0 DEF LoaderQueueOK
    <3>2. OthersInOrder(l, UrgentOnes')
      BY <3>1, <2>1, <2>2 DEF InOrder, OthersInOrder
    <3> QED BY <3>2, <2>4, <1>0, WithoutOrdered
  <2> QED BY <2>3, <2>4
<1>8. Loader!UrgentFirst'
  <2>1. Len(loaderQueue') \in Nat /\ DOMAIN loaderQueue' = 1..Len(loaderQueue')
    BY <1>1
  <2>2. \A i : Loader!Urgent(i)' <=> i \in 1..Len(loaderQueue') /\ loaderQueue'[i] \in UrgentOnes'
    BY <1>1, <2>1 DEF Loader!Urgent, UrgentOnes
  <2> QED BY <1>7, <2>1, <2>2 DEF Loader!UrgentFirst, InOrder
<1> QED BY <1>2, <1>4, <1>5, <1>6, <1>8 DEF LoadersOK, LoadersMoved

LEMMA LoaderStays ==
    ASSUME LoaderSetting, LoaderIInv, NEW l \in Loaders, NEW s, LoaderGood(l, s),
           Loader!Becomes(l, s),
           UNCHANGED <<loaderQueue, currentPriority>>, demoted => demoted',
             s.priority = loader[l].priority,
           IsLoading(s) <=> IsLoading(loader[l])
    PROVE  LoadersOK'
<1>1. LoadersMoved(l, s)
  BY BecomesMoves
<1>2. s.priority <= currentPriority
  BY DEF LoaderIInv, LoadersOK
<1> QED BY <1>1, <1>2, LoaderCalm

\* The queue of those who load, before somebody is served.
LEMMA ServedIs ==
    ASSUME LoaderIInv, NEW l \in Loaders, NEW s,
           \/ loaderQueue' = loaderQueue /\ (IsLoading(s) <=> IsLoading(loader[l]))
           \/ loaderQueue' = Loader!Without(l)
    PROVE  /\ loaderQueue' \in Seq(Loaders)
           /\ \A m \in Loader!ToSet(loaderQueue') : m \in Loaders
              /\ Loader!Of(l, s, m).local = "NotFound"
<1>0. LoaderQueueOK /\ \A m \in Loaders : Loader!InQueue(m) <=> IsLoading(loader[m])
  BY LoadingIs DEF LoaderIInv, LoadersOK
<1>1. loaderQueue' \in Seq(Loaders)
      /\ (Loader!ToSet(loaderQueue') = Loader!ToSet(loaderQueue) \ {l} \/ loaderQueue' = loaderQueue)
  BY <1>0, WithoutIs DEF LoaderQueueOK
<1>2. Loader!ToSet(loaderQueue') \subseteq Loaders
  BY <1>1 DEF Loader!ToSet
<1>3. ASSUME NEW m \in Loader!ToSet(loaderQueue') PROVE Loader!Of(l, s, m).local = "NotFound"
  <2>1. m \in Loaders /\ IsLoading(loader[m])
    BY <1>3, <1>2, <1>1, <1>0 DEF Loader!InQueue
  <2>2. CASE m # l
    BY <2>1, <2>2 DEF Loader!Of, IsLoading
  <2>3. CASE m = l
    <3>1. loaderQueue' = loaderQueue
      BY <2>3, <1>3, <1>0, WithoutIs
    <3>2. IsLoading(s)
      <4>1. CASE loaderQueue' = Loader!Without(l)
        <5>1. l \notin Loader!ToSet(loaderQueue')
          BY <4>1, <1>0, WithoutIs
        <5> QED BY <5>1, <1>3, <2>3
      <4> QED BY <4>1, <2>1, <2>3
    <3> QED BY <3>2, <2>3 DEF Loader!Of, IsLoading
  <2> QED BY <2>2, <2>3
<1> QED BY <1>1, <1>2, <1>3

LEMMA OthersLoad ==
    ASSUME LoaderSetting, LoaderIInv, NEW l \in Loaders, NEW s, LoaderGood(l, s),
           Loader!LoadNext(l, s),
           UNCHANGED currentPriority, demoted => demoted', s.priority <= currentPriority,
           \/ loaderQueue' = loaderQueue /\ (IsLoading(s) <=> IsLoading(loader[l]))
              /\ s.priority = loader[l].priority
           \/ loaderQueue' = Loader!Without(l) /\ ~IsLoading(s)
    PROVE  LoadersOK'
<1>1. LoadersMoved(l, s)
  BY ServedIs, LoadNextMoved
<1> QED BY <1>1, LoaderCalm

LEMMA CancelsStep ==
    ASSUME LoaderSetting, LoaderIInv, NEW l \in Loaders, NEW s, s \in Loader!LoaderStates(l),
           PartsOK(l, s),
           s.hashesAsked => s.unchecked # {}, Loader!Cancels(l, s), UNCHANGED currentPriority,
           demoted => demoted', s.priority <= currentPriority
    PROVE  LoadersOK'
<1>1. LoaderGood(l, Loader!Cancelled(s)) /\ ~IsLoading(Loader!Cancelled(s))
      /\ Loader!Cancelled(s).priority = s.priority
  BY CancelGood DEF IsLoading
<1> QED BY <1>1, OthersLoad DEF Loader!Cancels

LEMMA PartLoadedStep ==
    ASSUME LoaderSetting, LoaderIInv, NEW l \in Loaders, NEW s, NEW p \in Nat,
           AlmostGood(l, s, {p}),
           AskedForOK(s), IsLoading(s), IsLoading(loader[l]), s.priority = loader[l].priority,
           p < s.next, Loader!PartLoaded(l, s, p), UNCHANGED currentPriority, demoted => demoted'
    PROVE  LoadersOK'
<1> DEFINE fed == Loader!Feed(l, s, {p})
<1>1. LoaderGood(l, fed) /\ fed.alive /\ fed.local = s.local /\ fed.priority = s.priority
  BY FeedGood DEF LoaderGood
<1>2. loaderQueue' = (IF fed.finished THEN Loader!Without(l) ELSE loaderQueue)
      /\ Loader!LoadNext(l, fed)
  BY DEF Loader!PartLoaded
<1>3. s.priority <= currentPriority
  BY DEF LoaderIInv, LoadersOK
<1> HIDE DEF fed
<1>4. IsLoading(fed) <=> ~fed.finished
  BY <1>1 DEF IsLoading
<1> QED BY <1>1, <1>2, <1>3, <1>4, OthersLoad

LEMMA GetsGoingStep ==
    ASSUME LoaderSetting, LoaderIInv, NEW l \in Loaders, NEW s, LoaderGood(l, s), IsLoading(s),
           s.priority = loader[l].priority, NEW loadFirst \in BOOLEAN, NEW prior \in BOOLEAN,
           loadFirst => prior, Loader!GetsGoing(l, s, loadFirst, prior),
           UNCHANGED currentPriority, ~demoted' => ~demoted /\ (prior \/ l \notin UrgentOnes)
    PROVE  LoadersOK'
<1> DEFINE u == IF prior THEN [s EXCEPT !.priority = currentPriority] ELSE s
           room == Loader!QueriesCount(l, s) < QueriesLimit \/ (loadFirst /\ prior)
           n == IF room /\ Loader!Wanted(s) > 0 THEN 1 ELSE 0
           t == Loader!LoadParts(u, n)
<1>0. s \in Loader!LoaderStates(l) /\ currentPriority \in 1..2 /\ LoaderQueueOK
      /\ (\A m \in Loaders : Loader!InQueue(m) <=> IsLoading(loader[m]))
      /\ \A m \in Loaders : LoaderGood(m, loader[m]) /\ loader[m].priority <= currentPriority
  BY LoadingIs DEF LoaderGood, AlmostGood, LoaderIInv, LoadersOK, LoaderBounds
<1>1. loaderQueue' = Loader!Placed(l, loadFirst, prior) /\ Loader!Becomes(l, t)
  BY DEF Loader!GetsGoing
<1>2. n \in 0..Loader!Wanted(s)
  BY <1>0, WantedIs
<1> HIDE DEF n
<1>3. u \in Loader!LoaderStates(l) /\ u.next = s.next /\ u.sent = s.sent /\ u.alive = s.alive
      /\ u.finished = s.finished /\ u.local = s.local /\ u.size = s.size
      /\ u.priority = (IF prior THEN currentPriority ELSE s.priority)
      /\ u.unchecked = s.unchecked /\ u.got = s.got /\ u.hashesAsked = s.hashesAsked
      /\ u.orphaned = s.orphaned /\ u.cancelled = s.cancelled /\ u.lastComplete = s.lastComplete
  BY <1>0 DEF Loader!LoaderStates
<1> HIDE DEF u
<1>4. Loader!Wanted(u) = Loader!Wanted(s)
  BY <1>3 DEF Loader!Wanted
<1>5. LoaderGood(l, u) /\ IsLoading(u)
  BY <1>3
     DEF LoaderGood, AlmostGood, BusyOK, PartsOK, Covered, HashesOK, HashRequests, WholeOK,
         AskedForOK, IsLoading
<1>6. LoaderGood(l, t) /\ AsBusy(u, t)
  BY <1>2, <1>4, <1>5, LoadGood DEF LoaderGood, IsLoading
<1> HIDE DEF t
<1>7. IsLoading(t) /\ t.priority = (IF prior THEN currentPriority ELSE s.priority)
  BY <1>3, <1>5, <1>6 DEF AsBusy, IsLoading
<1>8. loader' = [loader EXCEPT ![l] = t] /\ loader = [m \in Loaders |-> loader[m]]
  BY <1>1 DEF Loader!Becomes, LoaderIInv, LoadersOK
<1>9. loader' = [m \in Loaders |-> loader'[m]] /\ \A m \in Loaders : loader'[m] = Loader!Of(l, t, m)
  BY <1>8 DEF Loader!Of
<1>10. /\ loaderQueue' \in Seq(Loaders) /\ Loader!IsInjective(loaderQueue')
          /\ Loader!ToSet(loaderQueue') = Loader!ToSet(loaderQueue) \cup {l}
       /\ InOrder(loaderQueue, UrgentOnes) =>
                /\ prior => InOrder(loaderQueue', UrgentOnes \cup {l})
                /\ ~prior /\ l \notin UrgentOnes => InOrder(loaderQueue', UrgentOnes)
  BY <1>0, <1>1, PlacedIs
<1>11. \A m \in Loaders : LoaderGood(m, loader'[m]) /\ loader'[m].priority <= currentPriority'
  BY <1>0, <1>6, <1>7, <1>9 DEF Loader!Of
<1>12. UrgentOnes' = IF prior THEN UrgentOnes \cup {l} ELSE UrgentOnes
  BY <1>7, <1>9 DEF UrgentOnes, Loader!Of
<1>13. ASSUME ~demoted' PROVE InOrder(loaderQueue', UrgentOnes')
  <2>1. InOrder(loaderQueue, UrgentOnes) /\ (prior \/ l \notin UrgentOnes)
    BY <1>13, <1>0, UrgentFirstIs DEF LoaderIInv, LoadersOK
  <2> QED BY <2>1, <1>10, <1>12
<1>14. Loader!UrgentFirst'
  <2>1. Len(loaderQueue') \in Nat /\ DOMAIN loaderQueue' = 1..Len(loaderQueue')
    BY <1>10
  <2>2. \A i : Loader!Urgent(i)' <=> i \in 1..Len(loaderQueue') /\ loaderQueue'[i] \in UrgentOnes'
    BY <1>10, <2>1 DEF Loader!Urgent, UrgentOnes
  <2> QED BY <1>13, <2>1, <2>2 DEF Loader!UrgentFirst, InOrder
<1>15. \A m \in Loaders : Loader!InQueue(m)' <=> IsLoading(loader'[m])
  <2> SUFFICES ASSUME NEW m \in Loaders
                      PROVE m \in Loader!ToSet(loaderQueue') <=> IsLoading(loader'[m])
    BY DEF Loader!InQueue
  <2> QED BY <1>0, <1>7, <1>9, <1>10 DEF Loader!InQueue, Loader!Of
<1>16. Loader!QueueHasTheLoading' /\ LoaderQueueOK'
  BY <1>15, <1>10 DEF Loader!QueueHasTheLoading, IsLoading, Loader!InQueue, LoaderQueueOK
<1> QED BY <1>9, <1>11, <1>14, <1>16 DEF LoadersOK

LEMMA LoaderGives ==
    ASSUME LoaderIInv, NEW l \in Loaders
    PROVE  /\ LoaderGood(l, loader[l]) /\ loader[l] \in Loader!LoaderStates(l)
           /\ loader[l].priority <= currentPriority /\ currentPriority \in 1..2
           /\ LoaderQueueOK /\ (Loader!InQueue(l) <=> IsLoading(loader[l]))
  BY LoadingIs DEF LoaderIInv, LoadersOK, LoaderBounds, LoaderGood, AlmostGood

LEMMA TouchGood ==
    ASSUME LoaderSetting, NEW l \in Loaders, NEW s, LoaderGood(l, s),
           NEW t \in Loader!LoaderStates(l), SameParts(s, t),
           t.sent = s.sent, t.local = s.local \/ (s.sent = {} /\ t.local # "Loaded")
    PROVE  LoaderGood(l, t)
  BY DEF SameParts, LoaderGood, AlmostGood, BusyOK, PartsOK, Covered, HashesOK, HashRequests,
         WholeOK, AskedForOK

LEMMA MissedGood ==
    ASSUME LoaderSetting, LoaderIInv, NEW l \in Loaders, loader[l].local # "Loaded"
    PROVE  LET t == Loader!Missed(l) IN
           /\ LoaderGood(l, t) /\ t.priority = loader[l].priority /\ t.local = "NotFound"
           /\ t.alive = loader[l].alive /\ t.finished = loader[l].finished
<1> DEFINE s == loader[l]
           t == Loader!Missed(l)
<1>0. LoaderGood(l, s) /\ s \in Loader!LoaderStates(l)
  BY LoaderGives
<1>1. t \in Loader!LoaderStates(l) /\ SameParts(s, t) /\ t.sent = s.sent /\ t.local = "NotFound"
      /\ t.priority = s.priority /\ t.alive = s.alive /\ t.finished = s.finished
  BY <1>0 DEF Loader!Missed, Loader!LoaderStates, Loader!LocalStatus, SameParts
<1> HIDE DEF t
<1>2. t.local = s.local \/ (s.sent = {} /\ t.local # "Loaded")
  BY <1>0, <1>1 DEF LoaderGood, AlmostGood, BusyOK
<1>3. LoaderGood(l, t)
  BY <1>0, <1>1, <1>2, TouchGood
<1> QED BY <1>1, <1>3 DEF t

LEMMA ProceedsStep ==
    ASSUME LoaderSetting, LoaderIInv, NEW l \in Loaders, NEW s, s = Loader!Missed(l),
           loader[l].alive, ~loader[l].finished, loader[l].local # "Loaded",
           NEW loadFirst \in BOOLEAN, NEW prior \in BOOLEAN, loadFirst => prior,
           Loader!Proceeds(l, s, loadFirst, prior),
           UNCHANGED currentPriority, ~demoted' => ~demoted /\ (prior \/ l \notin UrgentOnes)
    PROVE  LoadersOK'
<1>1. /\ LoaderGood(l, s) /\ s.priority = loader[l].priority /\ s.local = "NotFound"
      /\ s.alive = loader[l].alive /\ s.finished = loader[l].finished
  BY MissedGood
<1>2. CASE s.fromCloud
  <2>1. Loader!GetsGoing(l, s, loadFirst, prior)
    BY <1>2 DEF Loader!Proceeds
  <2>2. IsLoading(s)
    BY <1>1 DEF IsLoading
  <2> QED BY <1>1, <2>1, <2>2, GetsGoingStep
<1>3. CASE ~s.fromCloud
  <2>1. Loader!Cancels(l, s)
    BY <1>3 DEF Loader!Proceeds
  <2>2. s.priority <= currentPriority /\ (demoted => demoted')
    BY <1>1, LoaderGives
  <2>3. s \in Loader!LoaderStates(l) /\ PartsOK(l, s) /\ (s.hashesAsked => s.unchecked # {})
    BY <1>1 DEF LoaderGood, AlmostGood, HashesOK
  <2> QED BY <2>1, <2>2, <2>3, CancelsStep
<1> QED BY <1>2, <1>3

LEMMA LoaderStarts ==
    ASSUME LoaderSetting, LoaderIInv, NEW l \in Loaders, NEW loadFirst \in BOOLEAN,
           NEW prior \in BOOLEAN,
           Loader!Start(l, loadFirst, prior)
    PROVE  LoadersOK'
<1> DEFINE s == loader[l]
<1>0. LoaderGood(l, s) /\ s \in Loader!LoaderStates(l)
  BY LoaderGives
<1>1. /\ s.alive /\ ~s.finished /\ s.local # "Loading" /\ (loadFirst => prior)
      /\ UNCHANGED currentPriority
      /\ demoted' = (demoted \/ (~prior /\ s.priority = currentPriority))
  BY DEF Loader!Start
<1>2. s.local # "Loaded"
  BY <1>0, <1>1 DEF LoaderGood, AlmostGood, BusyOK
<1>3. CASE Loader!Missing(l)
  <2>1. Loader!Proceeds(l, Loader!Missed(l), loadFirst, prior)
    BY <1>3 DEF Loader!Start
  <2>2. ~demoted' => ~demoted /\ (prior \/ l \notin UrgentOnes)
    BY <1>1 DEF UrgentOnes
  <2> QED BY <2>1, <2>2, <1>1, <1>2, ProceedsStep
<1>4. CASE ~Loader!Missing(l)
  <2> DEFINE t == [s EXCEPT !.local = "Loading"]
  <2>1. Loader!Becomes(l, t) /\ UNCHANGED loaderQueue
    BY <1>4 DEF Loader!Start
  <2>2. s.local = "NotTried"
    BY <1>0, <1>1, <1>2, <1>4 DEF Loader!Missing, Loader!LoaderStates, Loader!LocalStatus
  <2>3. s.sent = {} /\ "Loading" \in Loader!LocalStatus
    BY <1>0, <2>2 DEF LoaderGood, AlmostGood, BusyOK, Loader!LocalStatus
  <2>4. t \in Loader!LoaderStates(l) /\ SameParts(s, t) /\ t.sent = s.sent /\ t.local = "Loading"
    BY <1>0, <2>3 DEF Loader!LoaderStates, SameParts
  <2> HIDE DEF t
  <2>5. LoaderGood(l, t) /\ t.priority = s.priority
    BY <2>3, <2>4, <1>0, TouchGood DEF SameParts
  <2>6. IsLoading(t) <=> IsLoading(s)
    BY <2>2, <2>4 DEF IsLoading
  <2>7. demoted => demoted'
    BY <1>1
  <2> QED BY <2>1, <2>5, <2>6, <2>7, <1>1, LoaderStays
<1> QED BY <1>3, <1>4

LEMMA PermitStep ==
    ASSUME LoaderSetting, LoaderIInv, NEW l \in Loaders, Loader!Permit(l)
    PROVE  LoadersOK'
<1> DEFINE s == loader[l]
           t == [s EXCEPT !.fromCloud = TRUE]
<1>0. LoaderGood(l, s) /\ s \in Loader!LoaderStates(l)
  BY LoaderGives
<1>1. Loader!Becomes(l, t) /\ UNCHANGED <<loaderQueue, currentPriority, demoted>>
  BY DEF Loader!Permit, Loader!Rest
<1>2. t \in Loader!LoaderStates(l) /\ SameParts(s, t) /\ t.sent = s.sent /\ t.local = s.local
  BY <1>0 DEF Loader!LoaderStates, SameParts
<1> HIDE DEF t
<1>3. LoaderGood(l, t)
  BY <1>0, <1>2, TouchGood
<1> QED BY <1>1, <1>2, <1>3, LoaderStays DEF IsLoading, SameParts

\* None is urgent any more.
LEMMA ClearPrioritiesStep ==
    ASSUME LoaderIInv, Loader!ClearPriorities
    PROVE  LoadersOK'
<1>1. UNCHANGED <<loaderQueue, loader>> /\ currentPriority' = currentPriority + 1
      /\ currentPriority \in 1..2
  BY DEF Loader!ClearPriorities, LoaderIInv, LoaderBounds
<1>2. \A m \in Loaders : loader[m].priority \in 0..2 /\ loader[m].priority <= currentPriority
  BY DEF LoaderIInv, LoadersOK, LoaderGood, AlmostGood, Loader!LoaderStates
<1>3. \A m \in Loaders : loader[m].priority <= currentPriority'
      /\ loader[m].priority # currentPriority'
  BY <1>1, <1>2
<1>4. \A m \in Loader!ToSet(loaderQueue) : m \in Loaders
  BY DEF LoaderIInv, LoadersOK, LoaderQueueOK, Loader!ToSet
<1>5. \A i : ~(i \in DOMAIN loaderQueue /\ loader[loaderQueue[i]].priority = currentPriority')
  BY <1>3, <1>4 DEF Loader!ToSet
<1>6. Loader!UrgentFirst'
  BY <1>1, <1>5 DEF Loader!UrgentFirst, Loader!Urgent
<1>7. LoaderQueueOK' /\ Loader!QueueHasTheLoading'
  BY <1>1 DEF LoaderQueueOK, Loader!QueueHasTheLoading, Loader!InQueue, LoaderIInv, LoadersOK
<1> QED BY <1>1, <1>3, <1>6, <1>7 DEF LoadersOK, LoaderIInv

LEMMA LocalLoadedStep ==
    ASSUME LoaderSetting, LoaderIInv, NEW l \in Loaders, NEW found \in BOOLEAN,
           Loader!LocalLoaded(l, found)
    PROVE  LoadersOK'
<1> DEFINE s == loader[l]
           none == Loader!Missed(l)
<1>0. /\ LoaderGood(l, s) /\ s \in Loader!LoaderStates(l) /\ s.priority <= currentPriority
         /\ LoaderQueueOK
  BY LoaderGives
<1>1. s.alive /\ s.local = "Loading" /\ UNCHANGED <<currentPriority, demoted>>
  BY DEF Loader!LocalLoaded, Loader!Rest
<1>2. s.sent = {} /\ ~IsLoading(s)
  BY <1>0, <1>1 DEF LoaderGood, AlmostGood, BusyOK, IsLoading
<1>3. /\ LoaderGood(l, none) /\ none.priority = s.priority /\ none.finished = s.finished
  BY <1>1, MissedGood
<1>4. CASE found
  <2> DEFINE t == [s EXCEPT !.local = "Loaded", !.finished = TRUE, !.got = Loader!FileParts(l)]
  <2>1. Loader!LoadNext(l, t) /\ UNCHANGED loaderQueue
    BY <1>4 DEF Loader!LocalLoaded
  <2>2. t \in Loader!LoaderStates(l) /\ t.next = s.next /\ t.sent = {} /\ t.alive = s.alive
      /\ t.finished = TRUE /\ t.local = "Loaded" /\ t.priority = s.priority
      /\ t.unchecked = s.unchecked /\ t.got = Loader!FileParts(l) /\ t.hashesAsked = s.hashesAsked
      /\ t.orphaned = s.orphaned /\ t.cancelled = s.cancelled /\ t.lastComplete = s.lastComplete
    BY <1>0, <1>2 DEF Loader!LoaderStates, Loader!LocalStatus
  <2> HIDE DEF t
  <2>3. LoaderGood(l, t)
    BY <2>2, <1>0, <1>2
       DEF LoaderGood, AlmostGood, BusyOK, PartsOK, Covered, HashesOK, HashRequests, WholeOK,
           AskedForOK
  <2>4. ~IsLoading(t)
    BY <2>2 DEF IsLoading
  <2> QED BY <2>1, <2>2, <2>3, <2>4, <1>0, <1>1, <1>2, OthersLoad
<1>5. CASE ~found /\ s.finished
  <2>1. Loader!Becomes(l, none) /\ UNCHANGED loaderQueue
    BY <1>5 DEF Loader!LocalLoaded
  <2>2. ~IsLoading(none)
    BY <1>3, <1>5 DEF IsLoading
  <2> HIDE DEF none
  <2> QED BY <2>1, <2>2, <1>1, <1>2, <1>3, LoaderStays
<1>6. CASE ~found /\ ~s.finished
  <2>1. Loader!Proceeds(l, none, TRUE, TRUE)
    BY <1>6 DEF Loader!LocalLoaded
  <2> QED BY <2>1, <1>1, <1>6, ProceedsStep
<1> QED BY <1>4, <1>5, <1>6

\* A file that cannot be opened or written ends the download.
LEMMA OpenFailsStep ==
    ASSUME LoaderSetting, LoaderIInv, NEW l \in Loaders, Loader!OpenFails(l)
    PROVE  LoadersOK'
<1> DEFINE t == Loader!Missed(l)
<1>1. loader[l].local = "NotTried" /\ Loader!Cancels(l, t) /\ UNCHANGED <<currentPriority, demoted>>
  BY DEF Loader!OpenFails, Loader!Rest
<1>2. LoaderGood(l, t) /\ t.priority = loader[l].priority
  BY <1>1, MissedGood
<1>3. loader[l].priority <= currentPriority
  BY LoaderGives
<1> HIDE DEF t
<1>4. t \in Loader!LoaderStates(l) /\ PartsOK(l, t) /\ (t.hashesAsked => t.unchecked # {})
  BY <1>2 DEF LoaderGood, AlmostGood, HashesOK
<1> QED BY <1>1, <1>2, <1>3, <1>4, CancelsStep

LEMMA CopyFailsStep ==
    ASSUME LoaderSetting, LoaderIInv, NEW l \in Loaders, Loader!CopyFails(l)
    PROVE  LoadersOK'
<1> DEFINE s == loader[l]
           t == [s EXCEPT !.local = "Loaded"]
<1>1. Loader!Cancels(l, t) /\ UNCHANGED <<currentPriority, demoted>>
  BY DEF Loader!CopyFails, Loader!Rest
<1>2. LoaderGood(l, s) /\ s \in Loader!LoaderStates(l) /\ s.priority <= currentPriority
  BY LoaderGives
<1>3. t \in Loader!LoaderStates(l) /\ t.sent = s.sent /\ t.next = s.next
      /\ t.unchecked = s.unchecked /\ t.lastComplete = s.lastComplete
      /\ t.hashesAsked = s.hashesAsked /\ t.priority = s.priority
  BY <1>2 DEF Loader!LoaderStates, Loader!LocalStatus
<1> HIDE DEF t
<1>4. PartsOK(l, t) /\ (t.hashesAsked => t.unchecked # {})
  BY <1>2, <1>3 DEF LoaderGood, AlmostGood, PartsOK, HashesOK
<1> QED BY <1>1, <1>2, <1>3, <1>4, CancelsStep

LEMMA LoaderCancel ==
    ASSUME LoaderSetting, LoaderIInv, NEW l \in Loaders, Loader!Cancel(l)
    PROVE  LoadersOK'
<1>1. loaderQueue' = Loader!Without(l) /\ Loader!LoadNext(l, Loader!Deleted(l))
      /\ UNCHANGED <<currentPriority, demoted>>
  BY DEF Loader!Cancel, Loader!Rest
<1>2. LoaderGood(l, Loader!Deleted(l)) /\ Loader!Deleted(l).priority = 0
      /\ ~IsLoading(Loader!Deleted(l))
  BY FreshGood DEF IsLoading
<1>3. 0 <= currentPriority
  BY LoaderGives
<1> QED BY <1>1, <1>2, <1>3, OthersLoad

LEMMA LoaderDelete ==
    ASSUME LoaderSetting, LoaderIInv, NEW l \in Loaders, Loader!Delete(l)
    PROVE  LoadersOK'
<1>1. loaderQueue' = Loader!Without(l) /\ Loader!Becomes(l, Loader!Deleted(l))
      /\ UNCHANGED <<currentPriority, demoted>>
  BY DEF Loader!Delete
<1>2. LoaderGood(l, Loader!Deleted(l)) /\ Loader!Deleted(l).priority = 0
      /\ ~IsLoading(Loader!Deleted(l))
  BY FreshGood DEF IsLoading
<1>3. 0 <= currentPriority
  BY LoaderGives
<1>4. LoadersMoved(l, Loader!Deleted(l))
  BY <1>1, <1>2, BecomesMoves
<1> QED BY <1>1, <1>2, <1>3, <1>4, LoaderCalm

\* Answers come to those who load.
LEMMA AnsweredIs ==
    ASSUME LoaderIInv, NEW l \in Loaders, NEW r \in loader[l].sent
    PROVE  /\ LoaderGood(l, loader[l]) /\ loader[l] \in Loader!LoaderStates(l)
              /\ IsLoading(loader[l])
           /\ loader[l].priority <= currentPriority
           /\ r \in Loader!Requests /\ r.part \in Nat /\ r.kind \in Loader!Kinds
              /\ r.part < loader[l].next
  BY LoaderGives
     DEF LoaderGood, AlmostGood, BusyOK, PartsOK, IsLoading, Loader!LoaderStates,
         Loader!Requests

LEMMA NormalPartLoadedStep ==
    ASSUME LoaderSetting, LoaderIInv, NEW l \in Loaders, NEW r \in loader[l].sent,
           Loader!NormalPartLoaded(l, r)
    PROVE  LoadersOK'
<1> DEFINE s == Loader!FinishSent(loader[l], r)
           t == IF l \in Web THEN [s EXCEPT !.size = LoaderParts[l]] ELSE s
<1>1. r.kind = "part" /\ Loader!PartLoaded(l, t, r.part) /\ UNCHANGED <<currentPriority, demoted>>
  BY DEF Loader!NormalPartLoaded, Loader!Answered, Loader!Rest
<1>2. LoaderGood(l, loader[l])
  BY AnsweredIs
<1>3. /\ AlmostGood(l, s, {r.part}) /\ AskedForOK(s) /\ IsLoading(s) /\ IsLoading(loader[l])
      /\ r.part \in Nat /\ r.part < s.next /\ s.priority = loader[l].priority
  <2>1. r.kind # "hashes"
    BY <1>1
  <2> HIDE DEF s
  <2>2. s = Loader!FinishSent(loader[l], r)
    BY DEF s
  <2> QED BY <1>2, <2>1, <2>2, Finishes
<1> HIDE DEF s
<1>4. s \in Loader!LoaderStates(l)
  BY <1>3 DEF AlmostGood
<1>5. t \in Loader!LoaderStates(l) /\ SameParts(s, t) /\ t.sent = s.sent /\ t.local = s.local
  BY <1>4 DEF Loader!LoaderStates, SameParts
<1> HIDE DEF t
<1>6. /\ AlmostGood(l, t, {r.part}) /\ AskedForOK(t) /\ IsLoading(t)
      /\ r.part < t.next /\ t.priority = loader[l].priority /\ t.sent = s.sent
  BY <1>3, <1>5
     DEF AlmostGood, BusyOK, PartsOK, Covered, HashesOK, HashRequests, WholeOK, AskedForOK,
         IsLoading, SameParts
<1> QED BY <1>1, <1>3, <1>6, PartLoadedStep

LEMMA RedirectedStep ==
    ASSUME LoaderSetting, LoaderIInv, NEW l \in Loaders, NEW r \in loader[l].sent,
           Loader!Redirected(l, r)
    PROVE  LoadersOK'
<1> DEFINE s == Loader!FinishSent(loader[l], r)
<1>1. PICK h \in SUBSET {r.part} : Loader!Becomes(l, Loader!ChangeCDN(s, r.part, TRUE, h))
  BY DEF Loader!Redirected
<1>2. r.kind = "part" /\ UNCHANGED <<loaderQueue, currentPriority, demoted>>
  BY DEF Loader!Redirected, Loader!Answered, Loader!Rest
<1>3. LoaderGood(l, loader[l]) /\ r \in Loader!Requests
  BY AnsweredIs
<1>4. /\ AlmostGood(l, s, {r.part}) /\ AskedForOK(s) /\ IsLoading(s) /\ IsLoading(loader[l])
      /\ r.part \in Nat /\ r.part < s.next /\ s.priority = loader[l].priority
  <2>1. r.kind # "hashes" /\ LoaderGood(l, loader[l])
    BY <1>2, <1>3
  <2> HIDE DEF s
  <2>2. s = Loader!FinishSent(loader[l], r)
    BY DEF s
  <2> QED BY <2>1, <2>2, Finishes
<1> HIDE DEF s
<1>5. h \in SUBSET Nat
  BY <1>4
<1>6. /\ s \in Loader!LoaderStates(l) /\ PartsOK(l, s) /\ Covered(l, s, {r.part})
      /\ s.hashesAsked => s.unchecked # {}
      /\ WholeOK(l, s)
  BY <1>4 DEF AlmostGood, HashesOK
<1> DEFINE t == Loader!ChangeCDN(s, r.part, TRUE, h)
<1>7. LoaderGood(l, t) /\ AsBusy(s, t)
  BY <1>3, <1>4, <1>5, <1>6, ChangeGood
<1> HIDE DEF t
<1>8. IsLoading(t) /\ t.priority = loader[l].priority /\ Loader!Becomes(l, t)
  BY <1>1, <1>4, <1>7 DEF AsBusy, IsLoading, t
<1> QED BY <1>2, <1>4, <1>7, <1>8, LoaderStays

LEMMA CdnPartLoadedStep ==
    ASSUME LoaderSetting, LoaderIInv, NEW l \in Loaders, NEW r \in loader[l].sent,
           Loader!CdnPartLoaded(l, r)
    PROVE  LoadersOK'
<1> DEFINE s == Loader!FinishSent(loader[l], r)
           u == s.unchecked \cup {r.part}
           t == [s EXCEPT !.unchecked = u]
<1>1. /\ r.kind = "part" /\ UNCHANGED <<currentPriority, demoted>>
      /\ \/ Loader!PartLoaded(l, s, r.part)
         \/ Loader!Becomes(l, Loader!RequestMoreHashes(t)) /\ UNCHANGED loaderQueue
  BY DEF Loader!CdnPartLoaded, Loader!Answered, Loader!Rest
<1>2. LoaderGood(l, loader[l])
  BY AnsweredIs
<1>3. /\ AlmostGood(l, s, {r.part}) /\ AskedForOK(s) /\ IsLoading(s) /\ IsLoading(loader[l])
      /\ r.part \in Nat /\ r.part < s.next /\ s.priority = loader[l].priority
  <2>1. r.kind # "hashes"
    BY <1>1
  <2> HIDE DEF s
  <2>2. s = Loader!FinishSent(loader[l], r)
    BY DEF s
  <2> QED BY <1>2, <2>1, <2>2, Finishes
<1> HIDE DEF s
<1>4. CASE Loader!PartLoaded(l, s, r.part)
  BY <1>1, <1>3, <1>4, PartLoadedStep
<1>5. CASE Loader!Becomes(l, Loader!RequestMoreHashes(t)) /\ UNCHANGED loaderQueue
  <2>1. s \in Loader!LoaderStates(l) /\ u \subseteq Nat
    BY <1>3 DEF AlmostGood, Loader!LoaderStates
  <2>2. r.part \in u /\ s.unchecked \subseteq u /\ \A p \in u : p \in s.unchecked \/ p = r.part
    OBVIOUS
  <2> HIDE DEF u
  <2>3. t \in Loader!LoaderStates(l) /\ t.next = s.next /\ t.sent = s.sent /\ t.alive = s.alive
      /\ t.finished = s.finished /\ t.local = s.local /\ t.priority = s.priority
      /\ t.unchecked = u /\ t.got = s.got /\ t.hashesAsked = s.hashesAsked
      /\ t.orphaned = s.orphaned /\ t.cancelled = s.cancelled /\ t.lastComplete = s.lastComplete
    BY <2>1 DEF Loader!LoaderStates
  <2> HIDE DEF t
  <2>4. AlmostGood(l, t, {}) /\ IsLoading(t)
    BY <2>2, <2>3, <1>3
       DEF AlmostGood, BusyOK, PartsOK, Covered, HashesOK, HashRequests, WholeOK, IsLoading
  <2> DEFINE m == Loader!RequestMoreHashes(t)
  <2>5. LoaderGood(l, m) /\ AsBusy(t, m)
    BY <2>4, MoreHashes
  <2> HIDE DEF m
  <2>6. IsLoading(m) /\ m.priority = loader[l].priority /\ Loader!Becomes(l, m)
    BY <1>5, <1>3, <2>3, <2>4, <2>5 DEF AsBusy, IsLoading, m
  <2> QED BY <1>1, <1>3, <1>5, <2>5, <2>6, LoaderStays
<1> QED BY <1>1, <1>4, <1>5

\* A request in place of another.
LEMMA SwapStep ==
    ASSUME LoaderSetting, LoaderIInv, NEW l \in Loaders, NEW r \in loader[l].sent,
           r.kind # "hashes",
           NEW kind \in Loader!Kinds, kind # "hashes", NEW h \in SUBSET Nat,
           Loader!Becomes(l, [loader[l] EXCEPT
                            !.sent = (loader[l].sent \ {r}) \cup {[kind |-> kind, part |-> r.part]},
                            !.hashes = h]),
           UNCHANGED <<loaderQueue, currentPriority, demoted>>
    PROVE  LoadersOK'
<1> DEFINE q == [kind |-> kind, part |-> r.part]
           new == (loader[l].sent \ {r}) \cup {q}
           t == [loader[l] EXCEPT !.sent = new, !.hashes = h]
<1>1. /\ LoaderGood(l, loader[l]) /\ r \in Loader!Requests /\ r.part \in Nat /\ IsLoading(loader[l])
      /\ loader[l] \in Loader!LoaderStates(l)
  BY AnsweredIs
<1>2. q \in Loader!Requests /\ q.kind # "hashes" /\ q.part = r.part
  BY <1>1 DEF Loader!Requests
<1> HIDE DEF q
<1>3. new \subseteq Loader!Requests
  BY <1>1, <1>2 DEF Loader!LoaderStates
<1> HIDE DEF new
<1>4. t \in Loader!LoaderStates(l) /\ SameParts(loader[l], t) /\ t.local = loader[l].local
      /\ t.sent = new
  BY <1>1, <1>3 DEF Loader!LoaderStates, SameParts
<1>5. Loader!Becomes(l, t)
  BY DEF new, q
<1> HIDE DEF t
<1>6. LoaderGood(l, t) /\ AsBusy(loader[l], t)
  BY <1>1, <1>2, <1>4, SwapGood DEF new
<1>7. IsLoading(t) /\ t.priority = loader[l].priority
  BY <1>1, <1>6 DEF AsBusy, IsLoading
<1> QED BY <1>1, <1>5, <1>6, <1>7, LoaderStays

LEMMA CdnReuploadNeededStep ==
    ASSUME LoaderSetting, LoaderIInv, NEW l \in Loaders, NEW r \in loader[l].sent,
           Loader!CdnReuploadNeeded(l, r)
    PROVE  LoadersOK'
<1>0. loader[l] \in Loader!LoaderStates(l) /\ r.part \in Nat
  BY AnsweredIs
<1> DEFINE new == (loader[l].sent \ {r}) \cup {[kind |-> "reupload", part |-> r.part]}
           t == [loader[l] EXCEPT !.sent = new, !.hashes = loader[l].hashes]
<1>1. r.kind = "part" /\ UNCHANGED <<loaderQueue, currentPriority, demoted>>
  BY DEF Loader!CdnReuploadNeeded, Loader!Answered, Loader!Rest
<1>2. [Loader!FinishSent(loader[l],
      r) EXCEPT !.sent = @ \cup {[kind |-> "reupload", part |-> r.part]}] = t
  BY <1>0 DEF Loader!FinishSent, Loader!LoaderStates
<1>3. Loader!Becomes(l, t)
  BY <1>2 DEF Loader!CdnReuploadNeeded
<1>4. loader[l].hashes \in SUBSET Nat /\ "reupload" \in Loader!Kinds
  BY <1>0 DEF Loader!LoaderStates, Loader!Kinds
<1> QED BY <1>1, <1>3, <1>4, SwapStep

LEMMA ReferenceExpiredStep ==
    ASSUME LoaderSetting, LoaderIInv, NEW l \in Loaders, NEW r \in loader[l].sent,
           Loader!ReferenceExpired(l, r)
    PROVE  LoadersOK'
<1>0. loader[l] \in Loader!LoaderStates(l) /\ r.part \in Nat
  BY AnsweredIs
<1> DEFINE new == (loader[l].sent \ {r}) \cup {[kind |-> "refreshing", part |-> r.part]}
           t == [loader[l] EXCEPT !.sent = new, !.hashes = loader[l].hashes]
<1>1. r.kind = "part" /\ UNCHANGED <<loaderQueue, currentPriority, demoted>>
  BY DEF Loader!ReferenceExpired, Loader!Answered, Loader!Rest
<1>2. [Loader!FinishSent(loader[l],
      r) EXCEPT !.sent = @ \cup {[kind |-> "refreshing", part |-> r.part]}] = t
  BY <1>0 DEF Loader!FinishSent, Loader!LoaderStates
<1>3. Loader!Becomes(l, t)
  BY <1>2 DEF Loader!ReferenceExpired
<1>4. loader[l].hashes \in SUBSET Nat /\ "refreshing" \in Loader!Kinds
  BY <1>0 DEF Loader!LoaderStates, Loader!Kinds
<1> QED BY <1>1, <1>3, <1>4, SwapStep

LEMMA ReuploadDoneStep ==
    ASSUME LoaderSetting, LoaderIInv, NEW l \in Loaders, NEW r \in loader[l].sent,
           Loader!ReuploadDone(l, r)
    PROVE  LoadersOK'
<1>0. loader[l] \in Loader!LoaderStates(l) /\ r.part \in Nat
  BY AnsweredIs
<1>1. r.kind = "reupload" /\ UNCHANGED <<loaderQueue, currentPriority, demoted>>
  BY DEF Loader!ReuploadDone, Loader!Answered, Loader!Rest
<1>2. PICK h \in SUBSET {r.part} :
        Loader!Becomes(l,
          Loader!MakeRequest([Loader!FinishSent(loader[l], r) EXCEPT !.hashes = @ \cup h], r.part))
  BY DEF Loader!ReuploadDone
<1> DEFINE new == (loader[l].sent \ {r}) \cup {[kind |-> "part", part |-> r.part]}
           all == loader[l].hashes \cup h
           t == [loader[l] EXCEPT !.sent = new, !.hashes = all]
<1>3. Loader!MakeRequest([Loader!FinishSent(loader[l], r) EXCEPT !.hashes = @ \cup h], r.part) = t
  BY <1>0 DEF Loader!FinishSent, Loader!MakeRequest, Loader!PartRequest, Loader!LoaderStates
<1>4. all \in SUBSET Nat /\ "part" \in Loader!Kinds
  BY <1>0 DEF Loader!LoaderStates, Loader!Kinds
<1>5. Loader!Becomes(l, t)
  BY <1>2, <1>3
<1> HIDE DEF all
<1> QED BY <1>1, <1>4, <1>5, SwapStep

LEMMA ReferenceRefreshedStep ==
    ASSUME LoaderSetting, LoaderIInv, NEW l \in Loaders, NEW r \in loader[l].sent,
           Loader!ReferenceRefreshed(l, r)
    PROVE  LoadersOK'
<1>0. loader[l] \in Loader!LoaderStates(l) /\ r.part \in Nat
  BY AnsweredIs
<1>1. r.kind = "refreshing" /\ UNCHANGED <<loaderQueue, currentPriority, demoted>>
  BY DEF Loader!ReferenceRefreshed, Loader!Answered, Loader!Rest
<1> DEFINE new == (loader[l].sent \ {r}) \cup {[kind |-> "part", part |-> r.part]}
           t == [loader[l] EXCEPT !.sent = new, !.hashes = loader[l].hashes]
<1>2. Loader!MakeRequest(Loader!FinishSent(loader[l], r), r.part) = t
  BY <1>0 DEF Loader!FinishSent, Loader!MakeRequest, Loader!PartRequest, Loader!LoaderStates
<1>3. Loader!Becomes(l, t)
  BY <1>2 DEF Loader!ReferenceRefreshed
<1>4. loader[l].hashes \in SUBSET Nat /\ "part" \in Loader!Kinds
  BY <1>0 DEF Loader!LoaderStates, Loader!Kinds
<1> QED BY <1>1, <1>3, <1>4, SwapStep

\* LoadNextFromQueue() does each loader no harm.
LEMMA LoadsGood ==
    ASSUME LoaderSetting, NEW l \in Loaders, NEW s, NEW m \in Loaders,
           AlmostGood(m, Loader!Of(l, s, m), {}),
           loaderQueue' \in Seq(Loaders),
             m \in Loader!ToSet(loaderQueue') => Loader!Of(l, s, m).local = "NotFound"
    PROVE  LET t == Loader!LoadParts(Loader!Of(l, s, m), Loader!Share(l, s, m)) IN
           /\ AlmostGood(m, t, {}) /\ AsBusy(Loader!Of(l, s, m), t)
           /\ AskedForOK(Loader!Of(l, s, m)) => AskedForOK(t)
<1>1. Loader!Wanted(Loader!Of(l, s, m)) \in Nat
  BY WantedIs DEF AlmostGood
<1>2. /\ Loader!Share(l, s, m) \in 0..Loader!Wanted(Loader!Of(l, s, m))
      /\ Loader!Share(l, s, m) # 0 => Loader!Of(l, s, m).local = "NotFound"
  BY <1>1, ShareIs
<1> QED BY <1>2, LoadGood

\* The hashes have come, and with them the parts of "good" can be checked.
LEMMA HashesCome ==
    ASSUME LoaderSetting, NEW l \in Loaders, NEW s, LoaderGood(l, s), NEW r \in s.sent,
           r.kind = "hashes",
           NEW good \in SUBSET s.unchecked, NEW t \in Loader!LoaderStates(l), t.sent = s.sent \ {r},
           t.unchecked = s.unchecked \ good, ~t.hashesAsked, t.next = s.next, t.alive = s.alive,
           t.finished = s.finished, t.local = s.local, t.priority = s.priority, t.got = s.got,
           t.cancelled = s.cancelled, t.lastComplete = s.lastComplete
    PROVE  /\ AlmostGood(l, t, good) /\ IsLoading(t) /\ t.priority = s.priority /\ ~t.hashesAsked
           /\ \A p \in good : p < t.next
<1> DEFINE new == s.sent \ {r}
           rest == s.unchecked \ good
<1>0. s \in Loader!LoaderStates(l)
  BY DEF LoaderGood, AlmostGood
<1>2. /\ \A q \in s.sent : q \in new \/ q = r
      /\ new \subseteq s.sent /\ r \notin new
      /\ rest \subseteq s.unchecked /\ \A p \in s.unchecked : p \in rest \/ p \in good
  OBVIOUS
<1>3. IsLoading(s)
  BY <1>0 DEF LoaderGood, AlmostGood, BusyOK, IsLoading
<1>4. t.sent = new /\ t.unchecked = rest
  OBVIOUS
<1> HIDE DEF new, rest
<1>5. HashRequests(t) = {}
  BY <1>4, <1>2 DEF LoaderGood, AlmostGood, HashesOK, HashRequests
<1>6. HashesOK(t)
  BY <1>4, <1>5 DEF HashesOK
<1>7. BusyOK(t) /\ WholeOK(l, t) /\ PartsOK(l, t)
  BY <1>2, <1>3, <1>4 DEF LoaderGood, AlmostGood, BusyOK, WholeOK, PartsOK, IsLoading
<1>8. Covered(l, t, good)
  <2> SUFFICES ASSUME NEW p \in 0..s.next - 1
               PROVE  \/ p \in t.got \/ p \in t.unchecked \/ p >= LoaderParts[l] \/ p \in good
                      \/ \E q \in t.sent : q.kind # "hashes" /\ q.part = p
    BY <1>4 DEF Covered
  <2>1. \/ p \in s.got \/ p \in s.unchecked \/ p >= LoaderParts[l]
        \/ \E q \in s.sent : q.kind # "hashes" /\ q.part = p
    BY <1>3 DEF LoaderGood, AlmostGood, Covered, IsLoading
  <2> QED BY <2>1, <1>2, <1>4
<1>9. IsLoading(t) /\ \A p \in good : p < t.next
  BY <1>3, <1>4 DEF IsLoading, LoaderGood, AlmostGood, PartsOK
<1> QED BY <1>4, <1>6, <1>7, <1>8, <1>9 DEF AlmostGood

LEMMA GetCdnFileHashesDoneStep ==
    ASSUME LoaderSetting, LoaderIInv, NEW l \in Loaders, NEW r \in loader[l].sent,
           Loader!GetCdnFileHashesDone(l, r)
    PROVE  LoadersOK'
<1>0. r.kind = "hashes" /\ UNCHANGED <<currentPriority, demoted>>
  BY DEF Loader!GetCdnFileHashesDone, Loader!Answered, Loader!Rest
<1>1. PICK h \in SUBSET loader[l].unchecked :
        LET known == loader[l].hashes \cup h
            good == loader[l].unchecked \cap known
            s == [Loader!FinishSent(loader[l], r) EXCEPT !.hashesAsked = FALSE, !.hashes = known,
                                                  !.unchecked = @ \ good]
            fed == Loader!Feed(l, s, good)
        IN IF good = {} THEN Loader!Fault /\ Loader!Cancels(l, s)
           ELSE /\ loaderQueue' = IF fed.finished THEN Loader!Without(l) ELSE loaderQueue
                /\ loader' = [m \in Loaders |->
                     LET loads == Loader!LoadParts(Loader!Of(l, fed, m), Loader!Share(l, fed, m))
                     IN IF m = l /\ ~fed.finished THEN Loader!RequestMoreHashes(loads) ELSE loads]
                /\ Loader!Unbounded
  BY DEF Loader!GetCdnFileHashesDone
<1> DEFINE known == loader[l].hashes \cup h
           good == loader[l].unchecked \cap known
           s == [Loader!FinishSent(loader[l], r) EXCEPT !.hashesAsked = FALSE, !.hashes = known,
                                                 !.unchecked = @ \ good]
           fed == Loader!Feed(l, s, good)
           loads(m) == Loader!LoadParts(Loader!Of(l, fed, m), Loader!Share(l, fed, m))
<1>2. \/ good = {} /\ Loader!Cancels(l, s)
      \/ /\ loaderQueue' = IF fed.finished THEN Loader!Without(l) ELSE loaderQueue
         /\ loader' = [m \in Loaders |->
                         IF m = l /\ ~fed.finished THEN Loader!RequestMoreHashes(loads(m))
                           ELSE loads(m)]
  BY <1>1
<1>3. /\ LoaderGood(l, loader[l]) /\ loader[l] \in Loader!LoaderStates(l) /\ IsLoading(loader[l])
      /\ loader[l].priority <= currentPriority
  BY AnsweredIs
<1>4. known \in SUBSET Nat /\ good \in SUBSET loader[l].unchecked /\ good \in SUBSET Nat
  BY <1>3 DEF Loader!LoaderStates
<1> HIDE DEF known, good
<1>5. /\ s \in Loader!LoaderStates(l) /\ s.sent = loader[l].sent \ {r}
      /\ s.unchecked = loader[l].unchecked \ good /\ s.hashesAsked = FALSE
         /\ s.next = loader[l].next
      /\ s.alive = loader[l].alive /\ s.finished = loader[l].finished /\ s.local = loader[l].local
      /\ s.priority = loader[l].priority /\ s.got = loader[l].got
      /\ s.cancelled = loader[l].cancelled /\ s.lastComplete = loader[l].lastComplete
  <2> DEFINE new == loader[l].sent \ {r}
             rest == loader[l].unchecked \ good
  <2>1. s = [loader[l] EXCEPT !.sent = new, !.hashesAsked = FALSE, !.hashes = known,
                              !.unchecked = rest]
    BY <1>3 DEF Loader!FinishSent, Loader!LoaderStates
  <2>2. new \subseteq Loader!Requests /\ rest \subseteq Nat
    BY <1>3 DEF Loader!LoaderStates
  <2> HIDE DEF new, rest, s
  <2>3. /\ s \in Loader!LoaderStates(l) /\ s.sent = new
        /\ s.unchecked = rest /\ s.hashesAsked = FALSE /\ s.next = loader[l].next
        /\ s.alive = loader[l].alive /\ s.finished = loader[l].finished /\ s.local = loader[l].local
        /\ s.priority = loader[l].priority /\ s.got = loader[l].got
        /\ s.cancelled = loader[l].cancelled /\ s.lastComplete = loader[l].lastComplete
    BY <1>3, <1>4, <2>1, <2>2 DEF Loader!LoaderStates
  <2> QED BY <2>3 DEF new, rest
<1> HIDE DEF s
<1>6. /\ AlmostGood(l, s, good) /\ IsLoading(s) /\ s.priority = loader[l].priority /\ ~s.hashesAsked
      /\ \A p \in good : p < s.next
  BY <1>0, <1>3, <1>4, <1>5, HashesCome
<1>7. CASE Loader!Cancels(l, s)
  BY <1>0, <1>3, <1>6, <1>7, CancelsStep DEF AlmostGood
<1>8. CASE /\ loaderQueue' = IF fed.finished THEN Loader!Without(l) ELSE loaderQueue
           /\ loader' = [m \in Loaders |->
                           IF m = l /\ ~fed.finished THEN Loader!RequestMoreHashes(loads(m))
                             ELSE loads(m)]
  <2>1. AlmostGood(l, fed, {}) /\ fed.alive /\ fed.local = s.local /\ fed.priority = s.priority
    BY <1>4, <1>6, FeedGood
  <2> HIDE DEF fed
  <2>2. IsLoading(fed) <=> ~fed.finished
    BY <2>1, <1>6 DEF IsLoading
  <2>3. \/ loaderQueue' = loaderQueue /\ (IsLoading(fed) <=> IsLoading(loader[l]))
        \/ loaderQueue' = Loader!Without(l)
    BY <1>8, <2>2, <1>3
  <2>4. /\ loaderQueue' \in Seq(Loaders)
        /\ \A m \in Loader!ToSet(loaderQueue') : m \in Loaders
           /\ Loader!Of(l, fed, m).local = "NotFound"
    BY <2>3, ServedIs
  <2>5. \A m \in Loaders : loader'[m] = IF m = l
        /\ ~fed.finished THEN Loader!RequestMoreHashes(loads(m))
                                        ELSE loads(m)
    BY <1>8, Zenon
  <2>6. ASSUME NEW m \in Loaders
        PROVE  LoaderGood(m, loader'[m]) /\ AsBusy(Loader!Of(l, fed, m), loader'[m])
    <3>1. AlmostGood(m, Loader!Of(l, fed, m), {}) /\ (m # l => AskedForOK(Loader!Of(l, fed, m)))
      <4>1. m # l => LoaderGood(m, loader[m])
        BY LoaderGives
      <4> QED BY <4>1, <2>1 DEF Loader!Of, LoaderGood
    <3>2. /\ AlmostGood(m, loads(m), {}) /\ AsBusy(Loader!Of(l, fed, m), loads(m))
          /\ AskedForOK(Loader!Of(l, fed, m)) => AskedForOK(loads(m))
      BY <3>1, <2>4, LoadsGood
    <3> HIDE DEF loads
    <3>3. CASE m # l
      BY <3>3, <3>1, <3>2, <2>5 DEF LoaderGood
    <3>4. CASE m = l /\ fed.finished
      <4>1. AskedForOK(Loader!Of(l, fed, m))
        BY <3>4 DEF Loader!Of, AskedForOK
      <4> QED BY <3>4, <4>1, <3>2, <2>5 DEF LoaderGood
    <3>5. CASE m = l /\ ~fed.finished
      <4>1. IsLoading(loads(m))
        BY <3>5, <3>2, <2>2 DEF AsBusy, Loader!Of, IsLoading
      <4>2. LoaderGood(m, Loader!RequestMoreHashes(loads(m)))
            /\ AsBusy(loads(m), Loader!RequestMoreHashes(loads(m)))
        BY <3>2, <4>1, MoreHashes
      <4>3. loader'[m] = Loader!RequestMoreHashes(loads(m))
        BY <2>5, <3>5
      <4> QED BY <3>2, <4>2, <4>3 DEF AsBusy
    <3> QED BY <3>3, <3>4, <3>5
  <2>7. loader' = [m \in Loaders |-> loader'[m]]
    BY <1>8
  <2>8. LoadersMoved(l, fed)
    BY <2>6, <2>7 DEF LoadersMoved
  <2> QED BY <2>8, <2>1, <2>2, <1>0, <1>3, <1>6, <1>8, LoaderCalm
<1> QED BY <1>2, <1>7, <1>8

LEMMA TokenInvalidStep ==
    ASSUME LoaderSetting, LoaderIInv, NEW l \in Loaders, NEW r \in loader[l].sent,
           Loader!TokenInvalid(l, r)
    PROVE  LoadersOK'
<1> DEFINE c == loader[l]
           awaited == c.hashesAsked /\ r.kind # "hashes"
           new == c.sent \ {r}
           s == [c EXCEPT !.sent = new, !.hashesAsked = awaited]
<1>0. /\ LoaderGood(l, c) /\ c \in Loader!LoaderStates(l) /\ IsLoading(c) /\ r \in Loader!Requests
         /\ r.part < c.next
  BY AnsweredIs
<1>1. [Loader!FinishSent(c, r) EXCEPT !.hashesAsked = @ /\ r.kind # "hashes"] = s
  BY <1>0 DEF Loader!FinishSent, Loader!LoaderStates
<1>2. Loader!Becomes(l, Loader!ChangeCDN(s, r.part, FALSE, {})) /\ UNCHANGED <<loaderQueue,
      currentPriority, demoted>>
  BY <1>1 DEF Loader!TokenInvalid, Loader!Rest
<1>3. awaited \in BOOLEAN /\ new \subseteq c.sent /\ (\A q \in c.sent : q \in new \/ q = r)
      /\ (awaited => c.hashesAsked)
  BY <1>0 DEF Loader!LoaderStates
<1> HIDE DEF awaited, new
<1>4. s \in Loader!LoaderStates(l) /\ s.next = c.next /\ s.sent = new /\ s.alive = c.alive
      /\ s.finished = c.finished /\ s.local = c.local /\ s.priority = c.priority
      /\ s.unchecked = c.unchecked /\ s.got = c.got /\ s.hashesAsked = awaited
      /\ s.orphaned = c.orphaned /\ s.cancelled = c.cancelled /\ s.lastComplete = c.lastComplete
  BY <1>0, <1>3 DEF Loader!LoaderStates
<1> HIDE DEF s
<1>5. /\ IsLoading(s) /\ PartsOK(l, s) /\ WholeOK(l, s) /\ Covered(l, s, {r.part})
      /\ s.hashesAsked => s.unchecked # {}
  BY <1>0, <1>3, <1>4 DEF LoaderGood, AlmostGood, IsLoading, PartsOK, WholeOK, Covered, HashesOK
<1> DEFINE t == Loader!ChangeCDN(s, r.part, FALSE, {})
<1>6. LoaderGood(l, t) /\ AsBusy(s, t)
  BY <1>0, <1>4, <1>5, ChangeGood
<1> HIDE DEF t
<1>7. Loader!Becomes(l, t) /\ IsLoading(t) /\ t.priority = c.priority
  BY <1>2, <1>4, <1>5, <1>6 DEF AsBusy, IsLoading, t
<1> QED BY <1>0, <1>2, <1>6, <1>7, LoaderStays

LEMMA FailedStep ==
    ASSUME LoaderSetting, LoaderIInv, NEW l \in Loaders, NEW r \in loader[l].sent,
           Loader!Failed(l, r)
    PROVE  LoadersOK'
<1>1. Loader!Cancels(l, loader[l]) /\ UNCHANGED <<currentPriority, demoted>>
  BY DEF Loader!Failed, Loader!Rest
<1> QED BY <1>1, AnsweredIs, CancelsStep DEF LoaderGood, AlmostGood, HashesOK

LEMMA ReferenceLostStep ==
    ASSUME LoaderSetting, LoaderIInv, NEW l \in Loaders, Loader!ReferenceLost(l)
    PROVE  LoadersOK'
<1> DEFINE c == loader[l]
           s == [c EXCEPT !.stale = FALSE]
<1>1. Loader!Cancels(l, s) /\ UNCHANGED <<currentPriority, demoted>>
  BY DEF Loader!ReferenceLost, Loader!Rest
<1>2. LoaderGood(l, c) /\ c \in Loader!LoaderStates(l) /\ c.priority <= currentPriority
  BY LoaderGives
<1>3. s \in Loader!LoaderStates(l) /\ SameParts(c, s) /\ s.sent = c.sent
  BY <1>2 DEF Loader!LoaderStates, SameParts
<1> HIDE DEF s
<1>4. PartsOK(l, s) /\ (s.hashesAsked => s.unchecked # {}) /\ s.priority <= currentPriority
  BY <1>2, <1>3 DEF LoaderGood, AlmostGood, PartsOK, HashesOK, SameParts
<1> QED BY <1>1, <1>3, <1>4, CancelsStep

LEMMA LoaderUnchanged ==
    ASSUME LoaderIInv, UNCHANGED <<loaderQueue, loader, currentPriority, demoted>>
    PROVE  LoadersOK'
  BY DEF LoaderIInv, LoadersOK, LoaderQueueOK, Loader!QueueHasTheLoading, Loader!InQueue,
         Loader!UrgentFirst, Loader!Urgent

LEMMA LoaderOwner ==
    ASSUME LoaderSetting, LoaderIInv, NEW l \in Loaders, Loader!Owner(l)
    PROVE  LoadersOK'
  BY LoaderStarts, PermitStep, LoaderCancel, LoaderDelete DEF Loader!Owner

LEMMA LoaderProgress ==
    ASSUME LoaderSetting, LoaderIInv, NEW l \in Loaders, Loader!Progress(l)
    PROVE  LoadersOK'
<1>1. CASE Loader!StaleRefreshed(l)
  BY <1>1, LoaderUnchanged DEF Loader!StaleRefreshed
<1> QED BY <1>1, LocalLoadedStep, NormalPartLoadedStep, CdnPartLoadedStep, ReuploadDoneStep,
           GetCdnFileHashesDoneStep, ReferenceRefreshedStep DEF Loader!Progress

LEMMA LoaderTrouble ==
    ASSUME LoaderSetting, LoaderIInv, NEW l \in Loaders, Loader!Trouble(l)
    PROVE  LoadersOK'
  BY OpenFailsStep, CopyFailsStep, ReferenceLostStep, RedirectedStep, CdnReuploadNeededStep,
     TokenInvalidStep, FailedStep, ReferenceExpiredStep DEF Loader!Trouble

LEMMA LoaderBoundsStep ==
    ASSUME LoaderSetting, LoaderBounds, Loader!Next
    PROVE  LoaderBounds'
<1>0. MaxStarts \in Nat /\ MaxRedirects \in Nat /\ MaxLoaderFaults \in Nat
  BY DEF LoaderSetting
<1>1. /\ \/ UNCHANGED starts
         \/ starts < MaxStarts /\ starts' = starts + 1
      /\ UNCHANGED redirects \/ (redirects < MaxRedirects /\ redirects' = redirects + 1)
      /\ UNCHANGED loaderFaults \/ (loaderFaults < MaxLoaderFaults
         /\ loaderFaults' = loaderFaults + 1)
      /\ UNCHANGED currentPriority \/ (currentPriority < 2
         /\ currentPriority' = currentPriority + 1)
  <2>1. CASE Loader!ClearPriorities
    BY <2>1 DEF Loader!ClearPriorities, Loader!Unbounded
  <2>2. ASSUME NEW l \in Loaders, Loader!Owner(l)
        PROVE  /\ UNCHANGED <<redirects, loaderFaults, currentPriority>>
               /\ UNCHANGED starts \/ (starts < MaxStarts /\ starts' = starts + 1)
    <3>1. CASE Loader!Delete(l)
      BY <3>1 DEF Loader!Delete
    <3> QED BY <2>2, <3>1
               DEF Loader!Owner, Loader!Start, Loader!Permit, Loader!Cancel, Loader!Rest,
                   Loader!Unbounded
  <2>3. ASSUME NEW l \in Loaders, Loader!Progress(l)
        PROVE  /\ UNCHANGED <<starts, redirects, currentPriority>>
               /\ UNCHANGED loaderFaults \/ (loaderFaults < MaxLoaderFaults
                  /\ loaderFaults' = loaderFaults + 1)
    <3>1. ASSUME NEW r \in loader[l].sent, Loader!GetCdnFileHashesDone(l, r)
          PROVE  /\ UNCHANGED <<starts, redirects, currentPriority>>
                 /\ UNCHANGED loaderFaults \/ (loaderFaults < MaxLoaderFaults
                    /\ loaderFaults' = loaderFaults + 1)
      BY <3>1 DEF Loader!GetCdnFileHashesDone, Loader!Rest, Loader!Unbounded, Loader!Fault
    <3> QED BY <2>3, <3>1
               DEF Loader!Progress, Loader!LocalLoaded, Loader!StaleRefreshed,
                   Loader!NormalPartLoaded, Loader!CdnPartLoaded, Loader!ReuploadDone,
                   Loader!ReferenceRefreshed, Loader!Rest, Loader!Unbounded
  <2>4. ASSUME NEW l \in Loaders, Loader!Trouble(l)
        PROVE  /\ UNCHANGED <<starts, currentPriority>>
               /\ UNCHANGED redirects \/ (redirects < MaxRedirects /\ redirects' = redirects + 1)
               /\ UNCHANGED loaderFaults \/ (loaderFaults < MaxLoaderFaults
                  /\ loaderFaults' = loaderFaults + 1)
    BY <2>4
       DEF Loader!Trouble, Loader!OpenFails, Loader!CopyFails, Loader!ReferenceLost,
           Loader!Redirected, Loader!CdnReuploadNeeded, Loader!TokenInvalid, Loader!Failed,
           Loader!ReferenceExpired, Loader!Rest, Loader!Fault
  <2> QED BY <2>1, <2>2, <2>3, <2>4 DEF Loader!Next
<1> DEFINE Flags ==
      /\ UNCHANGED aborted \/ aborted' = TRUE
      /\ \/ UNCHANGED unhooked
         \/ \E l \in Loaders : unhooked' = (unhooked \/ loader[l].sent # {})
      /\ \/ UNCHANGED demoted \/ demoted' = FALSE
         \/ \E l \in Loaders, prior \in BOOLEAN :
                demoted' = (demoted \/ (~prior /\ loader[l].priority = currentPriority))
<1>2. Flags
  <2>1. CASE Loader!ClearPriorities
    BY <2>1 DEF Loader!ClearPriorities
  <2>2. ASSUME NEW l \in Loaders, Loader!Owner(l) PROVE Flags
    <3>1. ASSUME NEW a \in BOOLEAN, NEW b \in BOOLEAN, Loader!Start(l, a, b) PROVE Flags
      BY <3>1 DEF Loader!Start
    <3>2. CASE Loader!Delete(l)
      BY <3>2 DEF Loader!Delete
    <3> QED BY <2>2, <3>1, <3>2 DEF Loader!Owner, Loader!Permit, Loader!Cancel, Loader!Rest
  <2>3. ASSUME NEW l \in Loaders, Loader!Progress(l)
               PROVE UNCHANGED <<unhooked, demoted>> /\ aborted' \in {aborted, TRUE}
    BY <2>3
       DEF Loader!Progress, Loader!LocalLoaded, Loader!StaleRefreshed, Loader!NormalPartLoaded,
           Loader!CdnPartLoaded, Loader!ReuploadDone, Loader!GetCdnFileHashesDone,
           Loader!ReferenceRefreshed, Loader!Rest
  <2>4. ASSUME NEW l \in Loaders, Loader!Trouble(l) PROVE UNCHANGED <<aborted, unhooked, demoted>>
    BY <2>4
       DEF Loader!Trouble, Loader!OpenFails, Loader!CopyFails, Loader!ReferenceLost,
           Loader!Redirected, Loader!CdnReuploadNeeded, Loader!TokenInvalid, Loader!Failed,
           Loader!ReferenceExpired, Loader!Rest
  <2> QED BY <2>1, <2>2, <2>3, <2>4 DEF Loader!Next
<1>3. aborted' \in BOOLEAN /\ unhooked' \in BOOLEAN /\ demoted' \in BOOLEAN
  BY <1>2 DEF LoaderBounds
<1>4. /\ starts' \in 0..MaxStarts /\ redirects' \in 0..MaxRedirects
         /\ loaderFaults' \in 0..MaxLoaderFaults
      /\ currentPriority' \in 1..2
  BY <1>0, <1>1 DEF LoaderBounds
<1> QED BY <1>3, <1>4 DEF LoaderBounds

LEMMA LoaderInit == ASSUME LoaderSetting, Loader!Init PROVE LoaderIInv
<1>1. loader = [l \in Loaders |-> Loader!Fresh(l, l \notin LocalOnly)]
  BY DEF Loader!Init
<1>2. loaderQueue = <<>> /\ currentPriority = 1
  BY DEF Loader!Init
<1>3. ASSUME NEW l \in Loaders
      PROVE  LoaderGood(l, loader[l]) /\ loader[l].priority = 0 /\ loader[l].local = "NotTried"
  BY <1>1, FreshGood
<1>4. LoaderQueueOK /\ Loader!ToSet(loaderQueue) = {} /\ DOMAIN loaderQueue = {}
  BY <1>2 DEF LoaderQueueOK, Loader!ToSet, Loader!IsInjective
<1>5. Loader!QueueHasTheLoading /\ Loader!UrgentFirst
  BY <1>3, <1>4 DEF Loader!QueueHasTheLoading, Loader!InQueue, Loader!UrgentFirst
<1>6. LoadersOK
  BY <1>1, <1>2, <1>3, <1>4, <1>5 DEF LoadersOK
<1>7. LoaderBounds
  <2>1. MaxStarts \in Nat /\ MaxRedirects \in Nat /\ MaxLoaderFaults \in Nat
    BY DEF LoaderSetting
  <2>2. /\ currentPriority = 1 /\ starts = 0 /\ redirects = 0 /\ loaderFaults = 0
        /\ aborted = FALSE /\ unhooked = FALSE /\ demoted = FALSE
    BY DEF Loader!Init
  <2>3. aborted \in BOOLEAN /\ unhooked \in BOOLEAN /\ demoted \in BOOLEAN
    BY <2>2
  <2>4. /\ currentPriority \in 1..2 /\ starts \in 0..MaxStarts /\ redirects \in 0..MaxRedirects
        /\ loaderFaults \in 0..MaxLoaderFaults
    BY <2>1, <2>2
  <2> QED BY <2>3, <2>4 DEF LoaderBounds
<1> QED BY <1>6, <1>7 DEF LoaderIInv

LEMMA LoaderStep == ASSUME LoaderSetting, LoaderIInv, [Loader!Next]_(Loader!vars) PROVE LoaderIInv'
<1>1. CASE Loader!Next
  <2>1. LoadersOK'
    BY <1>1, LoaderOwner, LoaderProgress, LoaderTrouble, ClearPrioritiesStep DEF Loader!Next
  <2> QED BY <1>1, <2>1, LoaderBoundsStep DEF LoaderIInv
<1>2. CASE UNCHANGED Loader!vars
  BY <1>2, LoaderUnchanged DEF Loader!vars, LoaderIInv, LoaderBounds
<1> QED BY <1>1, <1>2

LEMMA LoadersRight == ASSUME LoaderSetting, LoaderIInv PROVE Loader!LoadersAreRight /\ Loader!TypeOK
<1>1. Loader!FinishedIsWhole
  BY LoaderGives DEF Loader!FinishedIsWhole, LoaderGood, AlmostGood, WholeOK
<1>2. Loader!NothingForgotten
  BY LoaderGives DEF Loader!NothingForgotten, LoaderGood, AlmostGood, Covered
<1>3. Loader!UncheckedAreAsked
  BY LoaderGives
     DEF Loader!UncheckedAreAsked, LoaderGood, AlmostGood, HashesOK, AskedForOK, HashRequests
<1>4. Loader!QueueHasTheLoading /\ Loader!UrgentFirst
  BY DEF LoaderIInv, LoadersOK
<1>5. Loader!TypeOK
  BY LoaderGives DEF Loader!TypeOK, LoaderIInv, LoadersOK, LoaderBounds, LoaderQueueOK
<1> QED BY <1>1, <1>2, <1>3, <1>4, <1>5 DEF Loader!LoadersAreRight

\* For any number of loaders and parts, redirects to a CDN, failed requests, lost references and
\* calls of start(), a loader knows of every part, and the queue has those that load: the
\* inductive invariant.
THEOREM LoadersInductive == LoaderSetting => (Loader!Spec => []LoaderIInv)
<1> SUFFICES ASSUME LoaderSetting PROVE Loader!Spec => []LoaderIInv
  OBVIOUS
<1>1. Loader!Init => LoaderIInv
  BY LoaderInit
<1>2. LoaderIInv /\ [Loader!Next]_(Loader!vars) => LoaderIInv'
  BY LoaderStep
<1> QED BY <1>1, <1>2, PTL DEF Loader!Spec
=============================================================================
