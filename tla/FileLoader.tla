----------------------------- MODULE FileLoader -----------------------------
(***************************************************************************)
(* The files downloaded from one data centre (storage/file_download.cpp):  *)
(* the queue of the loaders, which share a number of requests; the look    *)
(* into the local cache before a download; and the parts of a file, which  *)
(* come in any order, may be redirected to a CDN, and are then used only   *)
(* once a hash from the data centre itself is known for them.              *)
(*                                                                         *)
(* _queue->queriesCount and the requested bytes change in                  *)
(* placeSentRequest() and finishSentRequestGetOffset() only, with          *)
(* _sentRequests: the first is the number of sent requests, the others are *)
(* left out.  So are the bytes, pause(), which nothing calls, the loader   *)
(* of http urls, and what the handlers of progress and failed do: when the *)
(* owner deletes a loader from one, that is a step of its own.             *)
(***************************************************************************)
EXTENDS Integers, FiniteSets, FiniteSetsExt, Sequences, SequencesExt

CONSTANTS
    Loaders,
    Parts,           \* [Loaders -> Nat \ {0}]: the parts of each file
    Short,           \* those whose last part is not a multiple of 1024 bytes
    SizeKnown,       \* those with a _size from the start
    Web,             \* web files, whose size comes with the first part
    LocalOnly,       \* those made with LoadFromLocalOnly
    Uncached,        \* documents saved to a file only, which have no cacheKey()
    QueriesLimit,    \* kMaxFileQueries
    MaxStarts,       \* bound: calls of start() that do something
    MaxRedirects,    \* bound: redirects to a CDN
    MaxFaults        \* bound: failed requests, lost references, wrong hashes, writes that fail

VARIABLES
    queue,           \* the linked list of FileLoaderQueue
    loader,          \* the loaders
    currentPriority, \* Downloader::_priority
    aborted,         \* an Assert has failed
    unhooked,        \* history: a loader was deleted with its requests, nobody was served instead
    demoted,         \* history: an urgent loader was started again without priority
    starts, redirects, faults    \* bound counters

vars == <<queue, loader, currentPriority, aborted, unhooked, demoted, starts, redirects, faults>>

FileParts(l) == 0..Parts[l] - 1
Kinds == {"part", "refreshing", "hashes", "reupload"}
Requests == [kind : Kinds, part : Nat]
LocalStatus == {"NotTried", "Loading", "NotFound", "Loaded"}

LoaderStates(l) ==
    [alive : BOOLEAN, fromCloud : BOOLEAN, local : LocalStatus, priority : 0..2,
     finished : BOOLEAN, cancelled : BOOLEAN,
     size : {0, Parts[l]},           \* _size, 0 while it is unknown
     next : Nat,                     \* _nextRequestOffset
     lastComplete : BOOLEAN,
     got : SUBSET FileParts(l),      \* what _data or the file is made of
     sent : SUBSET Requests,         \* _sentRequests
     cdn : BOOLEAN,                  \* _cdnDcId and what goes with it
     hashes : SUBSET Nat,            \* _cdnFileHashes
     unchecked : SUBSET Nat,         \* _cdnUncheckedParts
     hashesAsked : BOOLEAN,          \* _cdnHashesRequestId
     stale : BOOLEAN,                \* a reference is refreshed for a request that is gone
     orphaned : BOOLEAN]             \* history: the CDN was left with unchecked parts

TypeOK ==
    /\ queue \in Seq(Loaders) /\ IsInjective(queue)
    /\ \A l \in Loaders : loader[l] \in LoaderStates(l)
    /\ currentPriority \in 1..2
    /\ aborted \in BOOLEAN /\ unhooked \in BOOLEAN /\ demoted \in BOOLEAN
    /\ starts \in 0..MaxStarts /\ redirects \in 0..MaxRedirects /\ faults \in 0..MaxFaults

Fresh(l, fromCloud) ==
    [alive |-> TRUE, fromCloud |-> fromCloud, local |-> "NotTried", priority |-> 0,
     finished |-> FALSE, cancelled |-> FALSE,
     size |-> IF l \in SizeKnown THEN Parts[l] ELSE 0, next |-> 0, lastComplete |-> FALSE,
     got |-> {}, sent |-> {}, cdn |-> FALSE, hashes |-> {}, unchecked |-> {},
     hashesAsked |-> FALSE, stale |-> FALSE, orphaned |-> FALSE]

\* Nothing of it matters any more.
Deleted(l) == [Fresh(l, FALSE) EXCEPT !.alive = FALSE]

Init ==
    /\ queue = <<>>
    /\ loader = [l \in Loaders |-> Fresh(l, l \notin LocalOnly)]
    /\ currentPriority = 1
    /\ aborted = FALSE /\ unhooked = FALSE /\ demoted = FALSE
    /\ starts = 0 /\ redirects = 0 /\ faults = 0

-----------------------------------------------------------------------------
(***************************************************************************)
(* The queue.                                                              *)
(***************************************************************************)
InQueue(l) == l \in ToSet(queue)
PlaceOf(l) == CHOOSE i \in DOMAIN queue : queue[i] = l
Urgent(i) == i \in DOMAIN queue /\ loader[queue[i]].priority = currentPriority

\* The end of the urgent loaders that follow the place i, the beginning of the others before it.
LastUrgent(i) == CHOOSE j \in i..Len(queue) : (\A k \in i..j : Urgent(k)) /\ ~Urgent(j + 1)
FirstOther(i) == CHOOSE j \in 1..i : (\A k \in j..i : ~Urgent(k)) /\ (j = 1 \/ Urgent(j - 1))

\* removeFromQueue()
Without(l) == IF InQueue(l) THEN RemoveAt(queue, PlaceOf(l)) ELSE queue

\* It is put before what was at the place i, and removed from where it was.
Before(l, i) ==
    InsertAt(Without(l), IF InQueue(l) /\ PlaceOf(l) < i THEN i - 1 ELSE i, l)
After(l, i) == Before(l, i + 1)

\* Mutant: a loader that is started for the first time goes behind all the others.
FirstPlaceLast(l) == After(l, Len(queue))
\* A loader that was not in the queue, started with prior and not loadFirst.
FirstPlace(l) == IF Urgent(1) THEN After(l, LastUrgent(1)) ELSE Before(l, 1)

\* start(): where the loader goes.  Nothing calls it with loadFirst and not prior.
Placed(l, loadFirst, prior) ==
    LET i == PlaceOf(l)
    IN CASE ~prior -> After(l, Len(queue))
         [] prior /\ loadFirst -> Before(l, 1)
         [] prior /\ ~loadFirst /\ ~InQueue(l) -> FirstPlace(l)
         [] prior /\ ~loadFirst /\ InQueue(l) ->
                IF Urgent(i + 1) THEN After(l, LastUrgent(i + 1))
                ELSE IF ~Urgent(i) /\ i > 1 /\ ~Urgent(i - 1) THEN Before(l, FirstOther(i - 1))
                ELSE queue

-----------------------------------------------------------------------------
(***************************************************************************)
(* The parts of one loader, s.                                             *)
(***************************************************************************)
PartRequest(part) == [kind |-> "part", part |-> part]
MakeRequest(s, part) == [s EXCEPT !.sent = @ \cup {PartRequest(part)}]
FinishSent(s, r) == [s EXCEPT !.sent = @ \ {r}]
Refreshing(s) == \E r \in s.sent : r.kind = "refreshing"

\* How many parts loadPart() would request, one after the other, and the requests.
Wanted(s) ==
    IF s.finished \/ s.lastComplete \/ ~s.alive THEN 0
    ELSE IF s.size = 0 THEN (IF s.sent = {} THEN 1 ELSE 0)
    ELSE IF s.next < s.size THEN s.size - s.next ELSE 0
LoadParts(s, n) ==
    [s EXCEPT !.next = @ + n, !.sent = @ \cup {PartRequest(part) : part \in s.next..s.next + n - 1}]

\* requestMoreCdnFileHashes()
RequestMoreHashes(s) ==
    IF s.hashesAsked \/ s.unchecked = {} THEN s
    ELSE [s EXCEPT !.hashesAsked = TRUE,
                   !.sent = @ \cup {[kind |-> "hashes", part |-> Min(s.unchecked)]}]

\* feedPart(), of parts in order: the file is complete when nothing is awaited any more.
Feed(l, s, parts) ==
    LET last == \E p \in parts : p >= Parts[l] \/ (l \in Short /\ p = Parts[l] - 1)
    IN [s EXCEPT !.got = @ \cup (parts \cap FileParts(l)),
                 !.lastComplete = @ \/ last,
                 !.finished = /\ s.sent = {} /\ s.unchecked = {}
                              /\ s.lastComplete \/ last \/ (s.size > 0 /\ s.next >= s.size)]

\* Mutant: only the redirected part is asked for again.
ChangeCDNOnly(s, part, cdn, hashes) ==
    [s EXCEPT !.cdn = cdn, !.hashes = @ \cup hashes, !.sent = {PartRequest(part)},
              !.stale = @ \/ Refreshing(s), !.orphaned = @ \/ s.unchecked # {}]
\* changeCDNParams(): what is sent is cancelled and sent again, as requests of parts.
ChangeCDN(s, part, cdn, hashes) ==
    [s EXCEPT !.cdn = cdn,
              !.hashes = @ \cup hashes,
              !.sent = {PartRequest(p) : p \in {part} \cup {r.part : r \in s.sent}},
              !.stale = @ \/ Refreshing(s),
              !.orphaned = @ \/ s.unchecked # {}]

\* cancel()
Cancelled(s) ==
    [s EXCEPT !.sent = {}, !.stale = @ \/ Refreshing(s), !.got = {},
              !.finished = TRUE, !.cancelled = TRUE]

-----------------------------------------------------------------------------
(***************************************************************************)
(* A step of the loader l, which becomes s; with LoadNextFromQueue() or    *)
(* without.                                                                *)
(***************************************************************************)
Of(l, s, m) == IF m = l THEN s ELSE loader[m]
QueriesCount(l, s) == MapThenSumSet(LAMBDA m : Cardinality(Of(l, s, m).sent), Loaders)

Becomes(l, s) == loader' = [loader EXCEPT ![l] = s]

\* LoadNextFromQueue(): the loaders take what is left of the limit, in the order of the queue.
Share(l, s, m) ==
    LET wanted(i) == Wanted(Of(l, s, queue'[i]))
        place == CHOOSE i \in DOMAIN queue' : queue'[i] = m
        count == QueriesCount(l, s) + MapThenSumSet(wanted, 1..place - 1)
    IN IF m \notin ToSet(queue') THEN 0
       ELSE Cardinality({n \in 1..wanted(place) : count + n <= QueriesLimit})
\* Mutant: nobody takes the place of a request that has ended.
LoadNextNone(l, s) == Becomes(l, s)
LoadNext(l, next) ==
    \E s \in {next} : loader' = [m \in Loaders |-> LoadParts(Of(l, s, m), Share(l, s, m))]

Unbounded == UNCHANGED <<starts, redirects, faults>>
Fault == faults < MaxFaults /\ faults' = faults + 1 /\ UNCHANGED <<starts, redirects>>
Rest == UNCHANGED <<currentPriority, aborted, unhooked, demoted>>

\* cancel(): emits failed or progress, and the others are served.
Cancels(l, s) == queue' = Without(l) /\ LoadNext(l, Cancelled(s))

\* feedPart() and notifyAboutProgress().
PartLoaded(l, s, part) ==
    \E fed \in {Feed(l, s, {part})} :
       /\ queue' = IF fed.finished THEN Without(l) ELSE queue
       /\ LoadNext(l, fed)

-----------------------------------------------------------------------------
(***************************************************************************)
(* start(), and the local cache.                                           *)
(***************************************************************************)

\* start() without a local file: into the queue, and one part is asked for if there is room.
GetsGoing(l, s, loadFirst, prior) ==
    LET urgent == IF prior THEN [s EXCEPT !.priority = currentPriority] ELSE s
        room == QueriesCount(l, s) < QueriesLimit \/ (loadFirst /\ prior)
    IN /\ queue' = Placed(l, loadFirst, prior)
       /\ Becomes(l, LoadParts(urgent, IF room /\ Wanted(s) > 0 THEN 1 ELSE 0))

\* start() of a loader that is known not to be in the cache.
Proceeds(l, s, loadFirst, prior) ==
    IF s.fromCloud THEN GetsGoing(l, s, loadFirst, prior) ELSE Cancels(l, s)

\* tryLoadLocal() of a loader that has not tried yet looks into the cache, if there is a key.
Missing(l) == loader[l].local = "NotFound" \/ (loader[l].local = "NotTried" /\ l \in Uncached)
Missed(l) == [loader[l] EXCEPT !.local = "NotFound"]

Start(l, loadFirst, prior) ==
    /\ ~aborted /\ loader[l].alive /\ ~loader[l].finished /\ loader[l].local # "Loading"
    /\ starts < MaxStarts /\ starts' = starts + 1 /\ (loadFirst => prior)
    /\ IF Missing(l) THEN Proceeds(l, Missed(l), loadFirst, prior)
       ELSE Becomes(l, [loader[l] EXCEPT !.local = "Loading"]) /\ UNCHANGED queue
    /\ demoted' = (demoted \/ (~prior /\ loader[l].priority = currentPriority))
    /\ UNCHANGED <<currentPriority, aborted, unhooked, redirects, faults>>

\* The first start() of a document saved to a file only: the file cannot be opened.
OpenFails(l) ==
    /\ ~aborted /\ loader[l].alive /\ ~loader[l].finished /\ loader[l].fromCloud
    /\ l \in Uncached /\ loader[l].local = "NotTried" /\ starts < MaxStarts /\ Fault
    /\ Cancels(l, Missed(l))
    /\ Rest

\* permitLoadFromCloud()
Permit(l) ==
    /\ ~aborted /\ loader[l].alive /\ ~loader[l].fromCloud
    /\ Becomes(l, [loader[l] EXCEPT !.fromCloud = TRUE])
    /\ UNCHANGED queue /\ Rest /\ Unbounded

\* clearPriorities()
ClearPriorities ==
    /\ ~aborted /\ currentPriority < 2
    /\ currentPriority' = currentPriority + 1 /\ demoted' = FALSE
    /\ UNCHANGED <<queue, loader, aborted, unhooked>> /\ Unbounded

\* localLoaded(): the file, or start() with loadFirst.  A finished loader is not started.
LocalLoaded(l, found) ==
    /\ ~aborted /\ loader[l].alive /\ loader[l].local = "Loading"
    /\ CASE found -> /\ UNCHANGED queue
                     /\ LoadNext(l, [loader[l] EXCEPT !.local = "Loaded", !.finished = TRUE,
                                                      !.got = FileParts(l)])
         [] ~found /\ loader[l].finished -> Becomes(l, Missed(l)) /\ UNCHANGED queue
         [] ~found /\ ~loader[l].finished -> Proceeds(l, Missed(l), TRUE, TRUE)
    /\ Rest /\ Unbounded

\* finishWithBytes(): the loader was given a file too, which cannot be opened or written.
CopyFails(l) ==
    /\ ~aborted /\ loader[l].alive /\ loader[l].local = "Loading" /\ Fault
    /\ Cancels(l, [loader[l] EXCEPT !.local = "Loaded"])
    /\ Rest

\* The owner gives up: cancel(), and the loader is deleted.
Cancel(l) ==
    /\ ~aborted /\ loader[l].alive /\ starts < MaxStarts /\ starts' = starts + 1
    /\ queue' = Without(l)
    /\ LoadNext(l, Deleted(l))
    /\ Rest /\ UNCHANGED <<redirects, faults>>

\* The owner deletes the loader as it is: nobody is served instead of it.
Delete(l) ==
    /\ ~aborted /\ loader[l].alive
    /\ loader[l].finished \/ starts < MaxStarts
    /\ starts' = IF loader[l].finished THEN starts ELSE starts + 1
    /\ queue' = Without(l)
    /\ Becomes(l, Deleted(l))
    /\ unhooked' = (unhooked \/ loader[l].sent # {})
    /\ UNCHANGED <<currentPriority, aborted, demoted, redirects, faults>>

-----------------------------------------------------------------------------
(***************************************************************************)
(* Answers.                                                                *)
(***************************************************************************)
Answered(l, r, kind) == ~aborted /\ r \in loader[l].sent /\ r.kind = kind

\* webPartLoaded() and the answer of normalPartLoaded() that is a part.
NormalPartLoaded(l, r) ==
    /\ Answered(l, r, "part") /\ ~loader[l].cdn
    /\ LET s == FinishSent(loader[l], r)
       IN PartLoaded(l, IF l \in Web THEN [s EXCEPT !.size = Parts[l]] ELSE s, r.part)
    /\ Rest /\ Unbounded

\* switchToCDN()
Redirected(l, r) ==
    /\ Answered(l, r, "part") /\ ~loader[l].cdn /\ l \notin Web
    /\ redirects < MaxRedirects /\ redirects' = redirects + 1
    /\ \E hashes \in SUBSET {r.part} :
            Becomes(l, ChangeCDN(FinishSent(loader[l], r), r.part, TRUE, hashes))
    /\ UNCHANGED <<queue, starts, faults>> /\ Rest

\* cdnPartLoaded(): a part with a hash is used, one without waits for it; a wrong one ends it all.
CdnPartLoaded(l, r) ==
    /\ Answered(l, r, "part") /\ loader[l].cdn
    /\ LET s == FinishSent(loader[l], r)
       IN IF r.part \in s.hashes THEN PartLoaded(l, s, r.part)
          ELSE /\ Becomes(l, RequestMoreHashes([s EXCEPT !.unchecked = @ \cup {r.part}]))
               /\ UNCHANGED queue
    /\ Rest /\ Unbounded
CdnReuploadNeeded(l, r) ==
    /\ Answered(l, r, "part") /\ loader[l].cdn /\ Fault
    /\ Becomes(l, [FinishSent(loader[l], r) EXCEPT
                      !.sent = @ \cup {[kind |-> "reupload", part |-> r.part]}])
    /\ UNCHANGED queue /\ Rest
ReuploadDone(l, r) ==
    /\ Answered(l, r, "reupload")
    /\ \E hashes \in SUBSET {r.part} :
            Becomes(l, MakeRequest([FinishSent(loader[l], r) EXCEPT !.hashes = @ \cup hashes], r.part))
    /\ UNCHANGED queue /\ Rest /\ Unbounded

\* getCdnFileHashesDone(): what is checked now is used; more hashes are asked for at the end.
GetCdnFileHashesDone(l, r) ==
    /\ Answered(l, r, "hashes")
    /\ \E hashes \in SUBSET loader[l].unchecked :
        LET known == loader[l].hashes \cup hashes
            good == loader[l].unchecked \cap known
            s == [FinishSent(loader[l], r) EXCEPT !.hashesAsked = FALSE, !.hashes = known,
                                                  !.unchecked = @ \ good]
            fed == Feed(l, s, good)
        IN IF good = {} THEN Fault /\ Cancels(l, s)
           ELSE /\ queue' = IF fed.finished THEN Without(l) ELSE queue
                /\ loader' = [m \in Loaders |->
                     LET loads == LoadParts(Of(l, fed, m), Share(l, fed, m))
                     IN IF m = l /\ ~fed.finished THEN RequestMoreHashes(loads) ELSE loads]
                /\ Unbounded
    /\ Rest

\* cdnPartFailed(): the token is not valid any more, back to the data centre.
TokenInvalid(l, r) ==
    /\ r.kind \in {"part", "hashes", "reupload"} /\ Answered(l, r, r.kind) /\ loader[l].cdn /\ Fault
    /\ LET s == [FinishSent(loader[l], r) EXCEPT !.hashesAsked = @ /\ r.kind # "hashes"]
       IN Becomes(l, ChangeCDN(s, r.part, FALSE, {}))
    /\ UNCHANGED queue /\ Rest

\* partFailed(), a wrong hash or size, a write that fails: the download is over.
Failed(l, r) ==
    /\ r.kind # "refreshing" /\ Answered(l, r, r.kind) /\ Fault
    /\ Cancels(l, loader[l])
    /\ Rest

\* partFailed() with FILE_REFERENCE_: the request stays until there is a new one.
ReferenceExpired(l, r) ==
    /\ Answered(l, r, "part") /\ ~loader[l].cdn /\ Fault
    /\ Becomes(l, [FinishSent(loader[l], r) EXCEPT
                      !.sent = @ \cup {[kind |-> "refreshing", part |-> r.part]}])
    /\ UNCHANGED queue /\ Rest

\* refreshFileReferenceFrom()
ReferenceRefreshed(l, r) ==
    /\ Answered(l, r, "refreshing")
    /\ Becomes(l, MakeRequest(FinishSent(loader[l], r), r.part))
    /\ UNCHANGED queue /\ Rest /\ Unbounded
ReferenceLost(l) ==
    /\ ~aborted /\ (Refreshing(loader[l]) \/ loader[l].stale)
    /\ Fault
    /\ Cancels(l, [loader[l] EXCEPT !.stale = FALSE])
    /\ Rest

\* The request is gone: finishSentRequestGetOffset() asserts that it is there.
StaleRefreshed(l) ==
    /\ ~aborted /\ loader[l].stale
    /\ aborted' = TRUE
    /\ UNCHANGED <<queue, loader, currentPriority, unhooked, demoted>> /\ Unbounded

Progress(l) ==
    \/ \E found \in BOOLEAN : LocalLoaded(l, found)
    \/ StaleRefreshed(l)
    \/ \E r \in loader[l].sent :
        \/ NormalPartLoaded(l, r) \/ CdnPartLoaded(l, r)
        \/ ReuploadDone(l, r) \/ GetCdnFileHashesDone(l, r)
        \/ ReferenceRefreshed(l, r)
Trouble(l) ==
    \/ OpenFails(l) \/ CopyFails(l) \/ ReferenceLost(l)
    \/ \E r \in loader[l].sent :
        \/ Redirected(l, r) \/ CdnReuploadNeeded(l, r) \/ TokenInvalid(l, r)
        \/ Failed(l, r) \/ ReferenceExpired(l, r)
Owner(l) ==
    \/ \E loadFirst, prior \in BOOLEAN : Start(l, loadFirst, prior)
    \/ Permit(l) \/ Cancel(l) \/ Delete(l)

Next == ClearPriorities \/ \E l \in Loaders : Owner(l) \/ Progress(l) \/ Trouble(l)

Spec == Init /\ [][Next]_vars

\* The cache and the servers answer.
FairSpec == Spec /\ WF_vars(\E l \in Loaders : Progress(l))

-----------------------------------------------------------------------------
(***************************************************************************)
(* Properties.                                                             *)
(***************************************************************************)

\* A download that is finished and not cancelled has every part of the file, whatever the
\* order of the parts, the change to a CDN and back, and the requests that were sent again.
FinishedIsWhole ==
    \A l \in Loaders : loader[l].finished /\ ~loader[l].cancelled => loader[l].got = FileParts(l)

\* No part is forgotten: what has been requested has come, is sent, or waits for its hash.
NothingForgotten ==
    \A l \in Loaders : LET s == loader[l] IN
        s.alive /\ ~s.finished =>
            \A p \in 0..s.next - 1 : p \in s.got \cup s.unchecked \/ (\E r \in s.sent : r.part = p)
                                     \/ p >= Parts[l]

\* Parts that wait for a hash have a request for it under way, unless the CDN was left
\* while they did: then that request is cancelled, but not forgotten, and never sent again.
UncheckedAreAsked ==
    \A l \in Loaders : LET s == loader[l] IN
        s.alive /\ ~s.finished /\ ~s.orphaned =>
            /\ s.unchecked # {} => s.hashesAsked
            /\ s.hashesAsked <=> \E r \in s.sent : r.kind = "hashes"

\* The queue has the loaders that have something to load from the cloud, and no other.
QueueHasTheLoading ==
    \A l \in Loaders :
        InQueue(l) <=> /\ loader[l].alive /\ ~loader[l].finished
                       /\ loader[l].local = "NotFound"

\* What was asked for on this screen is not behind what was asked for on an older one,
\* unless an urgent loader was started again without priority, which puts it to the end.
UrgentFirst == ~demoted => \A i, j \in DOMAIN queue : i < j /\ Urgent(j) => Urgent(i)

\* A loader knows of every part where it is, until the file is whole, and those who share
\* the limit of requests wait for their turn in order.
LoadersAreRight ==
    /\ FinishedIsWhole /\ NothingForgotten /\ UncheckedAreAsked
    /\ QueueHasTheLoading /\ UrgentFirst

\* In the end every download is finished: a place in the queue is always taken when a
\* request ends.  Not so once the program has aborted, a loader with requests was deleted,
\* or parts were left without their hash.
EveryDownloadEnds ==
    <>[](\A l \in Loaders :
            \/ aborted \/ unhooked \/ loader[l].orphaned
            \/ loader[l].local = "NotFound" /\ loader[l].alive => loader[l].finished)
=============================================================================
