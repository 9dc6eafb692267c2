------------------------------ MODULE Sending -------------------------------
(***************************************************************************)
(* Files that are sent: each is prepared by a task (see TaskQueue), then   *)
(* becomes a local message and an upload (storage/file_upload.cpp); what   *)
(* is uploaded is sent by a message of its own, or waits for the rest of   *)
(* its album (the SendingAlbum of apiwrap.cpp).                            *)
(*                                                                         *)
(* All of it runs in the main thread: an action is a handler with all that *)
(* it calls.  Left out: bytes, hashes and the sessions that carry the      *)
(* parts, the parts of thumbnails, the clearing of a whole history.        *)
(***************************************************************************)
EXTENDS Integers, FiniteSets, Sequences, SequencesExt

CONSTANTS
    Items,
    AlbumItems,      \* the items of the album; the others are sent alone
    Parts,           \* [Items -> Nat \ {0}]: the parts of each file
    ParallelLimit,   \* kMaxUploadFileParallelSize, in parts
    MaxFaults,       \* bound: files and parts that fail, rejected media
    None

VARIABLES
    item,            \* the local message of each file
    queue,           \* Uploader::queue, in the order of the message ids
    uploadingId,
    partsLeft,       \* of the files in the queue
    requests,        \* requestsSent and docRequestsSent
    forgotten,       \* requests that currentFailed() has forgotten, not cancelled
    timer,           \* nextTimer
    pausedId,
    saved,           \* the parts that the server has
    mediaAsked,      \* messages.uploadMedia that are not answered
    album,           \* the items of the SendingAlbum, or None when it is not in _sendingAlbums
    media,           \* those with a media
    sends,           \* the requests that send messages, each a set of items, not answered
    sent,            \* history: how many requests have sent each item
    stuck,           \* history: why the album may never be sent
    faults

vars == <<item, queue, uploadingId, partsLeft, requests, forgotten, timer, pausedId, saved,
          mediaAsked, album, media, sends, sent, stuck, faults>>

Optional(S) == S \cup {None}
PartsOf(i) == {<<i, n>> : n \in 1..Parts[i]}

TypeOK ==
    /\ item \in [Items -> {"preparing", "local", "done", "gone"}]
    /\ ToSet(queue) \subseteq Items /\ Len(queue) = Cardinality(ToSet(queue))
    /\ uploadingId \in Optional(Items) /\ pausedId \in Optional(Items)
    /\ partsLeft \in [Items -> Nat]
    /\ requests \subseteq Items \X Nat /\ forgotten \subseteq Items \X Nat
    /\ saved \subseteq Items \X Nat
    /\ timer \in BOOLEAN
    /\ mediaAsked \subseteq AlbumItems
    /\ album \in Optional(SUBSET AlbumItems) /\ media \subseteq AlbumItems
    /\ sends \subseteq SUBSET Items /\ sent \in [Items -> Nat]
    /\ stuck \subseteq {"failed", "removed last", "deleted"} /\ faults \in 0..MaxFaults

\* sendFiles(): the tasks are added, the album is there.
Init ==
    /\ item = [i \in Items |-> "preparing"]
    /\ queue = <<>> /\ uploadingId = None /\ partsLeft = Parts
    /\ requests = {} /\ forgotten = {} /\ timer = FALSE /\ pausedId = None /\ saved = {}
    /\ mediaAsked = {} /\ album = AlbumItems /\ media = {}
    /\ sends = {} /\ sent = [i \in Items |-> 0]
    /\ stuck = {} /\ faults = 0

-----------------------------------------------------------------------------
(***************************************************************************)
(* The uploader, as a record u of its variables, and the files that are    *)
(* ready.                                                                  *)
(***************************************************************************)
Uploader == [queue |-> queue, current |-> uploadingId, left |-> partsLeft, requests |-> requests,
             forgotten |-> forgotten, timer |-> timer, ready |-> {}]

SendPart(u, i) ==
    [u EXCEPT !.current = i, !.left[i] = @ - 1,
              !.requests = @ \cup {<<i, u.left[i]>>}, !.timer = TRUE]
Forget(u) ==
    [u EXCEPT !.requests = {}, !.forgotten = @ \cup u.requests, !.current = None]
Dequeue(u, i) == [u EXCEPT !.queue = RemoveFirst(@, i)]

\* sendNext() once there is somewhere to begin: a part of the current file, or of the next
\* one when all the parts of it are there.  A file has one part at least.
Current(u) == IF u.current \in ToSet(u.queue) THEN u.current ELSE Head(u.queue)
SendFrom(u) == IF u.queue = <<>> THEN u ELSE SendPart(u, Current(u))

\* Mutant: one part more than there are.
SendNextOneMore(u, paused) ==
    IF Cardinality(u.requests) >= ParallelLimit \/ paused \/ u.queue = <<>> THEN u
    ELSE LET i == Current(u)
         IN IF u.left[i] >= 0 THEN SendPart(u, i)
            ELSE IF u.requests # {} THEN [u EXCEPT !.current = i]
            ELSE SendFrom([Dequeue(u, i) EXCEPT !.current = None, !.ready = @ \cup {i}])
SendNext(u, paused) ==
    IF Cardinality(u.requests) >= ParallelLimit \/ paused \/ u.queue = <<>> THEN u
    ELSE LET i == Current(u)
         IN IF u.left[i] > 0 THEN SendPart(u, i)
            ELSE IF u.requests # {} THEN [u EXCEPT !.current = i]
            ELSE SendFrom([Dequeue(u, i) EXCEPT !.current = None, !.ready = @ \cup {i}])

\* currentFailed()
CurrentFailed(u, paused) ==
    SendNext(Forget(IF u.current = None THEN u ELSE Dequeue(u, u.current)), paused)

\* cancel()
CancelUpload(u, i, paused) ==
    IF u.current = i THEN CurrentFailed(u, paused) ELSE Dequeue(u, i)

-----------------------------------------------------------------------------
(***************************************************************************)
(* The album.                                                              *)
(***************************************************************************)
\* sendAlbumIfReady(): one item is sent as a message, and the album is over.
Ready(items, with) == items # {} /\ items \subseteq with
AlbumBecomes(items, with) ==
    IF items = {} \/ (Ready(items, with) /\ Cardinality(items) = 1)
    THEN album' = None /\ media' = {}
    ELSE album' = items /\ media' = with \cap items
AlbumSends(items, with) == IF Ready(items, with) THEN {items} ELSE {}

Sends(new) ==
    /\ sends' = sends \cup new
    /\ sent' = [i \in Items |-> sent[i] + Cardinality({s \in new : i \in s})]

\* The uploader becomes u; what is ready is sent, or its media is asked for, if its message
\* is still there.
UploaderBecomes(u, messages) ==
    /\ queue' = u.queue /\ uploadingId' = u.current /\ partsLeft' = u.left
    /\ requests' = u.requests /\ forgotten' = u.forgotten /\ timer' = u.timer
    /\ mediaAsked' = mediaAsked \cup {i \in u.ready \cap AlbumItems : messages[i] = "local"}
Singles(u, messages) == {{i} : i \in {i \in u.ready \ AlbumItems : messages[i] = "local"}}

NoAlbum == UNCHANGED <<album, media>>
Paused == pausedId # None
Step(next) == \E u \in {next} : UploaderBecomes(u, item) /\ Sends(Singles(u, item)) /\ NoAlbum

Fault == faults < MaxFaults /\ faults' = faults + 1

-----------------------------------------------------------------------------
(***************************************************************************)
(* Actions.                                                                *)
(***************************************************************************)

\* sendFileConfirmed()
Prepared(i) ==
    /\ item[i] = "preparing"
    /\ item' = [item EXCEPT ![i] = "local"]
    /\ Step(SendNext([Uploader EXCEPT !.queue = Append(@, i)], Paused))
    /\ UNCHANGED <<saved, pausedId, stuck, faults>>

\* FileLoadTask::removeFromAlbum(), which does not look whether the others are ready.
Unprepared(i) ==
    /\ item[i] = "preparing" /\ Fault
    /\ item' = [item EXCEPT ![i] = "gone"]
    /\ IF i \in AlbumItems
       THEN /\ album' = album \ {i} /\ UNCHANGED media
            /\ stuck' = stuck \cup IF album' \subseteq media THEN {"removed last"} ELSE {}
       ELSE NoAlbum /\ UNCHANGED stuck
    /\ UNCHANGED <<queue, uploadingId, partsLeft, requests, forgotten, timer, pausedId, saved,
                   mediaAsked, sends, sent>>

\* nextTimer
TimerFires ==
    /\ timer
    /\ Step(SendNext([Uploader EXCEPT !.timer = FALSE], Paused))
    /\ UNCHANGED <<item, saved, pausedId, stuck, faults>>

\* partLoaded(); the answer to a forgotten request only goes on.
PartLoaded(r) ==
    /\ r \in requests \cup forgotten
    /\ saved' = saved \cup {r}
    /\ Step(SendNext([Uploader EXCEPT !.requests = @ \ {r}, !.forgotten = @ \ {r}], Paused))
    /\ UNCHANGED <<item, pausedId, stuck, faults>>

\* partFailed(): sendNext() is called twice.
PartFailed(r) ==
    /\ r \in requests \cup forgotten /\ Fault
    /\ LET u == IF r \in requests
                THEN CurrentFailed([Uploader EXCEPT !.requests = @ \ {r}], Paused)
                ELSE [Uploader EXCEPT !.forgotten = @ \ {r}]
       IN Step(SendNext(u, Paused))
    /\ stuck' = stuck \cup IF r \in requests THEN {"failed"} ELSE {}
    /\ UNCHANGED <<item, saved, pausedId>>

\* cancelUploadLayer(): the box, and its answers.  stopUpload destroys the item.
Pause(i) ==
    /\ pausedId = None /\ item[i] = "local"
    /\ pausedId' = i
    /\ UNCHANGED <<item, queue, uploadingId, partsLeft, requests, forgotten, timer, saved,
                   mediaAsked, album, media, sends, sent, stuck, faults>>
\* Mutant: the uploader is not told to go on.
UnpauseOnly ==
    /\ Paused
    /\ pausedId' = None
    /\ UNCHANGED <<item, queue, uploadingId, partsLeft, requests, forgotten, timer, saved,
                   mediaAsked, album, media, sends, sent, stuck, faults>>
Unpause ==
    /\ Paused
    /\ pausedId' = None
    /\ Step(SendNext(Uploader, FALSE))
    /\ UNCHANGED <<item, saved, stuck, faults>>

\* destroy() of a message that is not sent: cancelLocalItem(), then Uploader::cancel(); and
\* unpause(), when it is the one that the box is about.
Destroy(i) ==
    /\ item[i] = "local"
    /\ item' = [item EXCEPT ![i] = "gone"]
    /\ pausedId' = IF pausedId = i THEN None ELSE pausedId
    /\ \E cancelled \in {CancelUpload(Uploader, i, Paused)} :
       \E u \in {IF pausedId = i THEN SendNext(cancelled, FALSE) ELSE cancelled} :
          /\ UploaderBecomes(u, item')
          /\ IF i \in AlbumItems /\ album # None
             THEN /\ AlbumBecomes(album \ {i}, media)
                  /\ Sends(AlbumSends(album \ {i}, media) \cup Singles(u, item'))
             ELSE NoAlbum /\ Sends(Singles(u, item'))
    /\ stuck' = stuck \cup IF \E s \in sends : i \in s THEN {"deleted"} ELSE {}
    /\ UNCHANGED <<saved, faults>>

\* messages.uploadMedia is done: sendAlbumWithUploaded(); or has failed, which nobody hears of.
MediaUploaded(i) ==
    /\ i \in mediaAsked
    /\ mediaAsked' = mediaAsked \ {i}
    /\ IF item[i] = "local"
       THEN AlbumBecomes(album, media \cup {i}) /\ Sends(AlbumSends(album, media \cup {i}))
       ELSE NoAlbum /\ Sends({})
    /\ UNCHANGED <<item, queue, uploadingId, partsLeft, requests, forgotten, timer, pausedId, saved,
                   stuck, faults>>
MediaRejected(i) ==
    /\ i \in mediaAsked /\ Fault
    /\ mediaAsked' = mediaAsked \ {i}
    /\ stuck' = stuck \cup {"failed"}
    /\ UNCHANGED <<item, queue, uploadingId, partsLeft, requests, forgotten, timer, pausedId, saved,
                   album, media, sends, sent>>

\* Mutant: an album that could not be sent stays.
SendAnsweredKeeps(s, done) ==
    /\ s \in sends
    /\ sends' = sends \ {s}
    /\ item' = [i \in Items |-> IF done /\ i \in s /\ item[i] = "local" THEN "done" ELSE item[i]]
    /\ UNCHANGED <<queue, uploadingId, partsLeft, requests, forgotten, timer, pausedId, saved,
                   mediaAsked, album, media, sent, stuck, faults>>
\* The messages are sent, or are not: either way the album is over.
SendAnswered(s, done) ==
    /\ s \in sends
    /\ sends' = sends \ {s}
    /\ item' = [i \in Items |-> IF done /\ i \in s /\ item[i] = "local" THEN "done" ELSE item[i]]
    /\ album' = IF s \subseteq AlbumItems /\ Cardinality(s) > 1 THEN None ELSE album
    /\ media' = IF album' = None THEN {} ELSE media
    /\ UNCHANGED <<queue, uploadingId, partsLeft, requests, forgotten, timer, pausedId, saved,
                   mediaAsked, sent, stuck, faults>>

Progress ==
    \/ \E i \in Items : Prepared(i) \/ MediaUploaded(i)
    \/ TimerFires
    \/ \E r \in requests \cup forgotten : PartLoaded(r)
    \/ \E s \in sends, done \in BOOLEAN : SendAnswered(s, done)

Next ==
    \/ Progress \/ Unpause
    \/ \E i \in Items : Unprepared(i) \/ Pause(i) \/ Destroy(i) \/ MediaRejected(i)
    \/ \E r \in requests \cup forgotten : PartFailed(r)

Spec == Init /\ [][Next]_vars

\* Tasks end, requests are answered, the timer fires and the box is closed.
FairSpec == Spec /\ WF_vars(Progress) /\ WF_vars(Unpause)

-----------------------------------------------------------------------------
(***************************************************************************)
(* Properties.                                                             *)
(***************************************************************************)

\* What is sent has been uploaded: the server has every part of it, whatever was cancelled,
\* failed or paused before, and whichever file the answers in between were for.
SentIsSaved ==
    \A i \in Items : sent[i] > 0 \/ i \in mediaAsked => PartsOf(i) \subseteq saved

\* Requests are those of the current file, which is in the queue: partLoaded() asserts it,
\* and a file is ready when there are none.
RequestsAreCurrent ==
    requests # {} => uploadingId \in ToSet(queue) /\ \A r \in requests : r[1] = uploadingId

\* The album is sent as a whole: what is not sent with the others is gone.
SentTogether == \A s \in sends : s \cap AlbumItems # {} => \A i \in AlbumItems \ s : item[i] = "gone"

\* When the media of an item comes, the album is there, and waits for it: what
\* sendAlbumWithUploaded() asserts.
AlbumIsThere == \A i \in mediaAsked : item[i] = "local" => album # None /\ i \in album \ media

\* Nothing is sent twice, unless an item is deleted while its album is being sent: what is
\* left of the album is then sent again.
SentOnce == "deleted" \notin stuck => \A i \in Items : sent[i] <= 1

\* Neither cancelled files nor late answers mix up what is uploaded, and however the items of
\* an album are uploaded, fail and are deleted, it goes once and whole.
AlbumGoesOnce == SentIsSaved /\ RequestsAreCurrent /\ SentTogether /\ AlbumIsThere /\ SentOnce

\* Every message is sent in the end or deleted, unless an upload or a media has failed, or
\* the task of an item has failed after the others were ready: nobody sends those.
EverythingIsSent == <>[](stuck # {} \/ \A i \in Items : item[i] = "local" => sent[i] > 0)
=============================================================================
