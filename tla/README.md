# A TLA+ development of Telegram Desktop

Specifications, model-checking runs and machine-checked proofs for the parts of
Telegram Desktop where order, concurrency and failure decide whether the program is
right. Paths below are relative to `Telegram/SourceFiles/`. `PROJECT.json` says, for
every definition, which lines it models.

At the centre are the three parts everything else stands on: the path of a request
through the MTProto session (two threads, a lossy connection, a server that forgets), the
instance above it (what becomes of a request that is answered with an error), and the
updates (a numbered stream with gaps). Beside them stand the media cache on the disk
(crashes between writes, a compactor that rewrites the log while it is in use), animations
(frames shared by two threads without a lock) and nine
components that wait for the network, for threads, for people or for each other.

## Inventory

| Component | State it keeps | Operations | Talks to | What is hard |
|---|---|---|---|---|
| **MTP instance** `mtproto/mtp_instance.cpp` | callbacks of requests, requests by id, delayed requests, dependent requests, requests waiting for an authorization in another data centre | send, cancel, run the handler of an answer, requeue on flood / internal / migration errors | sessions (adds to `_toSend`, asks to send), the API code (handlers) | handlers run without the lock; an answer, an ack and a cancel of one request race; requeueing |
| **MTProto session** `mtproto/session.*` | `SessionData`: `_toSend`, `_haveSent`, `_toResend`, `_wereAcked`, `_stateRequest`, `_receivedResponses`, each map with a read-write lock | queue a request, resend one / many / all, cancel, check sent requests by a timer, hand responses to the instance | instance (main thread), connection (signals between threads) | the maps are locked one at a time |
| **Connection** `mtproto/connection.cpp` | msg_ids, the transport, the acks to send, restart flag, state requests | send alone or in a container, handle each kind of service message, ack, restart, connect | `SessionData` from its own thread, the server | everything in flight when the transport dies; rejected, repeated and delayed answers |
| **Key creation** `connection.cpp`, `auth_key.cpp`, `rsa_public_key.cpp` | the handshake, the shared key | the steps of the handshake | connection, `Dcenter` | two sessions of one data centre waiting for one key |
| **Transports, DC options, configuration** `connection_*.cpp`, `dc_options.cpp`, `config_loader.cpp`, `special_config_request.cpp` | candidates under test, endpoints | race of transports, reload of the configuration | connection | timeouts against late answers |
| **Cache database** `storage/cache/*database_object*`, `*compactor*` | `_map`, `_removing`, `_accessed`, `_stale`, the binlog, the value files | open, put, get, remove, moveIfEmpty, copyIfEmpty, clear, prune, compact | its queue; the compactor's queue; the disk | crashes between two writes; compaction against writing |
| **Cache cleaner, binlog reader, encrypted file** `storage_cache_cleaner.cpp`, `storage_cache_binlog_reader.*`, `storage_encrypted_file.cpp` | version directories, block buffer, CTR offset | remove old versions, read records over block ends | database | torn records, a lock held by another process |
| **Updates** `data/data_peer.cpp` (`PtsWaiter`), `mainwidget.cpp` | good / last / count of pts, queue of skipped updates, timers | check an update, wait for the missing one, getDifference | API code, instance | gaps, repeats, a difference in flight |
| **File download** `storage/file_download.cpp` | queue of loaders, parts in flight, CDN keys and hashes | start, part loaded, redirect to CDN, cancel | instance, cache database | pause and cancel against late parts |
| **File upload** `storage/file_upload.cpp` | queue, parts in flight per session | upload parts, confirm, cancel, retry | instance | bounded windows over several sessions |
| **Local storage** `storage/localstorage.cpp` | settings, keys, maps; two copies of each file | write alternately, read the newest valid one | disk | crash between two files |
| **Shared media** `storage_sparse_ids_list.cpp`, ... | slices of known message ids | merge slices, count, query | API code | an algorithm with many cases |
| **API wrapper, data model** `apiwrap.cpp`, `data/` | caches of everything the server said | requests and their answers | instance, UI | width, not depth |
| **Calls** `calls/` | state of the call | accept, confirm, hang up | instance, external engine | peers acting at once |
| **Media playback** `media/media_clip_reader.*`, `media_audio*` | three frames and the number that says whose they are, the map of readers, those of the thread | show a frame, write the next one, pause, delete a reader | widgets (main thread), a decoding thread | frames shared without a lock, readers deleted while they are worked on |
| **Export, updater, cloud password** | | | | sequential or dominated by libraries |
| **Base library, rpl, UI, code generators** | | | | not protocols |

Properties that make the components correct:

- *session and connection*: a request waits in exactly one place until it is answered,
  failed or cancelled; an answer reaches the request it was sent for; containers are valid
  for the server; nothing stays on a dead connection; no wake-up is lost; in the end a
  request is with the server.
- *instance*: each handler runs at most once and never after `cancel`; requeued and
  dependent requests are sent in the end; an imported authorization wakes its waiters.
- *cache database*: reads are never old, values reported as stored survive crashes and
  compactions, the log says what is in memory, two keys never share a file.
- *cleaner, reader*: an old version never comes back; a torn tail never hides a later record.
- *updates*: updates are applied in order of pts, none is skipped or applied twice.
- *file transfer*: windows are bounded, every part is asked for once, cancel leaves nothing.
- *local storage*: what is read after a crash is the old or the new file.
- *media playback*: no frame is painted while it is written; no reader is told of the end of another;
  an animation that is looked at goes on.
- *shared media*: slices stay disjoint, sorted and truthful about what is between them.

The hazards of the code, each at its line with the properties that watch it, are in
`PROJECT.json`.

## MtpSession

`MtpSession.tla` models `SessionData` and the two threads that share it.

| Variable | Code |
|---|---|
| `callbacks`, `inner`, ... | the instance's callback map, and the msg_id inside a serialized request |
| `toSend`, `haveSent`, `toResend`, `wereAcked`, `stateRequest`, `responses` | the maps of `SessionData` |
| `containers`, `stateReqs` | the entries of `_haveSent` that are containers and state requests |
| `main` | where the main thread is between two locks of `Session::resend`, `cancel` |
| `conn` | where the connection thread is between two locks of `tryToSend`, `handleOneReceived`, `requestsAcked`, `SessionData::clear` |
| `sendDue`, `resends`, `resendAllPosted`, ... | signals and queued calls between the threads |
| `connState`, restart flag | the transport and `ConnectionPrivate::restarted` |
| `delivered`, `stale` | what the server holds in its session; what was in flight on a dead connection |

An action is a stretch of code under one lock. `SendRequest`, `CancelBegin/End`,
`ResendTake/Queue/List`, `ResendAll`, `CheckRequestsByTimer`, `TryToReceive` and
`ClearCallbacks` are the main thread; `TryToSend`, `SendAloneEnd`, `AckMore`,
`SaveResult`, `ConnectToServer`, `Connected`, `Disconnect`, `SessionClear/ClearMaps` the
connection thread; `Receive...` is one kind of service message each, handled by the
connection thread when the server sends it. The server is the environment: of the messages
it holds (`delivered`) it acks, answers, rejects or ignores any, in any order and late; state
reports and resend orders may name any msg_id that was given out.

Simplifications, none of which removes an interleaving of the operations modelled:

- msg_ids grow (`msgid()` keeps them so; the case of `prepareToSend` that replaces ids after
  the clock moved back is not reachable and left out);
- a set of posted resends instead of a list: their order is free;
- a signal that is forwarded by another object is one step;
- acks and other service messages that make `tryToSend` build a container are one flag
  (`others`); `MTPResendThreshold` is 1, so the timer asks for states and does not resend;
- the received-id bookkeeping, updates, `invokeAfter`, stop and kill of a session, handlers
  that requeue a request are left out (see the plan).

Fairness (`FairSpec`): both threads run an event loop, so posted work is done, a thread
leaves the code between two locks, a wake-up is served, and a transport connects in the end.
Nothing is assumed of the messages of the server. `ForgetsPosted` excludes one behaviour from
the liveness run: the ten-minute clean-up of containers running before a `resend()` that was
posted earlier. Without it the run finds a request that waits in `_haveSent` for the next
state check; the safety runs do not exclude it.

Bounds: `MaxMsgId` message ids are given out, at most `MaxFaults` disturbances (reconnects
and rejections by the server) happen, `IdsBufferSize` replaces the limit of `_wereAcked`
(400). Three ids and two requests are enough for two requests in a container, its rejection and
its resending, the other thread at work in between. In the liveness run two ids may be used
before the room for one more container with a state request is gone: a request is sent, lost
with its connection or rejected, resent, and disturbed once more. When the ids are used up
nothing more can be sent: the runs allow deadlock, and the liveness property asks for
`RoomForIds`.

## CacheDatabase

`CacheDatabase.tla` models `DatabaseObject` with its files and `CompactorObject`.

| Variable | Code |
|---|---|
| `map`, `removing`, `staleKeys`, `logOpen` | `_map`, `_removing`, `_stale`, `_binlog.isOpen()` |
| `op` | how far the operation on the queue has come in its writes |
| `compactor`, `till`, `readAt`, `written`, `caughtUp`, `lastCatchUp` | `CompactorObject`, its copy of the size of the binlog, `finalize()` |
| `binlog`, `ready`, `temp`, `files` | the files `binlog`, `binlog-ready`, `binlog-temp` and the value files |
| `latest`, `kept` | history: the value given last to a key; the keys whose put is done |

The database runs on one queue, so operations do not interleave with each other. What
interleaves is the end of the process, which may come between any two writes of an operation
(`Crash`), and the compactor, which reads the binlog on a queue of its own, asks the database
for entries and posts its result. `PutRecord`, `PutOpen`, `PutWrite` are the three writes of
`put()`; `Removes` and `Unlink` the two of `remove()`; `MoveBegin`, `MoveEnd` those of
`moveIfEmpty()`; `CompactorDone`, `SwapRemove`, `SwapRename` those of `compactorDone()`.
A failing write is `Fault(kind)`: of a value file ("data"), of the binlog ("log"), in the
compactor ("compact"), of the rename or the reopening at its end ("swap").

Simplifications: tags, sizes and times decide only which keys become stale, so any keys may
(`MarkStale`); whether a compaction starts is a matter of sizes and delays, so it may start
whenever a record is superfluous (`CompactorStart`); `get()` matters only when it removes a
damaged entry; `copyIfEmpty` is a get and a put, `putIfEmpty` a put; a record is written whole;
what was written before a kill is on the disk; a checksum tells values apart and a random
place does not repeat. The times of use (`_accessed`), versions, `clear()` and the cleaner are
left out.

`CacheStore.tla` is the promise: a map that may lose a value (it is a cache) but never returns
one that was replaced or removed. `ImplementsStore` is the refinement: the key and the value of
the operation in progress are `busy` and `given` there, what the abstract map holds is what a
`get` would find, and the choice that the promise leaves open, old value or nothing, is made by
the crash.

Bounds: two keys and two values (both symmetric, `MCCacheDatabase`), `MaxPlaces` files ever
made, `MaxLog` records in a binlog, bundles of `MaxBundled` removals, `MaxFaults` failing
writes. In `CacheDatabase` four records are enough for a value overwritten, a compaction of it,
and two records that arrive while it runs; nothing fails but the process. In
`CacheDatabaseFaults` three records leave room for one that arrives, and one write fails, of a
value file, the binlog, the compactor or the swap. A full log stops the writers but not the
compactor. Puts that are done are not asked for there: with a failing write of the binlog they
do not hold (`CacheDatabaseLogFails`, finding 2), and a rename that fails after the old binlog
was removed loses the whole cache, which the model shows and no property forbids.

## Updates

`Updates.tla` models `PtsWaiter` for the account and for channels, the differences that
`MainWidget` asks for, and the stream they come through.

| Variable | Code |
|---|---|
| `waiter[b]` | `_good`, `_last`, `_count`, `_queue`, `_requesting` and `_waitingForSkipped` of one `PtsWaiter` |
| `byPts`, `afterFail`, `minChannel` | the times in `_getDifferenceTimeByPts`, `_getDifferenceTimeAfterFail` and their channel maps, `_byMinChannelTimer` |
| `pending`, `stream` | requests in their order; what the server sent and the main thread has not handled |
| `log` | what the server has numbered |
| `known`, `own`, `again`, `dropped` | history: updates applied, those made by the user's own requests, those applied twice, a channel's own ones that `feedUpdate()` skipped |

The server pushes updates and answers over one connection, in order, but the main thread
empties the map of responses before the list of updates (`Session::tryToReceive`), so an
answer overtakes updates that came before it (`Receive`). An update may overtake the one
before it (`MaxSwaps`); a lost session loses what was not received and is announced by
`new_session_created`. Differences may come in pieces, name channels that lag, or be refused.

What the code does, and the properties are stated accordingly:

- `ptsReceived()` with a count of zero over a gap (reading a part of a channel's history)
  lets the whole queue out: in channels updates are applied out of order, and the difference
  repeats them. `AppliedOnceInOrder` is therefore said of the account only; `NothingSkipped`
  of every box;
- an own update of the account that comes while a difference is on its way is applied and then
  repeated by the difference (`again \subseteq own`); one of a channel is skipped (`FeedSkips`;
  `mainwidget.cpp:4076`, `4152`, `4233`). If the server made the difference before it, nothing
  brings it until somebody else's update leaves a gap: such updates are `LeftOut`, which `CaughtUp`
  exempts, and only as long as all that is newer in the channel is the user's own. `GapsAreWatched`
  exempts them too, because a history that is read over one (a count of zero) counts past it and
  leaves a gap that nobody watches;
- counts in answers ("affected") are not applied while a difference is on its way, so
  `CaughtUp` is about the updates known, not about the pts;
- `differenceTooLong` of the account leaves it requesting for ever; such a server answer is
  left out. So are repeated updates, which `PtsWaiter` does not detect when they are queued.

Fairness (`FairSpec`): the server answers, the event loop handles what was received, timers
run out. Bounds: up to four numbers in the account and four in a channel, updates of two numbers,
three requests of the user, one update that overtakes, one lost session, one refused difference, and
at most seven of all these together (`MaxEvents`): enough for a gap while a difference is on its way,
its refusal and the recovery after both, and for an own update of a channel that is dropped, a
history read over it and one more update.

## MtpInstance

`MtpInstance.tla` models `MTP::Instance` on the main thread: the three maps of a request
(`_parserMap`, `_requestMap`, `_requestsByDc`), the delayed requests, the waiters for an
authorization with its export and import, migration, `invokeAfter`, the change of the main
data centre, and each branch of `rpcErrorOccured` / `onErrorDefault` as an action. A session
is the set of requests it was given; `MtpSession` says what it does with them.

`RequestService.tla` is the promise: a request that was sent ends once. `ImplementsService`
is the refinement with the phase read from the callbacks and the outcome told to the owner.

What the code does beside that, recorded in the history variables `stranded` and `unserved`:
`importFail()` does nothing and `exportFail()` empties the list of waiters; the import that
meets a 401 becomes a waiter of itself; callbacks of export and import can be dropped with
`NoError`; `setMainDcId()` kills the sessions with the requests in them; `MSG_WAIT_FAILED` of
a request whose predecessor is with a session is handled and the request forgotten there. The
properties say that there is no other way to be left behind. Delayed requests of the main data
centre follow `_mainDcId` at the time they are sent, not the one they were delayed in.

Fairness: posted calls run, and sessions bring answers (`AnswerDone`, `Exported`, `Imported`):
that a session does is `EventuallyWithServer` in `MtpSession`. Bounds: two requests, of which
one may follow the other, two data centres, four errors of any kinds: export, import, a
migration and one more error, each at every moment.

## Components

The rest share no state with each other. Each has its module; `Components.tla` composes them, so
that one run checks them all: `part` chooses one for each behaviour, the variables of the others stay
as they began, and fairness is each module's own, stated on the variables of its part. `Parts.tla` and
`Transfers.tla` have the variables and the instances of the parts about which `Parts_proofs.tla` and
`Transfers_proofs.tla` prove something.

**`SparseIds`** (`storage_sparse_ids_list.cpp`, `data_sparse_ids.cpp`, requests in
`apiwrap.cpp`): slices of message ids without holes, a viewer that shows some around a message,
pages of the server computed at one time and handled at another. Late answers are the point:
one computed before a removal brings the id back, one computed before missed messages hides
them (`late` exempts exactly these); `removeOne()` decrements the count for ids it does not
have; a request that fails is not repeated. The slices stay apart in any case. The viewer is
right, and full in the end, when no answer was overtaken.

**`FileLoader`** (`file_download.cpp`): the queue with its priorities, the shared limit of
requests, parts in any order, redirects to a CDN, hashes, file references, requests cancelled
and sent again. A loader with a key in the cache is looked for there first, and enters the queue
from `localLoaded()`, at the front and over the limit; one without (`Uncached`, a document that is
saved to a file only) goes on in its own `start()` with the `loadFirst` and `prior` it was called
with, behind the urgent ones or at the end, and waits without a request when the limit is full.
`LocalOnly` ones are cancelled when they are not in the cache, unless `permitLoadFromCloud()` came
before. A file that cannot be opened (`OpenFails`) or written when the bytes are there (`CopyFails`)
ends the download. What an owner does in a handler of `progress` or `failed` is a step after the
call that emits it, not in the middle of it. Observed, and exempted by a history variable each: `changeCDNParams()` leaves
unchecked parts whose hash request is not sent again (`orphaned`); a file reference that comes
for a request cancelled meanwhile runs into an assertion (`aborted`); `destroyLoader` frees
places without letting the next loader take them (`unhooked`); starting an urgent loader again
without priority puts it to the end (`demoted`). `pause()` has no callers.

**`Sending`** (`file_upload.cpp`, albums of `apiwrap.cpp`): prepared files, the uploader with
its parts, pauses and failures, single messages and albums. Observed (`stuck`): an item whose
task fails last does not let the album go ("removed last"); a failed upload or media leaves the
album waiting ("failed"); deleting an item while the album is being sent sends the rest again
("deleted"). `currentFailed()` forgets requests but does not cancel them: their answers still
come (`forgotten`).

**`TaskQueue`** (`localimageloader.cpp`): main thread and worker, step by step between locks.
Observed: a wake-up delivered inside `processEvents()` is lost when the worker knows of no task
left (`swallowed`); when the remaining task is cancelled the worker spins until the next one.
A queued signal is assumed to come before a timer of seconds.

**`Calls`** (`calls_call.cpp`, `calls_instance.cpp`): states of a call, requests and late
answers, updates of the server, the DH configuration, permissions, a controller that reports
from its threads, four timers, an honest server and other party. Observed: `setState()` protects
only `Failed` and `FailedHangingUp`, so a queued "Established" or a late acceptance makes a call
that hangs up an active one (its timers still end it); the discard timer is not cancelled when
the line is busy and may end the redialled call; busy before the DH configuration, then a
redial, starts the call twice and asks for two calls, whose keys may come when the second was found busy:
then the assertion of `redial()` or `create()` that there is no controller may fail (`again`, found
while proving `KeyExchangeIsRight`); after five seconds in `Requesting` a hung-up call is
destroyed without telling the server; a denied microphone hangs up whatever call is current; a
permission granted late replaces a call that came meanwhile; granted after the other side hung up and the call was redialled it meets the assertion
of `actuallyAnswer()` and the program ends (`AnswerAborts`); `ExchangingKeys` of an incoming call
has no timeout, so `EveryCallEnds` does not speak of it.

**`DcKey`** (`dcenter.cpp`, `session.cpp`, key creation in `connection.cpp`): the key of one
data centre, the lock under which one session creates it, the copies of the others, and the
signals that pass through the main thread. The cryptography is an answer that is good or bad.
Observed: the new key is signalled before its lock is given up, so a connection that looks in
between finds the lock held and waits for a signal that was already sent (`left`); `stop()` on
the main thread waits for a connection that is blocked in `lockKey()`, whose holder may wait
for the main thread to load the configuration of the CDN (`Frozen`); a session whose signal is
on its way may create a second key; an unknown RSA key of a CDN whose configuration was loaded
restarts for ever.

**`Connecting`** (`connection.cpp`): the tests of all endpoints, the choice of the best transport
that is connected, the wait for a better one, the timers of the wait and of the retry, posted
calls, the configuration that is missing. `Turn` says that a posted `connectToServer` runs before
timers and transports. Observed: a connected transport that is lost while a better one is awaited
leaves tests without any timer (`abandoned`): if the better one stays silent nothing goes on.
`doDisconnect()` resets `restarted`, so every caller sets it afterwards.

**`EventStream`** (`rpl/event_stream.h`, `rpl/consumer.h`): a list of consumers whose handlers, called from the loop over it,
subscribe, unsubscribe, fire again or destroy the stream. Each cell of the list is read when the
loop gets there, and what the handler left in it is moved. Observed (`disturbed`): when a `fire()`
inside a handler meets consumers that have ended it moves the others, and the outer loop, which
remembers an index, skips one, calls one twice or loses one.

**`LocalFile`** (`localstorage.cpp`): a file under two names, `init()`, `finish()` and
`readFile()` call by call, with the end of the process between any two. Observed (`spoiled`): a
write that comes after a write that was cut, with no read in between, overwrites the only good
copy when that is the older one by its time; `finish()` removes the old copy though the new one
may not have fitted on the disk; a copy that could not be removed can be chosen again when the times
are equal.

Bounds, in `Components.cfg` and `MCComponents.tla`: four messages, two changes, one failed request; three downloads that
share one place for a request, one of them without a key in the cache, with three calls of `start()`, which is
enough for one to wait behind two others that were asked for first; an album of two files and one alone, one fault; three tasks; one
call of the server, two of the client, one fault; two sessions of a CDN and one disturbance; three
endpoints; three consumers and three values, one fired inside another; three writes, three times
and two faults. Each lets the thing happen that the component is hard for: an answer overtaken,
a part orphaned, an item that fails when the rest is ready, a timer against a task, a call
redialled while its old timers run, a key created while another session stops, a transport lost
while a better one is awaited, a consumer that leaves while the list is shortened, a process that ends twice.
Where a history variable exempts what the code does, the run still contains those behaviours: the
property says that there is no other way. Fairness: requests are answered and answers handled,
timers run out, threads run; event streams and local files need none.

## ClipReader

`ClipReader.tla` models `media/media_clip_reader.cpp`: the main thread and the decoding thread of an
animation with its three frames, and the manager's map of readers under its mutex.

| Variable | Code |
|---|---|
| `step`, `displayed`, `autoPaused`, `state`, `private` | `Reader::_step`, `Frame::displayed`, `_autoPausedGif`, `_state`, `_private` |
| `made`, `alive` | the readers made one after the other at one address |
| `main`, `showing`, `repaint` | where the main thread is in `Reader::current` or `start`, and with which frame |
| `inMap`, `updated`, `posted`, `notified` | `_readerPointers` with its flag, `processDelayed`, `callback` on their way |
| `readers` | the `ReaderPrivate` of each reader, and when `process()` looks at it next |
| `worker`, `working`, `toHandle`, `checkAll` | where the thread is in `process()` and `handleResult()` |

An action is what a thread does between two accesses of the other one to the same data. That
`step` is read and written in one action is no simplification: the main thread stores only over
`WaitingForRequest` and even values, the worker only over the others, so nobody stores in between.

The run takes two readers, because a result may be worked out for one when another stands at its
address, and one failure or end. `FairSpec` lets both threads run; callbacks and the time of a frame
come under strong fairness, as painting and looking again and again do not keep Qt's event loop and
the clock from them. Observed, and exempted by a history variable each:

- `overtaken`: a frame that is painted once more while the worker moves on. `moveToNextShow()` then
  gives away the next frame, unseen, and the worker may write the one that is still being copied;
- `revived`: an error between the main thread's check of `_state` and the lock in `update()`, which
  then puts the reader back into the map; the deleted reader stays there, as `stop()` does nothing
  after an error.

Also seen: the notification of an error never arrives, because `Reader::callback` asks
`carries()` when the reader is out of the map already, so the branch of `Gif::clipCallback` for it
(`inline_bots/inline_bot_layout_internal.cpp:354`) is not reached that way; and the formula in
`media_clip_reader.h:135`, show `(state + 1) / 2`, is not the one of `frameToShow()`, `step / 2`.

## Runs

| Run | Instance | What it shows |
|---|---|---|
| `MtpSession` | two requests, three ids, one disturbance | Types and the six safety properties: no request is lost, in two places, answered by another's result or left on a dead connection; containers stay valid; no wake-up is forgotten. |
| `MtpSessionLive` | one request, five ids, two disturbances | `EventuallyWithServer`: a request that nobody cancels is brought to the server again and again until it is answered. |
| `MtpSessionResendMap` | as `MtpSession` | Finding 1. |
| `CacheDatabase` | two keys, two values, four records, crashes | Values reported as stored survive, and `CacheStore` is implemented. |
| `CacheDatabaseFaults` | three records, one failing write | An open binlog says what is in memory, no two keys share a file, only a lost record costs a stored value. |
| `CacheDatabaseLogFails` | the log fails | Finding 2. |
| `Updates` | the account and a channel, fairness | Nothing skipped, nothing out of order, no gap with an update missing and nothing that will close it; `CaughtUp`: in the end every update is known, but for those a channel dropped. |
| `UpdatesRefused` | a channel's difference is refused | Finding 3. |
| `MtpInstance` | two requests, two data centres, four errors | One place, maps that agree, nobody waits for nothing, one outcome, which comes in the end; `RequestService` is implemented. |
| `MtpInstanceGivenUp` | a request is given up | Finding 4. |
| `ClipReader` | two readers, one failure, fairness | No frame used by both threads, no reader told of another's end, an animation that goes on, but for the exemptions above. |
| `Components` | nine small instances | The properties of the nine components above; `EverythingEnds` is `ViewFills`, `EveryDownloadEnds`, `EverythingIsSent` and `EveryCallEnds`, `ConnectionsComeUp` is `EveryoneHasTheKey` and `KeepsTrying`. |

Every property of a passing run has a mutant in `PROJECT.json`: a plausible bug in one
definition, beside it in the module, with which the run fails.

Deadlock is not checked where a bounded system may stop: ids, records, requests or tasks are used
up, or all is done.

## Findings

1. `MtpSessionResendMap`: `Session::cancel` (`mtproto/session.cpp:366`) leaves the id of a
   cancelled request in `_toResend`; the comment at `mtproto/session.h:294` says that such a
   request lies in `_toSend`. Harmless: the id is taken out when it is next met.
2. `CacheDatabaseLogFails`: `writeKeyPlaceGeneric` returns an engaged empty optional when the
   write of the binlog fails (`storage_cache_database_object.cpp:848`), `put()` takes it for
   "nothing changed" and reports a value as stored that is not.
3. `UpdatesRefused`: nobody resets the requesting flag of a channel whose difference was refused,
   so the timer asks for nothing (`mainwidget.cpp:3293`), though its timeout is there to ask again
   (`mainwidget.h:539`).
4. `MtpInstanceGivenUp`: `clearCallbacksDelayed({ 1, RPCCallbackClear(...) })`
   (`mtproto/connection.cpp:1777`) makes a list of two, and drops the callbacks of request 1 as
   well.

## Proofs

`MtpSession_proofs.tla` proves, for every set of requests and every value of the bounds, the
seven safety properties that the run `MtpSession` checks. They follow from one inductive
invariant,

    IInv == TypeOK /\ HeldOK /\ IdsOK /\ AnswersReachTheirRequest /\ OnePlace /\ ClearOK
            /\ StaleOK /\ NoRequestLost /\ ContainersAreValid /\ NoForgottenWakeUp

which TLC also checks on the small instance. The properties are not inductive alone:

- `HeldOK`: what a thread holds between two locks is really there: a request that was sent
  by the program, under the msg_id it carries (needed when `resend()`, `cancel()` or
  `tryToSend()` goes on);
- `IdsOK`: every id in use is below the counter and is one thing only, a request, a container
  or a state request (needed for `AnswersReachTheirRequest` and `ContainersAreValid` when an
  id is drawn);
- `ClearOK`: between the two halves of `SessionData::clear()` every request in flight has its
  response or the clearing of its callbacks ahead (needed for `NoRequestLost` when the maps
  are emptied);
- `StaleOK`: what was in flight on a dead connection has the restart flag, a posted
  `resendAll` or a posted `resend` ahead, in whatever state the connection is; with the flag
  down while connected this gives `NothingWaitsOnDeadConnection`, which is no conjunct.

Every action has its own step or lemma for each group of conjuncts it can disturb.
The only assumptions are those of the module on its constants.

`MtpInstance_proofs.tla` proves for every set of requests and data centres:

- `TypeCorrectness` and `MapsAlwaysAgree`: the map of callbacks, of requests and of data centres
  name the same requests between two calls;
- `WaitersAlwaysServed`: whoever waits for an authorization waits for an export or import that
  is under way, or is in `unserved`. It needs `Served`, which says where the request of
  the export and of the import are;
- `NothingEverStranded`: a request whose callbacks are there is with a session, delayed, waiting,
  after another one, or in `stranded`. It needs `AllFound`, the same of the requests of the
  instance itself;
- `Implementation`: `Spec => Service!Spec`, the refinement of `RequestService`, step by step,
  from the agreement of the maps;
- `NeverInTwoPlaces`: a registered request is with one session, waits in one data centre or is
  delayed, and not two of these. Its invariant `Sole` is about what is sent anew: a request of the
  program that is new is nowhere (`NewNowhere`), as is an export or import that is not registered
  (`OwnGone`) or whose callbacks are posted to be cleared (`OwnClearing`). An export is sent again
  only when nobody waits, and then neither the last one nor its import is under way (`OneAsks`,
  `AskedFor`); an import that is refused waits in the data centre it is for (`ImportsHome`), so it
  is never the first to wait and never asks for the export that would send it a second time.

`Parts_proofs.tla` is about five of the components, whatever their constants are, one section each with
its own inductive invariant; `Components_proofs.tla` carries the results to the composition, which the
run checks. A step of the composition is a step of one component or leaves it alone (`KeysOnly`,
`FileOnly` and so on), so an inductive invariant of a component is one of the composition.
- `Connecting`: `ConnectingInductive`, `ConnectingStaysRight` for every set of endpoints whose
  priorities are `0..3` (the assumption `Endpoints`, what `appendTestConnection` gives). The invariant
  adds to the property `ConnectsAnew`, `connectToServer` is posted or tests exist whenever the state is
  connecting, and `TestsAreTimed`, tests have their timer or are `abandoned`.
- `LocalFile`: `FileInductive`, `FileStaysOldOrNew` for any number of writes, faults and times. The
  invariant `FileIInv` says which of the two copies is good: `FilesOK`, between two writes there is one
  good file or none, and while one is being written the other one is kept until the new one is closed;
  `NumbersOK`, no file has a number that was not written yet, and the one that was read last is not
  newer than it.
- `DcKey`: `KeyInductive`, `KeyStaysShared`, the safety of `KeyIsShared`, for any number of sessions,
  faults and tries (`KeySetting`, what the constants are: `None` is no session, at least one try).
  The invariant says in addition that there is no signal for a session that is not made and that
  nobody stops one (`NewIsApart`), and strengthens `CopiesAreTold` to the sessions that do not listen
  yet: each has the key, or missed the signal (`StartersAreTold`), so nothing is lost uncounted when
  it begins to listen. The action property `KeyIsKept` follows from it with a lemma about the step
  that begins a handshake and one about those that forget a key.
- `EventStream`: `StreamInductive`, `ValuesReachEveryone` for any number of consumers, values and calls
  of `fire()` within handlers. `FiresOK` describes the stack of calls: each has its own value, all but
  the innermost are in a handler, and what a call removed lies before its place. As long as nothing is
  `disturbed` the rest holds: `CellsOK`, a consumer that has not ended is in exactly one cell, and
  nothing else is in the list; `RemovedOK`, from the first removed cell to the place of the loop all
  are empty, so the move of a consumer overwrites nobody; `RestOK`, the cells ahead of a call have
  everybody who is still to be told of its value, and nobody who was. The outermost call then drops
  removed cells only, and when a call has come to its end there is nobody left to be told.
- `Calls`: `CallsInductive`, `KeysAreExchangedRight` for any number of calls, of `Call` objects, of
  faults and of permissions asked (`CallBounds`: the two bounds that are numbers of the model are
  natural numbers). The argument follows.
- `AlbumsStillGoOnce` and `LoadersStayRight` carry the theorems of `Transfers_proofs.tla` over.

That the keys of a call are right is a matter of four queues that overtake each other: requests, their
answers, updates, DH configurations. The invariant of `Calls` is

    CallIInv == CallTypesOK /\ KnownOK /\ WorldOK /\ OwnOK

- `KnownOK`: nobody speaks of a call or an object that is not made yet, so that a new one is new;
- `WorldOK` is about what is on its way. `UpdatesOK`: an update tells what has happened, each step is
  told once, and a call is not asked to be confirmed before it is told that it was accepted.
  `ServerOK`: before a call is accepted, or when it was found busy, nothing of keys is asked or told.
  `AskedOK`, `AnswersOK`: a request is one that its call may make, an incoming call is declined as busy
  only before it is accepted, and an answer is of the call it was asked of. `OnceOK`: of an accept or a
  confirm of one call there is one, asked or answered;
- `OwnOK` is about the current call. `IncomingOK`: its configuration is asked for once, it is accepted
  with the power it has, and until it has one it was not accepted. `OutgoingOK`: it is asked for once,
  with its power, and the server has that power for it; a confirm is on its way only as long as there
  is no controller. `ControllerOK`: who talks has exchanged the keys, and no update of it is left.

The steps of the client that neither make a call nor change what it is (`CalmStep`) are proved at
once, the starts, acceptances, confirmations, new calls and the redial each by itself, and so is each
step of the server. `ExchangedOnce` was wrong in its first form: it claimed that a call that started twice has no
controller when it is redialled. The case that would not be proved is the double start above, and the
property now exempts it; that at most one confirm is asked holds of such a call too and is claimed.

`Transfers_proofs.tla` proves `AlbumsGoOnce` for any finite album among any files of any number of
parts, and any number of faults, pauses and requests at once (`AlbumSetting`). The inductive invariant has
- `UploadOK`: no file is twice in the queue; a part of a queued file that is not left to send is on
  the server or among the requests, which are those of the current file; so when nothing is left and
  nothing is asked, all of it is there. `sendNext()`, `currentFailed()` and `cancel()` keep it and add
  no file (`UploadKeeps`), whatever the answers in between were for;
- `EarlyItemsOK`: nothing was asked or sent for a file that is still prepared or uploaded;
- `AlbumOK`: while the album is known it is what of its items is not gone, and when it is not known
  any more none of them is on its way;
- `SendsOK`: a request has all of the album or nothing of it, and of an album that is known it is
  never a request for one item (such an album is over at once); if nothing was deleted meanwhile, an
  album whose request is not under way was not sent.
The steps that go on with uploads (`UploadsKeep`) and those in which the album changes
(`AlbumMoves`) are proved once each, and every action is one of them or removes something.

Its second section proves `LoadersInductive` for any loaders, each of at least one part and with or
without a key in the cache, any limit of
requests, and any number of starts, redirects and faults (`LoaderSetting`). `LoaderIInv` says of a loader
- `BusyOK`, `PartsOK`: requests are those of a loader that is in the queue, for parts that were given out,
  and once the last part has been seen all of them were;
- `Covered`: each part that was given out has come, waits for its hash or has a request that is not for
  hashes, up to the parts that the running handler has just taken out of a request;
- `HashesOK`, `AskedForOK`: there is at most one request for hashes, it has `_cdnHashesRequestId`, and it
  goes on as long as something is unchecked, unless the loader is `orphaned`;

and of the queue that it has each loading loader once and, unless one was `demoted`, those of the current
priority before the others. The last one is about the scans of `start()`: `Placed` puts a loader, whether it
was in the queue or comes to it, at the front, behind the last urgent one of a block, before the first of
the others or at the end, and only because the others were in order does it stay so (`PlacedIs`). A loader leaves the queue exactly when it ends, whichever of `partLoaded()`,
`failed()`, `cancel()` and the destructor it ends in. `loadNext()` is a lemma of its own (`LoadNextMoved`):
it asks for parts of those in the queue and changes nothing else of anybody.

`ClipReader_proofs.tla` proves, for any number of readers and failures, `TypesAreRight` and
`ClipsStayRight`: the two threads never use one frame (but for `overtaken`), and the manager's map
tells the truth. The invariant says in addition who may be where: `MainOK` and `ShowingOK`, what
the main thread paints is the frame to show or the one before it that was just given away;
`WorkerOK`, the worker has the frame that the number gives it as long as its reader is listed;
`MadeOK` and `EndedOK`, a reader that is gone or ended has nobody who works for it.

`CacheDatabase_proofs.tla` is about any keys and values, any length of the binlog and any number
of crashes, compactions and failing writes. The inductive invariant has

- `LogsOK`: of the records that mention a key one is the last (what `Replay` chooses);
- `OpOK`: what every step of an operation relies on from the step before; `FilesOK`: places are
  different and below the next one in the map, in the binlog and in the compacted binlog;
- `CompactorOK`: the compacted binlog, with what it has not copied yet, says what the binlog says;
  this is what makes the swap right, `DiskMatchesMap` alone would not survive it;
- `RemovingOK` and `SafeOK`: what is on the disk is the latest value or nothing, as long as the
  binlog did not fail.

It gives `TypesAreRight`, `DiskStaysRight` (an open binlog says what is in memory, no two keys share
a file) and `SafeUnlessItFails` without an assumption, and `PutsStay` (a put that was reported as
done is there after any crash) if neither the binlog nor the swap fails, which finding 2 shows to be
necessary.

The second part of `CacheDatabase_proofs.tla` is the refinement of `CacheStore`,
`Implements == Reliable => (Spec => ImplementsStore)`, where `Reliable` says that only compactions fail. It cannot be dropped: when the file of
a removed value cannot be deleted and the process ends before the removal is in the binlog, the value
is back, and `CacheStore` never returns what was removed. The refinement needs `RemovedOK` besides:
a removal that is not in the binlog yet is of a key without a latest value, or the one in progress.

`Updates_proofs.tla` is about any channels, any length of the streams, any counts, and any number
of updates that overtake, of requests of the user, of lost sessions and refused differences. It
proves `TypesAreRight`, `NothingIsSkipped` and `AppliedRight` from the inductive invariant

    Safe == Types /\ LogsOK /\ BoxesOK /\ TimersOK /\ RequestsDiffer /\ RequestsOK
            /\ AnswersDiffer /\ AnswersOK /\ PushesDiffer /\ PushesOK /\ OwnsOK /\ MainOK

- `PtsWaiter` adds up counts and compares the sum with the last pts. That the sum proves anything is
  `CountOK`: while no difference is on its way, the count is at most the number of updates up
  to the last pts that are known or wait in the queue. When it reaches the last pts, they are all there
  (`Full`, by the cardinality of an interval), and the queue is let out in order;
- for this no update may be counted twice. `PushesOK` and `OwnsOK`: the numbers of an update
  that is on its way (pushed, or made by a request that waits for its answer) are not known
  and not in the queue, or are below the good pts; `Real`: they follow the update before it, so two
  updates of a log have no number in common (`Apart`);
- `PushesDiffer`, `AnswersDiffer`, `AnswersOK`, `RequestsDiffer`, `RequestsOK`: every answer is to one
  request that still waits, of every box there is at most one difference and one request of the user,
  and a difference on its way is not older than the good pts (nothing is applied to the box
  meanwhile that makes it good);
- `MainOK`: what is known of the account beyond the good pts is the user's own. It does not hold of
  channels, where reading the history lets the queue out over a gap.

The steps that handle a message are proved in two halves: `Handles` says what any of them does to
the stream and to the requests, `Steps`, `Waits` and `Restarts` what an update, asking for a
difference and the difference itself do to the waiters.

An attempt to prove `GapsAreWatched` in an earlier form, every gap is watched, failed, and TLC found the
reason with two requests of the user: a difference does not count the user's own update which it
came after, and the waiter keeps a gap in which nothing is missing until the next update. The property
now speaks of gaps in which an update is missing.

Only model-checked: every liveness property and `EverythingEnds` (liveness under fairness is out of
the prover's reach), `GapsAreWatched` of
`Updates` (its invariant must say in addition which message, request or timer brings each number
that is missing), `IdsAreRight` and the joint `TypeOK` of the composition (the proofs
of `Calls`, `Connecting`, `DcKey`, `EventStream`, `FileLoader`, `LocalFile` and `Sending` contain the types
of these; those of `SparseIds` and `TaskQueue` are left). `RECURSIVE` operators are not used, so the
way to proofs about them is open.

## Plan

Done: `MtpSession`, `CacheDatabase`, `CacheStore`, `Updates`, `MtpInstance`, `RequestService`,
`ClipReader`, the nine components, and the proofs above. Left, in this order:

1. the proof of `GapsAreWatched` on top of `Safe`: every number that is not good is known, in the
   queue, in a message or a request, or will be asked for;
2. `CacheDatabase`: torn records and the block-wise reader (`CacheBinlog`), times of use and
   pruning limits, versions and their cleaner;
3. the session's stop and restart, the received ids, the replacement of ids after the clock
   moved back; sessions of more than one data centre composed with the instance;
4. the map of file keys of the local storage on top of `LocalFile`; the loader of web files and
   its thread; `ConcurrentSender`; configuration loading over several data centres;
5. proofs about `TaskQueue` and `SparseIds`.

## Not modelled

About two thirds of the code draws and lays out: `ui/`, `boxes/`, `window/`, `history/` with its
media and views, `media/view`, `settings/`, `info/`, `profile/`, `passport/`, `dialogs/`,
`chat_helpers/`, `overview/`, `intro/` and `platform/`. It has state, but its correctness is what
is on the screen; a state machine of a widget would restate its handlers. `codegen/` runs at build
time. The rest of `media/`, and `calls` above their protocol, are threads around ffmpeg, OpenAL and the call
engine, where timing and codecs decide. The ciphers (`mtproto/auth_key`, `rsa_public_key`,
`storage_encryption`) compute on bytes. `apiwrap.cpp` and `data/` are many independent requests
that store what they get: those with an order that matters (files, albums, shared media, updates)
are modelled. `export/` asks one thing after another on one queue. The application's start, single
instance, updater and cloud password are sequential around calls of the operating system.

The definitions therefore stand for a small share of the repository's lines and a large one of
those in which two actors meet. `PROJECT.json` lists every component with its status.
