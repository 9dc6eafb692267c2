-------------------------------- MODULE Parts --------------------------------
(***************************************************************************)
(* The constants and variables of the components that share no state in    *)
(* the code, and those of them that Parts_proofs proves right.  A constant *)
(* that two components have in common is named for its component here.     *)
(***************************************************************************)
EXTENDS Integers, Sequences

CONSTANTS
    MaxId, FirstMedia, LimitBefore, LimitAfter, PageLimit, MaxChanges, MaxFails,
    Tasks,
    MaxCalls, MaxObjects, MaxAsked, MaxCallFaults,
    Sessions, Cdn, MaxRetries, MaxKeyFaults,
    Transports, Priority,
    MaxConsumers, MaxFires, MaxDepth,
    MaxWrites, MaxTime, MaxFileFaults,
    None

VARIABLES
    part,
    sharedMedia, nextId, enforced, slices, count, view, asked, answers, late, changes, fails,
    call, object, dhAsked, callRequests, callAnswers, updates, server, made, permission, callFaults,
    toProcess, taskInProcessId, toFinish, thread, wakeUps, processed, stopTimer, worker, working,
    someTasksLeft, interruption, main, cancelling, added, finished, cancelled, swallowed,
    dcKey, keysMade, lock, at, keyId, copy, retries, rsaKnown, cdnAsked, cdnLoaded,
    toSession, toConnection, stopping, missed, left, keyFaults,
    tests, chosen, timers, posted, connState, restarted, options, configAsked, listens, owed,
    abandoned,
    consumers, subscribed, terminated, fires, fired, gone, wanted, got, twice, disturbed,
    file, time, clock, writing, toDelete, place, written, fileFaults, last, cut, unread, spoiled

idsVars == <<sharedMedia, nextId, enforced, slices, count, view, asked, answers, late, changes,
             fails>>
taskVars == <<toProcess, taskInProcessId, toFinish, thread, wakeUps, processed, stopTimer, worker,
              working, someTasksLeft, interruption, main, cancelling, added, finished, cancelled,
              swallowed>>
callVars == <<call, object, dhAsked, callRequests, callAnswers, updates, server, made, permission,
              callFaults>>
keyVars == <<dcKey, keysMade, lock, at, keyId, copy, retries, rsaKnown, cdnAsked, cdnLoaded,
             toSession, toConnection, stopping, missed, left, keyFaults>>
netVars == <<tests, chosen, timers, posted, connState, restarted, options, configAsked, listens,
             owed, abandoned>>
streamVars == <<consumers, subscribed, terminated, fires, fired, gone, wanted, got, twice,
                disturbed>>
fileVars == <<file, time, clock, writing, toDelete, place, written, fileFaults, last, cut, unread,
              spoiled>>

Call == INSTANCE Calls WITH
    MaxFaults <- MaxCallFaults, requests <- callRequests, answers <- callAnswers,
    faults <- callFaults
Key == INSTANCE DcKey WITH
    MaxFaults <- MaxKeyFaults, made <- keysMade, faults <- keyFaults
Net == INSTANCE Connecting WITH state <- connState, asked <- configAsked
Stream == INSTANCE EventStream WITH made <- subscribed
File == INSTANCE LocalFile WITH MaxFaults <- MaxFileFaults, faults <- fileFaults
=============================================================================
