----------------------------- MODULE ClipReader -----------------------------
(***************************************************************************)
(* An animation (media/media_clip_reader.cpp): a thread decodes frames     *)
(* into three places which the main thread paints from, without a lock:    *)
(* the number `step' says who may use which.  A manager keeps a map of the *)
(* readers under a mutex, because the main thread may delete one at any    *)
(* time, and make another at the same address.                             *)
(*                                                                         *)
(* Actions of the main thread and of the worker are what each does between *)
(* two accesses of the other to the same data.  Each value of `step' is    *)
(* left by one of the threads only, so that a load and the store that      *)
(* depends on it are one action.  Left out: video with sound, which does   *)
(* not pause by itself, frames painted while everything is paused, which   *)
(* count as not displayed, the sizes asked for, the decoder, and the       *)
(* choice of a thread.                                                     *)
(***************************************************************************)
EXTENDS Integers, FiniteSets

CONSTANTS
    MaxReaders,      \* bound: readers made at the address
    MaxFaults        \* bound: decoding that fails or comes to its end

ASSUME BoundsAreNats == MaxReaders \in Nat /\ MaxFaults \in Nat

VARIABLES
    made,            \* the number of readers made, and the name of the last
    alive,           \* the last one is not deleted
    private,         \* Reader::_private, or 0
    state,           \* Reader::_state
    step,            \* Reader::_step
    displayed,       \* Frame::displayed of each of Reader::_frames
    autoPaused,      \* Reader::_autoPausedGif
    repaint,         \* it is going to be painted
    main,            \* where the main thread is
    showing,         \* the frame that it uses
    inMap, updated,  \* the reader is in _readerPointers, its flag
    posted,          \* processDelayed() that the worker has not got
    notified,        \* notifications that the main thread has not got
    readers,         \* ReaderPrivate of each
    worker,          \* where the worker is
    working,         \* the reader that it works on, or 0
    toHandle,        \* those of the loop of process() that are left
    checkAll,        \* checkAllReaders
    faults,          \* bound counter
    torn,            \* history: a frame was written while it was painted
    overtaken,       \* history: the worker has moved on from the frame that is painted again
    revived          \* history: update() put a reader back that an error took out of the map

readerVars == <<made, alive, private, state, step, displayed, autoPaused>>
widgetVars == <<repaint, main, showing>>
managerVars == <<inMap, updated, posted, notified>>
workerVars == <<readers, worker, working, toHandle, checkAll>>
history == <<torn, overtaken, revived>>
vars == <<readerVars, widgetVars, managerVars, workerVars, faults, history>>

Places == 0..2
Names == 1..MaxReaders
WaitingForDimensions == -3
WaitingForRequest == -2
WaitingForFirstFrame == -1

\* `next' says when process() looks at it: because its flag was set, or because the time of its
\* next frame has come, or not until then.
ReaderPrivate ==
    [phase : {"new", "listed", "deleted"}, first : BOOLEAN, request : BOOLEAN, started : BOOLEAN,
     paused : BOOLEAN, frame : Places, next : {"now", "due", "later", "never"}]
NewPrivate ==
    [phase |-> "new", first |-> FALSE, request |-> FALSE, started |-> FALSE, paused |-> FALSE,
     frame |-> 0, next |-> "now"]

ReaderTypes ==
    /\ made \in 0..MaxReaders /\ alive \in BOOLEAN /\ private \in 0..made
    /\ state \in {"reading", "error", "finished"} /\ step \in -3..5
    /\ displayed \in [Places -> BOOLEAN] /\ autoPaused \in BOOLEAN
WidgetTypes ==
    /\ repaint \in BOOLEAN /\ showing \in Places
    /\ main \in {"idle", "paint", "move", "update", "copy", "updateOnly"}
ManagerTypes ==
    /\ inMap \in BOOLEAN /\ updated \in BOOLEAN /\ posted \in BOOLEAN
    /\ notified \subseteq {"reinit", "repaint"}
WorkerTypes ==
    /\ worker \in {"idle", "loop", "pause", "repaint", "write", "decode"}
    /\ working \in 0..MaxReaders /\ toHandle \subseteq Names /\ checkAll \in BOOLEAN
TypeOK ==
    /\ ReaderTypes /\ WidgetTypes /\ ManagerTypes /\ WorkerTypes
    /\ readers \in [Names -> ReaderPrivate]
    /\ faults \in 0..MaxFaults
    /\ torn \in BOOLEAN /\ overtaken \in BOOLEAN /\ revived \in BOOLEAN

Init ==
    /\ made = 0 /\ alive = FALSE /\ private = 0 /\ state = "reading"
    /\ step = WaitingForDimensions
    /\ displayed = [i \in Places |-> FALSE] /\ autoPaused = FALSE
    /\ repaint = FALSE /\ main = "idle" /\ showing = 0
    /\ inMap = FALSE /\ updated = FALSE /\ posted = FALSE /\ notified = {}
    /\ readers = [r \in Names |-> NewPrivate]
    /\ worker = "idle" /\ working = 0 /\ toHandle = {} /\ checkAll = FALSE
    /\ faults = 0 /\ torn = FALSE /\ overtaken = FALSE
    /\ revived = FALSE

-----------------------------------------------------------------------------
(***************************************************************************)
(* The three frames.                                                       *)
(***************************************************************************)
FrameToShow == IF step < 0 THEN 0 ELSE step \div 2
FrameToWrite == IF step < 0 THEN 0 ELSE ((step + 2) \div 2) % 3

\* moveToNextShow().  Mutant: a frame that is painted again counts twice.
NextShowAlways ==
    IF step = WaitingForRequest THEN WaitingForFirstFrame
    ELSE IF step >= 0 THEN step + 1 ELSE step
NextShow ==
    IF step = WaitingForRequest THEN WaitingForFirstFrame
    ELSE IF step >= 0 /\ step % 2 = 0 THEN step + 1 ELSE step

\* moveToNextWrite().  Mutant: a frame that was not shown yet is left, too.
NextWriteAlways ==
    IF step = WaitingForDimensions THEN WaitingForRequest
    ELSE IF step = WaitingForFirstFrame THEN 0
    ELSE IF step >= 0 THEN (2 * (step \div 2) + 2) % 6 ELSE step
NextWrite ==
    IF step = WaitingForDimensions THEN WaitingForRequest
    ELSE IF step = WaitingForFirstFrame THEN 0
    ELSE IF step >= 0 /\ step % 2 = 1 THEN (step + 1) % 6 ELSE step

Painting == main \in {"paint", "move", "update", "copy"}

-----------------------------------------------------------------------------
(***************************************************************************)
(* The main thread.                                                        *)
(***************************************************************************)
\* _readerPointersMutex
Locked == worker \in {"pause", "repaint"}

\* Manager::update()
UpdateReader == inMap' = TRUE /\ updated' = TRUE /\ posted' = TRUE

\* What a reader begins with, and what is left of none.
Fresh ==
    /\ state' = "reading" /\ step' = WaitingForDimensions
    /\ displayed' = [i \in Places |-> FALSE] /\ autoPaused' = FALSE

\* Reader::Reader(), init(), Manager::append(): perhaps where the last one was.
MakeReader ==
    /\ main = "idle" /\ ~alive /\ made < MaxReaders /\ ~Locked
    /\ made' = made + 1 /\ alive' = TRUE /\ private' = made' /\ Fresh
    /\ UpdateReader
    /\ revived' = FALSE
    /\ UNCHANGED <<widgetVars, notified, workerVars, faults, torn, overtaken>>

\* Reader::~Reader(), stop()
DeleteReader ==
    /\ main = "idle" /\ alive /\ ~Locked
    /\ alive' = FALSE /\ private' = 0 /\ repaint' = FALSE /\ Fresh
    /\ IF state # "error" /\ inMap
       THEN inMap' = FALSE /\ updated' = FALSE /\ posted' = TRUE
       ELSE UNCHANGED <<inMap, updated, posted>>
    /\ UNCHANGED <<made, main, showing, notified, workerVars, faults, history>>

\* Reader::callback() and the callback of a widget (inline_bot_layout_internal.cpp).
Callback(n) ==
    /\ main = "idle" /\ ~Locked /\ n \in notified
    /\ notified' = notified \ {n}
    /\ IF ~inMap \/ ~alive THEN UNCHANGED <<step, repaint, main>>
       ELSE IF n = "reinit" /\ state # "error" /\ step = WaitingForRequest
       THEN \* start()
            /\ step' = NextShow
            /\ main' = "updateOnly"
            /\ repaint' = TRUE
       ELSE /\ repaint' = (repaint \/ (step >= WaitingForFirstFrame
                                       /\ (n = "reinit" \/ ~displayed[FrameToShow])))
            /\ UNCHANGED <<step, main>>
    /\ UNCHANGED <<made, alive, private, state, displayed, autoPaused, showing,
                   inMap, updated, posted, workerVars, faults, history>>

\* The window is painted for a reason of its own.
Expose ==
    /\ main = "idle" /\ alive /\ ~repaint /\ step >= WaitingForFirstFrame
    /\ repaint' = TRUE
    /\ UNCHANGED <<readerVars, main, showing, managerVars, workerVars, faults, history>>

\* current(): the frame to show is loaded.
LoadFrame ==
    /\ main = "idle" /\ repaint /\ alive
    /\ repaint' = FALSE /\ main' = "paint" /\ showing' = FrameToShow
    /\ UNCHANGED <<readerVars, managerVars, workerVars, faults, history>>

\* It is marked as displayed; an animation that has paused itself goes on.  Mutant: its
\* thread is not told.
DisplayQuietly ==
    /\ main = "paint" /\ (autoPaused => ~Locked)
    /\ displayed' = [displayed EXCEPT ![showing] = TRUE]
    /\ main' = "move" /\ autoPaused' = FALSE
    /\ UNCHANGED <<made, alive, private, state, step, repaint, showing, managerVars,
                   workerVars, faults, history>>
Display ==
    /\ main = "paint" /\ (autoPaused => ~Locked)
    /\ displayed' = [displayed EXCEPT ![showing] = TRUE]
    /\ main' = "move" /\ autoPaused' = FALSE
    /\ IF autoPaused /\ state # "error" THEN UpdateReader ELSE UNCHANGED <<inMap, updated, posted>>
    /\ UNCHANGED <<made, alive, private, state, step, repaint, showing,
                   notified, workerVars, faults, history>>

\* The picture is there in the size of the widget, or it is made, and the next frames asked for.
MoveToNextShow(there) ==
    /\ main = "move"
    /\ main' = IF there \/ state = "error" THEN "copy" ELSE "update"
    /\ step' = NextShow
    /\ UNCHANGED <<made, alive, private, state, displayed, autoPaused, repaint, showing,
                   managerVars, workerVars, faults, history>>

\* Manager::update() after that, and in start().
Update ==
    /\ main \in {"update", "updateOnly"} /\ ~Locked
    /\ UpdateReader
    /\ main' = IF main = "update" THEN "copy" ELSE "idle"
    /\ revived' = (revived \/ ~inMap)
    /\ UNCHANGED <<readerVars, repaint, showing, notified, workerVars, faults,
                   torn, overtaken>>

\* The copy of the picture is returned.
CopyPix ==
    /\ main = "copy" /\ main' = "idle" /\ showing' = 0 /\ overtaken' = FALSE
    /\ UNCHANGED <<readerVars, repaint, managerVars, workerVars, faults, torn, revived>>

-----------------------------------------------------------------------------
(***************************************************************************)
(* The worker.                                                             *)
(***************************************************************************)
\* unsafeFindReaderPointer(): there may be another reader at the address.
Found(r) == inMap /\ alive /\ private = r

Due(r) == readers[r].next \in {"now", "due"}

\* process() as far as the loop: a reader whose flag is set is listed, or looked at now.
Flagged(p) ==
    [p EXCEPT !.phase = "listed", !.next = "now", !.paused = @ /\ autoPaused,
              !.request = (step >= WaitingForFirstFrame)]
Look(known) ==
    /\ worker = "idle" /\ worker' = "loop"
    /\ LET taken == inMap /\ updated /\ private # 0
           listed == {r \in Names : known[r].phase = "listed"}
                        \cup (IF taken THEN {private} ELSE {})
       IN /\ updated' = (updated /\ ~taken)
          /\ readers' = IF taken THEN [known EXCEPT ![private] = Flagged(@)] ELSE known
          /\ toHandle' = listed
          /\ checkAll' = (Cardinality(listed) > IF inMap THEN 1 ELSE 0)
    /\ UNCHANGED <<readerVars, widgetVars, inMap, notified, working, faults, history>>

\* It is called by processDelayed(), or the timer has run out for a reader.
Process == posted /\ posted' = FALSE /\ Look(readers)
ProcessTimer(r) ==
    /\ readers[r].phase = "listed" /\ readers[r].next = "later" /\ ~readers[r].paused
    /\ Look([readers EXCEPT ![r].next = "due"])
    /\ UNCHANGED posted

Handles(r) == worker = "loop" /\ r \in toHandle /\ Due(r)
LoopGoesOn(r) == worker' = "loop" /\ working' = 0 /\ toHandle' = toHandle \ {r}
Delete(r) == readers' = [readers EXCEPT ![r] = [NewPrivate EXCEPT !.phase = "deleted"]]
\* The time of the next look.
Later(p) == [p EXCEPT !.next = IF p.started THEN "later" ELSE "never"]
SetReader(r, p) == readers' = [readers EXCEPT ![r] = p]

\* A reader that is not in the map any more is deleted, whatever was done for it.
HandleGone(r) ==
    /\ worker = "loop" /\ r \in toHandle /\ (Due(r) \/ checkAll) /\ ~Found(r)
    /\ Delete(r) /\ LoopGoesOn(r)
    /\ UNCHANGED <<readerVars, widgetVars, managerVars, checkAll, faults, history>>
NotYet(r) ==
    /\ worker = "loop" /\ r \in toHandle /\ ~Due(r) /\ (checkAll => Found(r))
    /\ LoopGoesOn(r)
    /\ UNCHANGED <<readerVars, widgetVars, managerVars, readers, checkAll, faults, history>>

\* Nothing is to be done: it waits for start(), has paused, or the time of a frame has not come.
Wait(r) ==
    /\ Handles(r) /\ Found(r)
    /\ IF ~readers[r].request THEN readers[r].first
       ELSE readers[r].paused \/ readers[r].next = "now"
    /\ SetReader(r, Later([readers[r] EXCEPT !.started = @ \/ readers[r].request]))
    /\ LoopGoesOn(r)
    /\ UNCHANGED <<readerVars, widgetVars, managerVars, checkAll, faults, history>>

\* The result of reading or of a frame: an error takes the reader out of the map, the end
\* does not.  Mutant: the one in the map is told, whoever it is.
ResultWrong(r, result) ==
    /\ Delete(r) /\ LoopGoesOn(r)
    /\ IF inMap /\ alive
       THEN /\ state' = result /\ private' = 0 /\ notified' = notified \cup {"reinit"}
            /\ inMap' = (result = "finished")
       ELSE UNCHANGED <<state, private, notified, inMap>>
Result(r, result) ==
    /\ Delete(r) /\ LoopGoesOn(r)
    /\ IF Found(r)
       THEN /\ state' = result /\ private' = 0 /\ notified' = notified \cup {"reinit"}
            /\ inMap' = (result = "finished")
       ELSE UNCHANGED <<state, private, notified, inMap>>
Ends(r, result) ==
    /\ faults < MaxFaults /\ faults' = faults + 1
    /\ Result(r, result)
    /\ UNCHANGED <<made, alive, step, displayed, autoPaused, widgetVars, updated, posted,
                   checkAll, history>>

\* start(): the first frame is read, or cannot be.
StartFails(r) ==
    /\ Handles(r) /\ ~readers[r].request /\ ~readers[r].first
    /\ Ends(r, "error")
Started(r) ==
    /\ Handles(r) /\ Found(r) /\ ~readers[r].request /\ ~readers[r].first
    /\ displayed' = [displayed EXCEPT ![0] = FALSE]
    /\ step' = NextWrite
    /\ notified' = notified \cup {"reinit"}
    /\ SetReader(r, Later([readers[r] EXCEPT !.first = TRUE]))
    /\ LoopGoesOn(r)
    /\ UNCHANGED <<made, alive, private, state, autoPaused, widgetVars, inMap, updated, posted,
                   checkAll, faults, history>>

\* It is time for a frame, if any is left.
Repaint(r) ==
    /\ Handles(r) /\ Found(r)
    /\ readers[r].request /\ ~readers[r].paused
    /\ working' = r /\ SetReader(r, [readers[r] EXCEPT !.started = TRUE])
    \* It may pause if the frame on the screen was not painted (for long, or like the one before).
    /\ worker' = "repaint" \/ (step >= 0 /\ ~displayed[FrameToShow] /\ worker' = "pause")
    /\ UNCHANGED <<readerVars, widgetVars, managerVars, toHandle, checkAll, faults, history>>

Moves ==
    /\ step' = NextWrite
    /\ overtaken' = (overtaken \/ (main \in {"paint", "move"} /\ step > 0 /\ step % 2 = 1))
    /\ worker' = "write"

\* The rest of handleProcessResult() under the lock.
PauseGif ==
    /\ worker = "pause" /\ Moves
    /\ autoPaused' = TRUE /\ readers' = [readers EXCEPT ![working].paused = TRUE]
    /\ notified' = notified \cup {"reinit"}
    /\ UNCHANGED <<made, alive, private, state, displayed, widgetVars, inMap, updated,
                   posted, working, toHandle, checkAll, faults, torn, revived>>
MoveToNextWrite ==
    /\ worker = "repaint" /\ Moves
    /\ displayed' = [displayed EXCEPT ![0] = @ /\ step # WaitingForFirstFrame]
    /\ notified' = notified \cup {"repaint"}
    /\ UNCHANGED <<made, alive, private, state, autoPaused, widgetVars, inMap, updated,
                   posted, readers, working, toHandle, checkAll, faults, torn, revived>>

\* The frame to write is cleared.
Torn(i) == torn' = (torn \/ (Painting /\ showing = i /\ ~overtaken))
ClearFrame ==
    /\ worker = "write" /\ worker' = "decode"
    /\ IF ~Found(working) THEN UNCHANGED <<readers, torn>>
       ELSE /\ readers' = [readers EXCEPT ![working].frame = FrameToWrite]
            /\ Torn(FrameToWrite)
    /\ UNCHANGED <<made, alive, private, state, step, displayed, autoPaused, widgetVars, managerVars,
                   working, toHandle, checkAll, faults, overtaken, revived>>

\* finishProcess(): the next frame is decoded and copied, or there is none.
DecodeEnds(result) == worker = "decode" /\ Ends(working, result)
CopyFrame ==
    /\ worker = "decode"
    /\ LET p == readers[working]
       IN /\ IF Found(working)
             THEN /\ displayed' = [displayed EXCEPT ![p.frame] = FALSE]
                  /\ Torn(p.frame)
                  /\ SetReader(working, Later(p))
             ELSE Delete(working) /\ UNCHANGED <<displayed, torn>>
    /\ LoopGoesOn(working)
    /\ UNCHANGED <<made, alive, private, state, step, autoPaused, widgetVars, managerVars, checkAll,
                   faults, overtaken, revived>>

\* The loop is over.
ProcessEnds ==
    /\ worker = "loop" /\ toHandle = {} /\ worker' = "idle" /\ checkAll' = FALSE
    /\ UNCHANGED <<readerVars, widgetVars, managerVars, readers, working, toHandle, faults, history>>

-----------------------------------------------------------------------------
Callbacks == \E n \in {"reinit", "repaint"} : Callback(n)
Main == Callbacks
    \/ LoadFrame \/ Display \/ (\E there \in BOOLEAN : MoveToNextShow(there)) \/ Update \/ CopyPix
Repaints == \E r \in Names : Repaint(r)
Worker ==
    \/ Process \/ ProcessEnds \/ PauseGif \/ MoveToNextWrite \/ ClearFrame \/ CopyFrame
    \/ Repaints
    \/ \E r \in Names : HandleGone(r) \/ NotYet(r) \/ Wait(r) \/ Started(r) \/ ProcessTimer(r)

Next ==
    \/ MakeReader \/ DeleteReader \/ Expose
    \/ Main \/ Worker
    \/ \E r \in Names : StartFails(r)
    \/ \E result \in {"error", "finished"} : DecodeEnds(result)

Spec == Init /\ [][Next]_vars

\* Both threads run; the main thread gets its notifications however often it paints, and the
\* time of a frame comes however often the worker looks.
FairSpec ==
    Spec /\ WF_vars(Main) /\ WF_vars(Worker) /\ SF_vars(Callbacks) /\ SF_vars(Repaints)

-----------------------------------------------------------------------------
(***************************************************************************)
(* Properties.                                                             *)
(***************************************************************************)

\* The main thread never paints a frame while the worker writes it, unless it painted a frame
\* once more and the worker moved on before its moveToNextShow(), which then gives away the
\* next one.
FramesAreOwned == ~torn

\* The manager knows only a reader that is there, unless an error came between the check and
\* the update() of the main thread; and a reader learns of the end of its own work, never of
\* that of the reader which was at its address before.
ReadersAreThere ==
    /\ inMap /\ ~revived => alive
    /\ alive => IF state = "reading"
                THEN inMap /\ private = made /\ readers[made].phase # "deleted"
                ELSE readers[made].phase = "deleted"
ClipsAreRight == FramesAreOwned /\ ReadersAreThere

\* An animation that stays on the screen and does not fail goes on, although it pauses by
\* itself when it believes that nobody looks.
AnimationGoesOn ==
    <>[]alive => <>(faults > 0) \/ []<>(worker = "decode")
=============================================================================
