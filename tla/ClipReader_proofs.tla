-------------------------- MODULE ClipReader_proofs --------------------------
(***************************************************************************)
(* However many readers are made, deleted and fail: the two threads use    *)
(* different frames, and the map of the manager tells the truth.           *)
(***************************************************************************)
EXTENDS ClipReader, TLAPS

\* What is painted is there and has a frame.
MainOK ==
    /\ repaint => alive /\ step >= WaitingForFirstFrame
    /\ Painting => alive /\ step >= WaitingForFirstFrame
    /\ main = "updateOnly" => alive

\* The readers that were made, and what the number says of the last one.
MadeOK ==
    /\ \A r \in Names : r > made => readers[r] = NewPrivate
    /\ \A r \in toHandle : r <= made
    /\ working <= made
    /\ alive => made # 0
    /\ private # 0 =>
        /\ alive /\ private = made
        /\ ~readers[private].first => step = WaitingForDimensions
        /\ readers[private].request => step >= WaitingForFirstFrame

\* The worker works on a reader that is listed, and on the frame that the number gives it.
WorkerOK ==
    /\ worker \notin {"idle", "loop"} => working # 0
    /\ Locked => Found(working) /\ readers[working].request
    /\ worker \in {"write", "decode"} /\ Found(working) => step >= 0
    /\ worker = "decode" /\ Found(working) => readers[working].frame = FrameToWrite

\* The frame that is painted is the one to show, or the one before it that was given away.
ShowingOK ==
    Painting /\ ~overtaken =>
        \/ showing = FrameToShow
        \/ main \in {"update", "copy"} /\ step \in {0, 2, 4} /\ showing = (FrameToShow + 2) % 3

\* A reader that has ended has nobody who works for it, and one that has failed is not in
\* the map.
EndedOK ==
    alive /\ state # "reading" => private = 0 /\ (state = "error" /\ ~revived => ~inMap)

\* The inductive invariant.
IInv ==
    TypeOK /\ MainOK /\ MadeOK /\ WorkerOK /\ ShowingOK /\ EndedOK /\ FramesAreOwned
        /\ ReadersAreThere


-----------------------------------------------------------------------------
USE BoundsAreNats
    DEF Names, Places, WaitingForDimensions, WaitingForRequest, WaitingForFirstFrame

\* What is left of a ReaderPrivate that is deleted, and what Later() leaves alone.
LEMMA NewReader ==
    /\ NewPrivate \in ReaderPrivate
    /\ ~NewPrivate.first /\ ~NewPrivate.request /\ NewPrivate.phase = "new"
    /\ [NewPrivate EXCEPT !.phase = "deleted"] \in ReaderPrivate
    /\ [NewPrivate EXCEPT !.phase = "deleted"].phase = "deleted"
<1>1. NewPrivate \in ReaderPrivate
  BY DEF NewPrivate, ReaderPrivate
<1>2. ~NewPrivate.first /\ ~NewPrivate.request /\ NewPrivate.phase = "new"
  BY DEF NewPrivate
<1>. QED
  BY <1>1, <1>2 DEF ReaderPrivate

LEMMA LaterLeaves ==
    ASSUME NEW p \in ReaderPrivate
    PROVE  /\ Later(p) \in ReaderPrivate /\ Later(p).phase = p.phase
           /\ Later(p).first = p.first /\ Later(p).request = p.request
           /\ Later(p).frame = p.frame
BY DEF Later, ReaderPrivate

\* One reader is set.
LEMMA OneReader ==
    ASSUME readers \in [Names -> ReaderPrivate], NEW r \in Names, NEW p \in ReaderPrivate,
           readers' = [readers EXCEPT ![r] = p]
    PROVE  /\ readers' \in [Names -> ReaderPrivate] /\ readers'[r] = p
           /\ \A q \in Names : q # r => readers'[q] = readers[q]
OBVIOUS

\* The places of the frames, and how the number goes round.
LEMMA Frames ==
    ASSUME step \in -3..5
    PROVE  /\ FrameToShow \in Places /\ FrameToWrite \in Places
           /\ NextShow \in -3..5 /\ NextWrite \in -3..5
           /\ step >= 0 => FrameToShow # FrameToWrite
BY DEF FrameToShow, FrameToWrite, NextShow, NextWrite


\* process() lists a reader and sets its flags, and leaves alone what the invariant is about.
Keeps(known) ==
    \A r \in Names : /\ known[r].phase = readers[r].phase
                     /\ known[r].first = readers[r].first
                     /\ known[r].request = readers[r].request
                     /\ r > made => known[r] = readers[r]
LEMMA Looking ==
    ASSUME IInv, NEW known \in [Names -> ReaderPrivate], Keeps(known), Look(known),
           posted' \in BOOLEAN
    PROVE  IInv'
<1>. USE DEF IInv, Keeps, readerVars, widgetVars, history
<1>a. ASSUME inMap /\ updated /\ private # 0
      PROVE  /\ readers' \in [Names -> ReaderPrivate]
             /\ readers'[private].phase = "listed"
             /\ readers'[private].first = readers[private].first
             /\ readers'[private].request => step >= WaitingForFirstFrame
             /\ \A q \in Names : q # private => readers'[q] = known[q]
  <2>. DEFINE p == Flagged(known[private])
  <2>1. private \in Names
    BY <1>a DEF TypeOK, ReaderTypes
  <2>2. p \in ReaderPrivate
    <3>1. /\ known[private] \in ReaderPrivate /\ (step >= WaitingForFirstFrame) \in BOOLEAN
          /\ (known[private].paused /\ autoPaused) \in BOOLEAN
      BY <2>1
    <3>. QED
      BY <3>1 DEF Flagged, ReaderPrivate
  <2>3. /\ p.phase = "listed" /\ p.first = readers[private].first
        /\ p.request = (step >= WaitingForFirstFrame)
    BY <2>1 DEF Flagged, ReaderPrivate
  <2>4. readers' = [known EXCEPT ![private] = p]
    BY <1>a, <2>1 DEF Look
  <2>. HIDE DEF p
  <2>. QED
    BY <2>1, <2>2, <2>3, <2>4
<1>b. ASSUME ~(inMap /\ updated /\ private # 0)
      PROVE  readers' = known
  BY <1>b DEF Look
<1>c. /\ readers' \in [Names -> ReaderPrivate]
      /\ \A r \in Names :
            /\ readers'[r].phase = readers[r].phase \/ (r = private /\ readers'[r].phase = "listed")
            /\ readers'[r].first = readers[r].first
            /\ readers'[r].request =>
                  readers[r].request \/ (r = private /\ step >= WaitingForFirstFrame)
            /\ r > made => readers'[r] = readers[r]
  BY <1>a, <1>b DEF TypeOK, ReaderTypes
<1>d. toHandle' \subseteq Names /\ \A r \in toHandle' : r <= made
  <2>1. \A r \in Names : known[r].phase = "listed" => r <= made
    BY NewReader DEF TypeOK, ReaderTypes, MadeOK
  <2>2. private # 0 => private \in Names /\ private <= made
    BY DEF TypeOK, ReaderTypes
  <2>. QED
    BY <2>1, <2>2 DEF Look
<1>e. /\ worker = "idle" /\ worker' = "loop" /\ UNCHANGED <<inMap, notified, working, faults>>
      /\ UNCHANGED readerVars /\ UNCHANGED widgetVars /\ UNCHANGED history
      /\ updated' \in BOOLEAN /\ checkAll' \in BOOLEAN
  BY DEF Look, TypeOK, ManagerTypes
<1>1. TypeOK'
  <2>1. ReaderTypes' /\ WidgetTypes'
    BY <1>e DEF TypeOK, ReaderTypes, WidgetTypes
  <2>2. ManagerTypes' /\ WorkerTypes'
    BY <1>d, <1>e DEF TypeOK, ManagerTypes, WorkerTypes
  <2>. QED
    BY <1>c, <1>e, <2>1, <2>2 DEF TypeOK
<1>2. MainOK' /\ ShowingOK' /\ EndedOK' /\ FramesAreOwned'
  BY <1>e DEF MainOK, ShowingOK, EndedOK, FramesAreOwned, Painting, FrameToShow
<1>3. MadeOK'
  BY <1>c, <1>d, <1>e DEF MadeOK, TypeOK, ReaderTypes
<1>4. WorkerOK'
  BY <1>e DEF WorkerOK, Locked
<1>5. ReadersAreThere'
  BY <1>c, <1>e DEF ReadersAreThere, EndedOK, MadeOK, TypeOK, ReaderTypes
<1>. QED
  BY <1>1, <1>2, <1>3, <1>4, <1>5


LEMMA Steps == ASSUME IInv, Next PROVE IInv'
<1>. USE DEF IInv, readerVars, widgetVars, managerVars, workerVars, history
<1>1. ASSUME MakeReader
      PROVE  IInv'
  <2>1. TypeOK'
    <3>1. made' \in 0..MaxReaders /\ private' \in 0..made'
      BY <1>1 DEF MakeReader, Fresh, UpdateReader, Locked, TypeOK, ReaderTypes
    <3>2. step' \in -3..5 /\ displayed' \in [Places -> BOOLEAN]
      BY <1>1, Frames DEF MakeReader, Fresh, UpdateReader, Locked, TypeOK, ReaderTypes
    <3>3. ReaderTypes'
      BY <1>1, <3>1, <3>2 DEF MakeReader, Fresh, UpdateReader, Locked, TypeOK, ReaderTypes
    <3>4. WidgetTypes'
      BY <1>1, Frames DEF MakeReader, Fresh, UpdateReader, Locked, TypeOK, ReaderTypes,
          WidgetTypes
    <3>5. ManagerTypes'
      BY <1>1 DEF MakeReader, Fresh, UpdateReader, Locked, TypeOK, ManagerTypes
    <3>6. WorkerTypes'
      BY <1>1 DEF MakeReader, Fresh, UpdateReader, Locked, TypeOK, WorkerTypes
    <3>. QED
      BY <1>1, <3>3, <3>4, <3>5, <3>6 DEF MakeReader, Fresh, UpdateReader, Locked, TypeOK
  <2>2. MainOK'
    BY <1>1 DEF MakeReader, Fresh, UpdateReader, Locked, MainOK, TypeOK, Painting, Found,
        WorkerOK, MadeOK, EndedOK, ReadersAreThere, ReaderTypes
  <2>3. MadeOK'
    BY <1>1, NewReader DEF MakeReader, Fresh, UpdateReader, Locked, MadeOK, TypeOK,
        ReadersAreThere, WorkerOK, Found, MainOK, EndedOK, ReaderTypes, WorkerTypes
  <2>4. WorkerOK'
    BY <1>1, NewReader DEF MakeReader, Fresh, UpdateReader, Locked, WorkerOK, TypeOK, Found,
        MadeOK, FrameToWrite, ReadersAreThere, EndedOK, MainOK, Painting, ReaderTypes,
        WorkerTypes
  <2>5. ShowingOK'
    BY <1>1 DEF MakeReader, Fresh, UpdateReader, Locked, ShowingOK, TypeOK, Painting,
        FrameToShow, MainOK, WorkerOK, ReaderTypes, WidgetTypes
  <2>6. EndedOK'
    BY <1>1 DEF MakeReader, Fresh, UpdateReader, Locked, EndedOK, TypeOK, ReadersAreThere,
        MadeOK, Found
  <2>7. FramesAreOwned'
    BY <1>1 DEF MakeReader, Fresh, UpdateReader, Locked, FramesAreOwned, TypeOK, Painting,
        Found, WorkerOK, ShowingOK, FrameToShow, FrameToWrite, MainOK, Torn, ReaderTypes,
        WidgetTypes
  <2>8. ReadersAreThere'
    BY <1>1, NewReader DEF MakeReader, Fresh, UpdateReader, Locked, ReadersAreThere, TypeOK,
        MadeOK, EndedOK, MainOK, Painting, Found, WorkerOK, ReaderTypes
  <2>. QED
    BY <2>1, <2>2, <2>3, <2>4, <2>5, <2>6, <2>7, <2>8
<1>2. ASSUME DeleteReader
      PROVE  IInv'
  <2>1. TypeOK'
    <3>1. made' \in 0..MaxReaders /\ private' \in 0..made'
      BY <1>2 DEF DeleteReader, Fresh, Locked, TypeOK, ReaderTypes
    <3>2. step' \in -3..5 /\ displayed' \in [Places -> BOOLEAN]
      BY <1>2, Frames DEF DeleteReader, Fresh, Locked, TypeOK, ReaderTypes
    <3>3. ReaderTypes'
      BY <1>2, <3>1, <3>2 DEF DeleteReader, Fresh, Locked, TypeOK, ReaderTypes
    <3>4. WidgetTypes'
      BY <1>2, Frames DEF DeleteReader, Fresh, Locked, TypeOK, ReaderTypes, WidgetTypes
    <3>5. ManagerTypes'
      BY <1>2 DEF DeleteReader, Fresh, Locked, TypeOK, ManagerTypes
    <3>6. WorkerTypes'
      BY <1>2 DEF DeleteReader, Fresh, Locked, TypeOK, WorkerTypes
    <3>. QED
      BY <1>2, <3>3, <3>4, <3>5, <3>6 DEF DeleteReader, Fresh, Locked, TypeOK
  <2>2. MainOK'
    BY <1>2 DEF DeleteReader, Fresh, Locked, MainOK, TypeOK, Painting, Found, WorkerOK,
        MadeOK, EndedOK, ReadersAreThere, ReaderTypes
  <2>3. MadeOK'
    BY <1>2 DEF DeleteReader, Fresh, Locked, MadeOK, TypeOK, ReadersAreThere, WorkerOK, Found,
        MainOK, EndedOK, ReaderTypes, WorkerTypes
  <2>4. WorkerOK'
    BY <1>2 DEF DeleteReader, Fresh, Locked, WorkerOK, TypeOK, Found, MadeOK, FrameToWrite,
        ReadersAreThere, EndedOK, MainOK, Painting, ReaderTypes, WorkerTypes
  <2>5. ShowingOK'
    BY <1>2 DEF DeleteReader, Fresh, Locked, ShowingOK, TypeOK, Painting, FrameToShow, MainOK,
        WorkerOK, ReaderTypes, WidgetTypes
  <2>6. EndedOK'
    BY <1>2 DEF DeleteReader, Fresh, Locked, EndedOK, TypeOK, ReadersAreThere, MadeOK, Found
  <2>7. FramesAreOwned'
    BY <1>2 DEF DeleteReader, Fresh, Locked, FramesAreOwned, TypeOK, Painting, Found,
        WorkerOK, ShowingOK, FrameToShow, FrameToWrite, MainOK, Torn, ReaderTypes, WidgetTypes
  <2>8. ReadersAreThere'
    BY <1>2 DEF DeleteReader, Fresh, Locked, ReadersAreThere, TypeOK, MadeOK, EndedOK, MainOK,
        Painting, Found, WorkerOK, ReaderTypes
  <2>. QED
    BY <2>1, <2>2, <2>3, <2>4, <2>5, <2>6, <2>7, <2>8
<1>3. ASSUME Expose
      PROVE  IInv'
  <2>1. TypeOK'
    <3>1. made' \in 0..MaxReaders /\ private' \in 0..made'
      BY <1>3 DEF Expose, TypeOK, ReaderTypes
    <3>2. step' \in -3..5 /\ displayed' \in [Places -> BOOLEAN]
      BY <1>3, Frames DEF Expose, TypeOK, ReaderTypes
    <3>3. ReaderTypes'
      BY <1>3, <3>1, <3>2 DEF Expose, TypeOK, ReaderTypes
    <3>4. WidgetTypes'
      BY <1>3, Frames DEF Expose, TypeOK, ReaderTypes, WidgetTypes
    <3>5. ManagerTypes'
      BY <1>3 DEF Expose, TypeOK, ManagerTypes
    <3>6. WorkerTypes'
      BY <1>3 DEF Expose, TypeOK, WorkerTypes
    <3>. QED
      BY <1>3, <3>3, <3>4, <3>5, <3>6 DEF Expose, TypeOK
  <2>2. MainOK'
    BY <1>3 DEF Expose, MainOK, TypeOK, Painting, Locked, Found, WorkerOK, MadeOK, EndedOK,
        ReadersAreThere, ReaderTypes
  <2>3. MadeOK'
    BY <1>3 DEF Expose, MadeOK, TypeOK, ReadersAreThere, WorkerOK, Locked, Found, MainOK,
        EndedOK, ReaderTypes, WorkerTypes
  <2>4. WorkerOK'
    BY <1>3 DEF Expose, WorkerOK, TypeOK, Locked, Found, MadeOK, FrameToWrite,
        ReadersAreThere, EndedOK, MainOK, Painting, ReaderTypes, WorkerTypes
  <2>5. ShowingOK'
    BY <1>3 DEF Expose, ShowingOK, TypeOK, Painting, FrameToShow, MainOK, Locked, WorkerOK,
        ReaderTypes, WidgetTypes
  <2>6. EndedOK'
    BY <1>3 DEF Expose, EndedOK, TypeOK, ReadersAreThere, MadeOK, Found
  <2>7. FramesAreOwned'
    BY <1>3 DEF Expose, FramesAreOwned, TypeOK, Painting, Found, WorkerOK, ShowingOK,
        FrameToShow, FrameToWrite, MainOK, Torn, ReaderTypes, WidgetTypes
  <2>8. ReadersAreThere'
    BY <1>3 DEF Expose, ReadersAreThere, TypeOK, MadeOK, EndedOK, MainOK, Painting, Found,
        WorkerOK, Locked, ReaderTypes
  <2>. QED
    BY <2>1, <2>2, <2>3, <2>4, <2>5, <2>6, <2>7, <2>8
<1>4. ASSUME NEW n \in {"reinit", "repaint"}, Callback(n)
      PROVE  IInv'
  <2>1. TypeOK'
    <3>1. made' \in 0..MaxReaders /\ private' \in 0..made'
      BY <1>4 DEF Callback, NextShow, TypeOK, ReaderTypes
    <3>2. step' \in -3..5 /\ displayed' \in [Places -> BOOLEAN]
      BY <1>4, Frames DEF Callback, TypeOK, ReaderTypes
    <3>3. ReaderTypes'
      BY <1>4, <3>1, <3>2 DEF Callback, NextShow, TypeOK, ReaderTypes
    <3>4. WidgetTypes'
      BY <1>4, Frames DEF Callback, NextShow, TypeOK, ReaderTypes, WidgetTypes
    <3>5. ManagerTypes'
      BY <1>4 DEF Callback, NextShow, TypeOK, ManagerTypes
    <3>6. WorkerTypes'
      BY <1>4 DEF Callback, NextShow, TypeOK, WorkerTypes
    <3>. QED
      BY <1>4, <3>3, <3>4, <3>5, <3>6 DEF Callback, NextShow, TypeOK
  <2>2. MainOK'
    <3>1. CASE ~inMap \/ ~alive
      BY <1>4, <3>1 DEF Callback, MainOK, Painting
    <3>2. CASE inMap /\ alive /\ step' = WaitingForFirstFrame
      BY <1>4, <3>2 DEF Callback, MainOK, Painting
    <3>3. CASE inMap /\ alive /\ main' = main /\ step' = step
      BY <1>4, <3>3 DEF Callback, MainOK, Painting
    <3>. QED
      BY <1>4, <3>1, <3>2, <3>3 DEF Callback, NextShow
  <2>3. MadeOK'
    BY <1>4 DEF Callback, NextShow, MadeOK, TypeOK, ReadersAreThere, WorkerOK, Locked, Found,
        MainOK, EndedOK, ReaderTypes, WorkerTypes
  <2>4. WorkerOK'
    BY <1>4 DEF Callback, NextShow, WorkerOK, TypeOK, Locked, Found, MadeOK, FrameToWrite,
        ReadersAreThere, EndedOK, MainOK, Painting, ReaderTypes, WorkerTypes
  <2>5. ShowingOK'
    BY <1>4 DEF Callback, NextShow, ShowingOK, TypeOK, Painting, FrameToShow, MainOK, Locked,
        WorkerOK, ReaderTypes, WidgetTypes
  <2>6. EndedOK'
    BY <1>4 DEF Callback, NextShow, EndedOK, TypeOK, ReadersAreThere, MadeOK, Found
  <2>7. FramesAreOwned'
    BY <1>4 DEF Callback, NextShow, FramesAreOwned, TypeOK, Painting, Found, WorkerOK,
        ShowingOK, FrameToShow, FrameToWrite, MainOK, Torn, ReaderTypes, WidgetTypes
  <2>8. ReadersAreThere'
    BY <1>4 DEF Callback, NextShow, ReadersAreThere, TypeOK, MadeOK, EndedOK, MainOK,
        Painting, Found, WorkerOK, Locked, ReaderTypes
  <2>. QED
    BY <2>1, <2>2, <2>3, <2>4, <2>5, <2>6, <2>7, <2>8
<1>5. ASSUME LoadFrame
      PROVE  IInv'
  <2>1. TypeOK'
    <3>1. made' \in 0..MaxReaders /\ private' \in 0..made'
      BY <1>5 DEF LoadFrame, TypeOK, ReaderTypes
    <3>2. step' \in -3..5 /\ displayed' \in [Places -> BOOLEAN]
      BY <1>5, Frames DEF LoadFrame, TypeOK, ReaderTypes
    <3>3. ReaderTypes'
      BY <1>5, <3>1, <3>2 DEF LoadFrame, TypeOK, ReaderTypes
    <3>4. WidgetTypes'
      BY <1>5, Frames DEF LoadFrame, TypeOK, ReaderTypes, WidgetTypes
    <3>5. ManagerTypes'
      BY <1>5 DEF LoadFrame, TypeOK, ManagerTypes
    <3>6. WorkerTypes'
      BY <1>5 DEF LoadFrame, TypeOK, WorkerTypes
    <3>. QED
      BY <1>5, <3>3, <3>4, <3>5, <3>6 DEF LoadFrame, TypeOK
  <2>2. MainOK'
    BY <1>5 DEF LoadFrame, MainOK, TypeOK, Painting, Locked, Found, WorkerOK, MadeOK, EndedOK,
        ReadersAreThere, ReaderTypes
  <2>3. MadeOK'
    BY <1>5 DEF LoadFrame, MadeOK, TypeOK, ReadersAreThere, WorkerOK, Locked, Found, MainOK,
        EndedOK, ReaderTypes, WorkerTypes
  <2>4. WorkerOK'
    BY <1>5 DEF LoadFrame, WorkerOK, TypeOK, Locked, Found, MadeOK, FrameToWrite,
        ReadersAreThere, EndedOK, MainOK, Painting, ReaderTypes, WorkerTypes
  <2>5. ShowingOK'
    BY <1>5 DEF LoadFrame, ShowingOK, TypeOK, Painting, FrameToShow, MainOK, Locked, WorkerOK,
        ReaderTypes, WidgetTypes
  <2>6. EndedOK'
    BY <1>5 DEF LoadFrame, EndedOK, TypeOK, ReadersAreThere, MadeOK, Found
  <2>7. FramesAreOwned'
    BY <1>5 DEF LoadFrame, FramesAreOwned, TypeOK, Painting, Found, WorkerOK, ShowingOK,
        FrameToShow, FrameToWrite, MainOK, Torn, ReaderTypes, WidgetTypes
  <2>8. ReadersAreThere'
    BY <1>5 DEF LoadFrame, ReadersAreThere, TypeOK, MadeOK, EndedOK, MainOK, Painting, Found,
        WorkerOK, Locked, ReaderTypes
  <2>. QED
    BY <2>1, <2>2, <2>3, <2>4, <2>5, <2>6, <2>7, <2>8
<1>6. ASSUME Display
      PROVE  IInv'
  <2>1. TypeOK'
    <3>1. made' \in 0..MaxReaders /\ private' \in 0..made'
      BY <1>6 DEF Display, UpdateReader, TypeOK, ReaderTypes
    <3>2. step' \in -3..5 /\ displayed' \in [Places -> BOOLEAN]
      BY <1>6, Frames DEF Display, UpdateReader, TypeOK, ReaderTypes
    <3>3. ReaderTypes'
      BY <1>6, <3>1, <3>2 DEF Display, UpdateReader, TypeOK, ReaderTypes
    <3>4. WidgetTypes'
      BY <1>6, Frames DEF Display, UpdateReader, TypeOK, ReaderTypes, WidgetTypes
    <3>5. ManagerTypes'
      BY <1>6 DEF Display, UpdateReader, TypeOK, ManagerTypes
    <3>6. WorkerTypes'
      BY <1>6 DEF Display, UpdateReader, TypeOK, WorkerTypes
    <3>. QED
      BY <1>6, <3>3, <3>4, <3>5, <3>6 DEF Display, UpdateReader, TypeOK
  <2>2. MainOK'
    BY <1>6 DEF Display, UpdateReader, MainOK, TypeOK, Painting, Locked, Found, WorkerOK,
        MadeOK, EndedOK, ReadersAreThere, ReaderTypes
  <2>3. MadeOK'
    BY <1>6 DEF Display, UpdateReader, MadeOK, TypeOK, ReadersAreThere, WorkerOK, Locked,
        Found, MainOK, EndedOK, ReaderTypes, WorkerTypes
  <2>4. WorkerOK'
    BY <1>6 DEF Display, UpdateReader, WorkerOK, TypeOK, Locked, Found, MadeOK, FrameToWrite,
        ReadersAreThere, EndedOK, MainOK, Painting, ReaderTypes, WorkerTypes
  <2>5. ShowingOK'
    BY <1>6 DEF Display, UpdateReader, ShowingOK, TypeOK, Painting, FrameToShow, MainOK,
        Locked, WorkerOK, ReaderTypes, WidgetTypes
  <2>6. EndedOK'
    BY <1>6 DEF Display, UpdateReader, EndedOK, TypeOK, ReadersAreThere, MadeOK, Found
  <2>7. FramesAreOwned'
    BY <1>6 DEF Display, UpdateReader, FramesAreOwned, TypeOK, Painting, Found, WorkerOK,
        ShowingOK, FrameToShow, FrameToWrite, MainOK, Torn, ReaderTypes, WidgetTypes
  <2>8. ReadersAreThere'
    BY <1>6 DEF Display, UpdateReader, ReadersAreThere, TypeOK, MadeOK, EndedOK, MainOK,
        Painting, Found, WorkerOK, Locked, ReaderTypes
  <2>. QED
    BY <2>1, <2>2, <2>3, <2>4, <2>5, <2>6, <2>7, <2>8
<1>7. ASSUME NEW there \in BOOLEAN, MoveToNextShow(there)
      PROVE  IInv'
  <2>1. TypeOK'
    <3>1. made' \in 0..MaxReaders /\ private' \in 0..made'
      BY <1>7 DEF MoveToNextShow, NextShow, TypeOK, ReaderTypes
    <3>2. step' \in -3..5 /\ displayed' \in [Places -> BOOLEAN]
      BY <1>7, Frames DEF MoveToNextShow, TypeOK, ReaderTypes
    <3>3. ReaderTypes'
      BY <1>7, <3>1, <3>2 DEF MoveToNextShow, NextShow, TypeOK, ReaderTypes
    <3>4. WidgetTypes'
      BY <1>7, Frames DEF MoveToNextShow, NextShow, TypeOK, ReaderTypes, WidgetTypes
    <3>5. ManagerTypes'
      BY <1>7 DEF MoveToNextShow, NextShow, TypeOK, ManagerTypes
    <3>6. WorkerTypes'
      BY <1>7 DEF MoveToNextShow, NextShow, TypeOK, WorkerTypes
    <3>. QED
      BY <1>7, <3>3, <3>4, <3>5, <3>6 DEF MoveToNextShow, NextShow, TypeOK
  <2>2. MainOK'
    BY <1>7 DEF MoveToNextShow, NextShow, MainOK, TypeOK, Painting, Locked, Found, WorkerOK,
        MadeOK, EndedOK, ReadersAreThere, ReaderTypes
  <2>3. MadeOK'
    BY <1>7 DEF MoveToNextShow, NextShow, MadeOK, TypeOK, ReadersAreThere, WorkerOK, Locked,
        Found, MainOK, EndedOK, ReaderTypes, WorkerTypes
  <2>4. WorkerOK'
    BY <1>7 DEF MoveToNextShow, NextShow, WorkerOK, TypeOK, Locked, Found, MadeOK,
        FrameToWrite, ReadersAreThere, EndedOK, MainOK, Painting, ReaderTypes, WorkerTypes
  <2>5. ShowingOK'
    BY <1>7 DEF MoveToNextShow, NextShow, ShowingOK, TypeOK, Painting, FrameToShow, MainOK,
        Locked, WorkerOK, ReaderTypes, WidgetTypes
  <2>6. EndedOK'
    BY <1>7 DEF MoveToNextShow, NextShow, EndedOK, TypeOK, ReadersAreThere, MadeOK, Found
  <2>7. FramesAreOwned'
    BY <1>7 DEF MoveToNextShow, NextShow, FramesAreOwned, TypeOK, Painting, Found, WorkerOK,
        ShowingOK, FrameToShow, FrameToWrite, MainOK, Torn, ReaderTypes, WidgetTypes
  <2>8. ReadersAreThere'
    BY <1>7 DEF MoveToNextShow, NextShow, ReadersAreThere, TypeOK, MadeOK, EndedOK, MainOK,
        Painting, Found, WorkerOK, Locked, ReaderTypes
  <2>. QED
    BY <2>1, <2>2, <2>3, <2>4, <2>5, <2>6, <2>7, <2>8
<1>8. ASSUME Update
      PROVE  IInv'
  <2>1. TypeOK'
    <3>1. made' \in 0..MaxReaders /\ private' \in 0..made'
      BY <1>8 DEF Update, UpdateReader, TypeOK, ReaderTypes
    <3>2. step' \in -3..5 /\ displayed' \in [Places -> BOOLEAN]
      BY <1>8, Frames DEF Update, UpdateReader, TypeOK, ReaderTypes
    <3>3. ReaderTypes'
      BY <1>8, <3>1, <3>2 DEF Update, UpdateReader, TypeOK, ReaderTypes
    <3>4. WidgetTypes'
      BY <1>8, Frames DEF Update, UpdateReader, TypeOK, ReaderTypes, WidgetTypes
    <3>5. ManagerTypes'
      BY <1>8 DEF Update, UpdateReader, TypeOK, ManagerTypes
    <3>6. WorkerTypes'
      BY <1>8 DEF Update, UpdateReader, TypeOK, WorkerTypes
    <3>. QED
      BY <1>8, <3>3, <3>4, <3>5, <3>6 DEF Update, UpdateReader, TypeOK
  <2>2. MainOK'
    BY <1>8 DEF Update, UpdateReader, MainOK, TypeOK, Painting, Locked, Found, WorkerOK,
        MadeOK, EndedOK, ReadersAreThere, ReaderTypes
  <2>3. MadeOK'
    BY <1>8 DEF Update, UpdateReader, MadeOK, TypeOK, ReadersAreThere, WorkerOK, Locked,
        Found, MainOK, EndedOK, ReaderTypes, WorkerTypes
  <2>4. WorkerOK'
    BY <1>8 DEF Update, UpdateReader, WorkerOK, TypeOK, Locked, Found, MadeOK, FrameToWrite,
        ReadersAreThere, EndedOK, MainOK, Painting, ReaderTypes, WorkerTypes
  <2>5. ShowingOK'
    BY <1>8 DEF Update, UpdateReader, ShowingOK, TypeOK, Painting, FrameToShow, MainOK,
        Locked, WorkerOK, ReaderTypes, WidgetTypes
  <2>6. EndedOK'
    BY <1>8 DEF Update, UpdateReader, EndedOK, TypeOK, ReadersAreThere, MadeOK, Found
  <2>7. FramesAreOwned'
    BY <1>8 DEF Update, UpdateReader, FramesAreOwned, TypeOK, Painting, Found, WorkerOK,
        ShowingOK, FrameToShow, FrameToWrite, MainOK, Torn, ReaderTypes, WidgetTypes
  <2>8. ReadersAreThere'
    BY <1>8 DEF Update, UpdateReader, ReadersAreThere, TypeOK, MadeOK, EndedOK, MainOK,
        Painting, Found, WorkerOK, Locked, ReaderTypes
  <2>. QED
    BY <2>1, <2>2, <2>3, <2>4, <2>5, <2>6, <2>7, <2>8
<1>9. ASSUME CopyPix
      PROVE  IInv'
  <2>1. TypeOK'
    <3>1. made' \in 0..MaxReaders /\ private' \in 0..made'
      BY <1>9 DEF CopyPix, TypeOK, ReaderTypes
    <3>2. step' \in -3..5 /\ displayed' \in [Places -> BOOLEAN]
      BY <1>9, Frames DEF CopyPix, TypeOK, ReaderTypes
    <3>3. ReaderTypes'
      BY <1>9, <3>1, <3>2 DEF CopyPix, TypeOK, ReaderTypes
    <3>4. WidgetTypes'
      BY <1>9, Frames DEF CopyPix, TypeOK, ReaderTypes, WidgetTypes
    <3>5. ManagerTypes'
      BY <1>9 DEF CopyPix, TypeOK, ManagerTypes
    <3>6. WorkerTypes'
      BY <1>9 DEF CopyPix, TypeOK, WorkerTypes
    <3>. QED
      BY <1>9, <3>3, <3>4, <3>5, <3>6 DEF CopyPix, TypeOK
  <2>2. MainOK'
    BY <1>9 DEF CopyPix, MainOK, TypeOK, Painting, Locked, Found, WorkerOK, MadeOK, EndedOK,
        ReadersAreThere, ReaderTypes
  <2>3. MadeOK'
    BY <1>9 DEF CopyPix, MadeOK, TypeOK, ReadersAreThere, WorkerOK, Locked, Found, MainOK,
        EndedOK, ReaderTypes, WorkerTypes
  <2>4. WorkerOK'
    BY <1>9 DEF CopyPix, WorkerOK, TypeOK, Locked, Found, MadeOK, FrameToWrite,
        ReadersAreThere, EndedOK, MainOK, Painting, ReaderTypes, WorkerTypes
  <2>5. ShowingOK'
    BY <1>9 DEF CopyPix, ShowingOK, TypeOK, Painting, FrameToShow, MainOK, Locked, WorkerOK,
        ReaderTypes, WidgetTypes
  <2>6. EndedOK'
    BY <1>9 DEF CopyPix, EndedOK, TypeOK, ReadersAreThere, MadeOK, Found
  <2>7. FramesAreOwned'
    BY <1>9 DEF CopyPix, FramesAreOwned, TypeOK, Painting, Found, WorkerOK, ShowingOK,
        FrameToShow, FrameToWrite, MainOK, Torn, ReaderTypes, WidgetTypes
  <2>8. ReadersAreThere'
    BY <1>9 DEF CopyPix, ReadersAreThere, TypeOK, MadeOK, EndedOK, MainOK, Painting, Found,
        WorkerOK, Locked, ReaderTypes
  <2>. QED
    BY <2>1, <2>2, <2>3, <2>4, <2>5, <2>6, <2>7, <2>8
<1>10. ASSUME Process
      PROVE  IInv'
  BY <1>10, Looking DEF Process, TypeOK, Keeps
<1>11. ASSUME ProcessEnds
      PROVE  IInv'
  <2>1. TypeOK'
    <3>1. made' \in 0..MaxReaders /\ private' \in 0..made'
      BY <1>11 DEF ProcessEnds, TypeOK, ReaderTypes
    <3>2. step' \in -3..5 /\ displayed' \in [Places -> BOOLEAN]
      BY <1>11, Frames DEF ProcessEnds, TypeOK, ReaderTypes
    <3>3. ReaderTypes'
      BY <1>11, <3>1, <3>2 DEF ProcessEnds, TypeOK, ReaderTypes
    <3>4. WidgetTypes'
      BY <1>11, Frames DEF ProcessEnds, TypeOK, ReaderTypes, WidgetTypes
    <3>5. ManagerTypes'
      BY <1>11 DEF ProcessEnds, TypeOK, ManagerTypes
    <3>6. WorkerTypes'
      BY <1>11 DEF ProcessEnds, TypeOK, WorkerTypes
    <3>. QED
      BY <1>11, <3>3, <3>4, <3>5, <3>6 DEF ProcessEnds, TypeOK
  <2>2. MainOK'
    BY <1>11 DEF ProcessEnds, MainOK, TypeOK, Painting, Locked, Found, WorkerOK, MadeOK,
        EndedOK, ReadersAreThere, ReaderTypes
  <2>3. MadeOK'
    BY <1>11 DEF ProcessEnds, MadeOK, TypeOK, ReadersAreThere, WorkerOK, Locked, Found,
        MainOK, EndedOK, ReaderTypes, WorkerTypes
  <2>4. WorkerOK'
    BY <1>11 DEF ProcessEnds, WorkerOK, TypeOK, Locked, Found, MadeOK, FrameToWrite,
        ReadersAreThere, EndedOK, MainOK, Painting, ReaderTypes, WorkerTypes
  <2>5. ShowingOK'
    BY <1>11 DEF ProcessEnds, ShowingOK, TypeOK, Painting, FrameToShow, MainOK, Locked,
        WorkerOK, ReaderTypes, WidgetTypes
  <2>6. EndedOK'
    BY <1>11 DEF ProcessEnds, EndedOK, TypeOK, ReadersAreThere, MadeOK, Found
  <2>7. FramesAreOwned'
    BY <1>11 DEF ProcessEnds, FramesAreOwned, TypeOK, Painting, Found, WorkerOK, ShowingOK,
        FrameToShow, FrameToWrite, MainOK, Torn, ReaderTypes, WidgetTypes
  <2>8. ReadersAreThere'
    BY <1>11 DEF ProcessEnds, ReadersAreThere, TypeOK, MadeOK, EndedOK, MainOK, Painting,
        Found, WorkerOK, Locked, ReaderTypes
  <2>. QED
    BY <2>1, <2>2, <2>3, <2>4, <2>5, <2>6, <2>7, <2>8
<1>12. ASSUME PauseGif
      PROVE  IInv'
  <2>a. working \in Names /\ working <= made
    BY <1>12 DEF PauseGif, Moves, NextWrite, TypeOK, ReaderTypes, WorkerTypes, MadeOK,
        WorkerOK, Handles
  <2>. DEFINE p == [readers[working] EXCEPT !.paused = TRUE]
  <2>b. p \in ReaderPrivate 
        /\ p.phase = readers[working].phase /\ p.first = readers[working].first
        /\ p.request = readers[working].request /\ p.frame = readers[working].frame
    BY <2>a DEF TypeOK, ReaderPrivate
  <2>c. readers' = [readers EXCEPT ![working] = p]
    BY <1>12, <2>a DEF PauseGif, Moves, NextWrite, TypeOK, SetReader
  <2>. HIDE DEF p
  <2>d. /\ readers' \in [Names -> ReaderPrivate] /\ readers'[working] = p
        /\ \A q \in Names : q # working => readers'[q] = readers[q]
    BY <2>a, <2>b, <2>c, OneReader DEF TypeOK
  <2>1. TypeOK'
    <3>1. made' \in 0..MaxReaders /\ private' \in 0..made'
      BY <1>12, <2>a, <2>b, <2>d DEF PauseGif, Moves, NextWrite, TypeOK, ReaderTypes
    <3>2. step' \in -3..5 /\ displayed' \in [Places -> BOOLEAN]
      BY <1>12, <2>a, <2>b, <2>d, Frames DEF PauseGif, Moves, TypeOK, ReaderTypes
    <3>3. ReaderTypes'
      BY <1>12, <2>a, <2>b, <2>d, <3>1, <3>2 DEF PauseGif, Moves, NextWrite, TypeOK,
          ReaderTypes
    <3>4. WidgetTypes'
      BY <1>12, <2>a, <2>b, <2>d, Frames DEF PauseGif, Moves, NextWrite, TypeOK, ReaderTypes,
          WidgetTypes
    <3>5. ManagerTypes'
      BY <1>12, <2>a, <2>b, <2>d DEF PauseGif, Moves, NextWrite, TypeOK, ManagerTypes
    <3>6. WorkerTypes'
      BY <1>12, <2>a, <2>b, <2>d DEF PauseGif, Moves, NextWrite, TypeOK, WorkerTypes
    <3>. QED
      BY <1>12, <2>a, <2>b, <2>d, <3>3, <3>4, <3>5, <3>6 DEF PauseGif, Moves, NextWrite,
          TypeOK
  <2>2. MainOK'
    BY <1>12, <2>a, <2>b, <2>d DEF PauseGif, Moves, NextWrite, MainOK, TypeOK, Painting,
        Locked, Found, WorkerOK, MadeOK, EndedOK, ReadersAreThere, ReaderTypes
  <2>3. MadeOK'
    BY <1>12, <2>a, <2>b, <2>d, NewReader DEF PauseGif, Moves, NextWrite, MadeOK, TypeOK,
        ReadersAreThere, WorkerOK, Locked, Found, MainOK, EndedOK, ReaderTypes, WorkerTypes
  <2>4. WorkerOK'
    BY <1>12, <2>a, <2>b, <2>d, NewReader DEF PauseGif, Moves, NextWrite, WorkerOK, TypeOK,
        Locked, Found, MadeOK, FrameToWrite, ReadersAreThere, EndedOK, MainOK, Painting,
        ReaderTypes, WorkerTypes
  <2>5. ShowingOK'
    BY <1>12, <2>a, <2>b, <2>d DEF PauseGif, Moves, NextWrite, ShowingOK, TypeOK, Painting,
        FrameToShow, MainOK, Locked, WorkerOK, ReaderTypes, WidgetTypes
  <2>6. EndedOK'
    BY <1>12, <2>a, <2>b, <2>d DEF PauseGif, Moves, NextWrite, EndedOK, TypeOK,
        ReadersAreThere, MadeOK, Found
  <2>7. FramesAreOwned'
    BY <1>12, <2>a, <2>b, <2>d DEF PauseGif, Moves, NextWrite, FramesAreOwned, TypeOK,
        Painting, Found, WorkerOK, ShowingOK, FrameToShow, FrameToWrite, MainOK, Torn,
        ReaderTypes, WidgetTypes
  <2>8. ReadersAreThere'
    BY <1>12, <2>a, <2>b, <2>d, NewReader DEF PauseGif, Moves, NextWrite, ReadersAreThere,
        TypeOK, MadeOK, EndedOK, MainOK, Painting, Found, WorkerOK, Locked, ReaderTypes
  <2>. QED
    BY <2>1, <2>2, <2>3, <2>4, <2>5, <2>6, <2>7, <2>8
<1>13. ASSUME MoveToNextWrite
      PROVE  IInv'
  <2>1. TypeOK'
    <3>1. made' \in 0..MaxReaders /\ private' \in 0..made'
      BY <1>13 DEF MoveToNextWrite, Moves, NextWrite, TypeOK, ReaderTypes
    <3>2. step' \in -3..5 /\ displayed' \in [Places -> BOOLEAN]
      BY <1>13, Frames DEF MoveToNextWrite, Moves, TypeOK, ReaderTypes
    <3>3. ReaderTypes'
      BY <1>13, <3>1, <3>2 DEF MoveToNextWrite, Moves, NextWrite, TypeOK, ReaderTypes
    <3>4. WidgetTypes'
      BY <1>13, Frames DEF MoveToNextWrite, Moves, NextWrite, TypeOK, ReaderTypes, WidgetTypes
    <3>5. ManagerTypes'
      BY <1>13 DEF MoveToNextWrite, Moves, NextWrite, TypeOK, ManagerTypes
    <3>6. WorkerTypes'
      BY <1>13 DEF MoveToNextWrite, Moves, NextWrite, TypeOK, WorkerTypes
    <3>. QED
      BY <1>13, <3>3, <3>4, <3>5, <3>6 DEF MoveToNextWrite, Moves, NextWrite, TypeOK
  <2>2. MainOK'
    BY <1>13 DEF MoveToNextWrite, Moves, NextWrite, MainOK, TypeOK, Painting, Locked, Found,
        WorkerOK, MadeOK, EndedOK, ReadersAreThere, ReaderTypes
  <2>3. MadeOK'
    BY <1>13 DEF MoveToNextWrite, Moves, NextWrite, MadeOK, TypeOK, ReadersAreThere, WorkerOK,
        Locked, Found, MainOK, EndedOK, ReaderTypes, WorkerTypes
  <2>4. WorkerOK'
    BY <1>13 DEF MoveToNextWrite, Moves, NextWrite, WorkerOK, TypeOK, Locked, Found, MadeOK,
        FrameToWrite, ReadersAreThere, EndedOK, MainOK, Painting, ReaderTypes, WorkerTypes
  <2>5. ShowingOK'
    BY <1>13 DEF MoveToNextWrite, Moves, NextWrite, ShowingOK, TypeOK, Painting, FrameToShow,
        MainOK, Locked, WorkerOK, ReaderTypes, WidgetTypes
  <2>6. EndedOK'
    BY <1>13 DEF MoveToNextWrite, Moves, NextWrite, EndedOK, TypeOK, ReadersAreThere, MadeOK,
        Found
  <2>7. FramesAreOwned'
    BY <1>13 DEF MoveToNextWrite, Moves, NextWrite, FramesAreOwned, TypeOK, Painting, Found,
        WorkerOK, ShowingOK, FrameToShow, FrameToWrite, MainOK, Torn, ReaderTypes, WidgetTypes
  <2>8. ReadersAreThere'
    BY <1>13 DEF MoveToNextWrite, Moves, NextWrite, ReadersAreThere, TypeOK, MadeOK, EndedOK,
        MainOK, Painting, Found, WorkerOK, Locked, ReaderTypes
  <2>. QED
    BY <2>1, <2>2, <2>3, <2>4, <2>5, <2>6, <2>7, <2>8
<1>14. ASSUME ClearFrame
      PROVE  IInv'
  <2>a. working \in Names /\ working <= made
    BY <1>14 DEF ClearFrame, Torn, TypeOK, ReaderTypes, WorkerTypes, MadeOK, WorkerOK, Handles
  <2>. DEFINE p == [readers[working] EXCEPT !.frame = FrameToWrite]
  <2>b. p \in ReaderPrivate 
        /\ p.phase = readers[working].phase /\ p.first = readers[working].first
        /\ p.request = readers[working].request /\ p.frame = FrameToWrite
    BY <2>a, Frames DEF TypeOK, ReaderPrivate, ReaderTypes
  <2>. HIDE DEF p
  <2>c. readers' = IF Found(working) THEN [readers EXCEPT ![working] = p] ELSE readers
    BY <1>14, <2>a DEF ClearFrame, TypeOK, p
  <2>d. /\ readers' \in [Names -> ReaderPrivate]
        /\ readers'[working] = IF Found(working) THEN p ELSE readers[working]
        /\ \A q \in Names : q # working => readers'[q] = readers[q]
    BY <2>a, <2>b, <2>c, OneReader DEF TypeOK
  <2>1. TypeOK'
    <3>1. made' \in 0..MaxReaders /\ private' \in 0..made'
      BY <1>14, <2>a, <2>b, <2>d DEF ClearFrame, Torn, TypeOK, ReaderTypes
    <3>2. step' \in -3..5 /\ displayed' \in [Places -> BOOLEAN]
      BY <1>14, <2>a, <2>b, <2>d, Frames DEF ClearFrame, Torn, TypeOK, ReaderTypes
    <3>3. ReaderTypes'
      BY <1>14, <2>a, <2>b, <2>d, <3>1, <3>2 DEF ClearFrame, Torn, TypeOK, ReaderTypes
    <3>4. WidgetTypes'
      BY <1>14, <2>a, <2>b, <2>d, Frames DEF ClearFrame, Torn, TypeOK, ReaderTypes,
          WidgetTypes
    <3>5. ManagerTypes'
      BY <1>14, <2>a, <2>b, <2>d DEF ClearFrame, Torn, TypeOK, ManagerTypes
    <3>6. WorkerTypes'
      BY <1>14, <2>a, <2>b, <2>d DEF ClearFrame, Torn, TypeOK, WorkerTypes
    <3>. QED
      BY <1>14, <2>a, <2>b, <2>d, <3>3, <3>4, <3>5, <3>6 DEF ClearFrame, Torn, TypeOK
  <2>2. MainOK'
    BY <1>14, <2>a, <2>b, <2>d DEF ClearFrame, Torn, MainOK, TypeOK, Painting, Locked, Found,
        WorkerOK, MadeOK, EndedOK, ReadersAreThere, ReaderTypes
  <2>3. MadeOK'
    BY <1>14, <2>a, <2>b, <2>d, NewReader DEF ClearFrame, Torn, MadeOK, TypeOK,
        ReadersAreThere, WorkerOK, Locked, Found, MainOK, EndedOK, ReaderTypes, WorkerTypes
  <2>4. WorkerOK'
    BY <1>14, <2>a, <2>b, <2>d, NewReader DEF ClearFrame, Torn, WorkerOK, TypeOK, Locked,
        Found, MadeOK, FrameToWrite, ReadersAreThere, EndedOK, MainOK, Painting, ReaderTypes,
        WorkerTypes
  <2>5. ShowingOK'
    BY <1>14, <2>a, <2>b, <2>d DEF ClearFrame, Torn, ShowingOK, TypeOK, Painting, FrameToShow,
        MainOK, Locked, WorkerOK, ReaderTypes, WidgetTypes
  <2>6. EndedOK'
    BY <1>14, <2>a, <2>b, <2>d DEF ClearFrame, Torn, EndedOK, TypeOK, ReadersAreThere, MadeOK,
        Found
  <2>7. FramesAreOwned'
    BY <1>14, <2>a, <2>b, <2>d DEF ClearFrame, Torn, FramesAreOwned, TypeOK, Painting, Found,
        WorkerOK, ShowingOK, FrameToShow, FrameToWrite, MainOK, ReaderTypes, WidgetTypes
  <2>8. ReadersAreThere'
    BY <1>14, <2>a, <2>b, <2>d, NewReader DEF ClearFrame, Torn, ReadersAreThere, TypeOK,
        MadeOK, EndedOK, MainOK, Painting, Found, WorkerOK, Locked, ReaderTypes
  <2>. QED
    BY <2>1, <2>2, <2>3, <2>4, <2>5, <2>6, <2>7, <2>8
<1>15. ASSUME CopyFrame
      PROVE  IInv'
  <2>a. working \in Names /\ working <= made
    BY <1>15 DEF CopyFrame, LoopGoesOn, Torn, TypeOK, ReaderTypes, WorkerTypes, MadeOK,
        WorkerOK, Handles
  <2>. DEFINE p == Later(readers[working])
  <2>b. p \in ReaderPrivate 
        /\ p.phase = readers[working].phase /\ p.first = readers[working].first
        /\ p.request = readers[working].request /\ p.frame = readers[working].frame
    BY <2>a, LaterLeaves DEF TypeOK, ReaderPrivate
  <2>. HIDE DEF p
  <2>c. IF Found(working) THEN readers' = [readers EXCEPT ![working] = p] ELSE Delete(working)
    BY <1>15, <2>a DEF CopyFrame, SetReader, p
  <2>d. /\ readers' \in [Names -> ReaderPrivate]
        /\ IF Found(working) THEN readers'[working] = p
           ELSE readers'[working].phase = "deleted"
        /\ \A q \in Names : q # working => readers'[q] = readers[q]
    BY <2>a, <2>b, <2>c, NewReader, OneReader DEF TypeOK, Delete
  <2>1. TypeOK'
    <3>1. made' \in 0..MaxReaders /\ private' \in 0..made'
      BY <1>15, <2>a, <2>b, <2>d DEF CopyFrame, LoopGoesOn, Torn, TypeOK, ReaderTypes
    <3>2. step' \in -3..5 /\ displayed' \in [Places -> BOOLEAN]
      BY <1>15, <2>a, <2>b, <2>d, Frames DEF CopyFrame, LoopGoesOn, Torn, TypeOK, ReaderTypes
    <3>3. ReaderTypes'
      BY <1>15, <2>a, <2>b, <2>d, <3>1, <3>2 DEF CopyFrame, LoopGoesOn, Torn, TypeOK,
          ReaderTypes
    <3>4. WidgetTypes'
      BY <1>15, <2>a, <2>b, <2>d, Frames DEF CopyFrame, LoopGoesOn, Torn, TypeOK, ReaderTypes,
          WidgetTypes
    <3>5. ManagerTypes'
      BY <1>15, <2>a, <2>b, <2>d DEF CopyFrame, LoopGoesOn, Torn, TypeOK, ManagerTypes
    <3>6. WorkerTypes'
      BY <1>15, <2>a, <2>b, <2>d DEF CopyFrame, LoopGoesOn, Torn, TypeOK, WorkerTypes
    <3>. QED
      BY <1>15, <2>a, <2>b, <2>d, <3>3, <3>4, <3>5, <3>6 DEF CopyFrame, LoopGoesOn, Torn,
          TypeOK
  <2>2. MainOK'
    BY <1>15, <2>a, <2>b, <2>d DEF CopyFrame, LoopGoesOn, Torn, MainOK, TypeOK, Painting,
        Locked, Found, WorkerOK, MadeOK, EndedOK, ReadersAreThere, ReaderTypes
  <2>3. MadeOK'
    BY <1>15, <2>a, <2>b, <2>d, NewReader DEF CopyFrame, LoopGoesOn, Torn, MadeOK, TypeOK,
        ReadersAreThere, WorkerOK, Locked, Found, MainOK, EndedOK, ReaderTypes, WorkerTypes
  <2>4. WorkerOK'
    BY <1>15, <2>a, <2>b, <2>d, NewReader DEF CopyFrame, LoopGoesOn, Torn, WorkerOK, TypeOK,
        Locked, Found, MadeOK, FrameToWrite, ReadersAreThere, EndedOK, MainOK, Painting,
        ReaderTypes, WorkerTypes
  <2>5. ShowingOK'
    BY <1>15, <2>a, <2>b, <2>d DEF CopyFrame, LoopGoesOn, Torn, ShowingOK, TypeOK, Painting,
        FrameToShow, MainOK, Locked, WorkerOK, ReaderTypes, WidgetTypes
  <2>6. EndedOK'
    BY <1>15, <2>a, <2>b, <2>d DEF CopyFrame, LoopGoesOn, Torn, EndedOK, TypeOK,
        ReadersAreThere, MadeOK, Found
  <2>7. FramesAreOwned'
    BY <1>15, <2>a, <2>b, <2>d DEF CopyFrame, LoopGoesOn, Torn, FramesAreOwned, TypeOK,
        Painting, Found, WorkerOK, ShowingOK, FrameToShow, FrameToWrite, MainOK, ReaderTypes,
        WidgetTypes
  <2>8. ReadersAreThere'
    BY <1>15, <2>a, <2>b, <2>d, NewReader DEF CopyFrame, LoopGoesOn, Torn, ReadersAreThere,
        TypeOK, MadeOK, EndedOK, MainOK, Painting, Found, WorkerOK, Locked, ReaderTypes
  <2>. QED
    BY <2>1, <2>2, <2>3, <2>4, <2>5, <2>6, <2>7, <2>8
<1>16. ASSUME NEW r \in Names, HandleGone(r)
      PROVE  IInv'
  <2>a. r \in Names /\ r <= made /\ Delete(r)
    BY <1>16 DEF HandleGone, LoopGoesOn, TypeOK, ReaderTypes, WorkerTypes, MadeOK, WorkerOK,
        Handles
  <2>d. /\ readers' \in [Names -> ReaderPrivate] /\ readers'[r].phase = "deleted"
        /\ \A q \in Names : q # r => readers'[q] = readers[q]
    BY <2>a, NewReader, OneReader DEF Delete, TypeOK
  <2>1. TypeOK'
    <3>1. made' \in 0..MaxReaders /\ private' \in 0..made'
      BY <1>16, <2>a, <2>d DEF HandleGone, LoopGoesOn, TypeOK, ReaderTypes
    <3>2. step' \in -3..5 /\ displayed' \in [Places -> BOOLEAN]
      BY <1>16, <2>a, <2>d, Frames DEF HandleGone, LoopGoesOn, TypeOK, ReaderTypes
    <3>3. ReaderTypes'
      BY <1>16, <2>a, <2>d, <3>1, <3>2 DEF HandleGone, LoopGoesOn, TypeOK, ReaderTypes
    <3>4. WidgetTypes'
      BY <1>16, <2>a, <2>d, Frames DEF HandleGone, LoopGoesOn, TypeOK, ReaderTypes,
          WidgetTypes
    <3>5. ManagerTypes'
      BY <1>16, <2>a, <2>d DEF HandleGone, LoopGoesOn, TypeOK, ManagerTypes
    <3>6. WorkerTypes'
      BY <1>16, <2>a, <2>d DEF HandleGone, LoopGoesOn, TypeOK, WorkerTypes
    <3>. QED
      BY <1>16, <2>a, <2>d, <3>3, <3>4, <3>5, <3>6 DEF HandleGone, LoopGoesOn, TypeOK
  <2>2. MainOK'
    BY <1>16, <2>a, <2>d DEF HandleGone, LoopGoesOn, MainOK, TypeOK, Painting, Locked, Found,
        WorkerOK, MadeOK, EndedOK, ReadersAreThere, ReaderTypes
  <2>3. MadeOK'
    BY <1>16, <2>a, <2>d, NewReader DEF HandleGone, LoopGoesOn, MadeOK, TypeOK,
        ReadersAreThere, WorkerOK, Locked, Found, MainOK, EndedOK, ReaderTypes, WorkerTypes
  <2>4. WorkerOK'
    BY <1>16, <2>a, <2>d, NewReader DEF HandleGone, LoopGoesOn, WorkerOK, TypeOK, Locked,
        Found, MadeOK, FrameToWrite, ReadersAreThere, EndedOK, MainOK, Painting, ReaderTypes,
        WorkerTypes
  <2>5. ShowingOK'
    BY <1>16, <2>a, <2>d DEF HandleGone, LoopGoesOn, ShowingOK, TypeOK, Painting, FrameToShow,
        MainOK, Locked, WorkerOK, ReaderTypes, WidgetTypes
  <2>6. EndedOK'
    BY <1>16, <2>a, <2>d DEF HandleGone, LoopGoesOn, EndedOK, TypeOK, ReadersAreThere, MadeOK,
        Found
  <2>7. FramesAreOwned'
    BY <1>16, <2>a, <2>d DEF HandleGone, LoopGoesOn, FramesAreOwned, TypeOK, Painting, Found,
        WorkerOK, ShowingOK, FrameToShow, FrameToWrite, MainOK, Torn, ReaderTypes, WidgetTypes
  <2>8. ReadersAreThere'
    BY <1>16, <2>a, <2>d, NewReader DEF HandleGone, LoopGoesOn, ReadersAreThere, TypeOK,
        MadeOK, EndedOK, MainOK, Painting, Found, WorkerOK, Locked, ReaderTypes
  <2>. QED
    BY <2>1, <2>2, <2>3, <2>4, <2>5, <2>6, <2>7, <2>8
<1>17. ASSUME NEW r \in Names, NotYet(r)
      PROVE  IInv'
  <2>1. TypeOK'
    <3>1. made' \in 0..MaxReaders /\ private' \in 0..made'
      BY <1>17 DEF NotYet, LoopGoesOn, TypeOK, ReaderTypes
    <3>2. step' \in -3..5 /\ displayed' \in [Places -> BOOLEAN]
      BY <1>17, Frames DEF NotYet, LoopGoesOn, TypeOK, ReaderTypes
    <3>3. ReaderTypes'
      BY <1>17, <3>1, <3>2 DEF NotYet, LoopGoesOn, TypeOK, ReaderTypes
    <3>4. WidgetTypes'
      BY <1>17, Frames DEF NotYet, LoopGoesOn, TypeOK, ReaderTypes, WidgetTypes
    <3>5. ManagerTypes'
      BY <1>17 DEF NotYet, LoopGoesOn, TypeOK, ManagerTypes
    <3>6. WorkerTypes'
      BY <1>17 DEF NotYet, LoopGoesOn, TypeOK, WorkerTypes
    <3>. QED
      BY <1>17, <3>3, <3>4, <3>5, <3>6 DEF NotYet, LoopGoesOn, TypeOK
  <2>2. MainOK'
    BY <1>17 DEF NotYet, LoopGoesOn, MainOK, TypeOK, Painting, Locked, Found, WorkerOK,
        MadeOK, EndedOK, ReadersAreThere, ReaderTypes
  <2>3. MadeOK'
    BY <1>17 DEF NotYet, LoopGoesOn, MadeOK, TypeOK, ReadersAreThere, WorkerOK, Locked, Found,
        MainOK, EndedOK, ReaderTypes, WorkerTypes
  <2>4. WorkerOK'
    BY <1>17 DEF NotYet, LoopGoesOn, WorkerOK, TypeOK, Locked, Found, MadeOK, FrameToWrite,
        ReadersAreThere, EndedOK, MainOK, Painting, ReaderTypes, WorkerTypes
  <2>5. ShowingOK'
    BY <1>17 DEF NotYet, LoopGoesOn, ShowingOK, TypeOK, Painting, FrameToShow, MainOK, Locked,
        WorkerOK, ReaderTypes, WidgetTypes
  <2>6. EndedOK'
    BY <1>17 DEF NotYet, LoopGoesOn, EndedOK, TypeOK, ReadersAreThere, MadeOK, Found
  <2>7. FramesAreOwned'
    BY <1>17 DEF NotYet, LoopGoesOn, FramesAreOwned, TypeOK, Painting, Found, WorkerOK,
        ShowingOK, FrameToShow, FrameToWrite, MainOK, Torn, ReaderTypes, WidgetTypes
  <2>8. ReadersAreThere'
    BY <1>17 DEF NotYet, LoopGoesOn, ReadersAreThere, TypeOK, MadeOK, EndedOK, MainOK,
        Painting, Found, WorkerOK, Locked, ReaderTypes
  <2>. QED
    BY <2>1, <2>2, <2>3, <2>4, <2>5, <2>6, <2>7, <2>8
<1>18. ASSUME NEW r \in Names, Wait(r)
      PROVE  IInv'
  <2>. DEFINE s == [readers[r] EXCEPT !.started = @ \/ readers[r].request]
  <2>s. /\ s \in ReaderPrivate /\ s.phase = readers[r].phase /\ s.first = readers[r].first
        /\ s.request = readers[r].request /\ s.frame = readers[r].frame
    BY <1>18 DEF TypeOK, ReaderPrivate
  <2>. HIDE DEF s
  <2>a. r \in Names /\ r <= made
    BY <1>18 DEF Wait, Handles, LoopGoesOn, TypeOK, ReaderTypes, WorkerTypes, MadeOK, WorkerOK
  <2>. DEFINE p == Later(s)
  <2>b. p \in ReaderPrivate 
        /\ p.phase = readers[r].phase /\ p.first = readers[r].first
        /\ p.request = readers[r].request /\ p.frame = readers[r].frame
    BY <2>a, <2>s, LaterLeaves DEF TypeOK, ReaderPrivate
  <2>c. readers' = [readers EXCEPT ![r] = p]
    BY <1>18, <2>a DEF Wait, Handles, LoopGoesOn, TypeOK, SetReader, s
  <2>. HIDE DEF p
  <2>d. /\ readers' \in [Names -> ReaderPrivate] /\ readers'[r] = p
        /\ \A q \in Names : q # r => readers'[q] = readers[q]
    BY <2>a, <2>b, <2>c, OneReader DEF TypeOK
  <2>1. TypeOK'
    <3>1. made' \in 0..MaxReaders /\ private' \in 0..made'
      BY <1>18, <2>a, <2>b, <2>d DEF Wait, Handles, LoopGoesOn, TypeOK, ReaderTypes
    <3>2. step' \in -3..5 /\ displayed' \in [Places -> BOOLEAN]
      BY <1>18, <2>a, <2>b, <2>d, Frames DEF Wait, Handles, LoopGoesOn, TypeOK, ReaderTypes
    <3>3. ReaderTypes'
      BY <1>18, <2>a, <2>b, <2>d, <3>1, <3>2 DEF Wait, Handles, LoopGoesOn, TypeOK,
          ReaderTypes
    <3>4. WidgetTypes'
      BY <1>18, <2>a, <2>b, <2>d, Frames DEF Wait, Handles, LoopGoesOn, TypeOK, ReaderTypes,
          WidgetTypes
    <3>5. ManagerTypes'
      BY <1>18, <2>a, <2>b, <2>d DEF Wait, Handles, LoopGoesOn, TypeOK, ManagerTypes
    <3>6. WorkerTypes'
      BY <1>18, <2>a, <2>b, <2>d DEF Wait, Handles, LoopGoesOn, TypeOK, WorkerTypes
    <3>. QED
      BY <1>18, <2>a, <2>b, <2>d, <3>3, <3>4, <3>5, <3>6 DEF Wait, Handles, LoopGoesOn, TypeOK
  <2>2. MainOK'
    BY <1>18, <2>a, <2>b, <2>d DEF Wait, Handles, LoopGoesOn, MainOK, TypeOK, Painting,
        Locked, Found, WorkerOK, MadeOK, EndedOK, ReadersAreThere, ReaderTypes
  <2>3. MadeOK'
    BY <1>18, <2>a, <2>b, <2>d, NewReader DEF Wait, Handles, LoopGoesOn, MadeOK, TypeOK,
        ReadersAreThere, WorkerOK, Locked, Found, MainOK, EndedOK, ReaderTypes, WorkerTypes
  <2>4. WorkerOK'
    BY <1>18, <2>a, <2>b, <2>d, NewReader DEF Wait, Handles, LoopGoesOn, WorkerOK, TypeOK,
        Locked, Found, MadeOK, FrameToWrite, ReadersAreThere, EndedOK, MainOK, Painting,
        ReaderTypes, WorkerTypes
  <2>5. ShowingOK'
    BY <1>18, <2>a, <2>b, <2>d DEF Wait, Handles, LoopGoesOn, ShowingOK, TypeOK, Painting,
        FrameToShow, MainOK, Locked, WorkerOK, ReaderTypes, WidgetTypes
  <2>6. EndedOK'
    BY <1>18, <2>a, <2>b, <2>d DEF Wait, Handles, LoopGoesOn, EndedOK, TypeOK,
        ReadersAreThere, MadeOK, Found
  <2>7. FramesAreOwned'
    BY <1>18, <2>a, <2>b, <2>d DEF Wait, Handles, LoopGoesOn, FramesAreOwned, TypeOK,
        Painting, Found, WorkerOK, ShowingOK, FrameToShow, FrameToWrite, MainOK, Torn,
        ReaderTypes, WidgetTypes
  <2>8. ReadersAreThere'
    BY <1>18, <2>a, <2>b, <2>d, NewReader DEF Wait, Handles, LoopGoesOn, ReadersAreThere,
        TypeOK, MadeOK, EndedOK, MainOK, Painting, Found, WorkerOK, Locked, ReaderTypes
  <2>. QED
    BY <2>1, <2>2, <2>3, <2>4, <2>5, <2>6, <2>7, <2>8
<1>19. ASSUME NEW r \in Names, Started(r)
      PROVE  IInv'
  <2>. DEFINE s == [readers[r] EXCEPT !.first = TRUE]
  <2>s. /\ s \in ReaderPrivate /\ s.phase = readers[r].phase /\ s.first
        /\ s.request = readers[r].request
    BY <1>19 DEF TypeOK, ReaderPrivate
  <2>. HIDE DEF s
  <2>a. r \in Names /\ r <= made
    BY <1>19 DEF Started, Handles, LoopGoesOn, NextWrite, TypeOK, ReaderTypes, WorkerTypes,
        MadeOK, WorkerOK
  <2>. DEFINE p == Later(s)
  <2>b. p \in ReaderPrivate 
        /\ p.phase = readers[r].phase /\ p.first
        /\ p.request = readers[r].request
    BY <2>a, <2>s, LaterLeaves DEF TypeOK, ReaderPrivate
  <2>c. readers' = [readers EXCEPT ![r] = p]
    BY <1>19, <2>a DEF Started, Handles, LoopGoesOn, NextWrite, TypeOK, SetReader, s
  <2>. HIDE DEF p
  <2>d. /\ readers' \in [Names -> ReaderPrivate] /\ readers'[r] = p
        /\ \A q \in Names : q # r => readers'[q] = readers[q]
    BY <2>a, <2>b, <2>c, OneReader DEF TypeOK
  <2>1. TypeOK'
    <3>1. made' \in 0..MaxReaders /\ private' \in 0..made'
      BY <1>19, <2>a, <2>b, <2>d DEF Started, Handles, LoopGoesOn, NextWrite, TypeOK,
          ReaderTypes
    <3>2. step' \in -3..5 /\ displayed' \in [Places -> BOOLEAN]
      BY <1>19, <2>a, <2>b, <2>d, Frames DEF Started, Handles, LoopGoesOn, TypeOK, ReaderTypes
    <3>3. ReaderTypes'
      BY <1>19, <2>a, <2>b, <2>d, <3>1, <3>2 DEF Started, Handles, LoopGoesOn, NextWrite,
          TypeOK, ReaderTypes
    <3>4. WidgetTypes'
      BY <1>19, <2>a, <2>b, <2>d, Frames DEF Started, Handles, LoopGoesOn, NextWrite, TypeOK,
          ReaderTypes, WidgetTypes
    <3>5. ManagerTypes'
      BY <1>19, <2>a, <2>b, <2>d DEF Started, Handles, LoopGoesOn, NextWrite, TypeOK,
          ManagerTypes
    <3>6. WorkerTypes'
      BY <1>19, <2>a, <2>b, <2>d DEF Started, Handles, LoopGoesOn, NextWrite, TypeOK,
          WorkerTypes
    <3>. QED
      BY <1>19, <2>a, <2>b, <2>d, <3>3, <3>4, <3>5, <3>6 DEF Started, Handles, LoopGoesOn,
          NextWrite, TypeOK
  <2>2. MainOK'
    BY <1>19, <2>a, <2>b, <2>d DEF Started, Handles, LoopGoesOn, NextWrite, MainOK, TypeOK,
        Painting, Locked, Found, WorkerOK, MadeOK, EndedOK, ReadersAreThere, ReaderTypes
  <2>3. MadeOK'
    BY <1>19, <2>a, <2>b, <2>d, NewReader DEF Started, Handles, LoopGoesOn, NextWrite, MadeOK,
        TypeOK, ReadersAreThere, WorkerOK, Locked, Found, MainOK, EndedOK, ReaderTypes,
        WorkerTypes
  <2>4. WorkerOK'
    BY <1>19, <2>a, <2>b, <2>d, NewReader DEF Started, Handles, LoopGoesOn, NextWrite,
        WorkerOK, TypeOK, Locked, Found, MadeOK, FrameToWrite, ReadersAreThere, EndedOK,
        MainOK, Painting, ReaderTypes, WorkerTypes
  <2>5. ShowingOK'
    BY <1>19, <2>a, <2>b, <2>d DEF Started, Handles, LoopGoesOn, NextWrite, ShowingOK, TypeOK,
        Painting, FrameToShow, MainOK, Locked, WorkerOK, ReaderTypes, WidgetTypes, MadeOK,
        Found
  <2>6. EndedOK'
    BY <1>19, <2>a, <2>b, <2>d DEF Started, Handles, LoopGoesOn, NextWrite, EndedOK, TypeOK,
        ReadersAreThere, MadeOK, Found
  <2>7. FramesAreOwned'
    BY <1>19, <2>a, <2>b, <2>d DEF Started, Handles, LoopGoesOn, NextWrite, FramesAreOwned,
        TypeOK, Painting, Found, WorkerOK, ShowingOK, FrameToShow, FrameToWrite, MainOK, Torn,
        ReaderTypes, WidgetTypes
  <2>8. ReadersAreThere'
    BY <1>19, <2>a, <2>b, <2>d, NewReader DEF Started, Handles, LoopGoesOn, NextWrite,
        ReadersAreThere, TypeOK, MadeOK, EndedOK, MainOK, Painting, Found, WorkerOK, Locked,
        ReaderTypes
  <2>. QED
    BY <2>1, <2>2, <2>3, <2>4, <2>5, <2>6, <2>7, <2>8
<1>20. ASSUME NEW r \in Names, Repaint(r)
      PROVE  IInv'
  <2>a. r \in Names /\ r <= made
    BY <1>20 DEF Repaint, Handles, TypeOK, ReaderTypes, WorkerTypes, MadeOK, WorkerOK
  <2>. DEFINE p == [readers[r] EXCEPT !.started = TRUE]
  <2>b. p \in ReaderPrivate 
        /\ p.phase = readers[r].phase /\ p.first = readers[r].first
        /\ p.request = readers[r].request /\ p.frame = readers[r].frame
    BY <2>a DEF TypeOK, ReaderPrivate
  <2>c. readers' = [readers EXCEPT ![r] = p]
    BY <1>20, <2>a DEF Repaint, Handles, TypeOK, SetReader
  <2>. HIDE DEF p
  <2>d. /\ readers' \in [Names -> ReaderPrivate] /\ readers'[r] = p
        /\ \A q \in Names : q # r => readers'[q] = readers[q]
    BY <2>a, <2>b, <2>c, OneReader DEF TypeOK
  <2>1. TypeOK'
    <3>1. made' \in 0..MaxReaders /\ private' \in 0..made'
      BY <1>20, <2>a, <2>b, <2>d DEF Repaint, Handles, TypeOK, ReaderTypes
    <3>2. step' \in -3..5 /\ displayed' \in [Places -> BOOLEAN]
      BY <1>20, <2>a, <2>b, <2>d, Frames DEF Repaint, Handles, TypeOK, ReaderTypes
    <3>3. ReaderTypes'
      BY <1>20, <2>a, <2>b, <2>d, <3>1, <3>2 DEF Repaint, Handles, TypeOK, ReaderTypes
    <3>4. WidgetTypes'
      BY <1>20, <2>a, <2>b, <2>d, Frames DEF Repaint, Handles, TypeOK, ReaderTypes,
          WidgetTypes
    <3>5. ManagerTypes'
      BY <1>20, <2>a, <2>b, <2>d DEF Repaint, Handles, TypeOK, ManagerTypes
    <3>6. WorkerTypes'
      BY <1>20, <2>a, <2>b, <2>d DEF Repaint, Handles, TypeOK, WorkerTypes
    <3>. QED
      BY <1>20, <2>a, <2>b, <2>d, <3>3, <3>4, <3>5, <3>6 DEF Repaint, Handles, TypeOK
  <2>2. MainOK'
    BY <1>20, <2>a, <2>b, <2>d DEF Repaint, Handles, MainOK, TypeOK, Painting, Locked, Found,
        WorkerOK, MadeOK, EndedOK, ReadersAreThere, ReaderTypes
  <2>3. MadeOK'
    BY <1>20, <2>a, <2>b, <2>d, NewReader DEF Repaint, Handles, MadeOK, TypeOK,
        ReadersAreThere, WorkerOK, Locked, Found, MainOK, EndedOK, ReaderTypes, WorkerTypes
  <2>4. WorkerOK'
    <3>1. working' = r /\ r # 0 /\ Found(r)'
      BY <1>20 DEF Repaint, Handles, Found
    <3>3. readers[r].request
      BY <1>20 DEF Repaint
    <3>4. readers'[r].request
      BY <2>b, <2>d, <3>3
    <3>2. worker' \in {"pause", "repaint"}
      BY <1>20 DEF Repaint
    <3>. QED
      BY <3>1, <3>2, <3>4 DEF WorkerOK, Locked
  <2>5. ShowingOK'
    BY <1>20, <2>a, <2>b, <2>d DEF Repaint, Handles, ShowingOK, TypeOK, Painting, FrameToShow,
        MainOK, Locked, WorkerOK, ReaderTypes, WidgetTypes
  <2>6. EndedOK'
    BY <1>20, <2>a, <2>b, <2>d DEF Repaint, Handles, EndedOK, TypeOK, ReadersAreThere, MadeOK,
        Found
  <2>7. FramesAreOwned'
    BY <1>20, <2>a, <2>b, <2>d DEF Repaint, Handles, FramesAreOwned, TypeOK, Painting, Found,
        WorkerOK, ShowingOK, FrameToShow, FrameToWrite, MainOK, Torn, ReaderTypes, WidgetTypes
  <2>8. ReadersAreThere'
    BY <1>20, <2>a, <2>b, <2>d, NewReader DEF Repaint, Handles, ReadersAreThere, TypeOK,
        MadeOK, EndedOK, MainOK, Painting, Found, WorkerOK, Locked, ReaderTypes
  <2>. QED
    BY <2>1, <2>2, <2>3, <2>4, <2>5, <2>6, <2>7, <2>8
<1>21. ASSUME NEW r \in Names, ProcessTimer(r)
      PROVE  IInv'
  <2>. DEFINE known == [readers EXCEPT ![r].next = "due"]
  <2>1. r <= made
    BY <1>21, NewReader DEF ProcessTimer, MadeOK, TypeOK, ReaderTypes
  <2>2. known \in [Names -> ReaderPrivate] /\ Keeps(known)
    BY <2>1 DEF Keeps, TypeOK, ReaderTypes, ReaderPrivate
  <2>3. Look(known) /\ posted' \in BOOLEAN
    BY <1>21 DEF ProcessTimer, TypeOK, ManagerTypes
  <2>. HIDE DEF known
  <2>. QED
    BY <2>2, <2>3, Looking
<1>22. ASSUME NEW r \in Names, StartFails(r)
      PROVE  IInv'
  <2>a. r \in Names /\ r <= made /\ Delete(r)
    BY <1>22 DEF StartFails, Handles, Ends, Result, LoopGoesOn, TypeOK, ReaderTypes,
        WorkerTypes, MadeOK, WorkerOK
  <2>d. /\ readers' \in [Names -> ReaderPrivate] /\ readers'[r].phase = "deleted"
        /\ \A q \in Names : q # r => readers'[q] = readers[q]
    BY <2>a, NewReader, OneReader DEF Delete, TypeOK
  <2>1. TypeOK'
    <3>1. made' \in 0..MaxReaders /\ private' \in 0..made'
      BY <1>22, <2>a, <2>d DEF StartFails, Handles, Ends, Result, LoopGoesOn, TypeOK,
          ReaderTypes
    <3>2. step' \in -3..5 /\ displayed' \in [Places -> BOOLEAN]
      BY <1>22, <2>a, <2>d, Frames DEF StartFails, Handles, Ends, Result, LoopGoesOn, TypeOK,
          ReaderTypes
    <3>3. ReaderTypes'
      BY <1>22, <2>a, <2>d, <3>1, <3>2 DEF StartFails, Handles, Ends, Result, LoopGoesOn,
          TypeOK, ReaderTypes
    <3>4. WidgetTypes'
      BY <1>22, <2>a, <2>d, Frames DEF StartFails, Handles, Ends, Result, LoopGoesOn, TypeOK,
          ReaderTypes, WidgetTypes
    <3>5. ManagerTypes'
      BY <1>22, <2>a, <2>d DEF StartFails, Handles, Ends, Result, LoopGoesOn, TypeOK,
          ManagerTypes
    <3>6. WorkerTypes'
      BY <1>22, <2>a, <2>d DEF StartFails, Handles, Ends, Result, LoopGoesOn, TypeOK,
          WorkerTypes
    <3>. QED
      BY <1>22, <2>a, <2>d, <3>3, <3>4, <3>5, <3>6 DEF StartFails, Handles, Ends, Result,
          LoopGoesOn, TypeOK
  <2>2. MainOK'
    BY <1>22, <2>a, <2>d DEF StartFails, Handles, Ends, Result, LoopGoesOn, MainOK, TypeOK,
        Painting, Locked, Found, WorkerOK, MadeOK, EndedOK, ReadersAreThere, ReaderTypes
  <2>3. MadeOK'
    BY <1>22, <2>a, <2>d, NewReader DEF StartFails, Handles, Ends, Result, LoopGoesOn, MadeOK,
        TypeOK, ReadersAreThere, WorkerOK, Locked, Found, MainOK, EndedOK, ReaderTypes,
        WorkerTypes
  <2>4. WorkerOK'
    BY <1>22, <2>a, <2>d, NewReader DEF StartFails, Handles, Ends, Result, LoopGoesOn,
        WorkerOK, TypeOK, Locked, Found, MadeOK, FrameToWrite, ReadersAreThere, EndedOK,
        MainOK, Painting, ReaderTypes, WorkerTypes
  <2>5. ShowingOK'
    BY <1>22, <2>a, <2>d DEF StartFails, Handles, Ends, Result, LoopGoesOn, ShowingOK, TypeOK,
        Painting, FrameToShow, MainOK, Locked, WorkerOK, ReaderTypes, WidgetTypes
  <2>6. EndedOK'
    BY <1>22, <2>a, <2>d DEF StartFails, Handles, Ends, Result, LoopGoesOn, EndedOK, TypeOK,
        ReadersAreThere, MadeOK, Found
  <2>7. FramesAreOwned'
    BY <1>22, <2>a, <2>d DEF StartFails, Handles, Ends, Result, LoopGoesOn, FramesAreOwned,
        TypeOK, Painting, Found, WorkerOK, ShowingOK, FrameToShow, FrameToWrite, MainOK, Torn,
        ReaderTypes, WidgetTypes
  <2>8. ReadersAreThere'
    BY <1>22, <2>a, <2>d, NewReader DEF StartFails, Handles, Ends, Result, LoopGoesOn,
        ReadersAreThere, TypeOK, MadeOK, EndedOK, MainOK, Painting, Found, WorkerOK, Locked,
        ReaderTypes
  <2>. QED
    BY <2>1, <2>2, <2>3, <2>4, <2>5, <2>6, <2>7, <2>8
<1>23. ASSUME NEW result \in {"error", "finished"}, DecodeEnds(result)
      PROVE  IInv'
  <2>a. working \in Names /\ working <= made /\ Delete(working)
    BY <1>23 DEF DecodeEnds, Ends, Result, LoopGoesOn, TypeOK, ReaderTypes, WorkerTypes,
        MadeOK, WorkerOK, Handles
  <2>d. /\ readers' \in [Names -> ReaderPrivate] /\ readers'[working].phase = "deleted"
        /\ \A q \in Names : q # working => readers'[q] = readers[q]
    BY <2>a, NewReader, OneReader DEF Delete, TypeOK
  <2>1. TypeOK'
    <3>1. made' \in 0..MaxReaders /\ private' \in 0..made'
      BY <1>23, <2>a, <2>d DEF DecodeEnds, Ends, Result, LoopGoesOn, TypeOK, ReaderTypes
    <3>2. step' \in -3..5 /\ displayed' \in [Places -> BOOLEAN]
      BY <1>23, <2>a, <2>d, Frames DEF DecodeEnds, Ends, Result, LoopGoesOn, TypeOK,
          ReaderTypes
    <3>3. ReaderTypes'
      BY <1>23, <2>a, <2>d, <3>1, <3>2 DEF DecodeEnds, Ends, Result, LoopGoesOn, TypeOK,
          ReaderTypes
    <3>4. WidgetTypes'
      BY <1>23, <2>a, <2>d, Frames DEF DecodeEnds, Ends, Result, LoopGoesOn, TypeOK,
          ReaderTypes, WidgetTypes
    <3>5. ManagerTypes'
      BY <1>23, <2>a, <2>d DEF DecodeEnds, Ends, Result, LoopGoesOn, TypeOK, ManagerTypes
    <3>6. WorkerTypes'
      BY <1>23, <2>a, <2>d DEF DecodeEnds, Ends, Result, LoopGoesOn, TypeOK, WorkerTypes
    <3>. QED
      BY <1>23, <2>a, <2>d, <3>3, <3>4, <3>5, <3>6 DEF DecodeEnds, Ends, Result, LoopGoesOn,
          TypeOK
  <2>2. MainOK'
    BY <1>23, <2>a, <2>d DEF DecodeEnds, Ends, Result, LoopGoesOn, MainOK, TypeOK, Painting,
        Locked, Found, WorkerOK, MadeOK, EndedOK, ReadersAreThere, ReaderTypes
  <2>3. MadeOK'
    BY <1>23, <2>a, <2>d, NewReader DEF DecodeEnds, Ends, Result, LoopGoesOn, MadeOK, TypeOK,
        ReadersAreThere, WorkerOK, Locked, Found, MainOK, EndedOK, ReaderTypes, WorkerTypes
  <2>4. WorkerOK'
    BY <1>23, <2>a, <2>d, NewReader DEF DecodeEnds, Ends, Result, LoopGoesOn, WorkerOK,
        TypeOK, Locked, Found, MadeOK, FrameToWrite, ReadersAreThere, EndedOK, MainOK,
        Painting, ReaderTypes, WorkerTypes
  <2>5. ShowingOK'
    BY <1>23, <2>a, <2>d DEF DecodeEnds, Ends, Result, LoopGoesOn, ShowingOK, TypeOK,
        Painting, FrameToShow, MainOK, Locked, WorkerOK, ReaderTypes, WidgetTypes
  <2>6. EndedOK'
    BY <1>23, <2>a, <2>d DEF DecodeEnds, Ends, Result, LoopGoesOn, EndedOK, TypeOK,
        ReadersAreThere, MadeOK, Found
  <2>7. FramesAreOwned'
    BY <1>23, <2>a, <2>d DEF DecodeEnds, Ends, Result, LoopGoesOn, FramesAreOwned, TypeOK,
        Painting, Found, WorkerOK, ShowingOK, FrameToShow, FrameToWrite, MainOK, Torn,
        ReaderTypes, WidgetTypes
  <2>8. ReadersAreThere'
    BY <1>23, <2>a, <2>d, NewReader DEF DecodeEnds, Ends, Result, LoopGoesOn, ReadersAreThere,
        TypeOK, MadeOK, EndedOK, MainOK, Painting, Found, WorkerOK, Locked, ReaderTypes
  <2>. QED
    BY <2>1, <2>2, <2>3, <2>4, <2>5, <2>6, <2>7, <2>8
<1>. QED
    BY <1>1, <1>2, <1>3, <1>4, <1>5, <1>6, <1>7, <1>8, <1>9, <1>10, <1>11, <1>12, <1>13,
        <1>14, <1>15, <1>16, <1>17, <1>18, <1>19, <1>20, <1>21, <1>22, <1>23 DEF Next, Main,
        Callbacks, Worker, Repaints

-----------------------------------------------------------------------------
LEMMA Initially == ASSUME Init PROVE IInv
<1>. USE DEF Init
<1>1. TypeOK
  <2>1. made \in 0..MaxReaders /\ private \in 0..made
    OBVIOUS
  <2>2. step \in -3..5 /\ displayed \in [Places -> BOOLEAN]
    OBVIOUS
  <2>3. ReaderTypes
    BY <2>1, <2>2 DEF ReaderTypes
  <2>4. WidgetTypes
    <3>1. repaint \in BOOLEAN
      OBVIOUS
    <3>. QED
      BY <3>1 DEF WidgetTypes
  <2>5. ManagerTypes
    BY DEF ManagerTypes
  <2>6. WorkerTypes
    <3>1. checkAll \in BOOLEAN
      OBVIOUS
    <3>. QED
      BY <3>1 DEF WorkerTypes
  <2>7. readers \in [Names -> ReaderPrivate] /\ faults \in 0..MaxFaults
    BY NewReader
  <2>. QED
    BY <2>3, <2>4, <2>5, <2>6, <2>7 DEF TypeOK
<1>2. MainOK /\ MadeOK /\ WorkerOK /\ ShowingOK /\ EndedOK
  BY DEF MainOK, MadeOK, WorkerOK, ShowingOK, EndedOK, Painting, Locked
<1>3. FramesAreOwned /\ ReadersAreThere
  BY DEF FramesAreOwned, ReadersAreThere
<1>. QED
  BY <1>1, <1>2, <1>3 DEF IInv

\* A step that changes nothing.
LEMMA Stutter == ASSUME IInv, UNCHANGED vars PROVE IInv'
<1>. USE DEF vars, readerVars, widgetVars, managerVars, workerVars, history, IInv
<1>1. ReaderTypes' /\ WidgetTypes'
  BY DEF TypeOK, ReaderTypes, WidgetTypes
<1>2. ManagerTypes' /\ WorkerTypes'
  BY DEF TypeOK, ManagerTypes, WorkerTypes
<1>3. TypeOK'
  BY <1>1, <1>2 DEF TypeOK
<1>4. MainOK' /\ MadeOK' /\ ShowingOK' /\ EndedOK'
  BY DEF MainOK, MadeOK, ShowingOK, EndedOK, Painting, FrameToShow
<1>5. WorkerOK'
  BY DEF WorkerOK, Locked, Found, FrameToWrite
<1>6. FramesAreOwned' /\ ReadersAreThere'
  BY DEF FramesAreOwned, ReadersAreThere
<1>. QED
  BY <1>3, <1>4, <1>5, <1>6

\* The inductive invariant holds, with any number of readers and of faults.
THEOREM Inductive == Spec => []IInv
BY Initially, Steps, Stutter, PTL DEF Spec

\* Every variable of the clip reader stays in its type: the number that says who owns which
\* frame, the places of the three frames, where each thread is.
THEOREM TypesAreRight == Spec => []TypeOK
BY Inductive, PTL DEF IInv

\* The two threads never use the same frame, although no lock is held while one is painted or
\* decoded, and the map of the manager has the reader that is there, however often readers
\* are deleted and made at the same address and whenever their work fails.
THEOREM ClipsStayRight == Spec => []ClipsAreRight
<1>1. IInv => ClipsAreRight
  BY DEF IInv, ClipsAreRight
<1>. QED
  BY <1>1, Inductive, PTL

=============================================================================
