------------------------------ MODULE Updates ------------------------------
(***************************************************************************)
(* Updates of the account and of channels: PtsWaiter (data/data_peer.cpp)  *)
(* finds the gaps in a numbered stream of updates, MainWidget asks for the *)
(* difference when a gap stays, a session was lost or data is missing.     *)
(*                                                                         *)
(* The server numbers the updates of a box (the account, or one channel)   *)
(* with pts; an update of count n takes n numbers.  Pushed updates and     *)
(* answers come over one connection in the order of the server, but the    *)
(* main thread handles what it has received in another one: answers before *)
(* updates, and answers in the order of their requests (Session::          *)
(* tryToReceive).  A lost session loses the updates that were not received.*)
(*                                                                         *)
(* Left out: the seq of an `updates' container, qts, short polling of the  *)
(* chat on the screen, and updates that the server sends twice.            *)
(***************************************************************************)
EXTENDS Naturals, Sequences, FiniteSets
LOCAL INSTANCE FiniteSetsExt

CONSTANTS
    Main,            \* the box of the account: MainWidget::_ptsWaiter
    Channels,        \* the channels that are loaded
    MainPts,         \* bound: the updates of the account
    ChannelPts,      \* bound: the updates of a channel
    MaxCount,        \* bound: the count of one update
    ActKinds,        \* the requests of the user: see Acts
    MaxSwaps,        \* bound: updates that overtake the one before
    MaxActs,         \* bound: requests of the user
    MaxLosses,       \* bound: sessions lost
    MaxFails,        \* bound: differences the server refuses
    FailBoxes,       \* the boxes whose difference it may refuse
    MaxEvents        \* bound: the numbers of updates, and of all the above, together

Boxes == {Main} \cup Channels

ASSUME MainIsNoChannel == Main \notin Channels
ASSUME ChannelsAreFinite == IsFiniteSet(Channels)
ASSUME BoundsAreNats ==
    /\ MainPts \in Nat \ {0} /\ ChannelPts \in Nat \ {0} /\ MaxCount \in Nat /\ MaxActs \in Nat /\ MaxSwaps \in Nat
    /\ MaxLosses \in Nat /\ MaxFails \in Nat /\ FailBoxes \subseteq Boxes
    /\ ActKinds \subseteq {"updates", "affected", "history"}

MaxPts(b) == IF b = Main THEN MainPts ELSE ChannelPts

VARIABLES
    waiter,          \* the PtsWaiter of every box
    byPts,           \* boxes with a time in _(channelG|g)etDifferenceTimeByPts
    afterFail,       \* boxes with a time in _(channelG|g)etDifferenceTimeAfterFail
    minChannel,      \* _byMinChannelTimer is active
    pending,         \* the requests that wait for an answer, oldest first
    stream,          \* what the server sent and the main thread did not handle
    log,             \* the pts of the updates of every box at the server
    known,           \* history: the updates whose content the client has
    own,             \* history: the updates that the user's requests made
    again,           \* history: the updates applied once more
    dropped,         \* history: a channel's own updates that were skipped, see ReceiveAct
    swaps, acts, losses, fails  \* bound counters

client == <<waiter, byPts, afterFail, minChannel>>
history == <<known, own, again, dropped>>
bounds == <<swaps, acts, losses, fails>>
vars == <<client, pending, stream, log, history, bounds>>

Updates == [pts : Nat, count : Nat]
Covers(u) == (u.pts - u.count + 1)..u.pts

ServerPts(b) == CHOOSE p \in log[b] : \A q \in log[b] : q <= p

\* Bound: there is room for n events more.
Room(n) == MapThenSumSet(ServerPts, Boxes) + swaps + acts + losses + fails + n <= MaxEvents

\* A request is the difference of a box, or an act of the user in it: one that is
\* answered by the updates it made ("updates"), by their counts ("affected"), or that
\* reads a part of a channel's history ("history").
Acts == {"updates", "affected", "history"}
Request(kind, b) == [kind |-> kind, box |-> b, pts |-> 0, answered |-> FALSE]
Requests == [kind : Acts \cup {"difference"}, box : Boxes, pts : Nat, answered : BOOLEAN]

\* What the server sends.  `more': a difference that is not final; `late': the pts of
\* the channels, that an updateChannelTooLong of a difference names.
NoLate == [c \in Channels |-> 0]
Message(kind, b, p, n) ==
    [kind |-> kind, box |-> b, pts |-> p, count |-> n, more |-> FALSE, late |-> NoLate]
Messages == [kind : Acts \cup {"push", "session", "difference", "fail"}, box : Boxes,
             pts : Nat, count : Nat, more : BOOLEAN, late : [Channels -> Nat]]
IsAnswer(m) == m.kind \notin {"push", "session"}

Waiters == [good : Nat, last : Nat, count : Nat, queue : SUBSET Updates,
            requesting : BOOLEAN, waiting : BOOLEAN]

TypeOK ==
    /\ DOMAIN waiter = Boxes
    /\ \A b \in Boxes :
          /\ waiter[b] \in Waiters
          /\ waiter[b].good <= waiter[b].last
          /\ \A u \in waiter[b].queue : u.pts <= waiter[b].last
    /\ byPts \subseteq Boxes /\ afterFail \subseteq Boxes /\ minChannel \in BOOLEAN
    /\ pending \in Seq(Requests) /\ stream \in Seq(Messages)
    /\ \A b \in Boxes :
          /\ log[b] \subseteq 1..MaxPts(b) /\ log[b] # {}
          /\ known[b] \subseteq 1..ServerPts(b)
          /\ own[b] \subseteq 1..ServerPts(b) /\ again[b] \subseteq known[b]
    /\ dropped \in [Channels -> SUBSET Nat]
    /\ swaps \in 0..MaxSwaps /\ acts \in 0..MaxActs /\ losses \in 0..MaxLosses /\ fails \in 0..MaxFails

\* MainWidget::start() asks for the state, which is handled as a difference; channels
\* are not inited before they are first heard of.
Init ==
    /\ waiter = [b \in Boxes |-> [good |-> 0, last |-> 0, count |-> 0, queue |-> {},
                                  requesting |-> b = Main, waiting |-> FALSE]]
    /\ byPts = {} /\ afterFail = {} /\ minChannel = FALSE
    /\ pending = <<Request("difference", Main)>>
    /\ stream = <<>>
    /\ log = [b \in Boxes |-> {1}]
    /\ known = [b \in Boxes |-> {}] /\ own = [b \in Boxes |-> {}]
    /\ again = [b \in Boxes |-> {}] /\ dropped = [c \in Channels |-> {}]
    /\ swaps = 0 /\ acts = 0 /\ losses = 0 /\ fails = 0

-----------------------------------------------------------------------------
(***************************************************************************)
(* PtsWaiter.                                                              *)
(***************************************************************************)

Inited(w) == w.good > 0

\* PtsWaiter::init().
PtsInit(w, p) == [w EXCEPT !.good = p, !.last = p, !.count = p, !.queue = {}]

\* PtsWaiter::setRequesting().
SetRequesting(w, is) ==
    [w EXCEPT !.requesting = is, !.queue = IF is THEN {} ELSE @]

Largest(p, q) == IF p > q THEN p ELSE q

\* Mutant: an update that is ahead counts as good.
AddsUpAhead(w, p, n) == Largest(p, w.last) >= w.count + n

\* PtsWaiter::check() when it is inited: the counts add up, or an update is missing.
AddsUp(w, p, n) == Largest(p, w.last) = w.count + n

\* Mutant: the last pts is not the largest one.
CountedNoMax(w, p, n) ==
    IF AddsUp(w, p, n) THEN [w EXCEPT !.last = p, !.count = @ + n, !.good = p]
    ELSE [w EXCEPT !.last = p, !.count = @ + n, !.waiting = TRUE]

Counted(w, p, n) ==
    LET last == Largest(p, w.last)
    IN IF AddsUp(w, p, n) THEN [w EXCEPT !.last = last, !.count = @ + n, !.good = last]
       ELSE [w EXCEPT !.last = last, !.count = @ + n, !.waiting = TRUE]

\* The content of the updates S of a box is applied by ApiWrap::apply...NoPtsCheck().
Content(S) == UNION {Covers(u) : u \in S}
Apply(b, S) ==
    /\ known' = [known EXCEPT ![b] = @ \cup Content(S)]
    /\ again' = [again EXCEPT ![b] = @ \cup (known[b] \cap Content(S))]

\* Mutant: the last good update counts as new.
OldStrict(w, p, n) == p < w.good /\ n > 0

\* The early returns of PtsWaiter::updated().
Old(w, p, n) == p <= w.good /\ n > 0
Checked(w, p, n) == ~w.requesting /\ ~Old(w, p, n)

\* PtsWaiter::applySkippedUpdates(): the queue of w, that is applied, is empty now.
Skipped(w) == IF w.waiting THEN w.queue ELSE {}
Unskipped(w) == IF w.waiting THEN [w EXCEPT !.queue = {}, !.waiting = FALSE] ELSE w
TimerOff(b, w) == byPts' = IF w.waiting THEN byPts \ {b} ELSE byPts

Waiter(b, w) == waiter' = [waiter EXCEPT ![b] = w]

\* PtsWaiter::updateAndApply() of an update with its content.  While a difference is
\* on its way it is applied at once; it may be known; it may be the first of a channel.
UpdateNow(b, u) ==
    /\ waiter[b].requesting
    /\ Apply(b, {u})
    /\ UNCHANGED <<waiter, byPts>>
UpdateOld(b, u) ==
    /\ ~waiter[b].requesting /\ Old(waiter[b], u.pts, u.count)
    /\ UNCHANGED <<waiter, byPts, known, again>>
UpdateFirst(b, u) ==
    /\ Checked(waiter[b], u.pts, u.count) /\ ~Inited(waiter[b])
    /\ Waiter(b, PtsInit(waiter[b], u.pts))
    /\ known' = [known EXCEPT ![b] = @ \cup 1..u.pts]
    /\ UNCHANGED <<again, byPts>>

\* The counts add up: it is applied, and what waited for it.
UpdateInTurn(b, u) ==
    LET w == Counted(waiter[b], u.pts, u.count)
    IN /\ Checked(waiter[b], u.pts, u.count) /\ Inited(waiter[b])
       /\ AddsUp(waiter[b], u.pts, u.count)
       /\ Apply(b, {u} \cup Skipped(w))
       /\ IF w.queue = {} THEN Waiter(b, w) /\ UNCHANGED byPts
          ELSE Waiter(b, Unskipped(w)) /\ TimerOff(b, w)

\* Mutant: the timer of the gap is not started.
UpdateAheadUntimed(b, u) ==
    LET w == Counted(waiter[b], u.pts, u.count)
    IN /\ Checked(waiter[b], u.pts, u.count) /\ Inited(waiter[b])
       /\ ~AddsUp(waiter[b], u.pts, u.count)
       /\ Waiter(b, [w EXCEPT !.queue = @ \cup {u}])
       /\ UNCHANGED <<byPts, known, again>>

\* An update before it is missing: it waits in the queue.
UpdateAhead(b, u) ==
    LET w == Counted(waiter[b], u.pts, u.count)
    IN /\ Checked(waiter[b], u.pts, u.count) /\ Inited(waiter[b])
       /\ ~AddsUp(waiter[b], u.pts, u.count)
       /\ Waiter(b, [w EXCEPT !.queue = @ \cup {u}])
       /\ byPts' = byPts \cup {b}
       /\ UNCHANGED <<known, again>>

Update(b, u) ==
    \/ UpdateNow(b, u) \/ UpdateOld(b, u) \/ UpdateFirst(b, u)
    \/ UpdateInTurn(b, u) \/ UpdateAhead(b, u)

\* PtsWaiter::updateAndApply() of counts alone, whose content the client has (`has')
\* or that have none (ptsReceived(), the count is 0 and no gap is waited for).
CountsOnly(b, p, n, has) ==
    LET w == waiter[b]
        c == IF ~Checked(w, p, n) THEN w
             ELSE IF Inited(w) THEN Counted(w, p, n) ELSE PtsInit(w, p)
        applies == \/ w.requesting
                   \/ Checked(w, p, n) /\ (~Inited(w) \/ AddsUp(w, p, n) \/ n = 0)
        first == IF Checked(w, p, n) /\ ~Inited(w) THEN 1..p ELSE {}
        there == known[b] \cup has \cup first
        kept == IF applies THEN Content(Skipped(c)) ELSE {}
    IN /\ Waiter(b, IF applies THEN Unskipped(c) ELSE c)
       /\ byPts' = IF applies THEN (IF c.waiting THEN byPts \ {b} ELSE byPts)
                   ELSE IF Checked(w, p, n) THEN byPts \cup {b} ELSE byPts
       /\ known' = [known EXCEPT ![b] = there \cup kept]
       /\ again' = [again EXCEPT ![b] = @ \cup (there \cap kept)]

-----------------------------------------------------------------------------
(***************************************************************************)
(* Asking for differences.                                                 *)
(***************************************************************************)

\* getDifference() and getChannelDifference() of the boxes S ask nothing while one is
\* on its way, or before a channel is inited.
Asks(w, S) == {b \in S : ~w[b].requesting /\ (b = Main \/ Inited(w[b]))}

\* The requests of the boxes S, in some order.
Orders(S) == {s \in [1..Cardinality(S) -> S] : \A i, j \in DOMAIN s : s[i] = s[j] => i = j}
DifferencesOf(s) == [i \in DOMAIN s |-> Request("difference", s[i])]

\* The differences of S are asked for, w being the waiters and t the requests so far.
GetDifferences(w, t, S) ==
    /\ waiter' = [b \in Boxes |-> IF b \in Asks(w, S) THEN SetRequesting(w[b], TRUE)
                                  ELSE w[b]]
    /\ byPts' = byPts \ S
    /\ \E s \in Orders(Asks(w, S)) : pending' = t \o DifferencesOf(s)

\* _byPtsTimer: the gap has stayed for too long.
TimeByPts(b) ==
    /\ b \in byPts
    /\ GetDifferences(waiter, pending, {b})
    /\ afterFail' = afterFail \ Asks(waiter, {b})
    /\ UNCHANGED <<minChannel, stream, log, history, bounds>>

\* Mutant: the account counts as requesting like a channel.
TimeAfterFailStuck(b) ==
    /\ b \in afterFail
    /\ GetDifferences(waiter, pending, {b})
    /\ afterFail' = afterFail \ {b}
    /\ UNCHANGED <<minChannel, stream, log, history, bounds>>

\* _failDifferenceTimer.  The account asks again; a channel still counts as requesting.
TimeAfterFail(b) ==
    /\ b \in afterFail
    /\ LET w == IF b = Main THEN [waiter EXCEPT ![b] = SetRequesting(@, FALSE)] ELSE waiter
       IN GetDifferences(w, pending, {b})
    /\ afterFail' = afterFail \ {b}
    /\ UNCHANGED <<minChannel, stream, log, history, bounds>>

\* _byMinChannelTimer.
TimeMinChannel ==
    /\ minChannel
    /\ minChannel' = FALSE
    /\ GetDifferences(waiter, pending, {Main})
    /\ afterFail' = afterFail \ Asks(waiter, {Main})
    /\ UNCHANGED <<stream, log, history, bounds>>

-----------------------------------------------------------------------------
(***************************************************************************)
(* Handling what was received.                                             *)
(***************************************************************************)

\* The place in `pending' of the request of an answer.
PlaceOf(m) ==
    CHOOSE i \in 1..Len(pending) :
        /\ pending[i].answered /\ pending[i].box = m.box
        /\ pending[i].kind \in Acts <=> m.kind \in Acts
Without(s, i) == SubSeq(s, 1, i - 1) \o SubSeq(s, i + 1, Len(s))

\* Session::tryToReceive() takes the update at the head when nothing after it was
\* received, or an answer: of those received until it, the one to the oldest request.
UpdateIsNext == stream # <<>> /\ ~IsAnswer(Head(stream))
AnswerIsNext(i) ==
    /\ IsAnswer(stream[i])
    /\ \A j \in 1..(i - 1) :
          IsAnswer(stream[j]) => PlaceOf(stream[i]) < PlaceOf(stream[j])

\* updateReceived() and feedUpdate() of a pushed update.  All are skipped while the
\* difference of the account is on its way, those of a channel while its own is.
ReceivePush ==
    /\ UpdateIsNext /\ Head(stream).kind = "push"
    /\ LET b == Head(stream).box
           u == [pts |-> Head(stream).pts, count |-> Head(stream).count]
           skipped == waiter[Main].requesting \/ waiter[b].requesting
       IN IF skipped THEN UNCHANGED <<waiter, byPts, known, again>> ELSE Update(b, u)
    /\ stream' = Tail(stream)
    /\ UNCHANGED <<afterFail, minChannel, pending, log, own, dropped, bounds>>

\* feedUpdate() of a message that names a peer which is not loaded: the difference of
\* the account brings it, at once or, for a channel, a little later.
ReceiveNotLoaded ==
    /\ UpdateIsNext /\ Head(stream).kind = "push"
    /\ ~waiter[Main].requesting
    /\ IF Head(stream).box = Main
       THEN /\ GetDifferences(waiter, pending, {Main})
            /\ afterFail' = afterFail \ {Main}
            /\ UNCHANGED minChannel
       ELSE /\ minChannel' = TRUE
            /\ UNCHANGED <<waiter, byPts, pending, afterFail>>
    /\ stream' = Tail(stream)
    /\ UNCHANGED <<log, history, bounds>>

\* updateReceived() of new_session_created.
ReceiveNewSession ==
    /\ UpdateIsNext /\ Head(stream).kind = "session"
    /\ GetDifferences(waiter, pending, {Main})
    /\ afterFail' = afterFail \ Asks(waiter, {Main})
    /\ stream' = Tail(stream)
    /\ UNCHANGED <<minChannel, log, history, bounds>>

\* feedUpdate() skips an update of a channel while the channel's own difference is on its way,
\* the user's own too, but none of the account.
FeedSkips(m) == m.kind = "updates" /\ m.box \in Channels /\ waiter[m.box].requesting

\* The answer of an act: its updates are fed, its counts are checked, or the pts that
\* came with the messages is (ptsReceived()).
ReceiveAct(i) ==
    /\ AnswerIsNext(i)
    /\ LET m == stream[i]
           u == [pts |-> m.pts, count |-> m.count]
       IN /\ \/ m.kind = "updates" /\ ~FeedSkips(m) /\ Update(m.box, u)
             \/ FeedSkips(m) /\ UNCHANGED <<waiter, byPts, known, again>>
             \/ m.kind = "affected" /\ CountsOnly(m.box, m.pts, m.count, Covers(u))
             \/ m.kind = "history" /\ CountsOnly(m.box, m.pts, 0, {})
          /\ dropped' = IF FeedSkips(m) THEN [dropped EXCEPT ![m.box] = @ \cup {m.pts}]
                        ELSE dropped
    /\ pending' = Without(pending, PlaceOf(stream[i])) /\ stream' = Without(stream, i)
    /\ UNCHANGED <<afterFail, minChannel, log, own, bounds>>

\* gotDifference() and gotChannelDifference(): what is new is fed, with a channel that
\* is behind asked for, the waiter starts at the new pts, and a rest is asked for.
ReceiveDifference(i) ==
    /\ AnswerIsNext(i) /\ stream[i].kind = "difference"
    /\ LET m == stream[i]
           b == m.box
           fed == (waiter[b].good + 1)..m.pts
           late == {c \in Channels : waiter[c].good < m.late[c]}
           w == [waiter EXCEPT ![b] = SetRequesting(PtsInit(@, m.pts), FALSE)]
           asked == (IF b = Main THEN late ELSE {}) \cup (IF m.more THEN {b} ELSE {})
       IN /\ GetDifferences(w, Without(pending, PlaceOf(m)), asked)
          /\ afterFail' = afterFail \ Asks(w, asked)
          /\ known' = [known EXCEPT ![b] = @ \cup fed]
          /\ again' = [again EXCEPT ![b] = @ \cup (known[b] \cap fed)]
    /\ stream' = Without(stream, i)
    /\ UNCHANGED <<minChannel, log, own, dropped, bounds>>

\* failDifference() and failChannelDifference().
ReceiveFail(i) ==
    /\ AnswerIsNext(i) /\ stream[i].kind = "fail"
    /\ afterFail' = afterFail \cup {stream[i].box}
    /\ pending' = Without(pending, PlaceOf(stream[i])) /\ stream' = Without(stream, i)
    /\ UNCHANGED <<waiter, byPts, minChannel, log, history, bounds>>

\* The user does something in a box that is known, or opens a channel.
Act(kind, b) ==
    /\ acts < MaxActs /\ Room(1) /\ Inited(waiter[Main]) /\ kind \in ActKinds
    /\ IF kind = "history" THEN b \in Channels ELSE Inited(waiter[b])
    /\ \A i \in 1..Len(pending) : pending[i].kind \in Acts => pending[i].box # b
    /\ pending' = Append(pending, Request(kind, b))
    /\ acts' = acts + 1
    /\ UNCHANGED <<client, stream, log, history, swaps, losses, fails>>

-----------------------------------------------------------------------------
(***************************************************************************)
(* The server and the connection.                                          *)
(***************************************************************************)

\* Somebody else makes an update of n numbers.
Produce(b, n) ==
    /\ ServerPts(b) + n <= MaxPts(b) /\ Room(n)
    /\ log' = [log EXCEPT ![b] = @ \cup {ServerPts(b) + n}]
    /\ stream' = Append(stream, Message("push", b, ServerPts(b) + n, n))
    /\ UNCHANGED <<client, pending, history, bounds>>

\* ... and the update overtakes the one before it, which is "skipped" for a while.  (The
\* first of two that would init a channel is not overtaken: it would count as old.)
ProduceAhead(b, n) ==
    /\ swaps < MaxSwaps /\ swaps' = swaps + 1 /\ Inited(waiter[b])
    /\ ServerPts(b) + n <= MaxPts(b) /\ Room(n + 1)
    /\ stream # <<>>
    /\ LET m == stream[Len(stream)]
           rest == SubSeq(stream, 1, Len(stream) - 1)
       IN /\ m.kind = "push" /\ m.box = b
          /\ stream' = rest \o <<Message("push", b, ServerPts(b) + n, n), m>>
    /\ log' = [log EXCEPT ![b] = @ \cup {ServerPts(b) + n}]
    /\ UNCHANGED <<client, pending, history, acts, losses, fails>>

\* The server answers a request; an act it has done is not done again, what is read is read
\* again.
AnswerAct(i) ==
    /\ pending[i].kind \in Acts /\ ~pending[i].answered
    /\ LET b == pending[i].box
           reads == pending[i].kind = "history"
           n == IF reads THEN 0 ELSE 1
           p == IF reads \/ pending[i].pts = 0 THEN ServerPts(b) + n ELSE pending[i].pts
       IN /\ p <= MaxPts(b) /\ (p > ServerPts(b) => Room(n))
          /\ log' = [log EXCEPT ![b] = @ \cup {p}]
          /\ own' = IF n = 0 THEN own ELSE [own EXCEPT ![b] = @ \cup {p}]
          /\ pending' = [pending EXCEPT ![i].answered = TRUE, ![i].pts = p]
          /\ stream' = Append(stream, Message(pending[i].kind, b, p, n))
    /\ UNCHANGED <<client, known, again, dropped, bounds>>

\* ... a difference with all that is new, or with its first part.
AnswerDifference(i) ==
    /\ pending[i].kind = "difference" /\ ~pending[i].answered
    /\ LET b == pending[i].box
           late == IF b = Main /\ Inited(waiter[b]) THEN [c \in Channels |-> ServerPts(c)]
                   ELSE NoLate
       IN \E p \in log[b] :
             /\ p > waiter[b].good \/ p = ServerPts(b)
             /\ ~Inited(waiter[b]) => p = ServerPts(b)
             /\ stream' = Append(stream, [Message("difference", b, p, 0) EXCEPT
                                             !.more = p < ServerPts(b), !.late = late])
    /\ pending' = [pending EXCEPT ![i].answered = TRUE]
    /\ UNCHANGED <<client, log, history, bounds>>

\* ... or an error that the instance does not handle itself.
RefuseDifference(i) ==
    /\ pending[i].kind = "difference" /\ ~pending[i].answered
    /\ pending[i].box \in FailBoxes /\ Inited(waiter[pending[i].box])
    /\ fails < MaxFails /\ Room(1) /\ fails' = fails + 1
    /\ stream' = Append(stream, Message("fail", pending[i].box, 0, 0))
    /\ pending' = [pending EXCEPT ![i].answered = TRUE]
    /\ UNCHANGED <<client, log, history, swaps, acts, losses>>

\* The session is lost with what was not received (after the first n messages); the
\* requests whose answers are lost are sent again in the new one.
LoseSession(n) ==
    /\ losses < MaxLosses /\ Room(1) /\ losses' = losses + 1
    /\ stream' = Append(SubSeq(stream, 1, n), Message("session", Main, 0, 0))
    /\ pending' = [i \in DOMAIN pending |->
          [pending[i] EXCEPT !.answered = @ /\ \E j \in 1..n :
              IsAnswer(stream[j]) /\ PlaceOf(stream[j]) = i]]
    /\ UNCHANGED <<client, log, history, swaps, acts, fails>>

-----------------------------------------------------------------------------
Timers == TimeMinChannel \/ \E b \in Boxes : TimeByPts(b) \/ TimeAfterFail(b)
Receive ==
    \/ ReceivePush \/ ReceiveNotLoaded \/ ReceiveNewSession
    \/ \E i \in 1..Len(stream) : ReceiveAct(i) \/ ReceiveDifference(i) \/ ReceiveFail(i)
Answer ==
    \E i \in 1..Len(pending) : AnswerAct(i) \/ AnswerDifference(i) \/ RefuseDifference(i)
Next ==
    \/ Timers \/ Receive \/ Answer
    \/ \E b \in Boxes : \/ \E kind \in Acts : Act(kind, b)
                        \/ \E n \in 1..MaxCount : Produce(b, n) \/ ProduceAhead(b, n)
    \/ \E n \in 0..Len(stream) : LoseSession(n)

Spec == Init /\ [][Next]_vars

\* The event loop handles what was received and fires the timers; the server answers.
FairSpec ==
    /\ Spec
    /\ WF_vars(Receive) /\ WF_vars(Answer)
    /\ WF_vars(TimeMinChannel)
    /\ \A b \in Boxes : WF_vars(TimeByPts(b)) /\ WF_vars(TimeAfterFail(b))

-----------------------------------------------------------------------------
(***************************************************************************)
(* Properties.                                                             *)
(***************************************************************************)

\* No update is skipped: what the waiter counts as good (and never asks for again) has
\* come to the client, pushed, in an answer or with a difference.
NothingSkipped == \A b \in Boxes : 1..waiter[b].good \subseteq known[b]

\* No update of the account is applied twice, except one of the user's own that arrived
\* while a difference was on its way (updated() lets it through, the difference repeats
\* it).  One of a channel may be, and out of order: a history that is read over a gap lets
\* the queue out, and a difference from before the gap repeats what was in it.
AppliedOnce == again[Main] \subseteq own[Main]

\* Somebody else's update of the account is not applied before one that it follows.
AppliedInOrder == \A p \in known[Main] \ own[Main] : \A q \in 1..p : q \in known[Main]

\* Updates of the account are applied once and in their order.
AppliedOnceInOrder == AppliedOnce /\ AppliedInOrder

\* What a channel stays behind with: the user's own updates that were dropped, as long as
\* all that is newer is the user's own, too.
LeftOut(b) ==
    IF b = Main THEN {} ELSE {p \in dropped[b] : \A q \in log[b] : q >= p => q \in own[b]}

\* Whatever sessions are lost and differences refused, the client gets to know in the
\* end every update of the account and of the channels that it has heard of.  Only an own
\* update of a channel that was dropped, because a difference was on its way that the server
\* made before it, stays unknown until somebody else makes another one.
CaughtUp ==
    \A b \in Boxes :
        <>[](Inited(waiter[b]) => known[b] \cup LeftOut(b) = 1..ServerPts(b))

\* A gap in which an update is missing is only left open while something is going to close
\* it: a time for the difference of the box or of the account, one of them on its way, or a
\* message that was not handled yet.  (A gap with nothing missing may stay until the next
\* update: a difference does not count the user's own update that it came after.  So may
\* one of dropped updates, that a history was read over.)
GapsAreWatched ==
    \A b \in Boxes :
        ~(1..waiter[b].last \subseteq known[b] \cup LeftOut(b)) =>
            \/ stream # <<>> \/ b \in byPts \/ minChannel
            \/ waiter[b].requesting \/ waiter[Main].requesting

\* A box whose difference was refused is asked for again, "growing timeout for
\* getChannelDifference calls, if it fails" (mainwidget.h:539).
AskedAgain ==
    \A b \in Boxes : b \in afterFail ~> \E i \in 1..Len(pending) :
        pending[i].kind = "difference" /\ pending[i].box = b
=============================================================================
