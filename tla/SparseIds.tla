------------------------------ MODULE SparseIds ------------------------------
(***************************************************************************)
(* The shared media of one chat and type: the slices of message ids that   *)
(* are known without holes (storage_sparse_ids_list.cpp), a viewer that    *)
(* shows those around a message (data_sparse_ids.cpp), and the requests by *)
(* which it fills itself (ApiWrap::requestSharedMedia).                    *)
(*                                                                         *)
(* An answer is computed by the server at one time and handled at another, *)
(* after whatever the updates have told meanwhile.                         *)
(*                                                                         *)
(* Left out: the merging of a group with the one it migrated from, the     *)
(* photo of the chat, messages of other types.                             *)
(***************************************************************************)
EXTENDS Integers, FiniteSets

CONSTANTS
    MaxId,           \* bound: the messages are 1..MaxId
    FirstMedia,      \* the ones that are there in the beginning
    LimitBefore, LimitAfter,    \* of the viewer
    PageLimit,       \* kSharedMediaLimit
    MaxChanges,      \* bound: new, removed, missed and loaded messages
    MaxFails,        \* bound: requests that fail
    None             \* std::nullopt

ServerMaxMsgId == MaxId + 1
MsgIds == 1..MaxId

VARIABLES
    media,           \* the messages with media, as far as the updates have told
    nextId,          \* the next new message
    enforced,        \* the lists of the chat exist (enforceLists)
    slices,          \* _slices: [ids, from, till]
    count,           \* _count
    view,            \* the SparseIdsSliceBuilder of the viewer, or None
    asked,           \* _sharedMediaRequests that the server has not answered
    answers,         \* and those it has, with what the answer says
    late,            \* history: what has happened between an answer and its handling
    changes, fails   \* bound counters

vars == <<media, nextId, enforced, slices, count, view, asked, answers, late, changes, fails>>

Overtaking == {"new", "removed", "missed"}
Directions == {"Before", "Around", "After"}
Optional(S) == S \cup {None}
Requests == [id : 0..MaxId, direction : Directions]
Views == [key : 0..MaxId, ids : SUBSET MsgIds, full : Optional(Int),
          before : Optional(Int), after : Optional(Int)]

TypeOK ==
    /\ media \subseteq MsgIds /\ nextId \in 1..MaxId + 1
    /\ enforced \in BOOLEAN
    /\ slices \subseteq [ids : SUBSET MsgIds, from : 0..MaxId, till : 0..ServerMaxMsgId]
    /\ count \in Optional(Int)
    /\ view \in Optional(Views)
    /\ asked \subseteq Requests
    /\ answers \subseteq [request : Requests, ids : SUBSET MsgIds, from : 0..MaxId,
                          till : 0..ServerMaxMsgId, count : Nat, overtaken : SUBSET Overtaking]
    /\ late \subseteq Overtaking \cup {"apart"}
    /\ changes \in 0..MaxChanges /\ fails \in 0..MaxFails

Init ==
    /\ media = FirstMedia /\ nextId = MaxId - MaxChanges + 1
    /\ enforced = FALSE
    /\ slices = {} /\ count = None
    /\ view = None
    /\ asked = {} /\ answers = {} /\ late = {}
    /\ changes = 0 /\ fails = 0

-----------------------------------------------------------------------------
(***************************************************************************)
(* Sets of ids as sorted lists.                                            *)
(***************************************************************************)
Least(S) == CHOOSE x \in S : \A y \in S : x <= y
Greatest(S) == CHOOSE x \in S : \A y \in S : y <= x
Below(S, id) == {x \in S : x < id}
From(S, id) == {x \in S : x >= id}
Oldest(S, n) == {x \in S : Cardinality(Below(S, x)) < n}
Newest(S, n) == {x \in S : Cardinality(From(S, x + 1)) < n}
AtLeast(n, m) == IF n < m THEN m ELSE n

-----------------------------------------------------------------------------
(***************************************************************************)
(* The viewer.                                                             *)
(***************************************************************************)

\* sliceToLimits(): what is kept of the ids, and what is asked for.
AroundKey(v) == Newest(Below(v.ids, v.key), LimitBefore) \cup Oldest(From(v.ids, v.key), LimitAfter + 1)
SliceToLimits(v) ==
    IF v.key = 0 THEN v
    ELSE LET kept == AroundKey(v)
             cutBefore == Cardinality(Below(v.ids, v.key) \ kept)
             cutAfter == Cardinality(From(v.ids, v.key) \ kept)
         IN [v EXCEPT !.ids = kept,
                      !.before = IF @ = None THEN None ELSE @ + cutBefore,
                      !.after = IF @ = None THEN None ELSE @ + cutAfter]

LacksBefore(v) ==
    Cardinality(Below(v.ids, v.key)) < LimitBefore /\ (v.before = None \/ v.before > 0)
LacksAfter(v) ==
    Cardinality(From(v.ids, v.key)) < LimitAfter + 1 /\ (v.after = None \/ v.after > 0)

CountRequest == [id |-> 0, direction |-> "Around"]
RequestMessages(v, direction) ==
    IF v.ids = {} THEN [id |-> v.key, direction |-> "Around"]
    ELSE [id |-> IF direction = "Before" THEN Least(v.ids) ELSE Greatest(v.ids),
          direction |-> direction]

\* Mutant: the one end is asked for only when the other is complete.
InsufficientInTurn(v) ==
    IF v.key # 0 /\ LacksBefore(v) THEN {RequestMessages(v, "Before")}
    ELSE IF v.key # 0 /\ LacksAfter(v) /\ v.before # None THEN {RequestMessages(v, "After")}
    ELSE IF v.full = None THEN {CountRequest} ELSE {}

\* _insufficientAround, of ids that are cut to the limits.
Insufficient(v) ==
    LET messages == {RequestMessages(v, d) : d \in {d \in {"Before", "After"} :
                        v.key # 0 /\ IF d = "Before" THEN LacksBefore(v) ELSE LacksAfter(v)}}
    IN IF messages = {} /\ v.full = None THEN {CountRequest} ELSE messages

\* fillSkippedAndSliceToLimits(): two of the numbers tell the third.
FillSkipped(v) ==
    LET rest(skipped) == v.full - skipped - Cardinality(v.ids)
    IN IF v.full # None /\ v.before # None /\ v.after = None
       THEN [v EXCEPT !.after = rest(v.before)]
       ELSE IF v.full # None /\ v.after # None /\ v.before = None
       THEN [v EXCEPT !.before = rest(v.after)]
       ELSE v

\* mergeSliceData() without and with ids.
MergeCount(v, c) ==
    IF c = None \/ v.full = c THEN v
    ELSE IF c <= Cardinality(v.ids)
    THEN [v EXCEPT !.full = Cardinality(v.ids), !.before = 0, !.after = 0]
    ELSE [v EXCEPT !.full = c]
MergeIds(v, c, ids, skippedBefore, skippedAfter) ==
    LET all == v.ids \cup ids
        beforeOf(id, skipped) == AtLeast(skipped - Cardinality(Below(all, id)), 0)
        afterOf(id, skipped) == AtLeast(skipped - Cardinality(From(all, id + 1)), 0)
    IN [v EXCEPT
         !.ids = all,
         !.full = IF c = None THEN @ ELSE c,
         !.before = IF skippedBefore # None THEN beforeOf(Least(ids), skippedBefore)
                    ELSE IF v.ids # {} /\ @ # None THEN beforeOf(Least(v.ids), @)
                    ELSE None,
         !.after = IF skippedAfter # None THEN afterOf(Greatest(ids), skippedAfter)
                   ELSE IF v.ids # {} /\ @ # None THEN afterOf(Greatest(v.ids), @)
                   ELSE None]
Merge(v, c, ids, skippedBefore, skippedAfter) ==
    IF ids = {} THEN MergeCount(v, c) ELSE MergeIds(v, c, ids, skippedBefore, skippedAfter)
MergeSliceData(v, c, ids, skippedBefore, skippedAfter) ==
    SliceToLimits(FillSkipped(Merge(v, c, ids, skippedBefore, skippedAfter)))

\* The viewer is v from now on, and asks for what it lacks; no request is sent twice.
Pending == asked \cup {a.request : a \in answers}
ViewBecomes(v, pending) ==
    /\ view' = v
    /\ asked' = (asked \cap pending)
         \cup IF v = None THEN {} ELSE {r \in Insufficient(v) : r \notin pending}

\* applyUpdate() of the slice u, with the count of the list: what is neither near what is
\* shown nor has a count is ignored.
Intersects(v, u) ==
    LET first == IF v.ids = {} THEN v.key ELSE Least(v.ids)
        last == IF v.ids = {} THEN v.key ELSE Greatest(v.ids)
    IN u.from <= last /\ first <= u.till
ApplyUpdate(u, c, pending) ==
    IF view = None \/ (~Intersects(view, u) /\ c = None)
    THEN view' = view /\ asked' = asked \cap pending
    ELSE \E merged \in {Merge(view, c, IF Intersects(view, u) THEN u.ids ELSE {},
                               IF u.from = 0 THEN 0 ELSE None,
                               IF u.till = ServerMaxMsgId THEN 0 ELSE None)} :
         \E filled \in {FillSkipped(merged)} :
            \E v \in {SliceToLimits(filled)} : ViewBecomes(v, pending)

\* The viewer opens: query() is what it starts from, or nothing.
QueryFromSlice(key, s) ==
    LET ids == AroundKey([ids |-> s.ids, key |-> key])
        before == IF s.from = 0 THEN Cardinality(Below(s.ids, key) \ ids) ELSE None
        after == IF s.till = ServerMaxMsgId THEN Cardinality(From(s.ids, key) \ ids) ELSE None
        rest(skipped) == count - skipped - Cardinality(ids)
        filled == count # None
    IN [ids |-> ids,
        before |-> IF filled /\ before \in {None, 0} /\ after \notin {None, 0} THEN rest(after)
                   ELSE before,
        after |-> IF ~(filled /\ before \in {None, 0} /\ after \notin {None, 0})
                     /\ filled /\ after \in {None, 0} /\ before \notin {None, 0} THEN rest(before)
                  ELSE after]
Nothing(key) == [key |-> key, ids |-> {}, full |-> None, before |-> None, after |-> None]
Open(key) ==
    /\ view = None /\ key < nextId
    /\ LET around == {s \in slices : key # 0 /\ s.from <= key /\ key <= s.till}
           v == IF around # {}
                THEN LET r == QueryFromSlice(key, CHOOSE s \in around : TRUE)
                     IN MergeSliceData(Nothing(key), count, r.ids, r.before, r.after)
                ELSE IF count # None THEN MergeSliceData(Nothing(key), count, {}, None, None)
                ELSE Nothing(key)
       IN ViewBecomes(SliceToLimits(v), Pending)
    /\ UNCHANGED <<media, nextId, enforced, slices, count, answers, late, changes, fails>>

-----------------------------------------------------------------------------
(***************************************************************************)
(* The list.                                                               *)
(***************************************************************************)

\* The slices that a range touches, and what they are united to.
Near(from, till) == {s \in slices : s.till >= from /\ s.from <= till}
United(near, ids, from, till) ==
    [ids |-> ids \cup UNION {s.ids : s \in near},
     from |-> Least({from} \cup {s.from : s \in near}),
     till |-> Greatest({till} \cup {s.till : s \in near})]

\* addRange(): the range is united with what it touches; a count is taken, or follows
\* what is new in the first of these slices.
AddRange(ids, from, till, c, increment, pending) ==
  \E united \in {United(Near(from, till), ids, from, till)} :
    LET near == Near(from, till)
        first == {s \in near : \A o \in near : s.from <= o.from}
        added == Cardinality(united.ids) - Cardinality(UNION {s.ids : s \in first})
        taken == IF c # None THEN c
                 ELSE IF increment /\ count # None /\ added > 0 THEN count + added ELSE count
        exact == IF slices' = {united} /\ united.from = 0 /\ united.till = ServerMaxMsgId
                 THEN Cardinality(united.ids) ELSE taken
    IN /\ enforced' = TRUE
       /\ slices' = (slices \ near) \cup {united}
       /\ count' = IF exact = None THEN None ELSE AtLeast(exact, Cardinality(united.ids))
       /\ ApplyUpdate(united, count', pending)

Change == changes < MaxChanges /\ changes' = changes + 1
Overtake(how) == answers' = {[a EXCEPT !.overtaken = @ \cup {how}] : a \in answers}

\* A new message, addNew().
NewMessage ==
    /\ Change /\ nextId <= MaxId
    /\ media' = media \cup {nextId} /\ nextId' = nextId + 1
    /\ AddRange({nextId}, nextId, ServerMaxMsgId, None, TRUE, Pending)
    /\ Overtake("new")
    /\ late' = IF view # None /\ ~Intersects(view, United(Near(nextId, ServerMaxMsgId), {}, nextId, ServerMaxMsgId))
               THEN late \cup {"apart"} ELSE late
    /\ UNCHANGED fails

\* Part of the history is loaded, addExisting() and addSlice() without a count.
HistoryLoaded(from, till) ==
    /\ Change /\ from < nextId /\ till \in (from..nextId - 1) \cup {ServerMaxMsgId}
    /\ AddRange(media \cap (from..till), from, till, None, FALSE, Pending)
    /\ UNCHANGED <<media, nextId, answers, late, fails>>

\* removeOne() of the list and of the viewer.
ViewWithout(v, id) ==
    [v EXCEPT !.ids = @ \ {id},
              !.full = IF @ # None /\ @ > 0 THEN @ - 1 ELSE @,
              !.before = IF v.ids # {} /\ id \notin v.ids /\ Least(v.ids) > id /\ @ # None /\ @ > 0
                         THEN @ - 1 ELSE @,
              !.after = IF v.ids # {} /\ id \notin v.ids /\ Greatest(v.ids) < id /\ @ # None /\ @ > 0
                        THEN @ - 1 ELSE @]

RemoveOne(id) ==
    /\ Change /\ id \in media
    /\ media' = media \ {id}
    /\ slices' = {[s EXCEPT !.ids = @ \ {id}] : s \in slices}
    /\ count' = IF count = None THEN None ELSE count - 1
    /\ IF enforced /\ view # None /\ ViewWithout(view, id) # view
       THEN ViewBecomes(SliceToLimits(ViewWithout(view, id)), Pending)
       ELSE UNCHANGED <<view, asked>>
    /\ Overtake("removed")
    /\ UNCHANGED <<nextId, enforced, late, fails>>

\* The history is found to be empty, removeAll().
RemoveAll ==
    /\ Change
    /\ media' = {}
    /\ IF enforced
       THEN /\ slices' = {[ids |-> {}, from |-> 0, till |-> ServerMaxMsgId]}
            /\ count' = 0
            /\ view' = IF view = None THEN None
                       ELSE [view EXCEPT !.ids = {}, !.full = 0, !.before = 0, !.after = 0]
       ELSE UNCHANGED <<slices, count, view>>
    /\ Overtake("removed")
    /\ UNCHANGED <<nextId, enforced, asked, late, fails>>

\* The end of the last slice is unknown.
BottomCut ==
    {IF s.till = ServerMaxMsgId
     THEN [s EXCEPT !.till = IF s.ids = {} THEN s.from ELSE Greatest(s.ids)] ELSE s : s \in slices}

\* New messages are missed, which the client learns: setNotLoadedAtBottom().
Missed(n) ==
    /\ Change /\ nextId <= n /\ n <= MaxId
    /\ media' = media \cup (nextId..n) /\ nextId' = n + 1
    /\ slices' = BottomCut
    /\ count' = None
    /\ IF enforced /\ view # None
       THEN ViewBecomes(SliceToLimits([view EXCEPT !.full = None, !.after = None]), Pending)
       ELSE UNCHANGED <<view, asked>>
    /\ Overtake("missed")
    /\ UNCHANGED <<enforced, late, fails>>

-----------------------------------------------------------------------------
(***************************************************************************)
(* Requests: the server answers with a page, ParseSearchResult() finds the *)
(* range that it covers.                                                   *)
(***************************************************************************)
Page(r) ==
    CASE r.id = 0 -> {}
      [] r.id # 0 /\ r.direction = "Before" -> Newest(Below(media, r.id), PageLimit)
      [] r.id # 0 /\ r.direction = "After" -> Oldest(From(media, r.id + 1), PageLimit)
      [] r.id # 0 /\ r.direction = "Around" ->
            Newest(Below(media, r.id), PageLimit \div 2) \cup Oldest(From(media, r.id), PageLimit \div 2)

\* Mutant: a page of old messages that is not full is taken for the end of them.
NoSkipRangeShort(r, page) ==
    [from |-> IF Cardinality(page) < PageLimit /\ r.direction # "After" THEN 0 ELSE Least(page \cup {r.id}),
     till |-> IF page = {} /\ r.direction # "Before" THEN ServerMaxMsgId ELSE Greatest(page \cup {r.id})]
NoSkipRange(r, page) ==
    LET ends == r.id # 0 /\ page = {}
    IN [from |-> IF ends /\ r.direction \in {"Before", "Around"} THEN 0 ELSE Least(page \cup {r.id}),
        till |-> IF ends /\ r.direction \in {"After", "Around"} THEN ServerMaxMsgId
                 ELSE Greatest(page \cup {r.id})]

Serve(r) ==
    /\ r \in asked
    /\ asked' = asked \ {r}
    /\ answers' = answers \cup {[request |-> r, ids |-> Page(r), from |-> NoSkipRange(r, Page(r)).from,
                                 till |-> NoSkipRange(r, Page(r)).till,
                                 count |-> Cardinality(media), overtaken |-> {}]}
    /\ UNCHANGED <<media, nextId, enforced, slices, count, view, late, changes, fails>>

\* sharedMediaDone()
Handle(a) ==
    /\ a \in answers
    /\ answers' = answers \ {a}
    /\ AddRange(a.ids, a.from, a.till, a.count, FALSE, Pending \ {a.request})
    /\ late' = late \cup a.overtaken
    /\ UNCHANGED <<media, nextId, changes, fails>>

\* A request that fails is forgotten.
RequestFails(r) ==
    /\ r \in asked /\ fails < MaxFails
    /\ asked' = asked \ {r} /\ fails' = fails + 1
    /\ UNCHANGED <<media, nextId, enforced, slices, count, view, answers, late, changes>>

Respond == (\E r \in asked : Serve(r)) \/ (\E a \in answers : Handle(a))

Next ==
    \/ \E key \in 0..MaxId : Open(key)
    \/ NewMessage
    \/ \E from \in 0..MaxId, till \in 0..ServerMaxMsgId : HistoryLoaded(from, till)
    \/ \E id \in media : RemoveOne(id)
    \/ RemoveAll
    \/ \E n \in MsgIds : Missed(n)
    \/ Respond
    \/ \E r \in asked : RequestFails(r)

Spec == Init /\ [][Next]_vars

\* The server answers, and its answers are handled.
FairSpec == Spec /\ WF_vars(Respond)

-----------------------------------------------------------------------------
(***************************************************************************)
(* Properties.                                                             *)
(***************************************************************************)

\* However ranges are added, the slices stay apart: two that overlap or touch would show
\* different holes to those who look from either.
SlicesApart == \A s, t \in slices : s # t => s.till < t.from \/ t.till < s.from

\* A slice has no holes: no message that the client was told of is hidden by a range
\* that claims to be complete, even when the answer that claims it was computed before
\* the message was written; only one computed before messages were missed may hide those.
NothingHidden ==
    "missed" \notin late =>
        \A s \in slices : media \cap (s.from..s.till) \subseteq s.ids

\* What is listed exists; only an answer computed before a removal brings a message back.
NoGhosts == "removed" \notin late => \A s \in slices : s.ids \subseteq media \cap (s.from..s.till)

\* The count is right when no answer was overtaken by a change.
CountIsRight == late \cap Overtaking = {} /\ count # None => count = Cardinality(media)

\* The viewer shows what is there: no holes, and as many before and after as it says.
ViewIsRight ==
    late = {} /\ view # None =>
        /\ view.ids \subseteq media
        /\ \A a, b \in view.ids : media \cap (a..b) \subseteq view.ids
        /\ view.full # None => view.full = Cardinality(media)
        /\ view.ids # {} /\ view.key # 0 =>
            /\ view.before # None => view.before = Cardinality(Below(media, Least(view.ids)))
            /\ view.after # None => view.after = Cardinality(From(media, Greatest(view.ids) + 1))

\* The list and its viewer tell the truth about the chat, in whichever order ranges, changes
\* and answers come, but for answers that were overtaken.
IdsAreRight == SlicesApart /\ NothingHidden /\ NoGhosts /\ CountIsRight /\ ViewIsRight

\* In the end the viewer shows all it should: the messages around its key up to the
\* limits, and their count, unless a request failed or an answer was overtaken.
ViewIsFull ==
    view # None =>
        /\ view.full = Cardinality(media)
        /\ view.key # 0 => view.ids = AroundKey([ids |-> media, key |-> view.key])
ViewFills == <>[](late = {} /\ fails = 0 => ViewIsFull)
=============================================================================
