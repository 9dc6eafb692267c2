-------------------------------- MODULE Calls --------------------------------
(***************************************************************************)
(* A voice call of one client (calls/calls_call.cpp) and who keeps it      *)
(* (calls/calls_instance.cpp): user, server, other party, timers and the   *)
(* controller of the sound act on it at any time.                          *)
(*                                                                         *)
(* The server and the other party are the environment: the requests and    *)
(* updates are those of the code, the other party is honest.  A number     *)
(* stands for the random power that g_a or g_b was made of.  The states of *)
(* a connected controller are one, "Established".  Updates and answers that *)
(* an honest server does not send are left out.                            *)
(***************************************************************************)
EXTENDS Integers, Sequences

CONSTANTS
    MaxCalls,        \* bound: calls the server knows of
    MaxObjects,      \* bound: Call objects
    MaxAsked,        \* bound: permissions asked at a time, besides those start() asks for
    MaxFaults,       \* bound: requests that fail, permissions denied, controllers that fail
    None

Ids == 1..MaxCalls
Ending == {"HangingUp", "FailedHangingUp", "EndedByOtherDevice", "Ended", "Failed"}
Final == {"EndedByOtherDevice", "Ended", "Failed"}
States == {"Starting", "Requesting", "Waiting", "Ringing", "WaitingIncoming", "ExchangingKeys",
           "Established", "Busy"} \cup Ending
Outcomes == {"Ended", "Failed"}

VARIABLES
    call,            \* _currentCall, or None
    object,          \* its number: what was asked by an earlier one is answered to nobody
    dhAsked,         \* messages.getDhConfig not answered, the number of the object of each
    requests,        \* of calls, not served
    answers,         \* not handled
    updates,         \* pushed by the server, in order
    server,          \* what it knows of each call
    made,            \* how many there are
    permission,      \* asked for the microphone: to answer a call, its number, to dial 0
    faults

vars == <<call, object, dhAsked, requests, answers, updates, server, made, permission, faults>>

Optional(S) == S \cup {None}
Calls ==
    [type : {"Outgoing", "Incoming"}, state : States, id : 0..MaxCalls,
     power : Nat,                  \* _randomPower, 0 when there is none
     again : BOOLEAN,              \* history: start() was called once more
     answerAfterDh : BOOLEAN,      \* _answerAfterDhConfigReceived
     finishAfter : Optional(Outcomes),   \* _finishAfterRequestingCall
     finishTimers : SUBSET Outcomes,     \* _finishByTimeoutTimer
     discardTimer : BOOLEAN,       \* _discardByTimeoutTimer
     controller : {"none", "started", "connected"},
     posted : Seq(States \cup {"Error"}),    \* crl::on_main()
     aborted : BOOLEAN,            \* an assertion about the controller has failed
     out : {{}}, asks : {FALSE}]   \* what a step sends, and whether it calls answer()
Requests == [kind : {"request", "received", "accept", "confirm", "discard"}, object : Nat,
             id : 0..MaxCalls, power : Nat, final : Optional(Outcomes), reason : {"busy", "other"}]

TypeOK ==
    /\ call \in Optional(Calls) /\ object \in 0..MaxObjects
    /\ \A i \in DOMAIN dhAsked : dhAsked[i] \in 1..MaxObjects
    /\ requests \subseteq Requests
    /\ answers \subseteq [to : Requests, ok : BOOLEAN, id : 0..MaxCalls, reason : {"busy", "other"}]
    /\ server \in [Ids -> [status : {"none", "requested", "received", "accepted", "confirmed",
                                     "discarded"},
                           ours : BOOLEAN, power : Nat, reason : {"busy", "other"}]]
    /\ made \in 0..MaxCalls /\ faults \in 0..MaxFaults
    /\ \A i \in DOMAIN permission : permission[i] \in 0..MaxObjects

Init ==
    /\ call = None /\ object = 0 /\ dhAsked = <<>>
    /\ requests = {} /\ answers = {} /\ updates = <<>>
    /\ server = [i \in Ids |-> [status |-> "none", ours |-> FALSE, power |-> 0, reason |-> "other"]]
    /\ made = 0 /\ permission = <<>> /\ faults = 0

-----------------------------------------------------------------------------
(***************************************************************************)
(* What a handler makes of the call c.                                     *)
(***************************************************************************)
Request(kind, c) ==
    [kind |-> kind, object |-> object, id |-> c.id, power |-> c.power, final |-> None, reason |-> "other"]

\* setState(): a call that has failed or is about to stays so; at the end the controller goes.
SetState(c, s) ==
    IF c.state = "Failed" \/ (c.state = "FailedHangingUp" /\ s # "Failed") \/ c.state = s THEN c
    ELSE [c EXCEPT !.state = s, !.controller = IF s \in Final \cup {"Busy"} THEN "none" ELSE @]

\* Mutant: no timer.
FinishPatiently(c, final, reason) ==
    CASE c.state = "Requesting" -> [c EXCEPT !.finishAfter = final]
      [] c.state \in Ending -> c
      [] OTHER -> [SetState(c, IF final = "Ended" THEN "HangingUp" ELSE "FailedHangingUp") EXCEPT
                     !.out = @ \cup {[Request("discard", c) EXCEPT !.final = final, !.reason = reason]}]
\* finish()
Finish(c, final, reason) ==
    CASE c.state = "Requesting" -> [c EXCEPT !.finishTimers = @ \cup {final}, !.finishAfter = final]
      [] c.state \in Ending -> c
      [] OTHER -> [SetState(c, IF final = "Ended" THEN "HangingUp" ELSE "FailedHangingUp") EXCEPT
                     !.finishTimers = @ \cup {final},
                     !.out = @ \cup {[Request("discard", c) EXCEPT !.final = final, !.reason = reason]}]
Fail(c) == Finish(c, "Failed", "other")

\* hangup(): a busy call is over at once.
Declined(c) == c.type = "Incoming" /\ c.state \in {"Starting", "WaitingIncoming"}
Hangup(c) ==
    IF c.state = "Busy" THEN [c EXCEPT !.state = "Ended"]
    ELSE Finish(c, "Ended", IF Declined(c) THEN "busy" ELSE "other")

\* Mutant: the answer does not wait for the DH configuration.
AnswerAtOnce(c) ==
    IF c.state \in {"Starting", "WaitingIncoming"}
    THEN [SetState(c, "ExchangingKeys") EXCEPT !.out = @ \cup {Request("accept", c)}] ELSE c
\* actuallyAnswer(), of an incoming call.
ActuallyAnswer(c) ==
    IF c.state \in {"Starting", "WaitingIncoming"} \/ (c.state = "ExchangingKeys" /\ c.answerAfterDh)
    THEN [SetState(c, "ExchangingKeys") EXCEPT
             !.answerAfterDh = (c.power = 0),
             !.out = @ \cup IF c.power = 0 THEN {} ELSE {Request("accept", c)}]
    ELSE c

\* start(), with a new random power: a number that no other start of any call has.
Start(c) ==
    LET d == [c EXCEPT !.power = IF @ = 0 THEN object ELSE @ + MaxObjects,
                       !.again = c.power > 0 /\ c.type = "Outgoing"]
    IN CASE c.state \in {"Starting", "Requesting"} ->
                [d EXCEPT !.out = @ \cup {Request(IF c.type = "Outgoing" THEN "request" ELSE "received", d)}]
         [] c.state = "ExchangingKeys" /\ c.answerAfterDh -> [d EXCEPT !.asks = TRUE]
         [] OTHER -> d

\* handleUpdate()
Waits(c, received) ==
    IF c.type = "Outgoing" /\ c.state = "Waiting" /\ received
    THEN [SetState(c, "Ringing") EXCEPT !.discardTimer = TRUE] ELSE c
Accepted(c) ==
    IF c.type = "Outgoing"
    THEN [SetState(c, "ExchangingKeys") EXCEPT !.out = @ \cup {Request("confirm", c)}]
    ELSE Fail(c)
Discarded(c, reason) ==
    SetState(c, IF reason = "busy" THEN "Busy"
                ELSE IF c.type = "Outgoing" \/ c.state = "HangingUp" THEN "Ended"
                ELSE "EndedByOtherDevice")
\* createAndStartController(), once the fingerprint is checked.
CreateController(c) ==
    [c EXCEPT !.discardTimer = FALSE, !.controller = "started", !.aborted = @ \/ c.controller # "none"]

-----------------------------------------------------------------------------
(***************************************************************************)
(* Steps.  A call in a final state is destroyed by the instance; what it   *)
(* had asked is cancelled, but may have reached the server.                *)
(***************************************************************************)
Live(i) == server[i].status \notin {"none", "discarded"}
After(c) ==
    /\ call' = IF c.state \in Final THEN None ELSE [c EXCEPT !.out = {}, !.asks = FALSE]
    /\ requests' = requests \cup c.out
Becomes(c) ==
    /\ After(c)
    /\ permission' = IF c.asks THEN Append(permission, object) ELSE permission
Environment == UNCHANGED <<updates, server, made>>
Fault == faults < MaxFaults /\ faults' = faults + 1

New(type, id) ==
    [type |-> type, state |-> IF type = "Outgoing" THEN "Requesting" ELSE "Starting", id |-> id,
     power |-> 0, again |-> FALSE, answerAfterDh |-> FALSE, finishAfter |-> None,
     finishTimers |-> {}, discardTimer |-> FALSE, controller |-> "none", posted |-> <<>>,
     aborted |-> FALSE, out |-> {}, asks |-> FALSE]
AlreadyInCall == call # None /\ call.state # "Busy"
\* createCall(): the call that was there is hung up and destroyed.
CreateCall(type, id) ==
    /\ object < MaxObjects /\ object' = object + 1
    /\ call' = New(type, id)
    /\ requests' = requests \cup IF call = None THEN {} ELSE Hangup(call).out
    /\ dhAsked' = Append(dhAsked, object + 1)

\* startOutgoingCall() and answer() ask for the microphone first.
Dial ==
    /\ ~AlreadyInCall /\ object < MaxObjects /\ Len(permission) < MaxAsked
    /\ permission' = Append(permission, 0)
    /\ UNCHANGED <<call, object, dhAsked, requests, answers, faults>> /\ Environment
Answer ==
    /\ call # None /\ Declined(call) /\ Len(permission) < MaxAsked
    /\ Becomes([call EXCEPT !.asks = TRUE])
    /\ UNCHANGED <<object, dhAsked, answers, faults>> /\ Environment

\* requestMicrophonePermissionOrFail(): the answer of the user is told to the call that asked;
\* a denial hangs up whatever call there is by then.
Redialled(subject) == subject # 0 /\ call # None /\ subject = object /\ call.type = "Outgoing"
Granted(subject) ==
    /\ permission # <<>> /\ subject = Head(permission) /\ ~Redialled(subject)
    /\ permission' = Tail(permission)
    /\ CASE subject = 0 -> CreateCall("Outgoing", 0)
         [] subject # 0 /\ call # None /\ subject = object ->
                After(ActuallyAnswer(call)) /\ UNCHANGED <<object, dhAsked>>
         [] OTHER -> UNCHANGED <<call, object, dhAsked, requests>>
    /\ UNCHANGED <<answers, faults>> /\ Environment
\* actuallyAnswer() expects that the call is incoming: the program aborts when it was redialled
\* in between.  It may be started again, with no call and nothing asked.
AnswerAborts(subject) ==
    /\ permission # <<>> /\ subject = Head(permission) /\ Redialled(subject)
    /\ call' = None /\ permission' = <<>> /\ dhAsked' = <<>>
    /\ UNCHANGED <<object, requests, answers, faults>> /\ Environment
Denied(subject) ==
    /\ permission # <<>> /\ subject = Head(permission) /\ Fault
    /\ permission' = Tail(permission)
    /\ IF call = None THEN UNCHANGED <<call, requests>> ELSE After(Hangup(call))
    /\ UNCHANGED <<object, dhAsked, answers>> /\ Environment

UserHangsUp ==
    /\ call # None /\ call.state \notin Ending
    /\ Becomes(Hangup(call))
    /\ UNCHANGED <<object, dhAsked, answers, faults>> /\ Environment

\* redial(): asserts that there is no controller.
Redial ==
    /\ call # None /\ call.state = "Busy"
    /\ Becomes([call EXCEPT !.type = "Outgoing", !.state = "Requesting", !.answerAfterDh = FALSE,
                            !.aborted = call.controller # "none"])
    /\ dhAsked' = Append(dhAsked, object)
    /\ UNCHANGED <<object, answers, faults>> /\ Environment

\* refreshDhConfig()
DhConfig ==
    /\ dhAsked # <<>>
    /\ dhAsked' = Tail(dhAsked)
    /\ IF call # None /\ Head(dhAsked) = object THEN Becomes(Start(call))
       ELSE UNCHANGED <<call, requests, permission>>
    /\ UNCHANGED <<object, answers, faults>> /\ Environment
NoDhConfig ==
    /\ call # None /\ dhAsked # <<>> /\ Head(dhAsked) = object /\ Fault
    /\ dhAsked' = Tail(dhAsked)
    /\ Becomes([call EXCEPT !.state = "Failed"])
    /\ UNCHANGED <<object, answers>> /\ Environment

DiscardTimeout ==
    /\ call # None /\ call.discardTimer
    /\ Becomes(Hangup([call EXCEPT !.discardTimer = FALSE]))
    /\ UNCHANGED <<object, dhAsked, answers, faults>> /\ Environment
\* Each finish() has a timer of its own.
FinishTimeout(final) ==
    /\ call # None /\ final \in call.finishTimers
    /\ Becomes(SetState([call EXCEPT !.finishTimers = @ \ {final}], final))
    /\ UNCHANGED <<object, dhAsked, answers, faults>> /\ Environment

\* The controller runs in threads of its own.
Post(what) ==
    /\ call' = [call EXCEPT !.posted = Append(@, what), !.controller = "connected"]
    /\ UNCHANGED <<object, dhAsked, requests, answers, permission>> /\ Environment
Connected == call # None /\ call.controller = "started" /\ Post("Established") /\ UNCHANGED faults
ControllerFails == call # None /\ call.controller # "none" /\ Post("Error") /\ Fault
Posted ==
    /\ call # None /\ call.posted # <<>>
    /\ LET c == [call EXCEPT !.posted = Tail(@)]
           what == Head(call.posted)
       IN Becomes(IF what = "Error" THEN Fail(c) ELSE SetState(c, what))
    /\ UNCHANGED <<object, dhAsked, answers, faults>> /\ Environment

-----------------------------------------------------------------------------
(***************************************************************************)
(* Answers and updates.                                                    *)
(***************************************************************************)
\* What is handled after the answer a, by its call.
Requested(c, a) ==
    LET d == [SetState(c, "Waiting") EXCEPT !.id = a.id]
    IN IF d.finishAfter = None THEN Waits([d EXCEPT !.discardTimer = TRUE], FALSE)
       ELSE IF d.finishAfter = "Failed" THEN Fail(d) ELSE Hangup(d)
Answered(c, a) ==
    CASE ~a.ok /\ a.to.kind = "discard" -> SetState(c, a.to.final)
      [] ~a.ok /\ a.to.kind # "discard" -> Fail(c)
      [] a.ok /\ a.to.kind = "request" -> Requested(c, a)
      [] a.ok /\ a.to.kind = "received" -> IF c.state = "Starting" THEN SetState(c, "WaitingIncoming") ELSE c
      [] a.ok /\ a.to.kind = "accept" -> c
      [] a.ok /\ a.to.kind = "confirm" -> CreateController(c)
      [] a.ok /\ a.to.kind = "discard" ->
            LET d == [c EXCEPT !.posted = Append(@, a.to.final)]
            IN IF a.to.id = c.id THEN Discarded(d, a.reason) ELSE d

\* The answer to a call that is gone is dropped.
HandleAnswer(a) ==
    /\ a \in answers
    /\ answers' = answers \ {a}
    /\ IF call # None /\ a.to.object = object
       THEN Becomes(Answered(call, a))
       ELSE UNCHANGED <<call, requests, permission>>
    /\ UNCHANGED <<object, dhAsked, faults>> /\ Environment

Updated(c, u) ==
    CASE u.kind = "received" -> Waits(c, TRUE)
      [] u.kind = "accepted" -> Accepted(c)
      [] u.kind = "confirmed" ->
            IF c.type = "Incoming" /\ c.state = "ExchangingKeys" THEN CreateController(c) ELSE c
      [] u.kind = "discarded" -> Discarded(c, u.reason)

\* handleCallUpdate() of the instance: a second call is discarded as busy.
HandleUpdate ==
    /\ updates # <<>>
    /\ updates' = Tail(updates)
    /\ LET u == Head(updates)
       IN CASE u.kind = "requested" /\ AlreadyInCall ->
                 /\ requests' = requests \cup {[kind |-> "discard", object |-> 0, id |-> u.id, power |-> 0,
                                                final |-> None, reason |-> "busy"]}
                 /\ UNCHANGED <<call, object, dhAsked, permission>>
            [] u.kind = "requested" /\ ~AlreadyInCall ->
                 /\ \/ CreateCall("Incoming", u.id)
                    \/ UNCHANGED <<call, object, dhAsked, requests>>    \* it rang too long ago
                 /\ UNCHANGED permission
            [] u.kind # "requested" /\ call # None /\ call.id = u.id ->
                 /\ Becomes(Updated(call, u))
                 /\ UNCHANGED <<object, dhAsked>>
            [] OTHER -> UNCHANGED <<call, object, dhAsked, requests, permission>>
    /\ UNCHANGED <<answers, server, made, faults>>

-----------------------------------------------------------------------------
(***************************************************************************)
(* The server and the other party.                                         *)
(***************************************************************************)
Client == UNCHANGED <<call, object, dhAsked, permission>>
\* Nobody handles the answer to a call that is gone, or to the discard of a second one.
Reply(r, ok, id) ==
    answers' = IF call = None \/ r.object # object THEN answers
               ELSE answers \cup {[to |-> r, ok |-> ok, id |-> id,
                                   reason |-> IF id = 0 THEN "other" ELSE server'[id].reason]}
Push(kind, id) == updates' = Append(updates, [kind |-> kind, id |-> id, reason |-> server'[id].reason])

Serve(r) ==
    /\ r \in requests /\ requests' = requests \ {r}
    /\ CASE r.kind = "request" /\ made < MaxCalls ->
              /\ made' = made + 1
              /\ server' = [server EXCEPT ![made + 1] = [status |-> "requested", ours |-> TRUE,
                                                         power |-> r.power, reason |-> "other"]]
              /\ Reply(r, TRUE, made + 1)
         [] r.kind = "request" /\ made = MaxCalls ->
              Reply(r, FALSE, 0) /\ UNCHANGED <<server, made>>
         [] r.kind = "received" ->
              /\ server' = IF server[r.id].status = "requested"
                           THEN [server EXCEPT ![r.id].status = "received"] ELSE server
              /\ Reply(r, Live(r.id), r.id) /\ UNCHANGED made
         [] r.kind = "accept" ->
              LET ok == server[r.id].status \in {"requested", "received"}
              IN /\ server' = IF ok THEN [server EXCEPT ![r.id].status = "accepted", ![r.id].power = r.power] ELSE server
                 /\ Reply(r, ok, r.id) /\ UNCHANGED made
         [] r.kind = "confirm" ->
              LET ok == server[r.id].status = "accepted"
              IN /\ server' = IF ok THEN [server EXCEPT ![r.id].status = "confirmed"] ELSE server
                 /\ Reply(r, ok, r.id) /\ UNCHANGED made
         [] r.kind = "discard" ->
              /\ server' = IF Live(r.id)
                           THEN [server EXCEPT ![r.id].status = "discarded", ![r.id].reason = r.reason]
                           ELSE server
              /\ Reply(r, TRUE, r.id) /\ UNCHANGED made
    /\ UNCHANGED <<updates, faults>> /\ Client

\* A request that fails.
Refuse(r) ==
    /\ r \in requests /\ requests' = requests \ {r} /\ Fault
    /\ UNCHANGED <<updates, server, made>> /\ Client
    /\ Reply(r, FALSE, 0)

\* The requests of a call that is destroyed are cancelled: not sent, if they were not yet.
Cancelled(r) ==
    /\ r \in requests /\ r.object # 0 /\ (call = None \/ r.object # object)
    /\ requests' = requests \ {r}
    /\ UNCHANGED <<answers, updates, server, made, faults>> /\ Client

OtherCalls ==
    /\ made < MaxCalls /\ object < MaxObjects /\ made' = made + 1
    /\ server' = [server EXCEPT ![made + 1].status = "requested"]
    /\ Push("requested", made + 1)
    /\ UNCHANGED <<requests, answers, faults>> /\ Client
OtherDoes(i, kind, from) ==
    /\ server[i].status \in from
    /\ server' = [server EXCEPT ![i].status = kind]
    /\ Push(kind, i)
    /\ UNCHANGED <<requests, answers, made, faults>> /\ Client
OtherDiscards(i, reason) ==
    /\ Live(i) /\ (reason = "busy" => server[i].status \in {"requested", "received"})
    /\ server' = [server EXCEPT ![i].status = "discarded", ![i].reason = reason]
    /\ Push("discarded", i)
    /\ UNCHANGED <<requests, answers, made, faults>> /\ Client
Other(i) ==
    \/ server[i].ours /\ (OtherDoes(i, "received", {"requested"}) \/ OtherDoes(i, "accepted", {"received"}))
    \/ ~server[i].ours /\ OtherDoes(i, "confirmed", {"accepted"})
    \/ \E reason \in {"busy", "other"} : OtherDiscards(i, reason)

-----------------------------------------------------------------------------
Progress ==
    \/ DhConfig \/ DiscardTimeout \/ Connected \/ Posted \/ HandleUpdate
    \/ \E final \in Outcomes : FinishTimeout(final)
    \/ \E subject \in 0..MaxObjects : Granted(subject) \/ AnswerAborts(subject)
    \/ \E a \in answers : HandleAnswer(a)
    \/ \E r \in requests : Serve(r)

Next ==
    \/ Dial \/ Answer \/ UserHangsUp \/ Redial
    \/ \E subject \in 0..MaxObjects : Denied(subject)
    \/ NoDhConfig \/ ControllerFails
    \/ Progress
    \/ \E r \in requests : Refuse(r) \/ Cancelled(r)
    \/ OtherCalls \/ \E i \in Ids : Other(i)

Spec == Init /\ [][Next]_vars

\* The server answers, timers fire, and what is posted is handled.
FairSpec == Spec /\ WF_vars(Progress)

-----------------------------------------------------------------------------
(***************************************************************************)
(* Properties.                                                             *)
(***************************************************************************)

\* Whoever talks has the key that the other party has: the power that g_a or g_b was made of
\* is the one that was sent, however the answer, the DH configuration and the updates came.
\* (A call that was busy before its configuration came and is redialled starts twice.)
KeyIsShared ==
    call # None /\ call.controller # "none" /\ ~call.again =>
        call.id # 0 /\ (Live(call.id) => server[call.id].power = call.power)

\* The keys of a call are exchanged once: one accept or confirm is asked, and unless it has
\* started twice one controller is made, and none is there when it is redialled (the assertions
\* of create() and redial(); a call that has started twice has asked for two, and the keys of
\* the first may come when the second was found busy, or has its own).
ExchangedOnce ==
    /\ call # None /\ ~call.again => ~call.aborted
    /\ \A i \in Ids, kind \in {"accept", "confirm"} :
           \A x, y \in {r \in requests : r.kind = kind /\ r.id = i}
                  \cup {a \in answers : a.to.kind = kind /\ a.to.id = i} : x = y

\* The exchange of keys survives any order of answers, updates and clicks.
KeyExchangeIsRight == KeyIsShared /\ ExchangedOnce

\* A call that was hung up or has failed comes to its end, and so does one that nobody takes,
\* though requests are lost, refused or answered late, and a late state of the controller or
\* acceptance makes a call that hangs up an active one again.
EveryCallEnds ==
    <>[](call = None \/ call.state \notin {"Requesting", "Waiting", "Ringing", "HangingUp", "FailedHangingUp"})
=============================================================================
