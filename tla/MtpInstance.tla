---------------------------- MODULE MtpInstance ----------------------------
(***************************************************************************)
(* MTP::Instance (mtproto/mtp_instance.cpp): the requests of the program,  *)
(* their callbacks, and what becomes of a request that is answered with an *)
(* error: it is delayed, waits for an authorization in another data        *)
(* centre, migrates there, is sent again, fails, or is dropped.            *)
(*                                                                         *)
(* Everything here runs on the main thread.  A session is the set of the   *)
(* requests it was given (MtpSession says what it does with them); it      *)
(* brings an answer to each of them in the end, or clears its callbacks.   *)
(*                                                                         *)
(* Left out: the sessions of one data centre other than the first (shifts),*)
(* requests without callbacks, the logout of guests, configuration.  The   *)
(* times of the delayed requests are any, so their queue is a set.         *)
(***************************************************************************)
EXTENDS Naturals

CONSTANTS
    Requests,        \* the requests of the program
    Dcs,             \* the data centres
    RequestOne,      \* the one that has the id 1
    FirstMain,       \* the main data centre in the beginning
    NoDc, NoId,
    ErrorKinds,      \* what the server answers: see Kinds
    MaxErrors        \* bound: answers that are errors, sessions that are cleared

Kinds == {"fail", "authFail", "temporary", "unauthorized", "badGuest", "migrate",
          "notInited", "wait", "clear",
          "giveUp", "fatal", "importUnauthorized"}

\* The requests of the instance itself, to get an authorization in a data centre.
Export(d) == <<"export", d>>
Import(d) == <<"import", d>>
Exports == {Export(d) : d \in Dcs}
Imports == {Import(d) : d \in Dcs}
Ids == Requests \cup Exports \cup Imports
Of(id) == id[2]

ASSUME IdsAreDistinct == RequestOne \in Requests /\ Requests \cap (Exports \cup Imports) = {} /\ NoId \notin Ids
ASSUME DcsAreDistinct == FirstMain \in Dcs /\ NoDc \notin Dcs
ASSUME BoundsAreRight == ErrorKinds \subseteq Kinds /\ MaxErrors \in Nat

VARIABLES
    parsers,         \* _parserMap: the requests with callbacks
    requests,        \* _requestMap
    byDc,            \* _requestsByDc: the data centre of a request, or NoDc
    toMain,          \* the requests with a negative data centre in _requestsByDc
    after,           \* SerializedRequest::after
    mainDc,          \* _mainDcId, and the data centre of _mainSession
    delayed,         \* _delayedRequests
    waiters,         \* _authWaiters
    exports,         \* the targets in _authExportRequests
    badGuest,        \* _badGuestDcRequests
    sent,            \* the requests that the sessions have: <<id, data centre>>
    clearing,        \* the callbacks that are posted to be cleared, and whether with an error
    outcome,         \* history: what the owner of a request was told
    stranded,        \* history: the requests that the code left nowhere
    unserved,        \* history: the data centres where it left the waiters to themselves
    errors           \* bound counter

maps == <<parsers, requests, byDc, toMain, after>>
queues == <<delayed, waiters, exports, badGuest>>
losses == <<stranded, unserved>>
vars == <<maps, mainDc, queues, sent, clearing, outcome, losses, errors>>

Outcomes == {"new", "open", "done", "failed", "dropped", "cancelled"}
Hows == {"told", "silently"}

TypeOK ==
    /\ parsers \subseteq Ids /\ requests \subseteq Ids /\ toMain \subseteq Ids
    /\ byDc \in [Ids -> Dcs \cup {NoDc}]
    /\ after \in [Ids -> Ids \cup {NoId}]
    /\ mainDc \in Dcs
    /\ delayed \subseteq Ids /\ badGuest \subseteq Ids /\ clearing \subseteq Ids \X Hows
    /\ waiters \in [Dcs -> SUBSET Ids]
    /\ exports \subseteq Dcs
    /\ sent \subseteq Ids \X Dcs
    /\ outcome \in [Requests -> Outcomes]
    /\ stranded \subseteq Ids /\ unserved \subseteq Dcs
    /\ errors \in 0..MaxErrors

Init ==
    /\ parsers = {} /\ requests = {} /\ toMain = {}
    /\ byDc = [id \in Ids |-> NoDc]
    /\ after = [id \in Ids |-> NoId]
    /\ mainDc = FirstMain
    /\ delayed = {} /\ exports = {} /\ badGuest = {} /\ clearing = {}
    /\ waiters = [d \in Dcs |-> {}]
    /\ sent = {}
    /\ outcome = [r \in Requests |-> "new"]
    /\ stranded = {} /\ unserved = {}
    /\ errors = 0

-----------------------------------------------------------------------------
(***************************************************************************)
(* Sending, and forgetting.                                                *)
(***************************************************************************)

\* sendRequest(): the request is stored and registered and given to a session, that
\* of the main data centre (`main') or of d; s is what the sessions have.
SendTo(id, d, main, s) ==
    /\ parsers' = parsers \cup {id}
    /\ requests' = requests \cup {id}
    /\ byDc' = [byDc EXCEPT ![id] = d]
    /\ toMain' = IF main THEN toMain \cup {id} ELSE toMain
    /\ sent' = s \cup {<<id, d>>}

\* unregisterRequest() of a request whose callbacks are gone.
Forget(id) ==
    /\ parsers' = parsers \ {id}
    /\ requests' = requests \ {id}
    /\ byDc' = [byDc EXCEPT ![id] = NoDc]
    /\ toMain' = toMain \ {id}

\* The owner is told; the requests of the instance have no other owner.
Tell(id, how) ==
    outcome' = IF id \in Requests THEN [outcome EXCEPT ![id] = how] ELSE outcome

Send(r, p) ==
    /\ outcome[r] = "new"
    /\ p = NoId \/ p \in requests
    /\ \/ SendTo(r, mainDc, TRUE, sent)
       \/ \E d \in Dcs : SendTo(r, d, FALSE, sent)
    /\ after' = [after EXCEPT ![r] = p]
    /\ Tell(r, "open")
    /\ UNCHANGED <<mainDc, queues, clearing, losses, errors>>

\* cancel(): entries of the queues stay, whose request is not found later.
Cancel(r) ==
    /\ outcome[r] = "open"
    /\ Forget(r) /\ Tell(r, "cancelled")
    /\ sent' = sent \ {<<r, byDc[r]>>}
    /\ UNCHANGED <<after, mainDc, queues, clearing, losses, errors>>

\* Mutants: one that was cancelled is sent as well; one is dropped.
CheckDelayedAll(id) ==
    /\ id \in delayed
    /\ delayed' = delayed \ {id}
    /\ sent' = sent \cup {<<id, byDc[id]>>}
    /\ UNCHANGED <<maps, mainDc, waiters, exports, badGuest, clearing, losses, outcome, errors>>
CheckDelayedLost(id) ==
    /\ id \in delayed
    /\ delayed' = delayed \ {id}
    /\ UNCHANGED <<maps, mainDc, waiters, exports, badGuest, sent, clearing, losses, outcome, errors>>

\* checkDelayedRequests() of one that is due.
CheckDelayed(id) ==
    /\ id \in delayed
    /\ delayed' = delayed \ {id}
    /\ sent' = IF id \in requests THEN sent \cup {<<id, byDc[id]>>} ELSE sent
    /\ UNCHANGED <<maps, mainDc, waiters, exports, badGuest, clearing, losses, outcome, errors>>

-----------------------------------------------------------------------------
(***************************************************************************)
(* The answers, execCallback().                                            *)
(***************************************************************************)

Comes(id, d) == <<id, d>> \in sent /\ id \in parsers
Rest(id, d) == sent \ {<<id, d>>}
Error(kind) == kind \in ErrorKinds /\ errors < MaxErrors /\ errors' = errors + 1

\* The callbacks are gone: the request was cancelled.
AnswerUnknown(id, d) ==
    /\ <<id, d>> \in sent /\ id \notin parsers
    /\ Forget(id) /\ sent' = Rest(id, d)
    /\ UNCHANGED <<after, mainDc, queues, clearing, losses, outcome, errors>>

\* A result, and an error that nobody but the owner handles.
AnswerDone(r, d) ==
    /\ r \in Requests /\ Comes(r, d)
    /\ Forget(r) /\ Tell(r, "done") /\ sent' = Rest(r, d)
    /\ UNCHANGED <<after, mainDc, queues, clearing, losses, errors>>
AnswerFail(r, d) ==
    /\ r \in Requests /\ Comes(r, d) /\ Error("fail")
    /\ Forget(r) /\ Tell(r, "failed") /\ sent' = Rest(r, d)
    /\ UNCHANGED <<after, mainDc, queues, clearing, losses>>

\* An internal error of the server or FLOOD_WAIT: the owner may want to know, or the
\* request is sent again later.
AnswerTemporary(id, d) ==
    /\ Comes(id, d) /\ Error("temporary")
    /\ \/ /\ id \in Requests /\ Forget(id) /\ Tell(id, "failed")
          /\ UNCHANGED delayed
       \/ /\ delayed' = delayed \cup {id}
          /\ UNCHANGED <<parsers, requests, byDc, toMain, outcome>>
    /\ sent' = Rest(id, d)
    /\ UNCHANGED <<after, mainDc, waiters, exports, badGuest, clearing, losses>>

\* Mutant: it is not sent again.
NotInitedLost(id, d) ==
    /\ Comes(id, d) /\ Error("notInited")
    /\ sent' = Rest(id, d)
    /\ UNCHANGED <<maps, mainDc, queues, clearing, losses, outcome>>

\* CONNECTION_NOT_INITED: it is sent again with the layer.
AnswerNotInited(id, d) ==
    /\ Comes(id, d) /\ Error("notInited")
    /\ sent' = Rest(id, d) \cup {<<id, byDc[id]>>}
    /\ UNCHANGED <<maps, mainDc, queues, clearing, losses, outcome>>

-----------------------------------------------------------------------------
(***************************************************************************)
(* Authorization in another data centre.                                   *)
(***************************************************************************)

\* The requests of the program, and the imports themselves, are answered so.
Asking(kind) == IF kind = "importUnauthorized" THEN Imports ELSE Requests

\* Whether an error asks for an authorization, where one can be had.
AsksAuthorization(r, kind) ==
    /\ kind = "badGuest" => r \notin badGuest
    /\ byDc[r] # mainDc

\* Mutant: the request is listed before it is asked whether any is.
UnauthorizedLate(r, d, kind) ==
    LET dc == byDc[r]
    IN /\ r \in Asking(kind) /\ Comes(r, d) /\ Error(kind) /\ AsksAuthorization(r, kind)
       /\ waiters' = [waiters EXCEPT ![dc] = @ \cup {r}]
       /\ badGuest' = IF kind = "badGuest" THEN badGuest \cup {r} ELSE badGuest
       /\ sent' = Rest(r, d)
       /\ UNCHANGED <<maps, mainDc, delayed, exports, clearing, losses, outcome>>

\* The request waits; the first one that does asks the main data centre to export the
\* authorization.  An import that is refused so waits for itself.
Unauthorized(r, d, kind) ==
    LET dc == byDc[r]
    IN /\ r \in Asking(kind) /\ Comes(r, d) /\ Error(kind) /\ AsksAuthorization(r, kind)
       /\ waiters' = [waiters EXCEPT ![dc] = @ \cup {r}]
       /\ badGuest' = IF kind = "badGuest" THEN badGuest \cup {r} ELSE badGuest
       /\ IF waiters[dc] = {}
          THEN /\ SendTo(Export(dc), mainDc, TRUE, Rest(r, d))
               /\ after' = [after EXCEPT ![Export(dc)] = NoId]
               /\ exports' = exports \cup {dc}
               /\ UNCHANGED unserved
          ELSE /\ sent' = Rest(r, d)
               /\ unserved' = IF r \in Imports THEN unserved \cup {dc} ELSE unserved
               /\ UNCHANGED <<maps, exports>>
       /\ UNCHANGED <<mainDc, delayed, clearing, outcome, stranded>>

\* In the main data centre, or for the second time: the request fails (importFail(), of an
\* import, does nothing).
UnauthorizedHere(r, d, kind) ==
    /\ r \in Asking(kind) /\ Comes(r, d) /\ Error(kind) /\ ~AsksAuthorization(r, kind)
    /\ Forget(r) /\ Tell(r, "failed") /\ sent' = Rest(r, d)
    /\ badGuest' = IF kind = "badGuest" /\ r \in badGuest THEN badGuest \ {r} ELSE badGuest
    /\ unserved' = IF r \in Imports THEN unserved \cup {Of(r)} ELSE unserved
    /\ UNCHANGED <<after, mainDc, delayed, waiters, exports, clearing, stranded>>

AnswerUnauthorized(r, d) ==
    \E kind \in {"unauthorized", "badGuest", "importUnauthorized"} :
        Unauthorized(r, d, kind) \/ UnauthorizedHere(r, d, kind)

\* The export is answered: exportDone() sends the import.
Exported(t, d) ==
    LET e == Export(t)
        i == Import(t)
    IN /\ Comes(e, d) /\ t \in exports
       /\ parsers' = (parsers \cup {i}) \ {e}
       /\ requests' = (requests \cup {i}) \ {e}
       /\ byDc' = [byDc EXCEPT ![i] = t, ![e] = NoDc]
       /\ toMain' = toMain \ {e}
       /\ sent' = Rest(e, d) \cup {<<i, t>>}
       /\ after' = [after EXCEPT ![i] = NoId]
       /\ exports' = exports \ {t}
       /\ UNCHANGED <<mainDc, delayed, waiters, badGuest, clearing, losses, outcome, errors>>

\* exportFail(): the requests that wait are forgotten, which nobody is told.
ExportFails(t, d) ==
    LET e == Export(t)
    IN /\ Comes(e, d) /\ Error("authFail")
       /\ Forget(e) /\ sent' = Rest(e, d)
       /\ waiters' = [waiters EXCEPT ![t] = {}]
       /\ stranded' = stranded \cup waiters[t]
       /\ UNCHANGED <<after, mainDc, delayed, exports, badGuest, clearing, outcome, unserved>>

\* The sessions of the old and the new main data centre are killed when it changes, with
\* what they have; s is what the sessions have.
Surviving(s, t) == {x \in s : x[2] \notin {mainDc, t}}
SentIds(s) == {x[1] : x \in s}
MainIs(t, s, new) ==
    /\ mainDc' = t
    /\ sent' = (IF t = mainDc THEN s ELSE Surviving(s, t)) \cup new

\* Mutant: those that waited are sent again and wait on.
ImportedKeeps(t, d) ==
    LET i == Import(t)
        found == waiters[t] \cap requests
    IN /\ Comes(i, d)
       /\ parsers' = parsers \ {i} /\ requests' = requests \ {i} /\ toMain' = toMain \ {i}
       /\ byDc' = [id \in Ids |-> IF id = i THEN NoDc ELSE IF id \in found THEN t ELSE byDc[id]]
       /\ sent' = Rest(i, d) \cup {<<id, t>> : id \in found \ toMain}
       /\ UNCHANGED <<after, mainDc, queues, clearing, losses, outcome, errors>>

\* The import is answered, importDone(): those that wait are sent again.  One whose data
\* centre was the main one makes it so again, and goes to a session that is none.
Imported(t, d) ==
    LET i == Import(t)
        found == waiters[t] \cap requests
        resent == {<<id, t>> : id \in found \ toMain}
    IN /\ Comes(i, d)
       /\ parsers' = parsers \ {i} /\ requests' = requests \ {i} /\ toMain' = toMain \ {i}
       /\ byDc' = [id \in Ids |-> IF id = i THEN NoDc ELSE IF id \in found THEN t ELSE byDc[id]]
       /\ IF found \cap toMain = {}
          THEN sent' = Rest(i, d) \cup resent /\ UNCHANGED mainDc
          ELSE \E there \in SUBSET resent : MainIs(t, Rest(i, d), there)
       /\ stranded' = stranded \cup ((SentIds(Rest(i, d)) \cup found) \ SentIds(sent'))
       /\ unserved' = unserved \ {t}
       /\ waiters' = [waiters EXCEPT ![t] = {}]
       /\ UNCHANGED <<after, delayed, exports, badGuest, clearing, outcome, errors>>

\* importFail() does nothing.
ImportFails(t, d) ==
    LET i == Import(t)
    IN /\ Comes(i, d) /\ Error("authFail")
       /\ Forget(i) /\ sent' = Rest(i, d)
       /\ unserved' = unserved \cup {t}
       /\ UNCHANGED <<after, mainDc, queues, clearing, outcome, stranded>>

-----------------------------------------------------------------------------
(***************************************************************************)
(* Migration, dependent requests, sessions that are cleared.               *)
(***************************************************************************)

\* ..._MIGRATE_t: the request goes to t; if it was for the main data centre, that is
\* t from now on.
AnswerMigrate(r, d, t) ==
    /\ r \in Requests /\ Comes(r, d) /\ Error("migrate")
    /\ IF r \in toMain THEN MainIs(t, Rest(r, d), {<<r, t>>})
       ELSE sent' = Rest(r, d) \cup {<<r, t>>} /\ UNCHANGED mainDc
    /\ byDc' = [byDc EXCEPT ![r] = t]
    /\ stranded' = stranded \cup (SentIds(Rest(r, d)) \ SentIds(sent'))
    /\ UNCHANGED <<parsers, requests, toMain, after, queues, clearing, outcome, unserved>>

\* MSG_WAIT_FAILED: the request that this one follows has failed.  If it is not known
\* any more, this one fails as well; if it is elsewhere now, this one need not follow
\* it; else this one waits where it waits (and nowhere, if it does not).
Follows(r) == after[r]
SameDc(r, p) == byDc[r] = byDc[p] /\ (r \in toMain <=> p \in toMain)
AnswerWait(r, d) ==
    /\ r \in Requests /\ Comes(r, d) /\ Follows(r) # NoId /\ Error("wait")
    /\ LET p == Follows(r)
           dc == byDc[r]
       IN \/ /\ byDc[p] = NoDc
             /\ Forget(r) /\ Tell(r, "failed") /\ sent' = Rest(r, d)
             /\ UNCHANGED <<after, queues, stranded>>
          \/ /\ byDc[p] # NoDc /\ ~SameDc(r, p)
             /\ after' = [after EXCEPT ![r] = NoId]
             /\ sent' = Rest(r, d) \cup {<<r, dc>>}
             /\ UNCHANGED <<parsers, requests, byDc, toMain, queues, outcome, stranded>>
          \/ /\ byDc[p] # NoDc /\ SameDc(r, p)
             /\ waiters' = IF p \in waiters[dc] THEN [waiters EXCEPT ![dc] = @ \cup {r}]
                           ELSE waiters
             /\ badGuest' = IF p \in waiters[dc] /\ p \in badGuest THEN badGuest \cup {r}
                            ELSE badGuest
             /\ delayed' = IF p \notin waiters[dc] /\ p \in delayed THEN delayed \cup {r}
                           ELSE delayed
             /\ stranded' = IF p \notin waiters[dc] /\ p \notin delayed THEN stranded \cup {r}
                            ELSE stranded
             /\ sent' = Rest(r, d)
             /\ UNCHANGED <<maps, exports, outcome>>
    /\ UNCHANGED <<mainDc, clearing, unserved>>

\* A session begins anew: SessionData::clear() posts the callbacks of what it had sent,
\* and of what it was going to send again (T), which it still sends.
ClearSession(d) ==
    /\ Error("clear")
    /\ \E S \in SUBSET {x \in sent : x[2] = d} : \E T \in SUBSET {x \in S : x[1] \in Requests} :
          /\ S # {}
          /\ sent' = sent \ (S \ T)
          /\ clearing' = clearing \cup {<<x[1], "silently">> : x \in S}
    /\ UNCHANGED <<maps, mainDc, queues, outcome, losses>>

\* The connection gives up a request that was acknowledged long ago, or one that a fatal
\* bad_msg_notification is about.  The list of the latter, { 1, RPCCallbackClear(..) },
\* has two elements: the request with the id 1, without an error, is the other.
GiveUp(id, d) ==
    /\ <<id, d>> \in sent
    /\ \/ Error("giveUp") /\ clearing' = clearing \cup {<<id, "told">>}
       \/ Error("fatal") /\ clearing' = clearing \cup {<<id, "told">>, <<RequestOne, "silently">>}
    /\ sent' = Rest(id, d)
    /\ UNCHANGED <<maps, mainDc, queues, outcome, losses>>

\* Mutants: the request stays registered; it is not asked whether the callbacks were found.
ClearCallbacksKeeps(id, how) ==
    /\ <<id, how>> \in clearing
    /\ clearing' = clearing \ {<<id, how>>}
    /\ parsers' = parsers \ {id}
    /\ IF id \in parsers THEN Tell(id, IF how = "told" THEN "failed" ELSE "dropped")
       ELSE UNCHANGED outcome
    /\ UNCHANGED <<requests, byDc, toMain, after, mainDc, queues, sent, losses, errors>>
ClearCallbacksAlways(id, how) ==
    /\ <<id, how>> \in clearing
    /\ clearing' = clearing \ {<<id, how>>}
    /\ Forget(id) /\ Tell(id, IF how = "told" THEN "failed" ELSE "dropped")
    /\ UNCHANGED <<after, mainDc, queues, sent, losses, errors>>

\* clearCallbacks(): with an error code CLEAR_CALLBACK is an error like any other (which
\* exportFail() or importFail() handle of the own requests); without one nobody is told.
ClearCallbacks(id, how) ==
    /\ <<id, how>> \in clearing
    /\ clearing' = clearing \ {<<id, how>>}
    /\ Forget(id)
    /\ IF id \in parsers THEN Tell(id, IF how = "told" THEN "failed" ELSE "dropped")
       ELSE UNCHANGED outcome
    /\ IF id \in parsers \cap Exports /\ how = "told"
       THEN /\ waiters' = [waiters EXCEPT ![Of(id)] = {}]
            /\ stranded' = stranded \cup waiters[Of(id)]
            /\ UNCHANGED unserved
       ELSE /\ unserved' = IF id \in parsers \ Requests THEN unserved \cup {Of(id)} ELSE unserved
            /\ UNCHANGED <<waiters, stranded>>
    /\ UNCHANGED <<after, mainDc, delayed, exports, badGuest, sent, errors>>

-----------------------------------------------------------------------------
Answered(d) ==
    \/ \E r \in Requests : AnswerDone(r, d)
    \/ \E id \in Ids : AnswerUnknown(id, d)
    \/ \E t \in Dcs : Exported(t, d) \/ Imported(t, d)
Refused(d) ==
    \/ \E r \in Requests : \/ AnswerFail(r, d) \/ AnswerWait(r, d)
                           \/ \E t \in Dcs : AnswerMigrate(r, d, t)
    \/ \E id \in Ids : AnswerTemporary(id, d) \/ AnswerNotInited(id, d) \/ AnswerUnauthorized(id, d)
    \/ \E t \in Dcs : ExportFails(t, d) \/ ImportFails(t, d)
    \/ ClearSession(d) \/ \E id \in Ids : GiveUp(id, d)
Posted == \E id \in Ids : CheckDelayed(id) \/ \E how \in Hows : ClearCallbacks(id, how)

Next ==
    \/ \E r \in Requests : Cancel(r) \/ \E p \in Requests \cup {NoId} : Send(r, p)
    \/ \E d \in Dcs : Answered(d) \/ Refused(d)
    \/ Posted

Spec == Init /\ [][Next]_vars

\* Timers fire, posted calls are made, and a session has an answer for everything in
\* the end that is not one of the (finitely many) errors.
FairSpec ==
    /\ Spec
    /\ WF_vars(Posted)
    /\ \A d \in Dcs :
          /\ \A r \in Requests : WF_vars(AnswerDone(r, d))
          /\ \A t \in Dcs : WF_vars(Exported(t, d)) /\ WF_vars(Imported(t, d))

-----------------------------------------------------------------------------
(***************************************************************************)
(* Properties.                                                             *)
(***************************************************************************)

\* Where a request is.
Places(id) ==
    {<<"session", d>> : d \in {d \in Dcs : <<id, d>> \in sent}}
    \cup {<<"waits", d>> : d \in {d \in Dcs : id \in waiters[d]}}
    \cup {<<"delayed", d>> : d \in {d \in Dcs : d = mainDc /\ id \in delayed}}

\* Whatever is done about errors, a request is in one place at most: it is never sent
\* again while a session has it, and never answered while it waits.
OnePlace == \A id \in requests : \A x, y \in Places(id) : x = y

\* The three maps of the requests speak of the same ones: nothing of a request that
\* ended is left in them, and none that is open is missing.
MapsAgree ==
    /\ parsers = requests
    /\ \A id \in Ids : id \in requests <=> byDc[id] # NoDc
    /\ \A r \in Requests : r \in requests <=> outcome[r] = "open"

\* The code leaves requests behind in a few ways: exportFail() and importFail(), an import
\* that waits for itself, callbacks of either that are dropped, sessions that are killed
\* when the main data centre changes, and MSG_WAIT_FAILED of a request whose predecessor
\* is on its way.  In no other way does a request wait for an authorization that nobody
\* asks for, or is it nowhere: neither with a session, nor waiting, nor delayed, nor about
\* to be cleared.
WaitersAreServed ==
    \A d \in Dcs : waiters[d] \cap requests # {} =>
        Export(d) \in requests \/ Import(d) \in requests \/ d \in unserved
NothingStranded ==
    \A id \in requests :
        \/ Places(id) # {}
        \/ \E how \in Hows : <<id, how>> \in clearing
        \/ id \in stranded

\* And in no other way does a request that was sent stay open for ever.
Lost(r) ==
    \/ r \in stranded
    \/ \E d \in Dcs : /\ r \in waiters[d]
                      /\ d \in unserved \/ Export(d) \in stranded \/ Import(d) \in stranded
EveryRequestEnds == \A r \in Requests : outcome[r] = "open" ~> outcome[r] # "open" \/ Lost(r)

\* A request ends in silence only with its session: when one is given up its owner is
\* told, "RPCError::NoError means do not toggle onError callback" (mtp_instance.cpp:159).
NoneIsDropped == \A r \in Requests : outcome[r] # "dropped"

\* Each request ends once, and in the end it does.
Service == INSTANCE RequestService WITH
    phase <- [r \in Requests |-> IF r \in parsers THEN "open" ELSE outcome[r]]
ImplementsService == Service!Spec
=============================================================================
