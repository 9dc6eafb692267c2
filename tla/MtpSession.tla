----------------------------- MODULE MtpSession -----------------------------
(***************************************************************************)
(* Request tracking of one MTProto session: mtproto/session.{h,cpp} and    *)
(* the sending and answer handling of ConnectionPrivate in                 *)
(* mtproto/connection.cpp.                                                 *)
(*                                                                         *)
(* Two threads share SessionData, whose maps have one lock each.  The MAIN *)
(* thread runs Session and Instance (send, cancel, resend, run callbacks), *)
(* the CONNECTION thread runs ConnectionPrivate (tryToSend, handleReceived,*)
(* restart).  An action is the code between two points where the other     *)
(* thread can see the maps: handlers that release a lock before they are   *)
(* done have a program counter, `main' or `conn'.                          *)
(*                                                                         *)
(* The server is the environment: a message that reached it may be acked,  *)
(* answered, rejected or ignored, and a connection may break at any time.  *)
(* Message ids come from one increasing counter (the client clock is not   *)
(* moved back here), so replaceMsgId() never has anything to replace.      *)
(***************************************************************************)
EXTENDS Naturals, FiniteSets

CONSTANTS
    Requests,        \* request ids (mtpRequestId) of requests with callbacks
    NoReq,           \* "no request" in the maps
    MaxMsgId,        \* bound: message ids are 1..MaxMsgId
    IdsBufferSize,   \* MTPIdsBufferSize: how many entries wereAcked keeps
    MaxFaults        \* bound: breaks of the connection, rejects, resend orders
                     \* of the server and timer checks of a run together

ASSUME RequestsAreNats == Requests \subseteq Nat
ASSUME RequestsAreFinite == IsFiniteSet(Requests)
ASSUME NoReqIsNoRequest == NoReq \notin Requests
ASSUME BoundsAreNats == MaxMsgId \in Nat /\ IdsBufferSize \in Nat /\ MaxFaults \in Nat

MsgId == 1..MaxMsgId
NoMsg == 0

VARIABLES
    started,         \* requests passed to Instance::sendRequest so far
    callbacks,       \* Instance::_parserMap: requests whose callbacks are alive
    toSend,          \* SessionData::_toSend
    inner,           \* the msg_id written inside each request, NoMsg if never sent
    dated,           \* msDate > 0 of each request: it can go without a container
    haveSent,        \* SessionData::_haveSent, its entries that are requests
    containers,      \* SessionData::_haveSent, its containers: the ids inside
    stateReqs,       \* SessionData::_haveSent, its msgs_state_req: the ids asked
    toResend,        \* SessionData::_toResend
    wereAcked,       \* SessionData::_wereAcked
    stateRequest,    \* SessionData::_stateRequest
    responses,       \* SessionData::_receivedResponses (its keys)
    clearing,        \* requests in posted clearCallbacksDelayed() calls
    resends,         \* ids (and forceContainer) main has been asked to resend
    resendAllPosted, \* a resendAllAsync() is in the main thread's queue
    sendDue,         \* the sender timer runs or a needToSend() is queued
    main,            \* where the main thread is inside resend() or cancel()
    conn,            \* where the connection thread is inside a handler
    connState,       \* ConnectionPrivate::_state
    restarted,       \* ConnectionPrivate::restarted
    nextMsgId,       \* the next value msgid() returns
    delivered,       \* environment: ids of this session the server holds
    faults,          \* bound counter
    stale            \* history: haveSent ids that went out on a dead connection

maps == <<toSend, inner, dated, haveSent, containers, stateReqs, toResend,
          wereAcked, stateRequest>>
server == <<nextMsgId, delivered, stale>>
link == <<connState, restarted, faults>>
linkState == <<connState, restarted>>
posted == <<clearing, resends, resendAllPosted, sendDue>>
vars == <<started, callbacks, toSend, inner, dated, haveSent, containers,
          stateReqs, toResend, wereAcked, stateRequest, responses, clearing,
          resends, resendAllPosted, sendDue, main, conn, connState, restarted,
          nextMsgId, delivered, faults, stale>>

\* The step is one of the bounded disturbances.
Fault == faults < MaxFaults /\ faults' = faults + 1

Idle == [pc |-> "idle", msg |-> NoMsg, req |-> NoReq, force |-> FALSE]

RequestsType ==
    /\ started \subseteq Requests
    /\ callbacks \subseteq started
    /\ responses \subseteq Requests
    /\ clearing \subseteq Requests
MapsType ==
    /\ toSend \subseteq Requests
    /\ inner \in [Requests -> 0..MaxMsgId]
    /\ dated \in [Requests -> BOOLEAN]
    /\ haveSent \in [MsgId -> Requests \cup {NoReq}]
    /\ containers \in [MsgId -> SUBSET MsgId]
    /\ stateReqs \in [MsgId -> SUBSET MsgId]
    /\ toResend \in [MsgId -> Requests \cup {NoReq}]
    /\ wereAcked \in [MsgId -> Requests \cup {NoReq}]
    /\ stateRequest \subseteq MsgId
ResendsType == resends \subseteq (MsgId \X BOOLEAN)
FlagsType ==
    /\ resendAllPosted \in BOOLEAN
    /\ sendDue \in BOOLEAN
    /\ connState \in {"disconnected", "connecting", "connected"}
    /\ restarted \in BOOLEAN
ThreadsType ==
    /\ main \in [pc : {"idle", "taken", "queued", "cancel"},
                 msg : 0..MaxMsgId, req : Requests \cup {NoReq}, force : BOOLEAN]
    /\ conn \in [pc : {"idle", "alone", "answer", "ackMore", "clear"},
                 msg : 0..MaxMsgId, req : Requests \cup {NoReq}, ids : SUBSET MsgId]
ServerType ==
    /\ nextMsgId \in 1..(MaxMsgId + 1)
    /\ delivered \subseteq MsgId
    /\ stale \subseteq MsgId
    /\ faults \in 0..MaxFaults

TypeOK ==
    /\ RequestsType /\ MapsType /\ ResendsType
    /\ FlagsType /\ ThreadsType /\ ServerType

\* The connection thread between handlers, and inside one between two locks.
ConnIdle == [pc |-> "idle", msg |-> NoMsg, req |-> NoReq, ids |-> {}]
Sending(r) == [pc |-> "alone", msg |-> NoMsg, req |-> r, ids |-> {}]
Answering(m) == [pc |-> "answer", msg |-> m, req |-> NoReq, ids |-> {}]
AckingMore(ids) == [pc |-> "ackMore", msg |-> NoMsg, req |-> NoReq, ids |-> ids]
ClearingMaps == [pc |-> "clear", msg |-> NoMsg, req |-> NoReq, ids |-> {}]

Init ==
    /\ started = {} /\ callbacks = {} /\ toSend = {}
    /\ inner = [r \in Requests |-> NoMsg]
    /\ dated = [r \in Requests |-> TRUE]
    /\ haveSent = [m \in MsgId |-> NoReq]
    /\ containers = [m \in MsgId |-> {}]
    /\ stateReqs = [m \in MsgId |-> {}]
    /\ toResend = [m \in MsgId |-> NoReq]
    /\ wereAcked = [m \in MsgId |-> NoReq]
    /\ stateRequest = {} /\ responses = {} /\ clearing = {} /\ resends = {}
    /\ resendAllPosted = FALSE /\ sendDue = FALSE
    /\ main = Idle /\ conn = ConnIdle
    /\ connState = "disconnected" /\ restarted = FALSE
    /\ nextMsgId = 1 /\ delivered = {} /\ faults = 0 /\ stale = {}

-----------------------------------------------------------------------------
(***************************************************************************)
(* The main thread.                                                        *)
(***************************************************************************)

\* Instance::sendRequest: storeRequest(), then sendPrepared() with newRequest.
SendRequest(r) ==
    /\ main.pc = "idle" /\ r \notin started
    /\ started' = started \cup {r}
    /\ callbacks' = callbacks \cup {r}
    /\ toSend' = toSend \cup {r}
    /\ inner' = [inner EXCEPT ![r] = NoMsg]
    /\ dated' = [dated EXCEPT ![r] = TRUE]
    /\ sendDue' = TRUE
    /\ UNCHANGED <<haveSent, containers, stateReqs, toResend, wereAcked, stateRequest,
                   responses, clearing, resends, resendAllPosted, main, conn>>
    /\ UNCHANGED <<server, link>>

\* Session::cancel, the first lock: the request leaves _toSend.  Its msg_id was
\* read by Instance::cancel before.
CancelBegin(r) ==
    /\ main.pc = "idle" /\ r \in callbacks
    /\ toSend' = toSend \ {r}
    /\ main' = [pc |-> "cancel", msg |-> inner[r], req |-> r, force |-> FALSE]
    /\ UNCHANGED <<started, callbacks, inner, dated, haveSent, containers, stateReqs,
                   toResend, wereAcked, stateRequest, responses, conn>>
    /\ UNCHANGED <<posted, server, link>>

\* Session::cancel, the second lock, and clearCallbacks() of Instance::cancel.
CancelEnd ==
    /\ main.pc = "cancel"
    /\ haveSent' = [m \in MsgId |-> IF m = main.msg THEN NoReq ELSE haveSent[m]]
    /\ callbacks' = callbacks \ {main.req}
    /\ main' = Idle
    /\ UNCHANGED <<started, toSend, inner, dated, containers, stateReqs, toResend,
                   wereAcked, stateRequest, responses, conn>>
    /\ UNCHANGED <<posted, server, link>>

\* Mutant: resend() leaves the entry in _haveSent.
ResendTakeKeeps(m, force) ==
    /\ main.pc = "idle" /\ <<m, force>> \in resends
    /\ containers' = [containers EXCEPT ![m] = {}]
    /\ stateReqs' = [stateReqs EXCEPT ![m] = {}]
    /\ resends' = (resends \ {<<m, force>>}) \cup (containers[m] \X {TRUE})
    /\ main' = IF haveSent[m] = NoReq THEN Idle
               ELSE [pc |-> "taken", msg |-> m, req |-> haveSent[m], force |-> force]
    /\ UNCHANGED <<started, callbacks, toSend, inner, dated, haveSent, toResend, wereAcked,
                   stateRequest, responses, clearing, resendAllPosted, sendDue, conn>>
    /\ UNCHANGED <<server, link>>

\* Mutant: resend() of a container forgets what was in it.
ResendTakeShallow(m, force) ==
    /\ main.pc = "idle" /\ <<m, force>> \in resends
    /\ haveSent' = [haveSent EXCEPT ![m] = NoReq]
    /\ containers' = [containers EXCEPT ![m] = {}]
    /\ stateReqs' = [stateReqs EXCEPT ![m] = {}]
    /\ resends' = resends \ {<<m, force>>}
    /\ main' = IF haveSent[m] = NoReq THEN Idle
               ELSE [pc |-> "taken", msg |-> m, req |-> haveSent[m], force |-> force]
    /\ UNCHANGED <<started, callbacks, toSend, inner, dated, toResend, wereAcked,
                   stateRequest, responses, clearing, resendAllPosted, sendDue, conn>>
    /\ UNCHANGED <<server, link>>

\* Session::resend, the locked part: the entry is taken out of _haveSent.  A
\* container is replaced by what is in it, a state request is dropped.
ResendTake(m, force) ==
    /\ main.pc = "idle" /\ <<m, force>> \in resends
    /\ haveSent' = [haveSent EXCEPT ![m] = NoReq]
    /\ containers' = [containers EXCEPT ![m] = {}]
    /\ stateReqs' = [stateReqs EXCEPT ![m] = {}]
    /\ resends' = (resends \ {<<m, force>>}) \cup (containers[m] \X {TRUE})
    /\ main' = IF haveSent[m] = NoReq THEN Idle
               ELSE [pc |-> "taken", msg |-> m, req |-> haveSent[m], force |-> force]
    /\ UNCHANGED <<started, callbacks, toSend, inner, dated, toResend, wereAcked,
                   stateRequest, responses, clearing, resendAllPosted, sendDue, conn>>
    /\ UNCHANGED <<server, link>>

\* Session::resend: sendPrepared() of the request it holds, msg_id unchanged.
ResendQueue ==
    /\ main.pc = "taken"
    /\ dated' = [dated EXCEPT ![main.req] = ~main.force]
    /\ toSend' = toSend \cup {main.req}
    /\ sendDue' = TRUE
    /\ main' = [main EXCEPT !.pc = "queued"]
    /\ UNCHANGED <<started, callbacks, inner, haveSent, containers, stateReqs, toResend,
                   wereAcked, stateRequest, responses, clearing, resends,
                   resendAllPosted, conn>>
    /\ UNCHANGED <<server, link>>

\* Session::resend: only now is the message listed in _toResend.
ResendList ==
    /\ main.pc = "queued"
    /\ toResend' = [toResend EXCEPT ![main.msg] = main.req]
    /\ main' = Idle
    /\ UNCHANGED <<started, callbacks, toSend, inner, dated, haveSent, containers,
                   stateReqs, wereAcked, stateRequest, responses, conn>>
    /\ UNCHANGED <<posted, server, link>>

\* Entries of _haveSent with a requestId: requests and state requests.
SentIds == {m \in MsgId : haveSent[m] # NoReq \/ stateReqs[m] # {}}

\* Session::resendAll: resend(id, 10, true) for a snapshot of _haveSent.
ResendAll ==
    /\ main.pc = "idle" /\ resendAllPosted
    /\ resends' = resends \cup (SentIds \X {TRUE})
    /\ resendAllPosted' = FALSE
    /\ UNCHANGED <<started, callbacks, responses, clearing, sendDue, main, conn>>
    /\ UNCHANGED <<maps, server, link>>

Requested == {m \in MsgId : haveSent[m] # NoReq}
Forgettable == {m \in MsgId : containers[m] # {} \/ stateReqs[m] # {}}

\* Session::checkRequestsByTimer: the state of requests sent long ago is asked
\* (no message is shorter than MTPResendThreshold, so none is resent here), and
\* containers and state requests of ten minutes ago are forgotten.
CheckRequestsByTimer(ask, forget) ==
    /\ Fault
    /\ main.pc = "idle"
    /\ ask \cup forget # {}
    /\ stateRequest' = stateRequest \cup ask
    /\ sendDue' = (sendDue \/ ask # {})
    /\ containers' = [m \in MsgId |-> IF m \in forget THEN {} ELSE containers[m]]
    /\ stateReqs' = [m \in MsgId |-> IF m \in forget THEN {} ELSE stateReqs[m]]
    /\ UNCHANGED <<started, callbacks, toSend, inner, dated, haveSent, toResend,
                   wereAcked, responses, clearing, resends, resendAllPosted, main, conn>>
    /\ UNCHANGED <<server, linkState>>

\* Session::tryToReceive and Instance::execCallback: the first response, by
\* request id, leaves the queue and the callbacks of its request are run.
TryToReceive ==
    /\ main.pc = "idle"
    /\ \E r \in responses :
        /\ \A q \in responses : r <= q
        /\ responses' = responses \ {r}
        /\ callbacks' = callbacks \ {r}
    /\ UNCHANGED <<started, main, conn>>
    /\ UNCHANGED <<maps, posted, server, link>>

\* Instance::clearCallbacks of a posted clearCallbacksDelayed().
ClearCallbacks(r) ==
    /\ main.pc = "idle" /\ r \in clearing
    /\ clearing' = clearing \ {r}
    /\ callbacks' = callbacks \ {r}
    /\ UNCHANGED <<started, responses, resends, resendAllPosted, sendDue, main, conn>>
    /\ UNCHANGED <<maps, server, link>>

-----------------------------------------------------------------------------
(***************************************************************************)
(* The connection thread: sending.                                         *)
(***************************************************************************)

New(rs) == {r \in rs : inner[r] = NoMsg}

\* ConnectionPrivate::tryToSend, one request that needs no container: it leaves
\* _toSend and that lock is released.
SendAlone(r) ==
    /\ toSend = {r} /\ dated[r] /\ stateRequest = {}
    /\ inner[r] = NoMsg => nextMsgId <= MaxMsgId
    /\ toSend' = {}
    /\ conn' = Sending(r)
    /\ UNCHANGED <<inner, haveSent, containers, stateReqs, toResend, stateRequest, dated>>
    /\ UNCHANGED server

\* Mutant: a request that is sent again gets a new msg_id, its old one stays in
\* _toResend.
SendAloneRenumbers ==
    /\ conn.pc = "alone" /\ nextMsgId <= MaxMsgId
    /\ inner' = [inner EXCEPT ![conn.req] = nextMsgId]
    /\ nextMsgId' = nextMsgId + 1
    /\ dated' = [dated EXCEPT ![conn.req] = TRUE]
    /\ haveSent' = [haveSent EXCEPT ![nextMsgId] = conn.req]
    /\ delivered' = delivered \cup {nextMsgId}
    /\ conn' = ConnIdle
    /\ UNCHANGED <<started, callbacks, toSend, containers, stateReqs, toResend, wereAcked,
                   stateRequest, responses, main, stale>>
    /\ UNCHANGED <<posted, link>>

\* ... prepareToSend() and the insertion into _haveSent.
SendAloneEnd ==
    /\ conn.pc = "alone"
    /\ inner[conn.req] = NoMsg => nextMsgId <= MaxMsgId
    /\ LET r == conn.req
           m == IF inner[r] = NoMsg THEN nextMsgId ELSE inner[r]
       IN /\ inner' = [inner EXCEPT ![r] = m]
          /\ nextMsgId' = IF inner[r] = NoMsg THEN nextMsgId + 1 ELSE nextMsgId
          /\ toResend' = [toResend EXCEPT ![m] = NoReq]
          /\ dated' = [dated EXCEPT ![r] = TRUE]
          /\ haveSent' = [haveSent EXCEPT ![m] = r]
          /\ delivered' = delivered \cup {m}
          /\ stale' = stale \ {m}
    /\ conn' = ConnIdle
    /\ UNCHANGED <<started, callbacks, toSend, containers, stateReqs, wereAcked,
                   stateRequest, responses, main>>
    /\ UNCHANGED <<posted, link>>

\* tryToSend(), nothing but a state request.
SendStateAlone ==
    /\ toSend = {} /\ stateRequest # {} /\ nextMsgId <= MaxMsgId
    /\ stateReqs' = [stateReqs EXCEPT ![nextMsgId] = stateRequest]
    /\ stateRequest' = {}
    /\ nextMsgId' = nextMsgId + 1
    /\ delivered' = delivered \cup {nextMsgId}
    /\ UNCHANGED <<toSend, inner, haveSent, containers, toResend, dated, conn, stale>>

\* Mutant: the container's id is drawn before those of its messages.
ContentIdsAfter(c) == (nextMsgId + 1)..c

\* The new ids inside a container that goes out as c, the next free one.
ContentIds(c) == nextMsgId..(c - 1)

\* The id a request of a container goes out with: its own, or the new one.
Stamped(r, ids) == IF inner[r] = NoMsg THEN ids[r] ELSE inner[r]

\* Container c with everything of _toSend and the state request, `ids' are the new
\* ids of the requests that have none yet.
ContainerSent(c, ids) ==
    LET stateId == IF stateRequest = {} THEN {} ELSE {c - 1}
        sent == {Stamped(r, ids) : r \in toSend}
    IN /\ nextMsgId <= c
       /\ stateId \subseteq nextMsgId..c
       /\ {ids[r] : r \in New(toSend)} = ContentIds(c) \ stateId
       /\ \A q, r \in New(toSend) : q < r => ids[q] < ids[r]
       /\ inner' = [r \in Requests |-> IF r \in toSend THEN Stamped(r, ids) ELSE inner[r]]
       /\ dated' = [r \in Requests |-> IF r \in toSend THEN TRUE ELSE dated[r]]
       /\ toResend' = [m \in MsgId |-> IF m \in sent THEN NoReq ELSE toResend[m]]
       /\ haveSent' = [m \in MsgId |-> IF m \in sent
                                       THEN CHOOSE r \in toSend : Stamped(r, ids) = m
                                       ELSE haveSent[m]]
       /\ stateReqs' = [m \in MsgId |-> IF m \in stateId THEN stateRequest
                                        ELSE stateReqs[m]]
       /\ containers' = [containers EXCEPT ![c] = sent \cup stateId]
       /\ nextMsgId' = c + 1
       /\ delivered' = delivered \cup sent \cup stateId \cup {c}
       /\ stale' = stale \ sent

\* tryToSend(), the container branch; _toSend, _haveSent and _wereAcked stay
\* locked all the way.  `others' says that a ping, acks or another service
\* message travels along.
SendContainer(others) ==
    /\ toSend # {} \/ stateRequest # {}
    /\ \/ others
       \/ \E r \in toSend : toSend # {r} \/ ~dated[r] \/ stateRequest # {}
    /\ \E c \in MsgId, ids \in [New(toSend) -> nextMsgId..MaxMsgId] : ContainerSent(c, ids)
    /\ toSend' = {} /\ stateRequest' = {}
    /\ UNCHANGED conn

\* tryToSend() with no request at hand: at most acks or a ping go out.
SendNothing ==
    /\ toSend = {} /\ stateRequest = {}
    /\ UNCHANGED <<toSend, inner, haveSent, containers, stateReqs, toResend,
                   stateRequest, dated, conn>>
    /\ UNCHANGED server

\* tryToSend() of a connected session, on needToSend() or on a ping.
TryToSend(others) ==
    /\ conn.pc = "idle" /\ connState = "connected"
    /\ sendDue \/ others
    /\ sendDue' = (sendDue /\ others)
    /\ \/ /\ ~others
          /\ (\E r \in toSend : SendAlone(r)) \/ SendStateAlone
       \/ SendContainer(others)
       \/ SendNothing
    /\ UNCHANGED <<started, callbacks, wereAcked, responses, clearing, resends,
                   resendAllPosted, main>>
    /\ UNCHANGED link

\* tryToSend() before the connection is ready: "just do nothing".
TryToSendEarly ==
    /\ conn.pc = "idle" /\ connState # "connected" /\ sendDue
    /\ sendDue' = FALSE
    /\ UNCHANGED <<started, callbacks, responses, clearing, resends, resendAllPosted,
                   main, conn>>
    /\ UNCHANGED <<maps, server, link>>

-----------------------------------------------------------------------------
(***************************************************************************)
(* The connection thread: what the server sends.                           *)
(***************************************************************************)

\* A message the connection thread handles between two other handlers.
Receiving == conn.pc = "idle" /\ connState = "connected"

InHaveSent(m) == haveSent[m] # NoReq \/ containers[m] # {} \/ stateReqs[m] # {}

\* ConnectionPrivate::wasSent as a truth value, and the request it finds.
WasSent(m) == InHaveSent(m) \/ toResend[m] # NoReq \/ wereAcked[m] # NoReq
RequestOf(m) ==
    IF InHaveSent(m) THEN haveSent[m]
    ELSE IF toResend[m] # NoReq THEN toResend[m] ELSE wereAcked[m]

\* The entries requestsAcked() drops when there are more than MTPIdsBufferSize.
Evicted(acked) ==
    {m \in MsgId : /\ acked[m] # NoReq
                   /\ Cardinality({k \in MsgId : k > m /\ acked[k] # NoReq})
                          >= IdsBufferSize}

\* Mutant: an ack retires a request that waits for its response.
RetiresAlways(r, byResponse) == TRUE

\* An ack is ignored while the request has callbacks that wait for a response.
Retires(r, byResponse) == byResponse \/ r \notin callbacks

\* What requestsAcked() takes out of _haveSent, what out of _toResend (and _toSend),
\* and the _wereAcked it makes of them before the eviction.
AckedSent(ids, byResponse) ==
    {m \in ids : haveSent[m] # NoReq /\ Retires(haveSent[m], byResponse)}
AckedQueued(ids, byResponse) ==
    {m \in ids : ~InHaveSent(m) /\ toResend[m] # NoReq /\ Retires(toResend[m], byResponse)}
AckedMap(ids, byResponse) ==
    [m \in MsgId |->
        IF m \in AckedSent(ids, byResponse) THEN haveSent[m]
        ELSE IF m \in AckedQueued(ids, byResponse) /\ toResend[m] \in toSend THEN toResend[m]
        ELSE wereAcked[m]]

\* ConnectionPrivate::requestsAcked for a set of ids; `after' is where the
\* connection thread is afterwards when no container was among them.
RequestsAcked(ids, byResponse, after) ==
    LET queued == AckedQueued(ids, byResponse)
        acked == AckedMap(ids, byResponse)
        more == UNION {containers[m] : m \in ids}
    IN /\ haveSent' = [m \in MsgId |-> IF m \in AckedSent(ids, byResponse) THEN NoReq
                                      ELSE haveSent[m]]
       /\ containers' = [m \in MsgId |-> IF m \in ids THEN {} ELSE containers[m]]
       /\ stateReqs' = [m \in MsgId |-> IF m \in ids THEN {} ELSE stateReqs[m]]
       /\ toResend' = [m \in MsgId |-> IF m \in queued THEN NoReq ELSE toResend[m]]
       /\ toSend' = toSend \ {toResend[m] : m \in queued}
       /\ wereAcked' = [m \in MsgId |-> IF m \in Evicted(acked) THEN NoReq ELSE acked[m]]
       /\ clearing' = clearing \cup {acked[m] : m \in Evicted(acked)}
       /\ conn' = IF more = {} THEN after ELSE AckingMore(more)

\* msgs_ack, or msg_detailed_info for a message whose answer is on its way.
ReceiveAck(m) ==
    /\ Receiving /\ m \in delivered
    /\ RequestsAcked({m}, FALSE, ConnIdle)
    /\ UNCHANGED <<started, callbacks, inner, dated, stateRequest, responses, resends,
                   resendAllPosted, sendDue, main>>
    /\ UNCHANGED <<server, link>>

\* requestsAcked(toAckMore): the messages of the containers that were acked.
AckMore ==
    /\ conn.pc = "ackMore"
    /\ RequestsAcked(conn.ids, FALSE, ConnIdle)
    /\ UNCHANGED <<started, callbacks, inner, dated, stateRequest, responses, resends,
                   resendAllPosted, sendDue, main>>
    /\ UNCHANGED <<server, link>>

\* rpc_result, first requestsAcked(ids, true).
ReceiveResult(m) ==
    /\ Receiving /\ m \in delivered
    /\ \E r \in Requests : inner[r] = m
    /\ RequestsAcked({m}, TRUE, Answering(m))
    /\ delivered' = delivered \ {m}
    /\ UNCHANGED <<started, callbacks, inner, dated, stateRequest, responses, resends,
                   resendAllPosted, sendDue, main, nextMsgId, stale>>
    /\ UNCHANGED link

\* Mutant: a result of a message nobody remembers is saved too.
SaveResultUnchecked ==
    /\ conn.pc = "answer"
    /\ responses' = responses \cup {RequestOf(conn.msg)}
    /\ conn' = ConnIdle
    /\ UNCHANGED <<started, callbacks, main>>
    /\ UNCHANGED <<maps, posted, server, link>>

\* ... then wasSent(), and the result is saved for the main thread.
SaveResult ==
    /\ conn.pc = "answer"
    /\ responses' = responses \cup ({RequestOf(conn.msg)} \ {NoReq})
    /\ conn' = ConnIdle
    /\ UNCHANGED <<started, callbacks, main>>
    /\ UNCHANGED <<maps, posted, server, link>>

\* handleMsgsStates(): `got' are the ids the server says it has received; a missing
\* one is a disturbance.
HandleMsgsStates(ids, got) ==
    /\ IF ids \subseteq got THEN faults' = faults ELSE Fault
    /\ resends' = resends \cup ({m \in ids \ got : InHaveSent(m)} \X {TRUE})
    /\ RequestsAcked({m \in got : InHaveSent(m) \/ toResend[m] # NoReq}, FALSE, ConnIdle)
    /\ UNCHANGED <<started, callbacks, inner, dated, stateRequest, responses,
                   resendAllPosted, sendDue, main>>
    /\ UNCHANGED <<server, linkState>>

\* msgs_state_info in answer to the state request q, which stays in _haveSent.
ReceiveStateInfo(q, got) ==
    /\ Receiving /\ q \in delivered /\ stateReqs[q] # {}
    /\ HandleMsgsStates(stateReqs[q], got)

\* msgs_all_info about one message.
ReceiveAllInfo(m, got) ==
    /\ Receiving /\ m \in 1..(nextMsgId - 1)
    /\ HandleMsgsStates({m}, got)

\* bad_server_salt (forceContainer false) and the error codes of
\* bad_msg_notification that resend in a container (16, 17 and 64).
ReceiveReject(m, force) ==
    /\ Fault
    /\ Receiving /\ m \in delivered
    /\ delivered' = delivered \ ({m} \cup containers[m])
    /\ resends' = IF WasSent(m) THEN resends \cup {<<m, force>>} ELSE resends
    /\ UNCHANGED <<started, callbacks, responses, clearing, resendAllPosted, sendDue,
                   main, conn, nextMsgId, stale>>
    /\ UNCHANGED <<maps, linkState>>

\* bad_msg_notification with a fatal code: the callbacks are cleared with it (and those of
\* the request with the id 1, which is none of these here: see MtpInstance).
ReceiveFatal(m) ==
    /\ Receiving /\ m \in delivered
    /\ delivered' = delivered \ {m}
    /\ clearing' = IF WasSent(m) THEN clearing \cup ({RequestOf(m)} \ {NoReq}) ELSE clearing
    /\ UNCHANGED <<started, callbacks, responses, resends, resendAllPosted, sendDue,
                   main, conn, nextMsgId, stale>>
    /\ UNCHANGED <<maps, link>>

\* new_session_created: what was sent before its first message is resent.
ReceiveNewSession(first) ==
    /\ Fault
    /\ Receiving
    /\ delivered' = {m \in delivered : m >= first}
    /\ resends' = resends \cup ({m \in SentIds : m < first} \X {TRUE})
    /\ UNCHANGED <<started, callbacks, responses, clearing, resendAllPosted, sendDue,
                   main, conn, nextMsgId, stale>>
    /\ UNCHANGED <<maps, linkState>>

\* msg_resend_req.
ReceiveResendReq(m) ==
    /\ Fault
    /\ Receiving /\ m \in 1..(nextMsgId - 1)
    /\ resends' = resends \cup {<<m, FALSE>>}
    /\ UNCHANGED <<started, callbacks, responses, clearing, resendAllPosted, sendDue,
                   main, conn>>
    /\ UNCHANGED <<maps, server, linkState>>

-----------------------------------------------------------------------------
(***************************************************************************)
(* The connection thread: the connection itself.                           *)
(***************************************************************************)

\* restart(), waitReceivedFailed(): the connection is dropped; with `reset' (an
\* error 32 or 33) resetSession() starts a new server session, which renumbers
\* nothing here because every id is below the next one.
Disconnect(reset) ==
    /\ conn.pc = "idle" /\ connState # "disconnected"
    /\ reset => connState = "connected" /\ \E m \in delivered : WasSent(m)
    /\ Fault
    /\ connState' = "disconnected"
    /\ restarted' = TRUE
    /\ stateRequest' = IF reset THEN {} ELSE stateRequest
    /\ delivered' = IF reset THEN {} ELSE delivered
    /\ stale' = {m \in MsgId : haveSent[m] # NoReq}
    /\ UNCHANGED <<started, callbacks, toSend, inner, dated, haveSent, containers,
                   stateReqs, toResend, wereAcked, responses, main, conn, nextMsgId>>
    /\ UNCHANGED posted

\* connectToServer().
ConnectToServer ==
    /\ conn.pc = "idle" /\ connState = "disconnected"
    /\ connState' = "connecting"
    /\ UNCHANGED <<started, callbacks, responses, main, conn, restarted, faults>>
    /\ UNCHANGED <<maps, posted, server>>

\* Mutant: the flag of a restart is dropped without asking for resendAll().
ConnectedNoResend ==
    /\ conn.pc = "idle" /\ connState = "connecting"
    /\ connState' = "connected"
    /\ restarted' = FALSE
    /\ sendDue' = TRUE
    /\ UNCHANGED <<started, callbacks, responses, clearing, resends, resendAllPosted,
                   main, conn, faults>>
    /\ UNCHANGED <<maps, server>>

\* Mutant: the new connection does not ask for needToSend().
ConnectedSilent ==
    /\ conn.pc = "idle" /\ connState = "connecting"
    /\ connState' = "connected"
    /\ resendAllPosted' = (resendAllPosted \/ restarted)
    /\ restarted' = FALSE
    /\ UNCHANGED <<started, callbacks, responses, clearing, resends, sendDue, main, conn,
                   faults>>
    /\ UNCHANGED <<maps, server>>

\* authKeyCreated() with a salt, or the first answer that brings one.
Connected ==
    /\ conn.pc = "idle" /\ connState = "connecting"
    /\ connState' = "connected"
    /\ resendAllPosted' = (resendAllPosted \/ restarted)
    /\ restarted' = FALSE
    /\ sendDue' = TRUE
    /\ UNCHANGED <<started, callbacks, responses, clearing, resends, main, conn, faults>>
    /\ UNCHANGED <<maps, server>>

\* SessionData::clear once a new key was created: the requests in flight that have
\* no response yet lose their callbacks ...
SessionClear ==
    /\ conn.pc = "idle" /\ connState = "connecting"
    /\ Fault
    /\ clearing' = clearing \cup
        ((({haveSent[m] : m \in MsgId} \cup {toResend[m] : m \in MsgId}
           \cup {wereAcked[m] : m \in MsgId}) \ {NoReq}) \ responses)
    /\ conn' = ClearingMaps
    /\ UNCHANGED <<started, callbacks, responses, resends, resendAllPosted, sendDue,
                   main, connState, restarted>>
    /\ UNCHANGED <<maps, server>>

\* ... and then the maps are emptied, each under its own lock; _toSend is kept.
SessionClearMaps ==
    /\ conn.pc = "clear"
    /\ haveSent' = [m \in MsgId |-> NoReq]
    /\ containers' = [m \in MsgId |-> {}]
    /\ stateReqs' = [m \in MsgId |-> {}]
    /\ toResend' = [m \in MsgId |-> NoReq]
    /\ wereAcked' = [m \in MsgId |-> NoReq]
    /\ delivered' = {}
    /\ conn' = ConnIdle
    /\ UNCHANGED <<started, callbacks, toSend, inner, dated, stateRequest, responses,
                   main, nextMsgId, stale>>
    /\ UNCHANGED <<posted, link>>

-----------------------------------------------------------------------------
MainNext ==
    \/ \E r \in Requests : SendRequest(r) \/ CancelBegin(r) \/ ClearCallbacks(r)
    \/ CancelEnd \/ ResendQueue \/ ResendList \/ ResendAll \/ TryToReceive
    \/ \E m \in MsgId, force \in BOOLEAN : ResendTake(m, force)
    \/ \E ask \in SUBSET Requested, forget \in SUBSET Forgettable :
        CheckRequestsByTimer(ask, forget)

ConnNext ==
    \/ \E others \in BOOLEAN : TryToSend(others)
    \/ SendAloneEnd \/ TryToSendEarly \/ AckMore \/ SaveResult
    \/ ConnectToServer \/ Connected \/ SessionClear \/ SessionClearMaps
    \/ \E reset \in BOOLEAN : Disconnect(reset)

ServerNext ==
    \E m \in MsgId :
        \/ ReceiveAck(m) \/ ReceiveResult(m) \/ ReceiveFatal(m)
        \/ ReceiveNewSession(m) \/ ReceiveResendReq(m)
        \/ \E force \in BOOLEAN : ReceiveReject(m, force)
        \/ \E got \in SUBSET (stateReqs[m] \cap delivered) : ReceiveStateInfo(m, got)
        \/ \E got \in SUBSET ({m} \cap delivered) : ReceiveAllInfo(m, got)

Next == MainNext \/ ConnNext \/ ServerNext

Spec == Init /\ [][Next]_vars

(***************************************************************************)
(* Both threads run an event loop: what was posted is run, a lock is left, *)
(* the reconnect timer fires and a server is found in the end.  Nothing is *)
(* assumed of the server's messages.                                       *)
(***************************************************************************)
MainWork ==
    \/ CancelEnd \/ ResendQueue \/ ResendList \/ ResendAll \/ TryToReceive
    \/ \E r \in Requests : ClearCallbacks(r)
    \/ \E m \in MsgId, force \in BOOLEAN : ResendTake(m, force)

Fairness ==
    /\ WF_vars(MainWork)
    /\ WF_vars(TryToSend(FALSE))
    /\ WF_vars(SendAloneEnd \/ AckMore \/ SaveResult \/ SessionClearMaps)
    /\ WF_vars(ConnectToServer \/ Connected)

\* A posted resend() runs before its container becomes ten minutes old and is
\* forgotten (otherwise the requests inside wait for the next state request).
ForgetsPosted ==
    \E m \in MsgId, force \in BOOLEAN :
        /\ <<m, force>> \in resends \cap resends'
        /\ containers[m] # {} /\ containers'[m] = {} /\ conn' = conn

FairSpec == Init /\ [][Next /\ ~ForgetsPosted]_vars /\ Fairness

-----------------------------------------------------------------------------
(***************************************************************************)
(* Properties.                                                             *)
(***************************************************************************)

MainHolds(r) == main.pc = "taken" /\ main.req = r
ConnHolds(r) == conn.pc = "alone" /\ conn.req = r
IsSent(r) == \E m \in MsgId : haveSent[m] = r

\* A request whose callbacks are alive is never forgotten: it waits in _toSend or
\* in _haveSent, or a thread holds it between two locks, or its response or the
\* clearing of its callbacks is on its way to the main thread.
NoRequestLost ==
    \A r \in callbacks :
        \/ r \in toSend \/ IsSent(r) \/ MainHolds(r) \/ ConnHolds(r)
        \/ main.pc = "cancel" /\ main.req = r
        \/ r \in responses \/ r \in clearing
        \/ conn.pc = "answer" /\ wereAcked[conn.msg] = r

\* A request is in one place: it is not resent by resend() while it waits to be
\* sent or while tryToSend() is sending it, and it is sent under one id at a time.
OnePlace ==
    \A r \in Requests :
        /\ r \in toSend => ~IsSent(r) /\ ~MainHolds(r) /\ ~ConnHolds(r)
        /\ MainHolds(r) => ~IsSent(r) /\ ~ConnHolds(r)
        /\ ConnHolds(r) => ~IsSent(r)
        /\ \A m, n \in MsgId : haveSent[m] = r /\ haveSent[n] = r => m = n

\* Every map agrees on whose message an id is, so an answer to a message can only
\* reach the request that was sent with that id.
AnswersReachTheirRequest ==
    /\ \A m \in MsgId, r \in Requests :
        (haveSent[m] = r \/ toResend[m] = r \/ wereAcked[m] = r) => inner[r] = m
    /\ \A q, r \in Requests : inner[q] = inner[r] /\ inner[q] # NoMsg => q = r

\* Every message of a container has a smaller id than the container ("check for a
\* valid container" in tryToSend).
ContainersAreValid ==
    \A c \in MsgId : \A m \in containers[c] : m < c

\* Once the session is connected again, no request waits in _haveSent for an answer
\* on a connection that is gone: it is to be resent.
NothingWaitsOnDeadConnection ==
    connState = "connected" =>
        \A m \in stale : \/ haveSent[m] = NoReq
                         \/ resendAllPosted
                         \/ \E force \in BOOLEAN : <<m, force>> \in resends

\* A connected session with something to send has a wake-up of tryToSend() ahead.
NoForgottenWakeUp ==
    connState = "connected" /\ (toSend # {} \/ stateRequest # {}) => sendDue

\* The message ids left are enough for one more container with a state request.
RoomForIds == nextMsgId + 2 <= MaxMsgId

\* When the disturbances are over, every request that still waits for its answer is
\* listed in _haveSent under an id the server holds in its current session: no
\* request stays behind in a queue, in a flag or with a server that forgot it.
EventuallyWithServer ==
    <>[](RoomForIds =>
            \A r \in callbacks : \E m \in delivered : haveSent[m] = r)

\* What the comment of SessionData::_toResend says: a listed message's request lies
\* in _toSend.
ToResendLiesInToSend ==
    \A m \in MsgId : toResend[m] # NoReq => toResend[m] \in toSend
=============================================================================
