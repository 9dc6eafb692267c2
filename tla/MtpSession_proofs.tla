------------------------- MODULE MtpSession_proofs -------------------------
(***************************************************************************)
(* Proofs about MtpSession for every set of requests and every bound.      *)
(*                                                                         *)
(* IInv is the inductive invariant.  Its parts say which thread may hold   *)
(* what, that ids are handed out once (a request and a container never     *)
(* share one), and that the four maps agree on whose message an id is.     *)
(***************************************************************************)
EXTENDS MtpSession, TLAPS

\* What a thread holds while it is inside a handler is really there.
HeldOK ==
    /\ main.pc \in {"taken", "queued"} =>
        main.msg \in MsgId /\ main.req \in Requests /\ inner[main.req] = main.msg
    /\ main.pc = "cancel" =>
        main.req \in started /\ main.msg \in {NoMsg, inner[main.req]}
    /\ conn.pc = "alone" => conn.req \in started
    /\ conn.pc = "answer" => conn.msg \in MsgId

\* Ids come from the counter and are handed out once.
IdsOK ==
    /\ toSend \subseteq started
    /\ \A r \in Requests : inner[r] < nextMsgId
    /\ \A r \in Requests : inner[r] # NoMsg => r \in started
    /\ \A m \in MsgId : containers[m] # {} \/ stateReqs[m] # {} =>
        m < nextMsgId /\ \A r \in Requests : inner[r] # m

\* While SessionData::clear is between its two halves, the requests in flight have
\* their callbacks' clearing or their response ahead.
ClearOK ==
    conn.pc = "clear" =>
        \A r \in callbacks : IsSent(r) => r \in clearing \/ r \in responses

\* A message of a dead connection waits for resendAll(), wherever that order is.
StaleOK ==
    /\ connState = "connected" => ~restarted
    /\ \A m \in stale : \/ haveSent[m] = NoReq
                        \/ restarted
                        \/ resendAllPosted
                        \/ \E force \in BOOLEAN : <<m, force>> \in resends

IInv ==
    /\ TypeOK
    /\ HeldOK
    /\ IdsOK
    /\ AnswersReachTheirRequest
    /\ OnePlace
    /\ ClearOK
    /\ StaleOK
    /\ NoRequestLost
    /\ ContainersAreValid
    /\ NoForgottenWakeUp
-----------------------------------------------------------------------------
(***************************************************************************)
(* Type correctness.                                                       *)
(***************************************************************************)
USE RequestsAreNats, NoReqIsNoRequest, BoundsAreNats

ConnStates == [pc : {"idle", "alone", "answer", "ackMore", "clear"},
               msg : 0..MaxMsgId, req : Requests \cup {NoReq}, ids : SUBSET MsgId]

\* The map requestsAcked() evicts from holds requests.
LEMMA AckedMapType ==
    ASSUME MapsType, NEW ids \in SUBSET MsgId, NEW byResponse
    PROVE  AckedMap(ids, byResponse) \in [MsgId -> Requests \cup {NoReq}]
BY DEF MapsType, AckedMap, AckedSent, AckedQueued

\* What requestsAcked() writes is well typed.
LEMMA AckedType ==
    ASSUME RequestsType, MapsType, ThreadsType,
           NEW ids \in SUBSET MsgId, NEW byResponse, NEW after \in ConnStates,
           RequestsAcked(ids, byResponse, after)
    PROVE  /\ toSend' \subseteq toSend
           /\ haveSent' \in [MsgId -> Requests \cup {NoReq}]
           /\ containers' \in [MsgId -> SUBSET MsgId]
           /\ stateReqs' \in [MsgId -> SUBSET MsgId]
           /\ toResend' \in [MsgId -> Requests \cup {NoReq}]
           /\ wereAcked' \in [MsgId -> Requests \cup {NoReq}]
           /\ clearing' \subseteq Requests
           /\ conn' \in ConnStates
<1> DEFINE acked == AckedMap(ids, byResponse)
<1>1. acked \in [MsgId -> Requests \cup {NoReq}]
  BY AckedMapType
<1>2. Evicted(acked) \subseteq {m \in MsgId : acked[m] # NoReq}
  BY DEF Evicted
<1>3. clearing' \subseteq Requests
  <2>1. clearing' = clearing \cup {acked[m] : m \in Evicted(acked)}
    BY DEF RequestsAcked
  <2>2. \A m \in Evicted(acked) : acked[m] \in Requests
    BY <1>1, <1>2
  <2> QED
    BY <2>1, <2>2 DEF RequestsType
<1>4. wereAcked' \in [MsgId -> Requests \cup {NoReq}]
  <2>1. wereAcked' = [m \in MsgId |-> IF m \in Evicted(acked) THEN NoReq ELSE acked[m]]
    BY DEF RequestsAcked
  <2> QED
    BY <1>1, <2>1
<1>5. conn' \in ConnStates
  <2> DEFINE more == UNION {containers[m] : m \in ids}
  <2>1. more \in SUBSET MsgId
    BY DEF MapsType
  <2>2. conn' = IF more = {} THEN after ELSE AckingMore(more)
    BY DEF RequestsAcked
  <2> HIDE DEF more
  <2> QED
    BY <2>1, <2>2 DEF AckingMore, ConnStates, NoMsg
<1> QED
  BY <1>3, <1>4, <1>5 DEF RequestsAcked, MapsType

\* ... and what handleMsgsStates() writes.
LEMMA StatesType ==
    ASSUME TypeOK, NEW ids \in SUBSET MsgId, NEW got \in SUBSET ids, HandleMsgsStates(ids, got)
    PROVE  TypeOK'
<1> DEFINE known == {m \in got : InHaveSent(m) \/ toResend[m] # NoReq}
<1>1. RequestsAcked(known, FALSE, ConnIdle)
  BY DEF HandleMsgsStates
<1>2. ConnIdle \in ConnStates /\ known \in SUBSET MsgId
  BY DEF ConnIdle, ConnStates, NoMsg
<1>3. ResendsType'
  BY DEF HandleMsgsStates, TypeOK, ResendsType
<1> HIDE DEF known
<1>4. RequestsType' /\ MapsType' /\ ThreadsType'
  BY <1>1, <1>2, AckedType
  DEF HandleMsgsStates, ConnStates, TypeOK, RequestsType, MapsType, ThreadsType
<1>5. FlagsType' /\ ServerType'
  BY DEF HandleMsgsStates, Fault, TypeOK, FlagsType, ServerType, server, linkState
<1> QED
  BY <1>3, <1>4, <1>5 DEF TypeOK

\* The three ways tryToSend() sends.
SentTypes == MapsType /\ ThreadsType /\ ServerType

LEMMA SendAloneType ==
    ASSUME TypeOK, NEW r \in toSend, SendAlone(r),
           wereAcked' = wereAcked, main' = main, faults' = faults
    PROVE  SentTypes'
<1>1. r \in Requests
  BY DEF TypeOK, MapsType
<1>2. Sending(r) \in ConnStates
  BY <1>1 DEF Sending, ConnStates, NoMsg
<1>3. MapsType'
  BY DEF SendAlone, TypeOK, MapsType
<1>4. ThreadsType' /\ ServerType'
  BY <1>2 DEF SendAlone, TypeOK, ThreadsType, ServerType, ConnStates, server
<1> QED
  BY <1>3, <1>4 DEF SentTypes

LEMMA SendStateAloneType ==
    ASSUME TypeOK, SendStateAlone, wereAcked' = wereAcked, main' = main, faults' = faults
    PROVE  SentTypes'
<1>1. nextMsgId \in MsgId
  BY DEF SendStateAlone, TypeOK, ServerType, MsgId
<1>2. MapsType'
  BY <1>1 DEF SendStateAlone, TypeOK, MapsType
<1>3. ThreadsType' /\ ServerType'
  BY <1>1 DEF SendStateAlone, TypeOK, ThreadsType, ServerType, MsgId
<1> QED
  BY <1>2, <1>3 DEF SentTypes

LEMMA SendContainerType ==
    ASSUME TypeOK, NEW others, SendContainer(others),
           wereAcked' = wereAcked, main' = main, faults' = faults
    PROVE  SentTypes'
<1>1. PICK c \in MsgId, ids \in [New(toSend) -> nextMsgId..MaxMsgId] :
        ContainerSent(c, ids)
  BY DEF SendContainer
<1> DEFINE stateId == IF stateRequest = {} THEN {} ELSE {c - 1}
           sent == {Stamped(r, ids) : r \in toSend}
<1>2. /\ toSend \subseteq Requests
      /\ nextMsgId \in Nat \ {0} /\ nextMsgId <= c /\ c \in Nat /\ c <= MaxMsgId
  BY <1>1 DEF ContainerSent, TypeOK, MapsType, ServerType, MsgId
<1>3. \A r \in toSend : Stamped(r, ids) \in MsgId
  BY <1>1, <1>2 DEF Stamped, New, TypeOK, MapsType, MsgId, NoMsg
<1>4. stateId \subseteq MsgId /\ sent \subseteq MsgId
  BY <1>1, <1>2, <1>3 DEF ContainerSent, MsgId
<1>5. /\ inner' \in [Requests -> 0..MaxMsgId]
      /\ dated' \in [Requests -> BOOLEAN]
  <2>1. \A r \in toSend : Stamped(r, ids) \in 0..MaxMsgId
    BY <1>3 DEF MsgId
  <2>2. inner' = [r \in Requests |-> IF r \in toSend THEN Stamped(r, ids) ELSE inner[r]]
    BY <1>1 DEF ContainerSent
  <2>3. dated' = [r \in Requests |-> IF r \in toSend THEN TRUE ELSE dated[r]]
    BY <1>1 DEF ContainerSent
  <2> QED
    BY <2>1, <2>2, <2>3 DEF TypeOK, MapsType
<1>6. haveSent' \in [MsgId -> Requests \cup {NoReq}]
  <2> SUFFICES ASSUME NEW m \in sent
               PROVE  (CHOOSE r \in toSend : Stamped(r, ids) = m) \in Requests
    BY <1>1 DEF ContainerSent, TypeOK, MapsType
  <2> QED
    BY <1>2
<1>7. /\ containers' \in [MsgId -> SUBSET MsgId]
      /\ stateReqs' \in [MsgId -> SUBSET MsgId]
      /\ toResend' \in [MsgId -> Requests \cup {NoReq}]
  BY <1>1, <1>4 DEF ContainerSent, TypeOK, MapsType
<1>8. MapsType'
  BY <1>5, <1>6, <1>7 DEF SendContainer, TypeOK, MapsType
<1>9. ThreadsType'
  BY DEF SendContainer, TypeOK, ThreadsType
<1>10. ServerType'
  <2>1. nextMsgId' = c + 1 /\ delivered' = delivered \cup sent \cup stateId \cup {c}
        /\ stale' = stale \ sent
    BY <1>1 DEF ContainerSent
  <2>2. nextMsgId' \in 1..(MaxMsgId + 1)
    BY <1>2, <2>1
  <2> HIDE DEF sent, stateId
  <2> QED
    BY <1>4, <2>1, <2>2 DEF TypeOK, ServerType
<1> QED
  BY <1>8, <1>9, <1>10 DEF SentTypes

\* Every step keeps the types.
LEMMA TypeStep == ASSUME TypeOK, HeldOK, [Next]_vars PROVE TypeOK'
<1> USE DEF TypeOK, MsgId, NoMsg, maps, server, link, linkState, posted
<1>1. ASSUME NEW r \in Requests, SendRequest(r) PROVE TypeOK'
  <2>1. RequestsType'
    BY <1>1 DEF SendRequest, RequestsType, MapsType
  <2>2. MapsType'
    BY <1>1 DEF SendRequest, RequestsType, MapsType, ServerType, ThreadsType
  <2>3. FlagsType'
    BY <1>1 DEF SendRequest, FlagsType
  <2>4. ResendsType' /\ ThreadsType' /\ ServerType'
    BY <1>1 DEF SendRequest, ResendsType, ThreadsType, ServerType
  <2> QED
    BY <2>1, <2>2, <2>3, <2>4
<1>2. ASSUME NEW r \in Requests, CancelBegin(r) PROVE TypeOK'
  <2>1. MapsType'
    BY <1>2 DEF HeldOK, CancelBegin, RequestsType, MapsType, ServerType, ThreadsType
  <2>2. ThreadsType'
    BY <1>2 DEF HeldOK, CancelBegin, MapsType, ThreadsType, RequestsType
  <2>3. RequestsType' /\ ResendsType' /\ FlagsType' /\ ServerType'
    BY <1>2 DEF CancelBegin, RequestsType, ResendsType, FlagsType, ServerType
  <2> QED
    BY <2>1, <2>2, <2>3
<1>3. ASSUME NEW r \in Requests, ClearCallbacks(r) PROVE TypeOK'
  <2>1. RequestsType'
    BY <1>3 DEF ClearCallbacks, RequestsType, MapsType
  <2>2. MapsType' /\ ResendsType' /\ FlagsType' /\ ThreadsType' /\ ServerType'
    BY <1>3 DEF ClearCallbacks, MapsType, ResendsType, FlagsType, ThreadsType,
        ServerType
  <2> QED
    BY <2>1, <2>2
<1>4. ASSUME CancelEnd PROVE TypeOK'
  <2>1. RequestsType'
    BY <1>4 DEF HeldOK, CancelEnd, Idle, RequestsType, MapsType
  <2>2. MapsType'
    BY <1>4 DEF HeldOK, CancelEnd, Idle, RequestsType, MapsType, ServerType, ThreadsType
  <2>3. ThreadsType'
    BY <1>4 DEF HeldOK, CancelEnd, Idle, MapsType, ThreadsType, RequestsType
  <2>4. ResendsType' /\ FlagsType' /\ ServerType'
    BY <1>4 DEF CancelEnd, ResendsType, FlagsType, ServerType
  <2> QED
    BY <2>1, <2>2, <2>3, <2>4
<1>5. ASSUME ResendQueue PROVE TypeOK'
  <2>1. MapsType'
    BY <1>5 DEF HeldOK, ResendQueue, RequestsType, MapsType, ServerType, ThreadsType
  <2>2. FlagsType'
    BY <1>5 DEF HeldOK, ResendQueue, FlagsType
  <2>3. ThreadsType'
    BY <1>5 DEF HeldOK, ResendQueue, MapsType, ThreadsType, RequestsType
  <2>4. RequestsType' /\ ResendsType' /\ ServerType'
    BY <1>5 DEF ResendQueue, RequestsType, ResendsType, ServerType
  <2> QED
    BY <2>1, <2>2, <2>3, <2>4
<1>6. ASSUME ResendList PROVE TypeOK'
  <2>1. MapsType'
    BY <1>6 DEF HeldOK, ResendList, Idle, RequestsType, MapsType, ServerType,
        ThreadsType
  <2>2. ThreadsType'
    BY <1>6 DEF HeldOK, ResendList, Idle, MapsType, ThreadsType, RequestsType
  <2>3. RequestsType' /\ ResendsType' /\ FlagsType' /\ ServerType'
    BY <1>6 DEF ResendList, RequestsType, ResendsType, FlagsType, ServerType
  <2> QED
    BY <2>1, <2>2, <2>3
<1>7. ASSUME ResendAll PROVE TypeOK'
  <2>1. ResendsType'
    BY <1>7 DEF ResendAll, SentIds, MapsType, ResendsType, ServerType
  <2>2. FlagsType'
    BY <1>7 DEF ResendAll, SentIds, FlagsType
  <2>3. RequestsType' /\ MapsType' /\ ThreadsType' /\ ServerType'
    BY <1>7 DEF ResendAll, RequestsType, MapsType, ThreadsType, ServerType
  <2> QED
    BY <2>1, <2>2, <2>3
<1>8. ASSUME TryToReceive PROVE TypeOK'
  <2>1. RequestsType'
    BY <1>8 DEF TryToReceive, RequestsType, MapsType
  <2>2. MapsType' /\ ResendsType' /\ FlagsType' /\ ThreadsType' /\ ServerType'
    BY <1>8 DEF TryToReceive, MapsType, ResendsType, FlagsType, ThreadsType, ServerType
  <2> QED
    BY <2>1, <2>2
<1>9. ASSUME NEW m \in MsgId, NEW force \in BOOLEAN, ResendTake(m, force) PROVE TypeOK'
  <2>1. MapsType'
    BY <1>9 DEF ResendTake, Idle, RequestsType, MapsType, ServerType, ThreadsType
  <2>2. ResendsType'
    BY <1>9 DEF ResendTake, Idle, MapsType, ResendsType, ServerType
  <2>3. ThreadsType'
    BY <1>9 DEF ResendTake, Idle, MapsType, ThreadsType, RequestsType
  <2>4. RequestsType' /\ FlagsType' /\ ServerType'
    BY <1>9 DEF ResendTake, RequestsType, FlagsType, ServerType
  <2> QED
    BY <2>1, <2>2, <2>3, <2>4
<1>10. ASSUME NEW ask \in SUBSET Requested, NEW forget \in SUBSET Forgettable,
             CheckRequestsByTimer(ask, forget)
      PROVE  TypeOK'
  <2>1. MapsType'
    BY <1>10 DEF CheckRequestsByTimer, Fault, Requested, Forgettable, RequestsType,
        MapsType, ServerType, ThreadsType
  <2>2. FlagsType'
    BY <1>10 DEF CheckRequestsByTimer, Fault, Requested, Forgettable, FlagsType
  <2>3. ServerType'
    BY <1>10 DEF CheckRequestsByTimer, Fault, Requested, Forgettable, MapsType,
        ServerType
  <2>4. RequestsType' /\ ResendsType' /\ ThreadsType'
    BY <1>10 DEF CheckRequestsByTimer, RequestsType, ResendsType, ThreadsType
  <2> QED
    BY <2>1, <2>2, <2>3, <2>4
<1>11. ASSUME NEW others \in BOOLEAN, TryToSend(others) PROVE TypeOK'
  <2>1. CASE \E r \in toSend : SendAlone(r)
    BY <1>11, <2>1, SendAloneType
    DEF SentTypes, TryToSend, RequestsType, ResendsType, FlagsType, link
  <2>2. CASE SendStateAlone
    BY <1>11, <2>2, SendStateAloneType
    DEF SentTypes, TryToSend, RequestsType, ResendsType, FlagsType, link
  <2>3. CASE SendContainer(others)
    BY <1>11, <2>3, SendContainerType
    DEF SentTypes, TryToSend, RequestsType, ResendsType, FlagsType, link
  <2>4. CASE SendNothing
    BY <1>11, <2>4 DEF TryToSend, SendNothing, RequestsType, MapsType, ResendsType,
        FlagsType,
                       ThreadsType, ServerType
  <2> QED
    BY <1>11, <2>1, <2>2, <2>3, <2>4 DEF TryToSend
<1>12. ASSUME SendAloneEnd PROVE TypeOK'
  <2> DEFINE r == conn.req
             m == IF inner[r] = NoMsg THEN nextMsgId ELSE inner[r]
  <2>0. r \in Requests /\ m \in MsgId
        /\ nextMsgId' = (IF inner[r] = NoMsg THEN nextMsgId + 1 ELSE nextMsgId)
        /\ nextMsgId' \in 1..(MaxMsgId + 1)
    <3>1. r \in Requests
      BY <1>12 DEF SendAloneEnd, HeldOK, RequestsType
    <3>2. inner[r] \in 0..MaxMsgId /\ nextMsgId \in 1..(MaxMsgId + 1)
      BY <3>1 DEF MapsType, ServerType
    <3>3. inner[r] = NoMsg => nextMsgId <= MaxMsgId
      BY <1>12 DEF SendAloneEnd
    <3>4. nextMsgId' = (IF inner[r] = NoMsg THEN nextMsgId + 1 ELSE nextMsgId)
      BY <1>12 DEF SendAloneEnd
    <3> QED
      BY <3>1, <3>2, <3>3, <3>4
  <2>1. RequestsType'
    BY <1>12 DEF SendAloneEnd, RequestsType, MapsType
  <2>2. MapsType'
    BY <1>12, <2>0 DEF SendAloneEnd, MapsType, ServerType
  <2>3. ResendsType'
    BY <1>12 DEF SendAloneEnd, MapsType, ResendsType, ServerType
  <2>4. FlagsType'
    BY <1>12 DEF SendAloneEnd, FlagsType
  <2>5. ThreadsType'
    BY <1>12 DEF SendAloneEnd, ConnIdle, ThreadsType
  <2>6. ServerType'
    <3>1. delivered' = delivered \cup {m} /\ stale' = stale \ {m} /\ faults' = faults
      BY <1>12 DEF SendAloneEnd
    <3> HIDE DEF m
    <3> QED
      BY <2>0, <3>1 DEF ServerType
  <2> QED
    BY <2>1, <2>2, <2>3, <2>4, <2>5, <2>6
<1>13. ASSUME TryToSendEarly PROVE TypeOK'
  <2>1. FlagsType'
    BY <1>13 DEF TryToSendEarly, FlagsType
  <2>2. RequestsType' /\ MapsType' /\ ResendsType' /\ ThreadsType' /\ ServerType'
    BY <1>13 DEF TryToSendEarly, RequestsType, MapsType, ResendsType, ThreadsType,
        ServerType
  <2> QED
    BY <2>1, <2>2
<1>14. ASSUME AckMore PROVE TypeOK'
  <2>1. RequestsAcked(conn.ids, FALSE, ConnIdle)
    BY <1>14 DEF AckMore
  <2>2. ConnIdle \in ConnStates /\ conn.ids \in SUBSET MsgId
    BY DEF ConnIdle, ConnStates, Answering, ThreadsType
  <2> QED
    BY <1>14, <2>1, <2>2, AckedType DEF AckMore, ConnStates, RequestsType, MapsType,
        ResendsType, FlagsType, ThreadsType, ServerType
<1>15. ASSUME SaveResult PROVE TypeOK'
  <2>1. RequestsType'
    <3>1. RequestOf(conn.msg) \in Requests \cup {NoReq}
      BY <1>15 DEF SaveResult, HeldOK, RequestOf, MapsType
    <3> QED
      BY <1>15, <3>1 DEF SaveResult, RequestsType
  <2>2. ThreadsType'
    BY <1>15 DEF HeldOK, SaveResult, ConnIdle, MapsType, ThreadsType, RequestsType
  <2>3. MapsType' /\ ResendsType' /\ FlagsType' /\ ServerType'
    BY <1>15 DEF SaveResult, MapsType, ResendsType, FlagsType, ServerType
  <2> QED
    BY <2>1, <2>2, <2>3
<1>16. ASSUME ConnectToServer PROVE TypeOK'
  <2>1. FlagsType'
    BY <1>16 DEF ConnectToServer, FlagsType
  <2>2. RequestsType' /\ MapsType' /\ ResendsType' /\ ThreadsType' /\ ServerType'
    BY <1>16 DEF ConnectToServer, RequestsType, MapsType, ResendsType, ThreadsType,
        ServerType
  <2> QED
    BY <2>1, <2>2
<1>17. ASSUME Connected PROVE TypeOK'
  <2>1. FlagsType'
    BY <1>17 DEF Connected, FlagsType
  <2>2. RequestsType' /\ MapsType' /\ ResendsType' /\ ThreadsType' /\ ServerType'
    BY <1>17 DEF Connected, RequestsType, MapsType, ResendsType, ThreadsType, ServerType
  <2> QED
    BY <2>1, <2>2
<1>18. ASSUME SessionClear PROVE TypeOK'
  <2>1. RequestsType'
    <3> DEFINE mapped == {haveSent[m] : m \in MsgId} \cup {toResend[m] : m \in MsgId}
                            \cup {wereAcked[m] : m \in MsgId}
    <3>1. mapped \subseteq Requests \cup {NoReq}
      BY DEF MapsType
    <3>2. clearing' = clearing \cup ((mapped \ {NoReq}) \ responses)
      BY <1>18 DEF SessionClear
    <3> HIDE DEF mapped
    <3> QED
      BY <1>18, <3>1, <3>2 DEF SessionClear, RequestsType
  <2>2. ThreadsType'
    BY <1>18 DEF SessionClear, Fault, ClearingMaps, MapsType, ThreadsType, RequestsType
  <2>3. ServerType'
    BY <1>18 DEF SessionClear, Fault, ClearingMaps, MapsType, ServerType
  <2>4. MapsType' /\ ResendsType' /\ FlagsType'
    BY <1>18 DEF SessionClear, MapsType, ResendsType, FlagsType
  <2> QED
    BY <2>1, <2>2, <2>3, <2>4
<1>19. ASSUME SessionClearMaps PROVE TypeOK'
  <2>1. MapsType'
    BY <1>19 DEF SessionClearMaps, ConnIdle, RequestsType, MapsType, ServerType,
        ThreadsType
  <2>2. ThreadsType'
    BY <1>19 DEF SessionClearMaps, ConnIdle, MapsType, ThreadsType, RequestsType
  <2>3. ServerType'
    BY <1>19 DEF SessionClearMaps, ConnIdle, MapsType, ServerType
  <2>4. RequestsType' /\ ResendsType' /\ FlagsType'
    BY <1>19 DEF SessionClearMaps, RequestsType, ResendsType, FlagsType
  <2> QED
    BY <2>1, <2>2, <2>3, <2>4
<1>20. ASSUME NEW reset \in BOOLEAN, Disconnect(reset) PROVE TypeOK'
  <2>1. MapsType'
    BY <1>20 DEF Disconnect, Fault, RequestsType, MapsType, ServerType, ThreadsType
  <2>2. FlagsType'
    BY <1>20 DEF Disconnect, Fault, FlagsType
  <2>3. ServerType'
    <3>1. delivered' \subseteq MsgId /\ stale' \subseteq MsgId
      BY <1>20 DEF Disconnect, ServerType
    <3>2. nextMsgId' = nextMsgId /\ faults' \in 0..MaxFaults
      BY <1>20 DEF Disconnect, Fault, ServerType
    <3> QED
      BY <3>1, <3>2 DEF ServerType
  <2>4. RequestsType' /\ ResendsType' /\ ThreadsType'
    BY <1>20 DEF Disconnect, RequestsType, ResendsType, ThreadsType
  <2> QED
    BY <2>1, <2>2, <2>3, <2>4
<1>21. ASSUME NEW m \in MsgId, ReceiveAck(m) PROVE TypeOK'
  <2>1. RequestsAcked({m}, FALSE, ConnIdle)
    BY <1>21 DEF ReceiveAck
  <2>2. ConnIdle \in ConnStates /\ {m} \in SUBSET MsgId
    BY DEF ConnIdle, ConnStates, Answering, ThreadsType
  <2> QED
    BY <1>21, <2>1, <2>2, AckedType DEF ReceiveAck, ConnStates, RequestsType,
        MapsType, ResendsType, FlagsType, ThreadsType, ServerType
<1>22. ASSUME NEW m \in MsgId, ReceiveResult(m) PROVE TypeOK'
  <2>1. RequestsAcked({m}, TRUE, Answering(m))
    BY <1>22 DEF ReceiveResult
  <2>2. ConnIdle \in ConnStates /\ {m} \in SUBSET MsgId /\ Answering(m) \in ConnStates
    BY DEF ConnIdle, ConnStates, Answering, ThreadsType
  <2> QED
    BY <1>22, <2>1, <2>2, AckedType DEF ReceiveResult, ConnStates, RequestsType,
        MapsType, ResendsType, FlagsType, ThreadsType, ServerType
<1>23. ASSUME NEW m \in MsgId, ReceiveFatal(m) PROVE TypeOK'
  <2>1. RequestsType'
    <3>1. RequestOf(m) \in Requests \cup {NoReq}
      BY DEF RequestOf, MapsType
    <3> QED
      BY <1>23, <3>1 DEF ReceiveFatal, RequestsType
  <2>2. ServerType'
    BY <1>23 DEF ReceiveFatal, MapsType, ServerType
  <2>3. MapsType' /\ ResendsType' /\ FlagsType' /\ ThreadsType'
    BY <1>23 DEF ReceiveFatal, MapsType, ResendsType, FlagsType, ThreadsType
  <2> QED
    BY <2>1, <2>2, <2>3
<1>24. ASSUME NEW m \in MsgId, ReceiveNewSession(m) PROVE TypeOK'
  <2>1. ResendsType'
    BY <1>24 DEF ReceiveNewSession, Fault, SentIds, MapsType, ResendsType, ServerType
  <2>2. ServerType'
    <3>1. delivered' \subseteq MsgId /\ stale' \subseteq MsgId
      BY <1>24 DEF ReceiveNewSession, ServerType
    <3>2. nextMsgId' = nextMsgId /\ faults' \in 0..MaxFaults
      BY <1>24 DEF ReceiveNewSession, Fault, ServerType
    <3> QED
      BY <3>1, <3>2 DEF ServerType
  <2>3. RequestsType' /\ MapsType' /\ FlagsType' /\ ThreadsType'
    BY <1>24 DEF ReceiveNewSession, RequestsType, MapsType, FlagsType, ThreadsType
  <2> QED
    BY <2>1, <2>2, <2>3
<1>25. ASSUME NEW m \in MsgId, ReceiveResendReq(m) PROVE TypeOK'
  <2>1. ResendsType'
    <3>1. <<m, FALSE>> \in MsgId \X BOOLEAN
      OBVIOUS
    <3>2. resends' = resends \cup {<<m, FALSE>>}
      BY <1>25 DEF ReceiveResendReq
    <3> QED
      BY <3>1, <3>2 DEF ResendsType
  <2>2. ServerType'
    BY <1>25 DEF ReceiveResendReq, Fault, MapsType, ServerType
  <2>3. RequestsType' /\ MapsType' /\ FlagsType' /\ ThreadsType'
    BY <1>25 DEF ReceiveResendReq, RequestsType, MapsType, FlagsType, ThreadsType
  <2> QED
    BY <2>1, <2>2, <2>3
<1>26. ASSUME NEW m \in MsgId, NEW force \in BOOLEAN, ReceiveReject(m, force)
      PROVE  TypeOK'
  <2>1. ResendsType'
    BY <1>26 DEF ReceiveReject, Fault, MapsType, ResendsType, ServerType
  <2>2. ServerType'
    <3>1. delivered' \subseteq MsgId /\ stale' \subseteq MsgId
      BY <1>26 DEF ReceiveReject, ServerType
    <3>2. nextMsgId' = nextMsgId /\ faults' \in 0..MaxFaults
      BY <1>26 DEF ReceiveReject, Fault, ServerType
    <3> QED
      BY <3>1, <3>2 DEF ServerType
  <2>3. RequestsType' /\ MapsType' /\ FlagsType' /\ ThreadsType'
    BY <1>26 DEF ReceiveReject, RequestsType, MapsType, FlagsType, ThreadsType
  <2> QED
    BY <2>1, <2>2, <2>3
<1>27. ASSUME NEW m \in MsgId, NEW got \in SUBSET (stateReqs[m] \cap delivered),
             ReceiveStateInfo(m, got)
      PROVE  TypeOK'
  BY <1>27, StatesType DEF ReceiveStateInfo, MapsType
<1>28. ASSUME NEW m \in MsgId, NEW got \in SUBSET ({m} \cap delivered), ReceiveAllInfo(m, got)
      PROVE  TypeOK'
  BY <1>28, StatesType DEF ReceiveAllInfo, MapsType
<1>29. CASE UNCHANGED vars
  BY <1>29 DEF RequestsType, MapsType, ResendsType, FlagsType, ThreadsType, ServerType, vars
<1> QED
  BY <1>1, <1>2, <1>3, <1>4, <1>5, <1>6, <1>7, <1>8, <1>9, <1>10, <1>11, <1>12, <1>13,
      <1>14, <1>15, <1>16, <1>17, <1>18, <1>19, <1>20, <1>21, <1>22, <1>23, <1>24,
      <1>25, <1>26, <1>27, <1>28, <1>29 DEF Next, MainNext, ConnNext, ServerNext
-----------------------------------------------------------------------------

\* Ids are never taken back, so what the main thread holds keeps its id.
LEMMA HeldKept ==
    ASSUME TypeOK, HeldOK, main' = main, started' = started,
           conn'.pc = "alone" => conn'.req \in started',
           conn'.pc = "answer" => conn'.msg \in MsgId,
           \A r \in Requests : inner[r] # NoMsg => inner'[r] = inner[r]
    PROVE  HeldOK'
<1>1. ASSUME main.pc \in {"taken", "queued"}
      PROVE  main.msg \in MsgId /\ main.req \in Requests /\ inner'[main.req] = main.msg
  <2>1. main.msg \in MsgId /\ main.req \in Requests /\ inner[main.req] = main.msg
    BY <1>1 DEF HeldOK
  <2>2. main.msg # NoMsg
    BY <2>1 DEF MsgId, NoMsg
  <2> QED
    BY <2>1, <2>2
<1>2. ASSUME main.pc = "cancel"
      PROVE  main.req \in started /\ main.msg \in {NoMsg, inner'[main.req]}
  BY <1>2 DEF HeldOK, TypeOK, RequestsType
<1> QED
  BY <1>1, <1>2 DEF HeldOK

\* What a thread holds stays where it was.
LEMMA HeldStep ==
    ASSUME TypeOK, HeldOK, IdsOK, AnswersReachTheirRequest, [Next]_vars
    PROVE  HeldOK'
<1> USE DEF HeldOK, maps, server, link, linkState, posted
<1>0. CASE UNCHANGED <<main, conn, inner, started>>
  BY <1>0
<1>1. ASSUME NEW r \in Requests, SendRequest(r) PROVE HeldOK'
  BY <1>1 DEF SendRequest, IdsOK, TypeOK, RequestsType, MapsType
<1>2. ASSUME NEW r \in Requests, CancelBegin(r) PROVE HeldOK'
  BY <1>2 DEF CancelBegin, TypeOK, RequestsType
<1>3. ASSUME CancelEnd PROVE HeldOK'
  BY <1>3 DEF CancelEnd, Idle
<1>4. ASSUME ResendQueue PROVE HeldOK'
  BY <1>4 DEF ResendQueue, TypeOK, ThreadsType
<1>5. ASSUME ResendList PROVE HeldOK'
  BY <1>5 DEF ResendList, Idle
<1>6. ASSUME NEW m \in MsgId, NEW force \in BOOLEAN, ResendTake(m, force) PROVE HeldOK'
  <2>1. CASE haveSent[m] = NoReq
    BY <1>6, <2>1 DEF ResendTake, Idle
  <2>2. CASE haveSent[m] # NoReq
    <3>1. haveSent[m] \in Requests /\ inner[haveSent[m]] = m
      <4>1. haveSent[m] \in Requests
        BY <2>2 DEF TypeOK, MapsType
      <4> QED
        BY <4>1 DEF AnswersReachTheirRequest
    <3> QED
      BY <1>6, <2>2, <3>1 DEF ResendTake
  <2> QED
    BY <2>1, <2>2
<1>7. ASSUME NEW others \in BOOLEAN, TryToSend(others) PROVE HeldOK'
  <2>1. \A r \in Requests : inner[r] # NoMsg => inner'[r] = inner[r]
    BY <1>7 DEF TryToSend, SendNothing, SendAlone, SendStateAlone, SendContainer,
        ContainerSent, Stamped
  <2>2. /\ main' = main /\ started' = started
        /\ conn' = conn \/ \E r \in toSend : conn' = Sending(r)
    BY <1>7 DEF TryToSend, SendNothing, SendAlone, SendStateAlone, SendContainer
  <2> QED
    BY <2>1, <2>2, HeldKept DEF IdsOK, Sending
<1>8. ASSUME SendAloneEnd PROVE HeldOK'
  <2>1. conn.req \in Requests
    BY <1>8 DEF SendAloneEnd, TypeOK, RequestsType
  <2>2. \A r \in Requests : inner[r] # NoMsg => inner'[r] = inner[r]
    BY <1>8, <2>1 DEF SendAloneEnd, TypeOK, MapsType
  <2>3. main' = main /\ started' = started /\ conn' = ConnIdle
    BY <1>8 DEF SendAloneEnd
  <2> QED
    BY <2>2, <2>3, HeldKept DEF ConnIdle
<1>9. ASSUME AckMore PROVE HeldOK'
  BY <1>9 DEF AckMore, RequestsAcked, ConnIdle, AckingMore
<1>10. ASSUME SaveResult PROVE HeldOK'
  BY <1>10 DEF SaveResult, ConnIdle
<1>11. ASSUME SessionClear PROVE HeldOK'
  BY <1>11 DEF SessionClear, ClearingMaps
<1>12. ASSUME SessionClearMaps PROVE HeldOK'
  BY <1>12 DEF SessionClearMaps, ConnIdle
<1>13. ASSUME NEW m \in MsgId, ReceiveAck(m) PROVE HeldOK'
  BY <1>13 DEF ReceiveAck, RequestsAcked, ConnIdle, AckingMore
<1>14. ASSUME NEW m \in MsgId, ReceiveResult(m) PROVE HeldOK'
  BY <1>14 DEF ReceiveResult, RequestsAcked, Answering, AckingMore
<1>15. ASSUME NEW m \in MsgId, NEW got \in SUBSET (stateReqs[m] \cap delivered),
             ReceiveStateInfo(m, got)
      PROVE  HeldOK'
  BY <1>15 DEF ReceiveStateInfo, HandleMsgsStates, RequestsAcked, ConnIdle, AckingMore
<1>16. ASSUME NEW m \in MsgId, NEW got \in SUBSET ({m} \cap delivered), ReceiveAllInfo(m, got)
      PROVE  HeldOK'
  BY <1>16 DEF ReceiveAllInfo, HandleMsgsStates, RequestsAcked, ConnIdle, AckingMore
<1>17. CASE UNCHANGED vars
  BY <1>0, <1>17 DEF vars
<1> QED
  BY <1>0, <1>1, <1>2, <1>3, <1>4, <1>5, <1>6, <1>7, <1>8, <1>9, <1>10, <1>11, <1>12,
      <1>13, <1>14, <1>15, <1>16, <1>17
  DEF Next, MainNext, ConnNext, ServerNext, ClearCallbacks, ResendAll, TryToReceive,
      CheckRequestsByTimer, TryToSendEarly, ConnectToServer, Connected, Disconnect,
      ReceiveFatal, ReceiveNewSession, ReceiveResendReq, ReceiveReject

\* A message of a dead connection keeps waiting for resendAll().
LEMMA StaleStep == ASSUME TypeOK, StaleOK, [Next]_vars PROVE StaleOK'
<1> USE DEF StaleOK, maps, server, link, linkState, posted
<1>0. CASE UNCHANGED <<connState, restarted, stale, haveSent, resendAllPosted, resends>>
  BY <1>0
<1>1. ASSUME CancelEnd PROVE StaleOK'
  <2>1. \A m \in MsgId : haveSent'[m] \in {haveSent[m], NoReq}
    BY <1>1 DEF CancelEnd
  <2>2. UNCHANGED <<connState, restarted, stale, resendAllPosted, resends>>
    BY <1>1 DEF CancelEnd
  <2> QED
    BY <2>1, <2>2 DEF TypeOK, ServerType
<1>2. ASSUME ResendAll PROVE StaleOK'
  BY <1>2 DEF ResendAll, SentIds, TypeOK, ServerType
<1>3. ASSUME NEW m \in MsgId, NEW force \in BOOLEAN, ResendTake(m, force) PROVE StaleOK'
  <2>1. haveSent'[m] = NoReq /\ \A k \in MsgId : k # m => haveSent'[k] = haveSent[k]
    BY <1>3 DEF ResendTake, TypeOK, MapsType
  <2>2. \A k \in MsgId, f \in BOOLEAN : k # m /\ <<k, f>> \in resends => <<k, f>> \in resends'
    BY <1>3 DEF ResendTake
  <2>3. UNCHANGED <<connState, restarted, stale, resendAllPosted>>
    BY <1>3 DEF ResendTake
  <2> QED
    BY <2>1, <2>2, <2>3 DEF TypeOK, ServerType
<1>4. ASSUME NEW others \in BOOLEAN, TryToSend(others) PROVE StaleOK'
  <2>1. /\ UNCHANGED <<connState, restarted, resendAllPosted, resends>>
        /\ stale' \subseteq stale
        /\ \A m \in MsgId : m \in stale' => haveSent'[m] = haveSent[m]
    <3>1. CASE SendNothing \/ SendStateAlone \/ \E r \in toSend : SendAlone(r)
      BY <1>4, <3>1 DEF TryToSend, SendNothing, SendStateAlone, SendAlone
    <3>2. CASE SendContainer(others)
      BY <1>4, <3>2 DEF TryToSend, SendContainer, ContainerSent
    <3> QED
      BY <1>4, <3>1, <3>2 DEF TryToSend
  <2> QED
    BY <2>1 DEF TypeOK, ServerType
<1>5. ASSUME SendAloneEnd PROVE StaleOK'
  BY <1>5 DEF SendAloneEnd, TypeOK, MapsType, ServerType
<1>6. ASSUME AckMore PROVE StaleOK'
  BY <1>6 DEF AckMore, RequestsAcked, TypeOK, ServerType
<1>7. ASSUME ConnectToServer PROVE StaleOK'
  BY <1>7 DEF ConnectToServer
<1>8. ASSUME Connected PROVE StaleOK'
  BY <1>8 DEF Connected
<1>9. ASSUME SessionClearMaps PROVE StaleOK'
  BY <1>9 DEF SessionClearMaps, TypeOK, ServerType
<1>10. ASSUME NEW reset \in BOOLEAN, Disconnect(reset) PROVE StaleOK'
  BY <1>10 DEF Disconnect
<1>11. ASSUME NEW m \in MsgId, ReceiveAck(m) PROVE StaleOK'
  BY <1>11 DEF ReceiveAck, RequestsAcked, TypeOK, ServerType
<1>12. ASSUME NEW m \in MsgId, ReceiveResult(m) PROVE StaleOK'
  BY <1>12 DEF ReceiveResult, RequestsAcked, TypeOK, ServerType
<1>13. ASSUME NEW m \in MsgId, ReceiveNewSession(m) PROVE StaleOK'
  BY <1>13 DEF ReceiveNewSession
<1>14. ASSUME NEW m \in MsgId, ReceiveResendReq(m) PROVE StaleOK'
  BY <1>14 DEF ReceiveResendReq
<1>15. ASSUME NEW m \in MsgId, NEW force \in BOOLEAN, ReceiveReject(m, force) PROVE StaleOK'
  BY <1>15 DEF ReceiveReject
<1>16. ASSUME NEW m \in MsgId, NEW got \in SUBSET (stateReqs[m] \cap delivered),
             ReceiveStateInfo(m, got)
      PROVE  StaleOK'
  BY <1>16 DEF ReceiveStateInfo, HandleMsgsStates, RequestsAcked, TypeOK, ServerType
<1>17. ASSUME NEW m \in MsgId, NEW got \in SUBSET ({m} \cap delivered), ReceiveAllInfo(m, got)
      PROVE  StaleOK'
  BY <1>17 DEF ReceiveAllInfo, HandleMsgsStates, RequestsAcked, TypeOK, ServerType
<1>18. CASE UNCHANGED vars
  BY <1>0, <1>18 DEF vars
<1> QED
  BY <1>0, <1>1, <1>2, <1>3, <1>4, <1>5, <1>6, <1>7, <1>8, <1>9, <1>10, <1>11, <1>12,
      <1>13, <1>14, <1>15, <1>16, <1>17, <1>18
  DEF Next, MainNext, ConnNext, ServerNext, SendRequest, CancelBegin, ClearCallbacks,
      ResendQueue, ResendList, TryToReceive, CheckRequestsByTimer, TryToSendEarly,
      SaveResult, SessionClear, ReceiveFatal

\* A wake-up is never lost.
LEMMA WakeUpStep == ASSUME NoForgottenWakeUp, [Next]_vars PROVE NoForgottenWakeUp'
<1> USE DEF NoForgottenWakeUp, maps, server, link, linkState, posted
<1>0. CASE UNCHANGED <<connState, toSend, stateRequest, sendDue>>
  BY <1>0
<1>1. ASSUME NEW r \in Requests, SendRequest(r) PROVE NoForgottenWakeUp'
  BY <1>1 DEF SendRequest
<1>2. ASSUME NEW r \in Requests, CancelBegin(r) PROVE NoForgottenWakeUp'
  BY <1>2 DEF CancelBegin
<1>3. ASSUME ResendQueue PROVE NoForgottenWakeUp'
  BY <1>3 DEF ResendQueue
<1>4. ASSUME NEW ask \in SUBSET Requested, NEW forget \in SUBSET Forgettable,
             CheckRequestsByTimer(ask, forget)
      PROVE  NoForgottenWakeUp'
  BY <1>4 DEF CheckRequestsByTimer
<1>5. ASSUME NEW others \in BOOLEAN, TryToSend(others) PROVE NoForgottenWakeUp'
  BY <1>5 DEF TryToSend, SendNothing, SendAlone, SendStateAlone, SendContainer
<1>6. ASSUME TryToSendEarly PROVE NoForgottenWakeUp'
  BY <1>6 DEF TryToSendEarly
<1>7. ASSUME AckMore PROVE NoForgottenWakeUp'
  BY <1>7 DEF AckMore, RequestsAcked
<1>8. ASSUME ConnectToServer PROVE NoForgottenWakeUp'
  BY <1>8 DEF ConnectToServer
<1>9. ASSUME Connected PROVE NoForgottenWakeUp'
  BY <1>9 DEF Connected
<1>10. ASSUME NEW reset \in BOOLEAN, Disconnect(reset) PROVE NoForgottenWakeUp'
  BY <1>10 DEF Disconnect
<1>11. ASSUME NEW m \in MsgId, ReceiveAck(m) PROVE NoForgottenWakeUp'
  BY <1>11 DEF ReceiveAck, RequestsAcked
<1>12. ASSUME NEW m \in MsgId, ReceiveResult(m) PROVE NoForgottenWakeUp'
  BY <1>12 DEF ReceiveResult, RequestsAcked
<1>13. ASSUME NEW m \in MsgId, NEW got \in SUBSET (stateReqs[m] \cap delivered),
             ReceiveStateInfo(m, got)
      PROVE  NoForgottenWakeUp'
  BY <1>13 DEF ReceiveStateInfo, HandleMsgsStates, RequestsAcked
<1>14. ASSUME NEW m \in MsgId, NEW got \in SUBSET ({m} \cap delivered), ReceiveAllInfo(m, got)
      PROVE  NoForgottenWakeUp'
  BY <1>14 DEF ReceiveAllInfo, HandleMsgsStates, RequestsAcked
<1>15. CASE UNCHANGED vars
  BY <1>0, <1>15 DEF vars
<1> QED
  BY <1>0, <1>1, <1>2, <1>3, <1>4, <1>5, <1>6, <1>7, <1>8, <1>9, <1>10, <1>11, <1>12,
      <1>13, <1>14, <1>15
  DEF Next, MainNext, ConnNext, ServerNext, ClearCallbacks, CancelEnd, ResendList,
      ResendAll, TryToReceive, ResendTake, SendAloneEnd, SaveResult, SessionClear,
      SessionClearMaps, ReceiveFatal, ReceiveNewSession, ReceiveResendReq,
      ReceiveReject
-----------------------------------------------------------------------------
(***************************************************************************)
(* Who is where.                                                           *)
(***************************************************************************)

\* The steps that run requestsAcked(): either no response is involved, or it is the
\* answer to one message that carries a request.
AckStep ==
    \/ AckMore
    \/ \E m \in MsgId :
        \/ ReceiveAck(m) \/ ReceiveResult(m)
        \/ \E got \in SUBSET (stateReqs[m] \cap delivered) : ReceiveStateInfo(m, got)
        \/ \E got \in SUBSET ({m} \cap delivered) : ReceiveAllInfo(m, got)

Acks(ids, byResponse, after) ==
    /\ RequestsAcked(ids, byResponse, after)
    /\ \/ ~byResponse /\ after = ConnIdle
       \/ \E m \in MsgId, r \in Requests :
            byResponse /\ ids = {m} /\ after = Answering(m) /\ inner[r] = m

LEMMA AckStepActs ==
    ASSUME TypeOK, AckStep
    PROVE  /\ \E ids \in SUBSET MsgId, byResponse \in BOOLEAN, after \in ConnStates :
                Acks(ids, byResponse, after)
           /\ UNCHANGED <<started, callbacks, inner, nextMsgId, main, stateRequest, responses>>
           /\ conn.pc \in {"idle", "ackMore"}
<1> USE DEF server, link, linkState, Receiving
<1>0. ConnIdle \in ConnStates /\ \A m \in MsgId : Answering(m) \in ConnStates
  BY DEF ConnIdle, Answering, ConnStates, MsgId, NoMsg
<1>1. CASE AckMore
  <2>1. conn.ids \in SUBSET MsgId /\ Acks(conn.ids, FALSE, ConnIdle)
    BY <1>1 DEF AckMore, Acks, TypeOK, ThreadsType
  <2> QED
    BY <1>0, <1>1, <2>1 DEF AckMore
<1>2. ASSUME NEW m \in MsgId, ReceiveAck(m)
      PROVE  Acks({m}, FALSE, ConnIdle)
  BY <1>2 DEF ReceiveAck, Acks
<1>3. ASSUME NEW m \in MsgId, ReceiveResult(m)
      PROVE  Acks({m}, TRUE, Answering(m))
  BY <1>3 DEF ReceiveResult, Acks
<1>4. ASSUME NEW m \in MsgId, NEW got, got \subseteq MsgId,
             ReceiveStateInfo(m, got) \/ ReceiveAllInfo(m, got)
      PROVE  \E ids \in SUBSET MsgId : Acks(ids, FALSE, ConnIdle)
  <2> DEFINE known == {k \in got : InHaveSent(k) \/ toResend[k] # NoReq}
  <2>1. known \in SUBSET MsgId
    BY <1>4
  <2>2. Acks(known, FALSE, ConnIdle)
    BY <1>4 DEF ReceiveStateInfo, ReceiveAllInfo, HandleMsgsStates, Acks
  <2> QED
    BY <2>1, <2>2
<1>5. CASE \E m \in MsgId : ReceiveAck(m)
  BY <1>0, <1>2, <1>5 DEF ReceiveAck
<1>6. CASE \E m \in MsgId : ReceiveResult(m)
  <2>1. PICK m \in MsgId : ReceiveResult(m)
    BY <1>6
  <2>2. {m} \in SUBSET MsgId /\ TRUE \in BOOLEAN /\ Answering(m) \in ConnStates
    BY <1>0
  <2>3. Acks({m}, TRUE, Answering(m))
    BY <1>3, <2>1
  <2>4. \E ids \in SUBSET MsgId, byResponse \in BOOLEAN, after \in ConnStates :
            Acks(ids, byResponse, after)
    BY <2>2, <2>3
  <2> QED
    BY <2>1, <2>4 DEF ReceiveResult
<1>7. ASSUME NEW m \in MsgId, NEW got, got \subseteq MsgId,
             ReceiveStateInfo(m, got) \/ ReceiveAllInfo(m, got)
      PROVE  /\ UNCHANGED <<started, callbacks, inner, nextMsgId, main, stateRequest,
                            responses>>
             /\ conn.pc = "idle"
  BY <1>7 DEF ReceiveStateInfo, ReceiveAllInfo, HandleMsgsStates
<1>8. CASE \E m \in MsgId :
            \/ \E got \in SUBSET (stateReqs[m] \cap delivered) : ReceiveStateInfo(m, got)
            \/ \E got \in SUBSET ({m} \cap delivered) : ReceiveAllInfo(m, got)
  <2>1. PICK m \in MsgId, got \in SUBSET MsgId :
            ReceiveStateInfo(m, got) \/ ReceiveAllInfo(m, got)
    BY <1>8 DEF TypeOK, ServerType
  <2>2. got \subseteq MsgId
    OBVIOUS
  <2>3. \E ids \in SUBSET MsgId : Acks(ids, FALSE, ConnIdle)
    BY <1>4, <2>1, <2>2
  <2> QED
    BY <1>0, <1>7, <2>1, <2>2, <2>3
<1> QED
  BY <1>1, <1>5, <1>6, <1>8 DEF AckStep

\* Entries only leave the maps, or move into _wereAcked.
MapsShrink ==
    /\ toSend' \subseteq toSend
    /\ \A m \in MsgId :
        /\ haveSent'[m] \in {haveSent[m], NoReq}
        /\ toResend'[m] \in {toResend[m], NoReq}
        /\ wereAcked'[m] \in {haveSent[m], toResend[m], wereAcked[m], NoReq}
        /\ containers'[m] \in {containers[m], {}}
        /\ stateReqs'[m] \in {stateReqs[m], {}}

LEMMA AckedShrinks ==
    ASSUME TypeOK, NEW ids \in SUBSET MsgId, NEW byResponse, NEW after,
           RequestsAcked(ids, byResponse, after)
    PROVE  MapsShrink
<1>1. \A m \in MsgId :
        wereAcked'[m] \in {haveSent[m], toResend[m], wereAcked[m], NoReq}
  BY DEF RequestsAcked, AckedMap
<1> QED
  BY <1>1 DEF RequestsAcked, MapsShrink, TypeOK, MapsType

LEMMA AckStepShrinks ==
    ASSUME TypeOK, AckStep
    PROVE  /\ MapsShrink
           /\ UNCHANGED <<started, callbacks, inner, nextMsgId, main, stateRequest, responses>>
           /\ conn.pc \in {"idle", "ackMore"}
           /\ conn'.pc \in {"idle", "ackMore", "answer"}
<1>1. PICK ids \in SUBSET MsgId, byResponse \in BOOLEAN, after \in ConnStates :
        Acks(ids, byResponse, after)
  BY AckStepActs
<1>2. MapsShrink
  BY <1>1, AckedShrinks DEF Acks
<1>3. conn'.pc \in {"idle", "ackMore", "answer"}
  BY <1>1 DEF Acks, RequestsAcked, ConnIdle, AckingMore, Answering
<1> QED
  BY <1>2, <1>3, AckStepActs

\* What sending the requests rs does: each is listed in _haveSent under the id it
\* already had, or under a new one.
Sends(rs) ==
    /\ nextMsgId' >= nextMsgId
    /\ \A r \in Requests \ rs : inner'[r] = inner[r]
    /\ \A r \in rs : /\ inner'[r] \in MsgId /\ inner'[r] < nextMsgId'
                     /\ IF inner[r] = NoMsg THEN inner'[r] >= nextMsgId
                                            ELSE inner'[r] = inner[r]
    /\ \A q, r \in rs : inner'[q] = inner'[r] => q = r
    /\ \A r \in rs : haveSent'[inner'[r]] = r
    /\ \A m \in MsgId : (\A r \in rs : inner'[r] # m) => haveSent'[m] = haveSent[m]
    /\ \A m \in MsgId : toResend'[m] \in {toResend[m], NoReq}
    /\ UNCHANGED <<started, callbacks, wereAcked, responses, clearing, main>>

LEMMA SendAloneEndSends ==
    ASSUME TypeOK, HeldOK, IdsOK, SendAloneEnd
    PROVE  Sends({conn.req})
<1> DEFINE r == conn.req
           m == IF inner[r] = NoMsg THEN nextMsgId ELSE inner[r]
<1>1. r \in Requests
  BY DEF SendAloneEnd, HeldOK, TypeOK, RequestsType
<1>2. /\ inner[r] \in 0..MaxMsgId /\ inner[r] < nextMsgId
      /\ nextMsgId \in 1..(MaxMsgId + 1)
      /\ inner[r] = NoMsg => nextMsgId <= MaxMsgId
  BY <1>1 DEF SendAloneEnd, TypeOK, MapsType, ServerType, IdsOK
<1>3. m \in MsgId
  BY <1>2 DEF MsgId, NoMsg
<1>4. /\ inner' = [inner EXCEPT ![r] = m]
      /\ nextMsgId' = IF inner[r] = NoMsg THEN nextMsgId + 1 ELSE nextMsgId
      /\ toResend' = [toResend EXCEPT ![m] = NoReq]
      /\ haveSent' = [haveSent EXCEPT ![m] = r]
      /\ UNCHANGED <<started, callbacks, wereAcked, responses, clearing, main>>
  BY DEF SendAloneEnd, posted
<1>5. inner'[r] = m /\ \A q \in Requests : q # r => inner'[q] = inner[q]
  BY <1>1, <1>4 DEF TypeOK, MapsType
<1>6. /\ nextMsgId' >= nextMsgId /\ m < nextMsgId'
      /\ IF inner[r] = NoMsg THEN m >= nextMsgId ELSE m = inner[r]
  BY <1>2, <1>4
<1>7. haveSent'[m] = r /\ \A k \in MsgId : k # m => haveSent'[k] = haveSent[k]
  BY <1>3, <1>4 DEF TypeOK, MapsType
<1>8. \A k \in MsgId : toResend'[k] \in {toResend[k], NoReq}
  BY <1>4 DEF TypeOK, MapsType
<1> HIDE DEF m
<1> QED
  BY <1>1, <1>3, <1>4, <1>5, <1>6, <1>7, <1>8 DEF Sends

LEMMA SendContainerSends ==
    ASSUME TypeOK, IdsOK, AnswersReachTheirRequest, NEW others, SendContainer(others),
           UNCHANGED <<started, callbacks, wereAcked, responses, clearing, main>>
    PROVE  Sends(toSend)
<1>1. PICK c \in MsgId, ids \in [New(toSend) -> nextMsgId..MaxMsgId] :
        ContainerSent(c, ids)
  BY DEF SendContainer
<1>2. /\ toSend \subseteq Requests
      /\ nextMsgId \in Nat \ {0} /\ nextMsgId <= c /\ c \in Nat /\ c <= MaxMsgId
      /\ nextMsgId' = c + 1
  BY <1>1 DEF ContainerSent, TypeOK, MapsType, ServerType, MsgId
<1>3. \A r \in New(toSend) : ids[r] \in ContentIds(c)
  BY <1>1 DEF ContainerSent
<1>4. \A r \in toSend :
        /\ Stamped(r, ids) \in MsgId /\ Stamped(r, ids) < nextMsgId'
        /\ IF inner[r] = NoMsg THEN Stamped(r, ids) >= nextMsgId
                               ELSE Stamped(r, ids) = inner[r]
  <2> SUFFICES ASSUME NEW r \in toSend
               PROVE  /\ Stamped(r, ids) \in MsgId /\ Stamped(r, ids) < nextMsgId'
                      /\ IF inner[r] = NoMsg THEN Stamped(r, ids) >= nextMsgId
                                             ELSE Stamped(r, ids) = inner[r]
    OBVIOUS
  <2>1. CASE inner[r] = NoMsg
    <3>1. ids[r] \in nextMsgId..(c - 1)
      BY <1>3, <2>1 DEF New, ContentIds
    <3> QED
      BY <1>2, <2>1, <3>1 DEF Stamped, MsgId
  <2>2. CASE inner[r] # NoMsg
    <3>1. inner[r] \in 0..MaxMsgId /\ inner[r] < nextMsgId
      BY <1>2 DEF TypeOK, MapsType, IdsOK
    <3> QED
      BY <1>2, <2>2, <3>1 DEF Stamped, MsgId, NoMsg
  <2> QED
    BY <2>1, <2>2
<1>5. \A q, r \in toSend : Stamped(q, ids) = Stamped(r, ids) => q = r
  <2> SUFFICES ASSUME NEW q \in toSend, NEW r \in toSend, q # r
               PROVE  Stamped(q, ids) # Stamped(r, ids)
    OBVIOUS
  <2>1. CASE inner[q] = NoMsg /\ inner[r] = NoMsg
    <3>1. q \in New(toSend) /\ r \in New(toSend)
      BY <2>1 DEF New
    <3>2. q \in Nat /\ r \in Nat
      BY <1>2
    <3>3. ids[q] < ids[r] \/ ids[r] < ids[q]
      BY <1>1, <3>1, <3>2 DEF ContainerSent
    <3>4. ids[q] \in Nat /\ ids[r] \in Nat
      BY <1>2, <1>3, <3>1 DEF ContentIds
    <3> QED
      BY <2>1, <3>3, <3>4 DEF Stamped
  <2>2. CASE inner[q] # NoMsg /\ inner[r] # NoMsg
    BY <1>2, <2>2 DEF Stamped, AnswersReachTheirRequest
  <2>3. CASE (inner[q] = NoMsg) # (inner[r] = NoMsg)
    <3>1. /\ inner[q] \in Nat /\ inner[q] < nextMsgId
          /\ inner[r] \in Nat /\ inner[r] < nextMsgId
      BY <1>2 DEF TypeOK, MapsType, IdsOK
    <3>2. Stamped(q, ids) \in Nat /\ Stamped(r, ids) \in Nat
      BY <1>4 DEF MsgId
    <3> QED
      BY <1>2, <1>4, <2>3, <3>1, <3>2
  <2> QED
    BY <2>1, <2>2, <2>3
<1>6. /\ \A r \in Requests \ toSend : inner'[r] = inner[r]
      /\ \A r \in toSend : inner'[r] = Stamped(r, ids)
  BY <1>1, <1>2 DEF ContainerSent
<1>7. \A r \in toSend : haveSent'[Stamped(r, ids)] = r
  <2> SUFFICES ASSUME NEW r \in toSend PROVE haveSent'[Stamped(r, ids)] = r
    OBVIOUS
  <2>1. haveSent'[Stamped(r, ids)] =
            CHOOSE q \in toSend : Stamped(q, ids) = Stamped(r, ids)
    BY <1>1, <1>4 DEF ContainerSent
  <2> QED
    BY <1>5, <2>1
<1>8. \A m \in MsgId : (\A r \in toSend : Stamped(r, ids) # m) => haveSent'[m] = haveSent[m]
  BY <1>1 DEF ContainerSent
<1>9. \A m \in MsgId : toResend'[m] \in {toResend[m], NoReq}
  BY <1>1 DEF ContainerSent
<1>10. nextMsgId' >= nextMsgId
  BY <1>2
<1> QED
  BY <1>4, <1>5, <1>6, <1>7, <1>8, <1>9, <1>10 DEF Sends
\* Ids are handed out once.
LEMMA IdsStep ==
    ASSUME TypeOK, HeldOK, IdsOK, AnswersReachTheirRequest, [Next]_vars
    PROVE  IdsOK'
<1> USE DEF IdsOK, maps, server, link, linkState, posted
<1>0. CASE UNCHANGED <<toSend, started, inner, nextMsgId, containers, stateReqs>>
  BY <1>0
<1>1. ASSUME NEW r \in Requests, SendRequest(r) PROVE IdsOK'
  <2>1. inner' = inner
    BY <1>1 DEF SendRequest, TypeOK, MapsType
  <2> QED
    BY <1>1, <2>1 DEF SendRequest
<1>2. ASSUME NEW r \in Requests, CancelBegin(r) PROVE IdsOK'
  BY <1>2 DEF CancelBegin
<1>3. ASSUME ResendQueue PROVE IdsOK'
  <2>1. main.req \in Requests /\ inner[main.req] # NoMsg
    BY <1>3 DEF ResendQueue, HeldOK, MsgId, NoMsg
  <2>2. /\ toSend' = toSend \cup {main.req}
        /\ UNCHANGED <<started, inner, nextMsgId, containers, stateReqs>>
    BY <1>3 DEF ResendQueue
  <2> QED
    BY <2>1, <2>2
<1>4. ASSUME NEW m \in MsgId, NEW force \in BOOLEAN, ResendTake(m, force) PROVE IdsOK'
  <2>1. \A k \in MsgId : /\ containers'[k] \in {containers[k], {}}
                         /\ stateReqs'[k] \in {stateReqs[k], {}}
    BY <1>4 DEF ResendTake, TypeOK, MapsType
  <2>2. UNCHANGED <<toSend, started, inner, nextMsgId>>
    BY <1>4 DEF ResendTake
  <2> QED
    BY <2>1, <2>2
<1>5. ASSUME NEW ask \in SUBSET Requested, NEW forget \in SUBSET Forgettable,
             CheckRequestsByTimer(ask, forget)
      PROVE  IdsOK'
  <2>1. \A k \in MsgId : /\ containers'[k] \in {containers[k], {}}
                         /\ stateReqs'[k] \in {stateReqs[k], {}}
    BY <1>5 DEF CheckRequestsByTimer
  <2>2. UNCHANGED <<toSend, started, inner, nextMsgId>>
    BY <1>5 DEF CheckRequestsByTimer
  <2> QED
    BY <2>1, <2>2
<1>6. ASSUME NEW others \in BOOLEAN, TryToSend(others) PROVE IdsOK'
  <2>1. CASE \E r \in toSend : SendAlone(r)
    BY <1>6, <2>1 DEF TryToSend, SendAlone
  <2>2. CASE SendStateAlone
    <3>1. /\ toSend' = toSend /\ started' = started /\ inner' = inner
          /\ containers' = containers /\ nextMsgId' = nextMsgId + 1
          /\ stateReqs' = [stateReqs EXCEPT ![nextMsgId] = stateRequest]
      BY <1>6, <2>2 DEF TryToSend, SendStateAlone
    <3>2. nextMsgId \in Nat /\ \A r \in Requests : inner[r] \in Nat
      BY DEF TypeOK, ServerType, MapsType
    <3>3. \A m \in MsgId : m \in Nat /\ (m # nextMsgId => stateReqs'[m] = stateReqs[m])
      BY <3>1 DEF TypeOK, MapsType, MsgId
    <3>4. ASSUME NEW m \in MsgId, containers'[m] # {} \/ stateReqs'[m] # {}
          PROVE  m < nextMsgId' /\ \A r \in Requests : inner'[r] # m
      <4>1. CASE m = nextMsgId
        <5>1. \A r \in Requests : inner[r] \in Nat /\ inner[r] < m
          BY <3>2, <4>1
        <5>2. \A r \in Requests : inner[r] # m
          BY <3>2, <4>1, <5>1
        <5> QED
          BY <3>1, <3>2, <4>1, <5>2
      <4>2. CASE m # nextMsgId
        <5>1. m < nextMsgId /\ \A r \in Requests : inner[r] # m
          BY <3>1, <3>3, <3>4, <4>2
        <5> QED
          BY <3>1, <3>2, <3>3, <5>1
      <4> QED
        BY <4>1, <4>2
    <3>5. \A r \in Requests : inner'[r] < nextMsgId' /\ (inner'[r] # NoMsg => r \in started')
      BY <3>1, <3>2
    <3> QED
      BY <3>1, <3>4, <3>5
  <2>3. CASE SendContainer(others)
    <3>1. Sends(toSend)
      BY <1>6, <2>3, SendContainerSends DEF TryToSend
    <3>2. PICK c \in MsgId, ids \in [New(toSend) -> nextMsgId..MaxMsgId] :
            ContainerSent(c, ids)
      BY <2>3 DEF SendContainer
    <3> DEFINE stateId == IF stateRequest = {} THEN {} ELSE {c - 1}
    <3>3. /\ nextMsgId \in Nat /\ c \in Nat /\ nextMsgId <= c /\ nextMsgId' = c + 1
          /\ stateId \subseteq nextMsgId..c
          /\ \A r \in Requests : inner[r] \in Nat /\ inner[r] < nextMsgId
          /\ toSend \subseteq Requests /\ toSend \subseteq started
      BY <3>2 DEF ContainerSent, TypeOK, ServerType, MapsType, MsgId
    <3>4. \A m \in MsgId :
            (containers'[m] # {} => containers[m] # {} \/ m = c)
            /\ (stateReqs'[m] # {} => stateReqs[m] # {} \/ m \in stateId)
      BY <3>2 DEF ContainerSent, TypeOK, MapsType
    <3>5. toSend' = {} /\ started' = started
      BY <1>6, <2>3 DEF TryToSend, SendContainer
    <3>6. \A r \in Requests : inner'[r] \in Nat /\ inner'[r] < nextMsgId'
      BY <3>1, <3>3 DEF Sends, MsgId
    <3>7. \A r \in Requests : inner'[r] # NoMsg => r \in started'
      BY <3>1, <3>3, <3>5 DEF Sends
    <3>8. \A r \in Requests : inner'[r] < c /\ inner'[r] \notin stateId
      <4> SUFFICES ASSUME NEW r \in Requests PROVE inner'[r] < c /\ inner'[r] \notin stateId
        OBVIOUS
      <4>1. CASE r \in New(toSend)
        <5>1. inner'[r] = ids[r]
          BY <3>2, <4>1 DEF ContainerSent, Stamped, New
        <5>2. ids[r] \in (nextMsgId..(c - 1)) \ stateId
          BY <3>2, <4>1 DEF ContainerSent, ContentIds
        <5> QED
          BY <3>3, <5>1, <5>2
      <4>2. CASE r \notin New(toSend)
        <5>1. inner'[r] = inner[r]
          BY <3>1, <4>2 DEF Sends, New
        <5>2. inner[r] \in Nat /\ inner[r] < nextMsgId /\ nextMsgId \in Nat /\ c \in Nat
              /\ nextMsgId <= c /\ stateId \subseteq nextMsgId..c
          BY <3>3
        <5> HIDE DEF stateId
        <5> QED
          BY <5>1, <5>2
      <4> QED
        BY <4>1, <4>2
    <3>9. \A m \in MsgId : containers[m] # {} \/ stateReqs[m] # {} =>
              \A r \in Requests : inner'[r] # m
      <4> SUFFICES ASSUME NEW m \in MsgId, containers[m] # {} \/ stateReqs[m] # {},
                          NEW r \in Requests
                   PROVE  inner'[r] # m
        OBVIOUS
      <4>1. m < nextMsgId /\ inner[r] # m /\ m \in Nat
        BY DEF MsgId
      <4> QED
        BY <3>1, <3>3, <4>1 DEF Sends, MsgId
    <3>10. \A m \in stateId : m \in Nat /\ m < nextMsgId'
      BY <3>3
    <3>11. \A m \in MsgId : containers'[m] # {} \/ stateReqs'[m] # {} =>
              m < nextMsgId' /\ \A r \in Requests : inner'[r] # m
      <4> SUFFICES ASSUME NEW m \in MsgId, containers'[m] # {} \/ stateReqs'[m] # {}
                   PROVE  m < nextMsgId' /\ \A r \in Requests : inner'[r] # m
        OBVIOUS
      <4>1. CASE containers[m] # {} \/ stateReqs[m] # {}
        BY <3>3, <3>9, <4>1 DEF MsgId
      <4>2. CASE m = c
        BY <3>3, <3>6, <3>8, <4>2
      <4>3. CASE m \in stateId
        BY <3>8, <3>10, <4>3
      <4> QED
        BY <3>4, <4>1, <4>2, <4>3
    <3> QED
      BY <3>5, <3>6, <3>7, <3>11
  <2>4. CASE SendNothing
    BY <1>0, <1>6, <2>4 DEF TryToSend, SendNothing
  <2> QED
    BY <1>6, <2>1, <2>2, <2>3, <2>4 DEF TryToSend
<1>7. ASSUME SendAloneEnd PROVE IdsOK'
  <2>1. Sends({conn.req}) /\ conn.req \in started /\ conn.req \in Requests
    BY <1>7, SendAloneEndSends DEF SendAloneEnd, HeldOK, TypeOK, RequestsType
  <2>2. UNCHANGED <<toSend, started, containers, stateReqs>>
    BY <1>7 DEF SendAloneEnd
  <2>3. /\ nextMsgId \in Nat /\ nextMsgId' \in Nat
        /\ \A r \in Requests : inner[r] \in Nat
        /\ \A m \in MsgId : m \in Nat
    BY <1>7, TypeStep DEF TypeOK, ServerType, MapsType, MsgId
  <2>4. \A r \in Requests : inner'[r] < nextMsgId' /\ (inner'[r] # NoMsg => r \in started')
    <3> SUFFICES ASSUME NEW r \in Requests
                 PROVE  inner'[r] < nextMsgId' /\ (inner'[r] # NoMsg => r \in started)
      BY <2>2
    <3>1. CASE r = conn.req
      BY <2>1, <3>1 DEF Sends
    <3>2. CASE r # conn.req
      BY <2>1, <2>3, <3>2 DEF Sends
    <3> QED
      BY <3>1, <3>2
  <2>5. \A m \in MsgId : containers[m] # {} \/ stateReqs[m] # {} =>
          m < nextMsgId' /\ \A r \in Requests : inner'[r] # m
    <3> SUFFICES ASSUME NEW m \in MsgId, containers[m] # {} \/ stateReqs[m] # {},
                        NEW r \in Requests
                 PROVE  m < nextMsgId' /\ inner'[r] # m
      BY <1>7, <2>3 DEF SendAloneEnd
    <3>1. m < nextMsgId /\ inner[r] # m
      OBVIOUS
    <3> QED
      BY <2>1, <2>3, <3>1 DEF Sends
  <2> QED
    BY <2>2, <2>4, <2>5
<1>8. ASSUME SessionClearMaps PROVE IdsOK'
  BY <1>8 DEF SessionClearMaps
<1>9. CASE AckStep
    BY <1>9, AckStepShrinks DEF MapsShrink
<1>10. CASE UNCHANGED vars
  BY <1>0, <1>10 DEF vars
<1> HIDE DEF IdsOK
<1> QED
  BY <1>0, <1>1, <1>2, <1>3, <1>4, <1>5, <1>6, <1>7, <1>8, <1>9, <1>10
  DEF Next, MainNext, ConnNext, ServerNext, AckStep, ClearCallbacks, CancelEnd,
      ResendList, ResendAll, TryToReceive, TryToSendEarly, SaveResult,
      ConnectToServer, Connected, SessionClear, Disconnect, ReceiveFatal,
      ReceiveNewSession, ReceiveResendReq, ReceiveReject

\* Sending keeps the ids and their requests together.
LEMMA SendsAnswers ==
    ASSUME TypeOK, IdsOK, AnswersReachTheirRequest, NEW rs \in SUBSET Requests, Sends(rs)
    PROVE  AnswersReachTheirRequest'
<1>1. \A r \in Requests : inner[r] \in Nat /\ inner[r] < nextMsgId
  BY DEF TypeOK, MapsType, IdsOK
<1>2. \A r \in Requests : inner[r] # NoMsg => inner'[r] = inner[r]
  BY DEF Sends
<1>3. ASSUME NEW q \in Requests, NEW r \in Requests, inner'[q] = inner'[r], inner'[q] # NoMsg
      PROVE  q = r
  <2>1. CASE q \in rs /\ r \in rs
    BY <1>3, <2>1 DEF Sends
  <2>2. CASE q \notin rs /\ r \notin rs
    BY <1>3, <2>2 DEF Sends, AnswersReachTheirRequest
  <2>3. ASSUME NEW a \in rs, NEW b \in Requests \ rs, inner'[a] = inner'[b], inner'[b] # NoMsg
        PROVE  FALSE
    <3>1. inner'[b] = inner[b] /\ inner[b] < nextMsgId /\ inner[b] \in Nat /\ nextMsgId \in Nat
      BY <1>1 DEF Sends, TypeOK, ServerType
    <3>2. inner[a] = inner'[a]
      BY <2>3, <3>1 DEF Sends
    <3> QED
      BY <2>3, <3>1, <3>2 DEF AnswersReachTheirRequest
  <2> QED
    BY <1>3, <2>1, <2>2, <2>3
<1>4. ASSUME NEW m \in MsgId, NEW r \in Requests, haveSent'[m] = r
      PROVE  inner'[r] = m
  <2>1. CASE \E q \in rs : inner'[q] = m
    BY <1>4, <2>1 DEF Sends
  <2>2. CASE \A q \in rs : inner'[q] # m
    <3>1. inner[r] = m
      BY <1>4, <2>2 DEF Sends, AnswersReachTheirRequest
    <3> QED
      BY <1>2, <3>1 DEF MsgId, NoMsg
  <2> QED
    BY <2>1, <2>2
<1>5. ASSUME NEW m \in MsgId, NEW r \in Requests, toResend'[m] = r \/ wereAcked'[m] = r
      PROVE  inner'[r] = m
  <2>1. inner[r] = m
    BY <1>5 DEF Sends, AnswersReachTheirRequest
  <2> QED
    BY <1>2, <2>1 DEF MsgId, NoMsg
<1> QED
  BY <1>3, <1>4, <1>5 DEF AnswersReachTheirRequest

\* The maps keep agreeing on whose message an id is.
LEMMA AnswersStep ==
    ASSUME TypeOK, HeldOK, IdsOK, AnswersReachTheirRequest, [Next]_vars
    PROVE  AnswersReachTheirRequest'
<1> USE DEF AnswersReachTheirRequest, maps, server, link, linkState, posted
<1>0. CASE UNCHANGED <<haveSent, toResend, wereAcked, inner>>
  BY <1>0
<1>1. ASSUME NEW r \in Requests, SendRequest(r) PROVE AnswersReachTheirRequest'
  <2>1. inner' = inner
    BY <1>1 DEF SendRequest, IdsOK, TypeOK, MapsType
  <2> QED
    BY <1>1, <2>1 DEF SendRequest
<1>2. ASSUME CancelEnd PROVE AnswersReachTheirRequest'
  <2>1. \A m \in MsgId : haveSent'[m] \in {haveSent[m], NoReq}
    BY <1>2 DEF CancelEnd
  <2> QED
    BY <1>2, <2>1 DEF CancelEnd
<1>3. ASSUME ResendList PROVE AnswersReachTheirRequest'
  <2>1. inner[main.req] = main.msg
    BY <1>3 DEF ResendList, HeldOK
  <2>2. \A m \in MsgId : toResend'[m] = IF m = main.msg THEN main.req ELSE toResend[m]
    BY <1>3 DEF ResendList, TypeOK, MapsType
  <2>3. UNCHANGED <<haveSent, wereAcked, inner>>
    BY <1>3 DEF ResendList
  <2>4. ASSUME NEW m \in MsgId, NEW r \in Requests, toResend'[m] = r
        PROVE  inner[r] = m
    BY <2>1, <2>2, <2>4
  <2>5. ASSUME NEW m \in MsgId, NEW r \in Requests, haveSent[m] = r \/ wereAcked[m] = r
        PROVE  inner[r] = m
    BY <2>5
  <2> QED
    BY <2>3, <2>4, <2>5
<1>4. ASSUME NEW m \in MsgId, NEW force \in BOOLEAN, ResendTake(m, force)
      PROVE  AnswersReachTheirRequest'
  <2>1. \A k \in MsgId : haveSent'[k] \in {haveSent[k], NoReq}
    BY <1>4 DEF ResendTake, TypeOK, MapsType
  <2> QED
    BY <1>4, <2>1 DEF ResendTake
<1>5. ASSUME NEW others \in BOOLEAN, TryToSend(others) PROVE AnswersReachTheirRequest'
  <2>1. CASE \E r \in toSend : SendAlone(r)
    BY <1>0, <1>5, <2>1 DEF TryToSend, SendAlone
  <2>2. CASE SendStateAlone
    BY <1>0, <1>5, <2>2 DEF TryToSend, SendStateAlone
  <2>3. CASE SendContainer(others)
    <3>1. Sends(toSend)
      BY <1>5, <2>3, SendContainerSends DEF TryToSend
    <3> QED
      BY <3>1, SendsAnswers DEF TypeOK, MapsType
  <2>4. CASE SendNothing
    BY <1>0, <1>5, <2>4 DEF TryToSend, SendNothing
  <2> QED
    BY <1>5, <2>1, <2>2, <2>3, <2>4 DEF TryToSend
<1>6. ASSUME SendAloneEnd PROVE AnswersReachTheirRequest'
  <2>1. Sends({conn.req}) /\ {conn.req} \subseteq Requests
    BY <1>6, SendAloneEndSends DEF SendAloneEnd, HeldOK, TypeOK, RequestsType
  <2> QED
    BY <2>1, SendsAnswers
<1>7. ASSUME SessionClearMaps PROVE AnswersReachTheirRequest'
  BY <1>7 DEF SessionClearMaps
<1>8. CASE AckStep
    BY <1>8, AckStepShrinks DEF MapsShrink
<1>9. CASE UNCHANGED vars
  BY <1>0, <1>9 DEF vars
<1> HIDE DEF AnswersReachTheirRequest
<1> QED
  BY <1>0, <1>1, <1>2, <1>3, <1>4, <1>5, <1>6, <1>7, <1>8, <1>9
  DEF Next, MainNext, ConnNext, ServerNext, AckStep, CancelBegin, ClearCallbacks,
      ResendQueue, ResendAll, TryToReceive, CheckRequestsByTimer, TryToSendEarly,
      SaveResult, ConnectToServer, Connected, SessionClear, Disconnect, ReceiveFatal,
      ReceiveNewSession, ReceiveResendReq, ReceiveReject
\* A container goes out with a higher id than what is in it.
LEMMA ContainersStep ==
    ASSUME TypeOK, IdsOK, AnswersReachTheirRequest, ContainersAreValid, [Next]_vars
    PROVE  ContainersAreValid'
<1> USE DEF ContainersAreValid, maps, server, link, linkState, posted
<1>0. CASE UNCHANGED <<containers>>
  BY <1>0
<1>1. ASSUME NEW m \in MsgId, NEW force \in BOOLEAN, ResendTake(m, force)
      PROVE  ContainersAreValid'
  <2>1. \A k \in MsgId : containers'[k] \in {containers[k], {}}
    BY <1>1 DEF ResendTake, TypeOK, MapsType
  <2> QED
    BY <2>1
<1>2. ASSUME NEW ask \in SUBSET Requested, NEW forget \in SUBSET Forgettable,
             CheckRequestsByTimer(ask, forget)
      PROVE  ContainersAreValid'
  BY <1>2 DEF CheckRequestsByTimer
<1>3. ASSUME NEW others \in BOOLEAN, TryToSend(others) PROVE ContainersAreValid'
  <2>1. CASE \E r \in toSend : SendAlone(r)
    BY <1>0, <2>1 DEF SendAlone
  <2>2. CASE SendStateAlone
    BY <1>0, <2>2 DEF SendStateAlone
  <2>3. CASE SendContainer(others)
    <3>1. Sends(toSend)
      BY <1>3, <2>3, SendContainerSends DEF TryToSend
    <3>2. PICK c \in MsgId, ids \in [New(toSend) -> nextMsgId..MaxMsgId] :
            ContainerSent(c, ids)
      BY <2>3 DEF SendContainer
    <3>3. /\ c \in Nat /\ nextMsgId \in Nat /\ nextMsgId <= c /\ toSend \subseteq Requests
          /\ \A r \in Requests : inner[r] \in Nat /\ inner[r] < nextMsgId
      BY <3>2 DEF ContainerSent, TypeOK, ServerType, MapsType, MsgId, IdsOK
    <3>4. \A r \in toSend : Stamped(r, ids) < c
      <4> SUFFICES ASSUME NEW r \in toSend PROVE Stamped(r, ids) < c
        OBVIOUS
      <4>1. CASE inner[r] = NoMsg
        <5>1. ids[r] \in nextMsgId..(c - 1)
          BY <3>2, <4>1 DEF ContainerSent, ContentIds, New
        <5> QED
          BY <3>3, <4>1, <5>1 DEF Stamped
      <4>2. CASE inner[r] # NoMsg
        <5>1. inner[r] \in Nat /\ inner[r] < nextMsgId
          BY <3>3
        <5> QED
          BY <3>3, <4>2, <5>1 DEF Stamped
      <4> QED
        BY <4>1, <4>2
    <3>5. containers' = [containers EXCEPT ![c] = {Stamped(r, ids) : r \in toSend}
                            \cup (IF stateRequest = {} THEN {} ELSE {c - 1})]
      BY <3>2 DEF ContainerSent
    <3>6. \A m \in containers'[c] : m < c
      BY <3>3, <3>4, <3>5 DEF TypeOK, MapsType
    <3>7. \A k \in MsgId : k # c => containers'[k] = containers[k]
      BY <3>5 DEF TypeOK, MapsType
    <3> QED
      BY <3>6, <3>7
  <2>4. CASE SendNothing
    BY <1>0, <1>3, <2>4 DEF TryToSend, SendNothing
  <2> QED
    BY <1>3, <2>1, <2>2, <2>3, <2>4 DEF TryToSend
<1>4. ASSUME SessionClearMaps PROVE ContainersAreValid'
  BY <1>4 DEF SessionClearMaps
<1>5. CASE AckStep
  <2>1. \A k \in MsgId : containers'[k] \in {containers[k], {}}
    BY <1>5, AckStepShrinks DEF MapsShrink
  <2> QED
    BY <2>1
<1>6. CASE UNCHANGED vars
  BY <1>0, <1>6 DEF vars
<1> HIDE DEF ContainersAreValid
<1> QED
  BY <1>0, <1>1, <1>2, <1>3, <1>4, <1>5, <1>6
  DEF Next, MainNext, ConnNext, ServerNext, AckStep, SendRequest, CancelBegin,
      ClearCallbacks, CancelEnd, ResendQueue, ResendList, ResendAll, TryToReceive,
      SendAloneEnd, TryToSendEarly, SaveResult, ConnectToServer, Connected,
      SessionClear, Disconnect, ReceiveFatal, ReceiveNewSession, ReceiveResendReq,
      ReceiveReject

\* A request that is nowhere sent has no entry, and one entry is all a request has.
LEMMA OneEntry ==
    ASSUME AnswersReachTheirRequest
    PROVE  \A r \in Requests, m, n \in MsgId : haveSent[m] = r /\ haveSent[n] = r => m = n
BY DEF AnswersReachTheirRequest

\* A request that was not passed to sendRequest() yet is not listed.
LEMMA NewIsUnsent ==
    ASSUME IdsOK, AnswersReachTheirRequest
    PROVE  \A r \in Requests : IsSent(r) => r \in started
<1> SUFFICES ASSUME NEW r \in Requests, IsSent(r) PROVE r \in started
  OBVIOUS
<1>1. PICK m \in MsgId : haveSent[m] = r
  BY DEF IsSent
<1>2. inner[r] = m /\ m # NoMsg
  BY <1>1 DEF AnswersReachTheirRequest, MsgId, NoMsg
<1> QED
  BY <1>2 DEF IdsOK

\* Who may be sent after a step that takes entries away.
LEMMA SentShrinks ==
    ASSUME \A m \in MsgId : haveSent'[m] \in {haveSent[m], NoReq}
    PROVE  \A r \in Requests : IsSent(r)' => IsSent(r)
BY DEF IsSent

\* Who is sent after a step that sends.
LEMMA SentGrows ==
    ASSUME TypeOK, AnswersReachTheirRequest, AnswersReachTheirRequest',
           NEW rs \in SUBSET Requests, Sends(rs)
    PROVE  \A r \in Requests : IsSent(r)' <=> r \in rs \/ IsSent(r)
<1>1. ASSUME NEW r \in rs PROVE IsSent(r)'
  BY DEF Sends, IsSent
<1>2. ASSUME NEW r \in Requests, IsSent(r) PROVE IsSent(r)'
  <2>1. PICK m \in MsgId : haveSent[m] = r
    BY <1>2 DEF IsSent
  <2>2. CASE \E q \in rs : inner'[q] = m
    <3>1. PICK q \in rs : inner'[q] = m
      BY <2>2
    <3>2. inner[r] = m /\ m # NoMsg
      BY <2>1 DEF AnswersReachTheirRequest, MsgId, NoMsg
    <3>3. inner'[r] = m
      BY <3>2 DEF Sends
    <3>4. q = r
      BY <3>1, <3>2, <3>3 DEF AnswersReachTheirRequest
    <3> QED
      BY <1>1, <3>4
  <2>3. CASE \A q \in rs : inner'[q] # m
    BY <2>1, <2>3 DEF Sends, IsSent
  <2> QED
    BY <2>2, <2>3
<1>3. ASSUME NEW r \in Requests, IsSent(r)' PROVE r \in rs \/ IsSent(r)
  <2>1. PICK m \in MsgId : haveSent'[m] = r
    BY <1>3 DEF IsSent
  <2>2. CASE \E q \in rs : inner'[q] = m
    BY <2>1, <2>2 DEF Sends
  <2>3. CASE \A q \in rs : inner'[q] # m
    BY <2>1, <2>3 DEF Sends, IsSent
  <2> QED
    BY <2>2, <2>3
<1> QED
  BY <1>1, <1>2, <1>3

\* OnePlace without its last conjunct, which OneEntry gives.
NotTwice ==
    \A r \in Requests :
        /\ r \in toSend => ~IsSent(r) /\ ~MainHolds(r) /\ ~ConnHolds(r)
        /\ MainHolds(r) => ~IsSent(r) /\ ~ConnHolds(r)
        /\ ConnHolds(r) => ~IsSent(r)

\* A request stays in one place.
LEMMA OnePlaceStep ==
    ASSUME TypeOK, HeldOK, IdsOK, AnswersReachTheirRequest, AnswersReachTheirRequest',
           NotTwice, [Next]_vars
    PROVE  NotTwice'
<1> USE DEF NotTwice, maps, server, link, linkState, posted
<1>0. CASE UNCHANGED <<toSend, haveSent, main, conn>>
  BY <1>0 DEF IsSent, MainHolds, ConnHolds
<1>1. ASSUME NEW r \in Requests, SendRequest(r) PROVE NotTwice'
  <2>1. ~IsSent(r)
    BY <1>1, NewIsUnsent DEF SendRequest
  <2>2. main.pc = "idle" /\ ~ConnHolds(r)
    BY <1>1 DEF SendRequest, ConnHolds, HeldOK
  <2>3. toSend' = toSend \cup {r} /\ UNCHANGED <<haveSent, main, conn>>
    BY <1>1 DEF SendRequest
  <2> QED
    BY <2>1, <2>2, <2>3 DEF IsSent, MainHolds, ConnHolds
<1>2. ASSUME NEW r \in Requests, CancelBegin(r) PROVE NotTwice'
  BY <1>2 DEF CancelBegin, IsSent, MainHolds, ConnHolds
<1>3. ASSUME CancelEnd PROVE NotTwice'
  <2>1. \A m \in MsgId : haveSent'[m] \in {haveSent[m], NoReq}
    BY <1>3 DEF CancelEnd
  <2> QED
    BY <1>3, <2>1, SentShrinks DEF CancelEnd, Idle, MainHolds, ConnHolds
<1>4. ASSUME ResendQueue PROVE NotTwice'
  BY <1>4 DEF ResendQueue, IsSent, MainHolds, ConnHolds, TypeOK, ThreadsType
<1>5. ASSUME ResendList PROVE NotTwice'
  BY <1>5 DEF ResendList, Idle, IsSent, MainHolds, ConnHolds
<1>6. ASSUME NEW m \in MsgId, NEW force \in BOOLEAN, ResendTake(m, force) PROVE NotTwice'
  <2>1. haveSent'[m] = NoReq /\ \A k \in MsgId : k # m => haveSent'[k] = haveSent[k]
    BY <1>6 DEF ResendTake, TypeOK, MapsType
  <2>2. \A r \in Requests : IsSent(r)' => IsSent(r)
    BY <2>1, SentShrinks
  <2>3. toSend' = toSend /\ conn' = conn /\ ~(main.pc = "taken")
    BY <1>6 DEF ResendTake
  <2>4. ASSUME NEW r \in Requests, MainHolds(r)'
        PROVE  IsSent(r) /\ ~IsSent(r)'
    <3>1. haveSent[m] = r
      BY <1>6, <2>4 DEF ResendTake, MainHolds, Idle
    <3>2. \A k \in MsgId : haveSent[k] = r => k = m
      BY <3>1, OneEntry
    <3> QED
      BY <2>1, <3>1, <3>2 DEF IsSent
  <2> QED
    BY <2>2, <2>3, <2>4 DEF ConnHolds
<1>7. ASSUME NEW others \in BOOLEAN, TryToSend(others) PROVE NotTwice'
  <2>1. CASE \E r \in toSend : SendAlone(r)
    <3>1. PICK r \in toSend : SendAlone(r)
      BY <2>1
    <3>2. r \in Requests /\ toSend = {r} /\ toSend' = {} /\ conn' = Sending(r)
          /\ haveSent' = haveSent /\ main' = main
      BY <1>7, <3>1 DEF TryToSend, SendAlone, TypeOK, MapsType
    <3>3. \A q \in Requests : ConnHolds(q)' => q = r
      BY <3>2 DEF ConnHolds, Sending
    <3>4. \A q \in Requests : (MainHolds(q)' <=> MainHolds(q)) /\ (IsSent(q)' <=> IsSent(q))
      BY <3>2 DEF MainHolds, IsSent
    <3> QED
      BY <3>2, <3>3, <3>4
  <2>2. CASE SendStateAlone
    BY <1>0, <1>7, <2>2 DEF TryToSend, SendStateAlone
  <2>3. CASE SendContainer(others)
    <3>1. Sends(toSend)
      BY <1>7, <2>3, SendContainerSends DEF TryToSend
    <3>2. toSend \subseteq Requests /\ toSend' = {} /\ conn' = conn /\ main' = main
          /\ conn.pc = "idle"
      BY <1>7, <2>3 DEF TryToSend, SendContainer, TypeOK, MapsType
    <3>3. \A r \in Requests : IsSent(r)' => r \in toSend \/ IsSent(r)
      BY <3>1, <3>2, SentGrows
    <3> QED
      BY <3>2, <3>3 DEF MainHolds, ConnHolds
  <2>4. CASE SendNothing
    BY <1>0, <1>7, <2>4 DEF TryToSend, SendNothing
  <2> QED
    BY <1>7, <2>1, <2>2, <2>3, <2>4 DEF TryToSend
<1>8. ASSUME SendAloneEnd PROVE NotTwice'
  <2>1. /\ Sends({conn.req}) /\ {conn.req} \subseteq Requests /\ ConnHolds(conn.req)
    BY <1>8, SendAloneEndSends DEF SendAloneEnd, HeldOK, TypeOK, RequestsType, ConnHolds
  <2>2. toSend' = toSend /\ main' = main /\ conn' = ConnIdle
    BY <1>8 DEF SendAloneEnd
  <2>3. \A r \in Requests : IsSent(r)' => r = conn.req \/ IsSent(r)
    BY <2>1, SentGrows
  <2> QED
    BY <2>1, <2>2, <2>3 DEF MainHolds, ConnHolds, ConnIdle
<1>9. ASSUME SaveResult PROVE NotTwice'
  BY <1>9 DEF SaveResult, ConnIdle, IsSent, MainHolds, ConnHolds
<1>10. ASSUME SessionClear PROVE NotTwice'
  BY <1>10 DEF SessionClear, ClearingMaps, IsSent, MainHolds, ConnHolds
<1>11. ASSUME SessionClearMaps PROVE NotTwice'
  <2>1. \A r \in Requests : ~IsSent(r)'
    BY <1>11 DEF SessionClearMaps, IsSent
  <2> QED
    BY <1>11, <2>1 DEF SessionClearMaps, ConnIdle, MainHolds, ConnHolds
<1>12. CASE AckStep
  <2>1. /\ toSend' \subseteq toSend /\ main' = main
        /\ conn'.pc \in {"idle", "ackMore", "answer"}
        /\ \A m \in MsgId : haveSent'[m] \in {haveSent[m], NoReq}
    BY <1>12, AckStepShrinks DEF MapsShrink
  <2> QED
    BY <2>1, SentShrinks DEF MainHolds, ConnHolds
<1>13. CASE UNCHANGED vars
  BY <1>0, <1>13 DEF vars
<1> HIDE DEF NotTwice
<1> QED
  BY <1>0, <1>1, <1>2, <1>3, <1>4, <1>5, <1>6, <1>7, <1>8, <1>9, <1>10, <1>11, <1>12,
      <1>13
  DEF Next, MainNext, ConnNext, ServerNext, AckStep, ClearCallbacks, ResendAll,
      TryToReceive, CheckRequestsByTimer, TryToSendEarly, ConnectToServer, Connected,
      Disconnect, ReceiveFatal, ReceiveNewSession, ReceiveResendReq, ReceiveReject

\* SessionData::clear leaves nobody waiting.
LEMMA ClearStep ==
    ASSUME TypeOK, IdsOK, HeldOK, AnswersReachTheirRequest, ClearOK, [Next]_vars
    PROVE  ClearOK'
<1> USE DEF ClearOK, maps, server, link, linkState, posted
<1>0. CASE UNCHANGED <<conn, callbacks, haveSent, clearing, responses>>
  BY <1>0 DEF IsSent, MainHolds, ConnHolds
<1>1. ASSUME NEW r \in Requests, SendRequest(r) PROVE ClearOK'
  <2>1. ~IsSent(r)
    BY <1>1, NewIsUnsent DEF SendRequest
  <2> QED
    BY <1>1, <2>1 DEF SendRequest, IsSent
<1>2. ASSUME NEW r \in Requests, ClearCallbacks(r) PROVE ClearOK'
  BY <1>2 DEF ClearCallbacks, IsSent
<1>3. ASSUME CancelEnd PROVE ClearOK'
  <2>1. \A m \in MsgId : haveSent'[m] \in {haveSent[m], NoReq}
    BY <1>3 DEF CancelEnd
  <2> QED
    BY <1>3, <2>1, SentShrinks DEF CancelEnd, TypeOK, RequestsType
<1>4. ASSUME TryToReceive PROVE ClearOK'
  BY <1>4 DEF TryToReceive, IsSent
<1>5. ASSUME NEW m \in MsgId, NEW force \in BOOLEAN, ResendTake(m, force) PROVE ClearOK'
  <2>1. \A k \in MsgId : haveSent'[k] \in {haveSent[k], NoReq}
    BY <1>5 DEF ResendTake, TypeOK, MapsType
  <2> QED
    BY <1>5, <2>1, SentShrinks DEF ResendTake, TypeOK, RequestsType
<1>6. ASSUME NEW others \in BOOLEAN, TryToSend(others) PROVE ClearOK'
  <2>1. CASE \E r \in toSend : SendAlone(r)
    BY <1>6, <2>1 DEF TryToSend, SendAlone, Sending
  <2>2. CASE SendStateAlone
    BY <1>0, <1>6, <2>2 DEF TryToSend, SendStateAlone
  <2>3. CASE SendContainer(others)
    BY <1>6, <2>3 DEF TryToSend, SendContainer
  <2>4. CASE SendNothing
    BY <1>0, <1>6, <2>4 DEF TryToSend, SendNothing
  <2> QED
    BY <1>6, <2>1, <2>2, <2>3, <2>4 DEF TryToSend
<1>7. ASSUME SendAloneEnd PROVE ClearOK'
  BY <1>7 DEF SendAloneEnd, ConnIdle
<1>8. ASSUME SaveResult PROVE ClearOK'
  BY <1>8 DEF SaveResult, ConnIdle
<1>9. ASSUME SessionClear PROVE ClearOK'
  <2>1. /\ clearing' = clearing \cup ((({haveSent[m] : m \in MsgId}
                \cup {toResend[m] : m \in MsgId} \cup {wereAcked[m] : m \in MsgId})
                \ {NoReq}) \ responses)
        /\ UNCHANGED <<callbacks, haveSent, responses>>
    BY <1>9 DEF SessionClear
  <2>2. \A r \in Requests : IsSent(r) => r \in clearing' \/ r \in responses
    BY <2>1 DEF IsSent
  <2> QED
    BY <2>1, <2>2 DEF IsSent, TypeOK, RequestsType
<1>10. ASSUME SessionClearMaps PROVE ClearOK'
  BY <1>10 DEF SessionClearMaps, ConnIdle
<1>11. ASSUME NEW m \in MsgId, ReceiveFatal(m) PROVE ClearOK'
  BY <1>11 DEF ReceiveFatal, Receiving
<1>12. CASE AckStep
    BY <1>12, AckStepShrinks
<1>13. CASE UNCHANGED vars
  BY <1>0, <1>13 DEF vars
<1> HIDE DEF ClearOK
<1> QED
  BY <1>0, <1>1, <1>2, <1>3, <1>4, <1>5, <1>6, <1>7, <1>8, <1>9, <1>10, <1>11, <1>12,
      <1>13
  DEF Next, MainNext, ConnNext, ServerNext, AckStep, CancelBegin, ResendQueue,
      ResendList, ResendAll, CheckRequestsByTimer, TryToSendEarly, ConnectToServer,
      Connected, Disconnect, ReceiveNewSession, ReceiveResendReq, ReceiveReject
\* A request whose callbacks are alive is somewhere.
Answers(r) == conn.pc = "answer" /\ wereAcked[conn.msg] = r
Kept(r) ==
    \/ r \in toSend \/ IsSent(r) \/ MainHolds(r) \/ ConnHolds(r)
    \/ main.pc = "cancel" /\ main.req = r
    \/ r \in responses \/ r \in clearing
    \/ Answers(r)
NoneLost == \A r \in callbacks : Kept(r)

\* An ack leaves the requests alone that wait for a response, and a response takes
\* its own request only.
LEMMA AckKeeps ==
    ASSUME TypeOK, HeldOK, IdsOK, AckStep, NoneLost
    PROVE  NoneLost'
<1>1. PICK ids \in SUBSET MsgId, byResponse \in BOOLEAN, after \in ConnStates :
        Acks(ids, byResponse, after)
  BY AckStepActs
<1> DEFINE acked == AckedMap(ids, byResponse)
<1>2. /\ UNCHANGED <<callbacks, main, responses>> /\ conn.pc \in {"idle", "ackMore"}
      /\ callbacks \subseteq Requests
  BY AckStepActs DEF TypeOK, RequestsType
<1>3. /\ clearing' = clearing \cup {acked[m] : m \in Evicted(acked)}
      /\ wereAcked' = [m \in MsgId |-> IF m \in Evicted(acked) THEN NoReq ELSE acked[m]]
      /\ haveSent' = [m \in MsgId |-> IF m \in AckedSent(ids, byResponse) THEN NoReq
                                      ELSE haveSent[m]]
      /\ toSend' = toSend \ {toResend[m] : m \in AckedQueued(ids, byResponse)}
  BY <1>1 DEF Acks, RequestsAcked
<1>4. ASSUME NEW r \in callbacks, NEW m \in ids, byResponse, acked[m] = r
      PROVE  Kept(r)'
  <2>1. PICK q \in Requests : ids = {m} /\ after = Answering(m) /\ inner[q] = m
    BY <1>1, <1>4 DEF Acks
  <2>2. UNION {containers[k] : k \in ids} = {}
    BY <2>1 DEF IdsOK
  <2>3. conn' = Answering(m)
    BY <1>1, <2>1, <2>2 DEF Acks, RequestsAcked
  <2>4. CASE m \in Evicted(acked)
    BY <1>3, <1>4, <2>4 DEF Kept
  <2>5. CASE m \notin Evicted(acked)
    <3>1. wereAcked'[m] = r
      BY <1>3, <1>4, <2>5
    <3> QED
      BY <2>3, <3>1 DEF Kept, Answers, Answering
  <2> QED
    BY <2>4, <2>5
<1>5. ASSUME NEW r \in callbacks, r \in toSend
      PROVE  Kept(r)'
  <2>1. CASE \A m \in AckedQueued(ids, byResponse) : toResend[m] # r
    BY <1>3, <1>5, <2>1 DEF Kept
  <2>2. CASE \E m \in AckedQueued(ids, byResponse) : toResend[m] = r
    <3>1. PICK m \in AckedQueued(ids, byResponse) : toResend[m] = r
      BY <2>2
    <3>2. m \in ids /\ byResponse /\ haveSent[m] = NoReq
      BY <3>1 DEF AckedQueued, Retires, InHaveSent
    <3>3. m \in MsgId /\ m \notin AckedSent(ids, byResponse)
      BY <3>2 DEF AckedSent
    <3>4. acked[m] = r
      BY <1>5, <3>1, <3>3 DEF AckedMap
    <3> QED
      BY <1>4, <3>2, <3>4
  <2> QED
    BY <2>1, <2>2
<1>6. ASSUME NEW r \in callbacks, IsSent(r)
      PROVE  Kept(r)'
  <2>1. PICK m \in MsgId : haveSent[m] = r
    BY <1>6 DEF IsSent
  <2>2. CASE m \notin AckedSent(ids, byResponse)
    <3>1. haveSent'[m] = r
      BY <1>3, <2>1, <2>2
    <3> QED
      BY <3>1 DEF Kept, IsSent
  <2>3. CASE m \in AckedSent(ids, byResponse)
    <3>1. m \in ids /\ byResponse
      BY <2>1, <2>3 DEF AckedSent, Retires
    <3>2. acked[m] = r
      BY <2>1, <2>3 DEF AckedMap
    <3> QED
      BY <1>4, <3>1, <3>2
  <2> QED
    BY <2>2, <2>3
<1>7. ASSUME NEW r \in callbacks, r \notin toSend, ~IsSent(r)
      PROVE  Kept(r)'
  <2>1. \/ MainHolds(r)
        \/ main.pc = "cancel" /\ main.req = r
        \/ r \in responses \/ r \in clearing
    <3>1. ~ConnHolds(r) /\ ~Answers(r)
      BY <1>2 DEF ConnHolds, Answers
    <3>2. Kept(r)
      BY DEF NoneLost
    <3> QED
      BY <1>7, <3>1, <3>2 DEF Kept
  <2> QED
    BY <1>2, <1>3, <2>1 DEF Kept, MainHolds
<1> QED
  BY <1>2, <1>5, <1>6, <1>7 DEF NoneLost

\* No step loses a request whose callbacks are alive.
LEMMA LostStep ==
    ASSUME TypeOK, HeldOK, IdsOK, AnswersReachTheirRequest, AnswersReachTheirRequest',
           ClearOK, NoneLost, [Next]_vars
    PROVE  NoneLost'
<1> USE DEF NoneLost, maps, server, link, linkState, posted
<1>0. CASE UNCHANGED <<callbacks, toSend, haveSent, main, conn, responses, clearing, wereAcked>>
  BY <1>0 DEF Kept, MainHolds, ConnHolds, IsSent, Answers
<1>1. ASSUME NEW r \in Requests, SendRequest(r) PROVE NoneLost'
  BY <1>1 DEF SendRequest, Kept, IsSent, MainHolds, ConnHolds, Answers
<1>2. ASSUME NEW r \in Requests, CancelBegin(r) PROVE NoneLost'
  BY <1>2 DEF CancelBegin, Kept, IsSent, MainHolds, ConnHolds, Answers
<1>3. ASSUME NEW r \in Requests, ClearCallbacks(r) PROVE NoneLost'
  BY <1>3 DEF ClearCallbacks, Kept, IsSent, MainHolds, ConnHolds, Answers
<1>4. ASSUME CancelEnd PROVE NoneLost'
  <2>1. ASSUME NEW r \in callbacks', IsSent(r) PROVE IsSent(r)'
    <3>1. PICK m \in MsgId : haveSent[m] = r
      BY <2>1 DEF IsSent
    <3>2. r \in Requests /\ main.req \in Requests /\ r # main.req
      BY <1>4, <2>1 DEF CancelEnd, HeldOK, TypeOK, RequestsType
    <3>3. inner[r] = m /\ m # NoMsg
      BY <3>1, <3>2 DEF AnswersReachTheirRequest, MsgId, NoMsg
    <3>4. m # main.msg
      BY <1>4, <3>2, <3>3 DEF CancelEnd, HeldOK, AnswersReachTheirRequest
    <3>5. haveSent'[m] = r
      BY <1>4, <3>1, <3>4 DEF CancelEnd
    <3> QED
      BY <3>5 DEF IsSent
  <2>2. /\ callbacks' = callbacks \ {main.req} /\ main.pc = "cancel"
        /\ UNCHANGED <<toSend, conn, wereAcked, responses, clearing>>
    BY <1>4 DEF CancelEnd
  <2> QED
    BY <2>1, <2>2 DEF Kept, MainHolds, ConnHolds, Answers
<1>5. ASSUME ResendQueue PROVE NoneLost'
  BY <1>5 DEF ResendQueue, Kept, IsSent, MainHolds, ConnHolds, Answers
<1>6. ASSUME ResendList PROVE NoneLost'
  BY <1>6 DEF ResendList, Kept, IsSent, MainHolds, ConnHolds, Answers
<1>7. ASSUME TryToReceive PROVE NoneLost'
  BY <1>7 DEF TryToReceive, Kept, IsSent, MainHolds, ConnHolds, Answers
<1>8. ASSUME NEW m \in MsgId, NEW force \in BOOLEAN, ResendTake(m, force) PROVE NoneLost'
  <2>1. \A k \in MsgId : k # m => haveSent'[k] = haveSent[k]
    BY <1>8 DEF ResendTake, TypeOK, MapsType
  <2>2. /\ UNCHANGED <<callbacks, toSend, conn, wereAcked, responses, clearing>>
        /\ main.pc = "idle" /\ callbacks \subseteq Requests
    BY <1>8 DEF ResendTake, TypeOK, RequestsType
  <2>3. ASSUME NEW r \in callbacks, IsSent(r) PROVE IsSent(r)' \/ MainHolds(r)'
    <3>1. PICK k \in MsgId : haveSent[k] = r
      BY <2>3 DEF IsSent
    <3>2. CASE k = m
      <4>1. haveSent[m] # NoReq
        BY <2>2, <3>1, <3>2
      <4> QED
        BY <1>8, <3>1, <3>2, <4>1 DEF ResendTake, MainHolds
    <3>3. CASE k # m
      BY <2>1, <3>1, <3>3 DEF IsSent
    <3> QED
      BY <3>2, <3>3
  <2> QED
    BY <2>2, <2>3 DEF Kept, MainHolds, ConnHolds, Answers
<1>9. ASSUME NEW others \in BOOLEAN, TryToSend(others) PROVE NoneLost'
  <2>1. CASE \E r \in toSend : SendAlone(r)
    <3>1. PICK r \in toSend : SendAlone(r)
      BY <2>1
    <3>2. /\ toSend = {r} /\ conn' = Sending(r) /\ conn.pc = "idle"
          /\ UNCHANGED <<callbacks, haveSent, main, responses, clearing>>
      BY <1>9, <3>1 DEF TryToSend, SendAlone
    <3>3. ConnHolds(r)'
      BY <3>2 DEF ConnHolds, Sending
    <3> QED
      BY <3>2, <3>3 DEF Kept, IsSent, MainHolds, ConnHolds, Answers
  <2>2. CASE SendStateAlone
    BY <1>0, <1>9, <2>2 DEF TryToSend, SendStateAlone
  <2>3. CASE SendContainer(others)
    <3>1. Sends(toSend)
      BY <1>9, <2>3, SendContainerSends DEF TryToSend
    <3>2. toSend \subseteq Requests /\ callbacks \subseteq Requests /\ conn' = conn
          /\ conn.pc = "idle"
      BY <1>9, <2>3 DEF TryToSend, SendContainer, TypeOK, MapsType, RequestsType
    <3>3. \A r \in Requests : r \in toSend \/ IsSent(r) => IsSent(r)'
      BY <3>1, <3>2, SentGrows
    <3>4. UNCHANGED <<callbacks, main, responses, clearing, wereAcked>>
      BY <3>1 DEF Sends
    <3> QED
      BY <3>2, <3>3, <3>4 DEF Kept, MainHolds, ConnHolds, Answers
  <2>4. CASE SendNothing
    BY <1>0, <1>9, <2>4 DEF TryToSend, SendNothing
  <2> QED
    BY <1>9, <2>1, <2>2, <2>3, <2>4 DEF TryToSend
<1>10. ASSUME SendAloneEnd PROVE NoneLost'
  <2>1. /\ Sends({conn.req}) /\ {conn.req} \subseteq Requests
        /\ callbacks \subseteq Requests
    BY <1>10, SendAloneEndSends DEF SendAloneEnd, HeldOK, TypeOK, RequestsType
  <2>2. \A r \in Requests : r = conn.req \/ IsSent(r) => IsSent(r)'
    BY <2>1, SentGrows
  <2>3. UNCHANGED <<callbacks, main, responses, clearing, wereAcked>>
    BY <2>1 DEF Sends
  <2>4. toSend' = toSend /\ conn.pc = "alone"
    BY <1>10 DEF SendAloneEnd
  <2> QED
    BY <2>1, <2>2, <2>3, <2>4 DEF Kept, MainHolds, ConnHolds, Answers
<1>11. ASSUME SaveResult PROVE NoneLost'
  <2>1. /\ UNCHANGED <<callbacks, toSend, haveSent, main, clearing>> /\ conn.pc = "answer"
        /\ responses' = responses \cup ({RequestOf(conn.msg)} \ {NoReq})
        /\ callbacks \subseteq Requests /\ conn.msg \in MsgId
    BY <1>11 DEF SaveResult, HeldOK, TypeOK, RequestsType
  <2>2. ASSUME NEW r \in callbacks, Answers(r) PROVE RequestOf(conn.msg) = r
    <3>1. wereAcked[conn.msg] = r /\ r \in Requests
      BY <2>1, <2>2 DEF Answers
    <3>2. inner[r] = conn.msg
      BY <2>1, <3>1 DEF AnswersReachTheirRequest
    <3>3. containers[conn.msg] = {} /\ stateReqs[conn.msg] = {}
      BY <2>1, <3>1, <3>2 DEF IdsOK
    <3>4. ASSUME NEW q \in Requests, haveSent[conn.msg] = q \/ toResend[conn.msg] = q
          PROVE  q = r
      BY <2>1, <3>1, <3>2, <3>4 DEF AnswersReachTheirRequest, MsgId, NoMsg
    <3>5. /\ haveSent[conn.msg] \in Requests \cup {NoReq}
          /\ toResend[conn.msg] \in Requests \cup {NoReq}
      BY <2>1 DEF TypeOK, MapsType
    <3> QED
      BY <3>1, <3>3, <3>4, <3>5 DEF RequestOf, InHaveSent
  <2>3. ASSUME NEW r \in callbacks, Answers(r) PROVE r \in responses'
    BY <2>1, <2>2, <2>3
  <2> QED
    BY <2>1, <2>3 DEF Kept, IsSent, MainHolds, ConnHolds
<1>12. ASSUME SessionClear PROVE NoneLost'
  BY <1>12 DEF SessionClear, ClearingMaps, Kept, IsSent, MainHolds, ConnHolds, Answers
<1>13. ASSUME SessionClearMaps PROVE NoneLost'
  <2>1. /\ UNCHANGED <<callbacks, toSend, main, responses, clearing>> /\ conn.pc = "clear"
    BY <1>13 DEF SessionClearMaps
  <2> QED
    BY <2>1 DEF Kept, ClearOK, MainHolds, ConnHolds, Answers
<1>14. ASSUME NEW m \in MsgId, ReceiveFatal(m) PROVE NoneLost'
  BY <1>14 DEF ReceiveFatal, Receiving, Kept, IsSent, MainHolds, ConnHolds, Answers
<1>15. CASE AckStep
    BY <1>15, AckKeeps
<1>16. CASE UNCHANGED vars
  BY <1>0, <1>16 DEF vars
<1> HIDE DEF NoneLost
<1> QED
  BY <1>0, <1>1, <1>2, <1>3, <1>4, <1>5, <1>6, <1>7, <1>8, <1>9, <1>10, <1>11, <1>12,
      <1>13, <1>14, <1>15, <1>16
  DEF Next, MainNext, ConnNext, ServerNext, AckStep, ResendAll, CheckRequestsByTimer,
      TryToSendEarly, ConnectToServer, Connected, Disconnect, ReceiveNewSession,
      ReceiveResendReq, ReceiveReject

-----------------------------------------------------------------------------
(***************************************************************************)
(* The theorems.                                                           *)
(***************************************************************************)

LEMMA InvInit == Init => IInv
<1> SUFFICES ASSUME Init PROVE IInv
  OBVIOUS
<1> USE DEF Init, MsgId, NoMsg
<1>1. TypeOK
  <2>1. RequestsType /\ ResendsType /\ FlagsType
    BY DEF RequestsType, ResendsType, FlagsType
  <2>2. MapsType
    BY DEF MapsType
  <2>3. ThreadsType
    BY DEF ThreadsType, Idle, ConnIdle
  <2>4. ServerType
    BY DEF ServerType
  <2> QED
    BY <2>1, <2>2, <2>3, <2>4 DEF TypeOK
<1>2. HeldOK /\ IdsOK
  BY DEF HeldOK, IdsOK, Idle, ConnIdle
<1>3. AnswersReachTheirRequest /\ ContainersAreValid
  BY DEF AnswersReachTheirRequest, ContainersAreValid
<1>4. OnePlace /\ ClearOK
  BY DEF OnePlace, ClearOK, IsSent, MainHolds, ConnHolds, Idle, ConnIdle
<1>5. StaleOK /\ NoRequestLost /\ NoForgottenWakeUp
  BY DEF StaleOK, NoRequestLost, NoForgottenWakeUp
<1> QED
  BY <1>1, <1>2, <1>3, <1>4, <1>5 DEF IInv

LEMMA InvStep == IInv /\ [Next]_vars => IInv'
<1> SUFFICES ASSUME IInv, [Next]_vars PROVE IInv'
  OBVIOUS
<1>1. TypeOK /\ HeldOK /\ IdsOK /\ AnswersReachTheirRequest /\ NotTwice /\ ClearOK
      /\ StaleOK /\ NoneLost /\ ContainersAreValid /\ NoForgottenWakeUp
  BY DEF IInv, OnePlace, NotTwice, NoRequestLost, NoneLost, Kept, Answers
<1>2. TypeOK' /\ HeldOK' /\ IdsOK' /\ AnswersReachTheirRequest'
  BY <1>1, TypeStep, HeldStep, IdsStep, AnswersStep
<1>3. OnePlace'
  <2>1. NotTwice'
    BY <1>1, <1>2, OnePlaceStep
  <2>2. \A r \in Requests, m, n \in MsgId : haveSent'[m] = r /\ haveSent'[n] = r => m = n
    BY <1>2 DEF AnswersReachTheirRequest
  <2> QED
    BY <2>1, <2>2 DEF OnePlace, NotTwice
<1>4. NoRequestLost'
  BY <1>1, <1>2, LostStep DEF NoneLost, Kept, Answers, NoRequestLost
<1> QED
  BY <1>1, <1>2, <1>3, <1>4, ClearStep, StaleStep, ContainersStep, WakeUpStep DEF IInv

\* IInv holds in every reachable state.
THEOREM Invariance == Spec => []IInv
BY InvInit, InvStep, PTL DEF Spec

\* Every variable keeps its type: what the maps hold are requests of this session under
\* ids it has given out.
THEOREM TypeCorrect == Spec => []TypeOK
BY Invariance, PTL DEF IInv

\* No interleaving of resend(), cancel(), tryToSend(), requestsAcked() and clear()
\* forgets a request whose callbacks are alive.
THEOREM RequestsAreKept == Spec => []NoRequestLost
BY Invariance, PTL DEF IInv

\* No request is ever queued or sent twice at once.
THEOREM RequestsAreInOnePlace == Spec => []OnePlace
BY Invariance, PTL DEF IInv

\* An answer can reach no request but the one that was sent under its id.
THEOREM AnswersAreNotMixed == Spec => []AnswersReachTheirRequest
BY Invariance, PTL DEF IInv

\* Every container tryToSend() builds passes its "check for a valid container".
THEOREM ContainersStayValid == Spec => []ContainersAreValid
BY Invariance, PTL DEF IInv

\* After a reconnect everything that was in flight is resent.
THEOREM NothingStaysOnDeadConnection == Spec => []NothingWaitsOnDeadConnection
<1>1. IInv => NothingWaitsOnDeadConnection
  BY DEF IInv, StaleOK, NothingWaitsOnDeadConnection
<1> QED
  BY <1>1, Invariance, PTL

\* Whatever is queued while the session is connected has a tryToSend() ahead.
THEOREM WakeUpsAreKept == Spec => []NoForgottenWakeUp
BY Invariance, PTL DEF IInv
=============================================================================
