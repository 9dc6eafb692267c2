------------------------ MODULE MtpInstance_proofs ------------------------
(***************************************************************************)
(* Proofs about MtpInstance: its types, that its maps speak of the same    *)
(* requests, that none is left behind unless it is counted as lost, that   *)
(* it implements RequestService, and that no request is in two places.     *)
(***************************************************************************)
EXTENDS MtpInstance, TLAPS

\* The part of the type invariant that sending and forgetting touch.
MapTypes ==
    /\ parsers \subseteq Ids /\ requests \subseteq Ids /\ toMain \subseteq Ids
    /\ byDc \in [Ids -> Dcs \cup {NoDc}]
    /\ sent \subseteq Ids \X Dcs

\* Giving a request to a session keeps the types.
LEMMA SendToTypes ==
    ASSUME TypeOK, NEW id \in Ids, NEW d \in Dcs, NEW main \in BOOLEAN,
           NEW s \in SUBSET (Ids \X Dcs), SendTo(id, d, main, s)
    PROVE  MapTypes'
BY DEF TypeOK, MapTypes, SendTo

\* So does forgetting one.
LEMMA ForgetTypes ==
    ASSUME TypeOK, NEW id \in Ids, Forget(id), sent' \subseteq Ids \X Dcs
    PROVE  MapTypes'
BY DEF TypeOK, MapTypes, Forget

\* And what an owner is told is an outcome.
LEMMA TellTypes ==
    ASSUME TypeOK, NEW id \in Ids, NEW how \in Outcomes, Tell(id, how)
    PROVE  outcome' \in [Requests -> Outcomes]
BY DEF TypeOK, Tell

\* The requests of the program, and those of the instance, have ids.
LEMMA IdsOfAll ==
    /\ Requests \subseteq Ids
    /\ \A t \in Dcs : Export(t) \in Ids /\ Import(t) \in Ids /\ Export(t) # Import(t)
    /\ \A t \in Dcs : Of(Export(t)) = t /\ Of(Import(t)) = t
    /\ \A t \in Dcs : Export(t) \notin Requests /\ Import(t) \notin Requests
BY IdsAreDistinct DEF Ids, Exports, Imports, Export, Import, Of

\* What is left of the sent ones is still a set of requests at data centres.
LEMMA RestTypes ==
    ASSUME TypeOK, NEW id, NEW d
    PROVE  Rest(id, d) \in SUBSET (Ids \X Dcs)
BY DEF TypeOK, Rest

\* The sent ones have ids.
LEMMA SentIdsTypes ==
    ASSUME NEW s \in SUBSET (Ids \X Dcs)
    PROVE  SentIds(s) \subseteq Ids
BY DEF SentIds

\* An error that comes keeps the bound of the errors.
LEMMA ErrorTypes ==
    ASSUME TypeOK, NEW kind, Error(kind)
    PROVE  errors' \in 0..MaxErrors
BY BoundsAreRight DEF TypeOK, Error

-----------------------------------------------------------------------------
\* The data centre that is registered of a request is one because the maps agree, so
\* the two invariants are inductive only together.
IInv == TypeOK /\ MapsAgree

\* Every step keeps the types.
LEMMA TypeStep == IInv /\ [Next]_vars => TypeOK'
<1> SUFFICES ASSUME TypeOK, MapsAgree, [Next]_vars PROVE TypeOK'
  BY DEF IInv
<1> USE IdsOfAll
<1>1. ASSUME NEW r \in Requests, Cancel(r) PROVE TypeOK'
  <2>1. sent' \subseteq Ids \X Dcs
    BY <1>1 DEF Cancel, TypeOK
  <2>2. MapTypes'
    BY <1>1, <2>1, ForgetTypes DEF Cancel
  <2> QED BY <1>1, <2>2, TellTypes DEF Cancel, TypeOK, MapTypes, queues, losses, Outcomes
<1>2. ASSUME NEW r \in Requests, NEW p \in Requests \cup {NoId}, Send(r, p) PROVE TypeOK'
  <2>1. MapTypes'
    BY <1>2, SendToTypes DEF Send, TypeOK
  <2> QED BY <1>2, <2>1, TellTypes DEF Send, TypeOK, MapTypes, queues, losses, Outcomes
<1>3. ASSUME NEW d \in Dcs, NEW r \in Requests, AnswerDone(r, d) PROVE TypeOK'
  <2>1. MapTypes'
    BY <1>3, ForgetTypes, RestTypes DEF AnswerDone
  <2> QED BY <1>3, <2>1, TellTypes DEF AnswerDone, TypeOK, MapTypes, queues, losses, Outcomes
<1>4. ASSUME NEW d \in Dcs, NEW id \in Ids, AnswerUnknown(id, d) PROVE TypeOK'
  <2>1. MapTypes'
    BY <1>4, ForgetTypes, RestTypes DEF AnswerUnknown
  <2> QED BY <1>4, <2>1 DEF AnswerUnknown, TypeOK, MapTypes, queues, losses
<1>5. ASSUME NEW d \in Dcs, NEW t \in Dcs, Exported(t, d) PROVE TypeOK'
  <2>1. sent' \subseteq Ids \X Dcs
    BY <1>5, RestTypes DEF Exported
  <2>2. MapTypes'
    BY <1>5, <2>1 DEF Exported, TypeOK, MapTypes
  <2>3. exports' \subseteq Dcs /\ after' \in [Ids -> Ids \cup {NoId}]
    BY <1>5 DEF Exported, TypeOK
  <2> QED BY <1>5, <2>2, <2>3 DEF Exported, TypeOK, MapTypes, losses
<1>6. ASSUME NEW d \in Dcs, NEW t \in Dcs, Imported(t, d) PROVE TypeOK'
  <2> DEFINE found == waiters[t] \cap requests
             resent == {<<id, t>> : id \in found \ toMain}
  <2>1. resent \subseteq Ids \X Dcs /\ Rest(Import(t), d) \subseteq Ids \X Dcs
    BY RestTypes DEF TypeOK
  <2>2. sent' \subseteq Ids \X Dcs /\ mainDc' \in Dcs
    <3>1. CASE found \cap toMain = {}
      BY <1>6, <2>1, <3>1 DEF Imported, TypeOK
    <3>2. CASE found \cap toMain # {}
      <4>1. PICK there \in SUBSET resent : MainIs(t, Rest(Import(t), d), there)
        BY <1>6, <3>2 DEF Imported
      <4> QED BY <4>1, <2>1 DEF MainIs, Surviving
    <3> QED BY <3>1, <3>2
  <2>3. MapTypes'
    BY <1>6, <2>2 DEF Imported, TypeOK, MapTypes
  <2>4. waiters' \in [Dcs -> SUBSET Ids]
    BY <1>6 DEF Imported, TypeOK
  <2>5. stranded' \subseteq Ids /\ unserved' \subseteq Dcs
    <3>1. SentIds(Rest(Import(t), d)) \subseteq Ids
      BY <2>1, SentIdsTypes
    <3> QED BY <1>6, <3>1 DEF Imported, TypeOK
  <2> QED BY <1>6, <2>2, <2>3, <2>4, <2>5 DEF Imported, TypeOK, MapTypes
<1>7. ASSUME NEW d \in Dcs, NEW r \in Requests, AnswerFail(r, d) PROVE TypeOK'
  <2>1. MapTypes' /\ errors' \in 0..MaxErrors
    BY <1>7, ForgetTypes, RestTypes, ErrorTypes DEF AnswerFail
  <2> QED BY <1>7, <2>1, TellTypes DEF AnswerFail, TypeOK, MapTypes, queues, losses, Outcomes
<1>8. ASSUME NEW d \in Dcs, NEW id \in Ids, AnswerTemporary(id, d) PROVE TypeOK'
  <2>1. errors' \in 0..MaxErrors /\ sent' \subseteq Ids \X Dcs
    BY <1>8, RestTypes, ErrorTypes DEF AnswerTemporary
  <2>2. MapTypes' /\ outcome' \in [Requests -> Outcomes] /\ delayed' \subseteq Ids
    <3>1. CASE id \in Requests /\ Forget(id) /\ Tell(id, "failed") /\ UNCHANGED delayed
      BY <2>1, <3>1, ForgetTypes, TellTypes DEF TypeOK, Outcomes
    <3>2. CASE /\ delayed' = delayed \cup {id}
               /\ UNCHANGED <<parsers, requests, byDc, toMain, outcome>>
      BY <2>1, <3>2 DEF TypeOK, MapTypes
    <3> QED BY <1>8, <3>1, <3>2 DEF AnswerTemporary
  <2> QED BY <1>8, <2>1, <2>2 DEF AnswerTemporary, TypeOK, MapTypes, losses
<1>9. ASSUME NEW d \in Dcs, NEW id \in Ids, AnswerNotInited(id, d) PROVE TypeOK'
  <2>1. errors' \in 0..MaxErrors
    BY <1>9, ErrorTypes DEF AnswerNotInited
  <2>2. byDc[id] \in Dcs
    BY <1>9 DEF AnswerNotInited, Comes, MapsAgree, TypeOK
  <2> QED BY <1>9, <2>1, <2>2, RestTypes DEF AnswerNotInited, TypeOK, maps, queues, losses
<1>10. ASSUME NEW d \in Dcs, NEW id \in Ids, NEW kind, Unauthorized(id, d, kind) PROVE TypeOK'
  <2> DEFINE dc == byDc[id]
  <2>1. errors' \in 0..MaxErrors /\ dc \in Dcs
    BY <1>10, ErrorTypes DEF Unauthorized, Comes, MapsAgree, TypeOK
  <2>2. waiters' \in [Dcs -> SUBSET Ids] /\ badGuest' \subseteq Ids
    BY <1>10, <2>1 DEF Unauthorized, TypeOK
  <2>losses. stranded' \subseteq Ids /\ unserved' \subseteq Dcs
    BY <1>10, <2>1 DEF Unauthorized, TypeOK
  <2>3. CASE waiters[dc] = {}
    <3>0. SendTo(Export(dc), mainDc, TRUE, Rest(id, d))
      BY <1>10, <2>3 DEF Unauthorized
    <3>1. MapTypes'
      <4>1. Export(dc) \in Ids /\ mainDc \in Dcs /\ Rest(id, d) \in SUBSET (Ids \X Dcs)
        BY <2>1, RestTypes DEF TypeOK
      <4> QED BY <3>0, <4>1, SendToTypes
    <3>2. after' \in [Ids -> Ids \cup {NoId}] /\ exports' \subseteq Dcs
      BY <1>10, <2>1, <2>3 DEF Unauthorized, TypeOK
    <3> QED BY <1>10, <2>1, <2>2, <2>losses, <3>1, <3>2 DEF Unauthorized, TypeOK, MapTypes
  <2>4. CASE waiters[dc] # {}
    <3>1. sent' = Rest(id, d) /\ UNCHANGED <<maps, exports>>
      BY <1>10, <2>4 DEF Unauthorized
    <3>2. sent' \subseteq Ids \X Dcs
      BY <3>1, RestTypes
    <3> QED BY <1>10, <2>1, <2>2, <2>losses, <3>1, <3>2 DEF Unauthorized, TypeOK, maps
  <2> QED BY <2>3, <2>4
<1>11. ASSUME NEW d \in Dcs, NEW id \in Ids, NEW kind, UnauthorizedHere(id, d, kind) PROVE TypeOK'
  <2>1. MapTypes' /\ errors' \in 0..MaxErrors
    BY <1>11, ForgetTypes, RestTypes, ErrorTypes DEF UnauthorizedHere
  <2>2. outcome' \in [Requests -> Outcomes] /\ badGuest' \subseteq Ids
    BY <1>11, TellTypes DEF UnauthorizedHere, Outcomes, TypeOK
  <2>3. unserved' \subseteq Dcs
    <3>1. id \in Imports => Of(id) \in Dcs
      BY DEF Imports
    <3> QED BY <1>11, <3>1 DEF UnauthorizedHere, TypeOK
  <2> QED BY <1>11, <2>1, <2>2, <2>3 DEF UnauthorizedHere, TypeOK, MapTypes
<1>12. ASSUME NEW d \in Dcs, NEW t \in Dcs, ExportFails(t, d) PROVE TypeOK'
  <2>1. MapTypes' /\ errors' \in 0..MaxErrors
    BY <1>12, ForgetTypes, RestTypes, ErrorTypes DEF ExportFails
  <2> QED BY <1>12, <2>1 DEF ExportFails, TypeOK, MapTypes
<1>13. ASSUME NEW d \in Dcs, NEW t \in Dcs, ImportFails(t, d) PROVE TypeOK'
  <2>1. MapTypes' /\ errors' \in 0..MaxErrors
    BY <1>13, ForgetTypes, RestTypes, ErrorTypes DEF ImportFails
  <2> QED BY <1>13, <2>1 DEF ImportFails, TypeOK, MapTypes, queues, losses
<1>14. ASSUME NEW d \in Dcs, NEW r \in Requests, NEW t \in Dcs, AnswerMigrate(r, d, t) PROVE TypeOK'
  <2>1. errors' \in 0..MaxErrors /\ byDc' \in [Ids -> Dcs \cup {NoDc}]
    BY <1>14, ErrorTypes DEF AnswerMigrate, TypeOK
  <2>2. sent' \subseteq Ids \X Dcs /\ mainDc' \in Dcs
    <3>1. CASE r \in toMain
      BY <1>14, <3>1, RestTypes DEF AnswerMigrate, MainIs, Surviving
    <3>2. CASE r \notin toMain
      BY <1>14, <3>2, RestTypes DEF AnswerMigrate, TypeOK
    <3> QED BY <3>1, <3>2
  <2>3. stranded' \subseteq Ids
    <3>1. SentIds(Rest(r, d)) \subseteq Ids
      BY RestTypes, SentIdsTypes
    <3> QED BY <1>14, <3>1 DEF AnswerMigrate, TypeOK
  <2> QED BY <1>14, <2>1, <2>2, <2>3 DEF AnswerMigrate, TypeOK, queues
<1>15. ASSUME NEW d \in Dcs, NEW r \in Requests, AnswerWait(r, d) PROVE TypeOK'
  <2> DEFINE p == Follows(r)
             dc == byDc[r]
  <2>1. errors' \in 0..MaxErrors /\ dc \in Dcs /\ mainDc' = mainDc /\ clearing' = clearing
       /\ unserved' = unserved
    BY <1>15, ErrorTypes DEF AnswerWait, Comes, MapsAgree, TypeOK
  <2>2. CASE Forget(r) /\ Tell(r, "failed") /\ sent' = Rest(r, d) /\ UNCHANGED <<after, queues, stranded>>
    <3>1. MapTypes' /\ outcome' \in [Requests -> Outcomes]
      BY <2>2, ForgetTypes, TellTypes, RestTypes DEF Outcomes
    <3> QED BY <2>1, <2>2, <3>1 DEF TypeOK, MapTypes, queues, losses
  <2>3. CASE /\ after' = [after EXCEPT ![r] = NoId]
             /\ sent' = Rest(r, d) \cup {<<r, dc>>}
             /\ UNCHANGED <<parsers, requests, byDc, toMain, queues, outcome, stranded>>
    <3>1. sent' \subseteq Ids \X Dcs /\ after' \in [Ids -> Ids \cup {NoId}]
      BY <2>1, <2>3, RestTypes DEF TypeOK
    <3> QED BY <2>1, <2>3, <3>1 DEF TypeOK, queues, losses
  <2>4. CASE /\ waiters' = IF p \in waiters[dc] THEN [waiters EXCEPT ![dc] = @ \cup {r}]
                           ELSE waiters
             /\ badGuest' = IF p \in waiters[dc] /\ p \in badGuest THEN badGuest \cup {r}
                            ELSE badGuest
             /\ delayed' = IF p \notin waiters[dc] /\ p \in delayed THEN delayed \cup {r}
                           ELSE delayed
             /\ stranded' = IF p \notin waiters[dc] /\ p \notin delayed THEN stranded \cup {r}
                            ELSE stranded
             /\ sent' = Rest(r, d)
             /\ UNCHANGED <<maps, exports, outcome>>
    <3>1. waiters' \in [Dcs -> SUBSET Ids] /\ badGuest' \subseteq Ids /\ delayed' \subseteq Ids
      BY <2>1, <2>4 DEF TypeOK
    <3>2. sent' \subseteq Ids \X Dcs
      BY <2>4, RestTypes
    <3> QED BY <2>1, <2>4, <3>1, <3>2 DEF TypeOK, maps
  <2> QED BY <1>15, <2>2, <2>3, <2>4 DEF AnswerWait
<1>16. ASSUME NEW d \in Dcs, ClearSession(d) PROVE TypeOK'
  <2>1. errors' \in 0..MaxErrors
    BY <1>16, ErrorTypes DEF ClearSession
  <2>2. PICK S \in SUBSET {x \in sent : x[2] = d}, T \in SUBSET {x \in sent : x[2] = d} :
            /\ sent' = sent \ (S \ T)
            /\ clearing' = clearing \cup {<<x[1], "silently">> : x \in S}
    BY <1>16 DEF ClearSession
  <2>3. clearing' \subseteq Ids \X Hows /\ sent' \subseteq Ids \X Dcs
    BY <2>2 DEF TypeOK, Hows
  <2> QED BY <1>16, <2>1, <2>3 DEF ClearSession, TypeOK, maps, queues, losses
<1>17. ASSUME NEW d \in Dcs, NEW id \in Ids, GiveUp(id, d) PROVE TypeOK'
  <2>1. errors' \in 0..MaxErrors
    BY <1>17, ErrorTypes DEF GiveUp
  <2>2. clearing' \subseteq Ids \X Hows
    BY <1>17, IdsAreDistinct DEF GiveUp, TypeOK, Hows
  <2> QED BY <1>17, <2>1, <2>2, RestTypes DEF GiveUp, TypeOK, maps, queues, losses
<1>18. ASSUME NEW id \in Ids, CheckDelayed(id) PROVE TypeOK'
  <2>1. sent' \subseteq Ids \X Dcs
    BY <1>18 DEF CheckDelayed, MapsAgree, TypeOK
  <2> QED BY <1>18, <2>1 DEF CheckDelayed, TypeOK, maps, losses
<1>19. ASSUME NEW id \in Ids, NEW how \in Hows, ClearCallbacks(id, how) PROVE TypeOK'
  <2>1. MapTypes'
    BY <1>19, ForgetTypes DEF ClearCallbacks, TypeOK
  <2>2. outcome' \in [Requests -> Outcomes]
    BY <1>19, TellTypes DEF ClearCallbacks, Outcomes, TypeOK
  <2>3. waiters' \in [Dcs -> SUBSET Ids]
    BY <1>19 DEF ClearCallbacks, TypeOK
  <2>4. stranded' \subseteq Ids /\ unserved' \subseteq Dcs
    <3>1. id \notin Requests => Of(id) \in Dcs
      BY DEF Ids, Exports, Imports
    <3>2. id \in Exports => Of(id) \in Dcs
      BY DEF Exports
    <3> QED BY <1>19, <3>1, <3>2 DEF ClearCallbacks, TypeOK
  <2> QED BY <1>19, <2>1, <2>2, <2>3, <2>4 DEF ClearCallbacks, TypeOK, MapTypes
<1>20. CASE UNCHANGED vars
  BY <1>20 DEF vars, maps, queues, losses, TypeOK
<1> QED
  BY <1>1, <1>2, <1>3, <1>4, <1>5, <1>6, <1>7, <1>8, <1>9, <1>10, <1>11, <1>12, <1>13, <1>14,
     <1>15, <1>16, <1>17, <1>18, <1>19, <1>20
  DEF Next, Answered, Refused, Posted, AnswerUnauthorized

-----------------------------------------------------------------------------
(***************************************************************************)
(* The maps agree.                                                         *)
(***************************************************************************)

\* Forgetting a request and telling its owner leaves the maps agreeing.
LEMMA ForgetAgrees ==
    ASSUME IInv, NEW id \in Ids, NEW how \in {"done", "failed", "cancelled", "dropped"},
           Forget(id), Tell(id, how)
    PROVE  MapsAgree'
BY IdsOfAll DEF IInv, TypeOK, MapsAgree, Forget, Tell

\* So does forgetting one of the requests of the instance, and one that nobody waits for.
LEMMA ForgetOwnAgrees ==
    ASSUME IInv, NEW id \in Ids, Forget(id), id \notin Requests \/ id \notin parsers,
           outcome' = outcome
    PROVE  MapsAgree'
BY IdsOfAll DEF IInv, TypeOK, MapsAgree, Forget

\* The maps agree when they do not change.
LEMMA SameMapsAgree ==
    ASSUME IInv, UNCHANGED <<maps, outcome>>
    PROVE  MapsAgree'
BY DEF IInv, MapsAgree, maps

\* Every step keeps the maps in agreement.
LEMMA MapsStep == IInv /\ [Next]_vars => MapsAgree'
<1> SUFFICES ASSUME IInv, [Next]_vars PROVE MapsAgree'
  OBVIOUS
<1> USE IdsOfAll
<1>1. ASSUME NEW r \in Requests, Cancel(r) PROVE MapsAgree'
  BY <1>1, ForgetAgrees DEF Cancel
<1>2. ASSUME NEW r \in Requests, NEW p \in Requests \cup {NoId}, Send(r, p) PROVE MapsAgree'
  <2>1. PICK dc \in Dcs, main \in BOOLEAN : SendTo(r, dc, main, sent)
    BY <1>2 DEF Send, IInv, TypeOK
  <2>2. outcome' = [outcome EXCEPT ![r] = "open"]
    BY <1>2 DEF Send, Tell
  <2> QED BY <2>1, <2>2, DcsAreDistinct DEF SendTo, IInv, TypeOK, MapsAgree
<1>3. ASSUME NEW d \in Dcs, NEW r \in Requests, AnswerDone(r, d) PROVE MapsAgree'
  BY <1>3, ForgetAgrees DEF AnswerDone
<1>4. ASSUME NEW d \in Dcs, NEW id \in Ids, AnswerUnknown(id, d) PROVE MapsAgree'
  BY <1>4, ForgetOwnAgrees DEF AnswerUnknown
<1>5. ASSUME NEW d \in Dcs, NEW t \in Dcs, Exported(t, d) PROVE MapsAgree'
  <2>1. parsers' = requests' /\ outcome' = outcome
    BY <1>5 DEF Exported, IInv, MapsAgree
  <2>2. \A id \in Ids : id \in requests' <=> byDc'[id] # NoDc
    BY <1>5, DcsAreDistinct DEF Exported, IInv, MapsAgree, TypeOK
  <2>3. \A r \in Requests : r \in requests' <=> outcome'[r] = "open"
    BY <1>5 DEF Exported, IInv, MapsAgree
  <2> QED BY <2>1, <2>2, <2>3 DEF MapsAgree
<1>6. ASSUME NEW d \in Dcs, NEW t \in Dcs, Imported(t, d) PROVE MapsAgree'
  <2>1. parsers' = requests' /\ outcome' = outcome
    BY <1>6 DEF Imported, IInv, MapsAgree
  <2>2. \A id \in Ids : id \in requests' <=> byDc'[id] # NoDc
    BY <1>6, DcsAreDistinct DEF Imported, IInv, MapsAgree, TypeOK
  <2>3. \A r \in Requests : r \in requests' <=> outcome'[r] = "open"
    BY <1>6 DEF Imported, IInv, MapsAgree
  <2> QED BY <2>1, <2>2, <2>3 DEF MapsAgree
<1>7. ASSUME NEW d \in Dcs, NEW r \in Requests, AnswerFail(r, d) PROVE MapsAgree'
  BY <1>7, ForgetAgrees DEF AnswerFail
<1>8. ASSUME NEW d \in Dcs, NEW id \in Ids, AnswerTemporary(id, d) PROVE MapsAgree'
  <2>1. CASE Forget(id) /\ Tell(id, "failed")
    BY <2>1, ForgetAgrees
  <2>2. CASE UNCHANGED <<parsers, requests, byDc, toMain, outcome>>
    BY <1>8, <2>2, SameMapsAgree DEF AnswerTemporary, maps
  <2> QED BY <1>8, <2>1, <2>2 DEF AnswerTemporary
<1>9. ASSUME NEW d \in Dcs, NEW id \in Ids, AnswerNotInited(id, d) PROVE MapsAgree'
  BY <1>9, SameMapsAgree DEF AnswerNotInited
<1>10. ASSUME NEW d \in Dcs, NEW id \in Ids, NEW kind, Unauthorized(id, d, kind) PROVE MapsAgree'
  <2> DEFINE dc == byDc[id]
  <2>1. dc \in Dcs
    BY <1>10 DEF Unauthorized, Comes, IInv, MapsAgree, TypeOK
  <2>2. CASE waiters[dc] = {}
    <3>1. SendTo(Export(dc), mainDc, TRUE, Rest(id, d)) /\ outcome' = outcome
      BY <1>10, <2>2 DEF Unauthorized
    <3>2. Export(dc) \in Ids /\ Export(dc) \notin Requests
      BY <2>1
    <3> QED BY <3>1, <3>2, DcsAreDistinct DEF SendTo, IInv, TypeOK, MapsAgree
  <2>3. CASE waiters[dc] # {}
    BY <1>10, <2>3, SameMapsAgree DEF Unauthorized
  <2> QED BY <2>2, <2>3
<1>11. ASSUME NEW d \in Dcs, NEW id \in Ids, NEW kind, UnauthorizedHere(id, d, kind) PROVE MapsAgree'
  BY <1>11, ForgetAgrees DEF UnauthorizedHere
<1>12. ASSUME NEW d \in Dcs, NEW t \in Dcs, ExportFails(t, d) PROVE MapsAgree'
  BY <1>12, ForgetOwnAgrees DEF ExportFails
<1>13. ASSUME NEW d \in Dcs, NEW t \in Dcs, ImportFails(t, d) PROVE MapsAgree'
  BY <1>13, ForgetOwnAgrees DEF ImportFails
<1>14. ASSUME NEW d \in Dcs, NEW r \in Requests, NEW t \in Dcs, AnswerMigrate(r, d, t) PROVE MapsAgree'
  BY <1>14, DcsAreDistinct DEF AnswerMigrate, Comes, IInv, MapsAgree, TypeOK
<1>15. ASSUME NEW d \in Dcs, NEW r \in Requests, AnswerWait(r, d) PROVE MapsAgree'
  <2>1. CASE Forget(r) /\ Tell(r, "failed")
    BY <2>1, ForgetAgrees
  <2>2. CASE UNCHANGED <<parsers, requests, byDc, outcome>>
    BY <2>2 DEF IInv, MapsAgree
  <2> QED BY <1>15, <2>1, <2>2 DEF AnswerWait, maps
<1>16. ASSUME NEW d \in Dcs, ClearSession(d) PROVE MapsAgree'
  BY <1>16, SameMapsAgree DEF ClearSession
<1>17. ASSUME NEW d \in Dcs, NEW id \in Ids, GiveUp(id, d) PROVE MapsAgree'
  BY <1>17, SameMapsAgree DEF GiveUp
<1>18. ASSUME NEW id \in Ids, CheckDelayed(id) PROVE MapsAgree'
  BY <1>18, SameMapsAgree DEF CheckDelayed
<1>19. ASSUME NEW id \in Ids, NEW how \in Hows, ClearCallbacks(id, how) PROVE MapsAgree'
  <2>1. Forget(id)
    BY <1>19 DEF ClearCallbacks
  <2>2. CASE id \in parsers
    <3>1. PICK said \in {"failed", "dropped"} : Tell(id, said)
      BY <1>19, <2>2 DEF ClearCallbacks
    <3> QED BY <2>1, <3>1, ForgetAgrees
  <2>3. CASE id \notin parsers
    BY <1>19, <2>1, <2>3, ForgetOwnAgrees DEF ClearCallbacks
  <2> QED BY <2>2, <2>3
<1>20. CASE UNCHANGED vars
  BY <1>20, SameMapsAgree DEF vars
<1> QED
  BY <1>1, <1>2, <1>3, <1>4, <1>5, <1>6, <1>7, <1>8, <1>9, <1>10, <1>11, <1>12, <1>13, <1>14,
     <1>15, <1>16, <1>17, <1>18, <1>19, <1>20
  DEF Next, Answered, Refused, Posted, AnswerUnauthorized

\* Both hold in the beginning.
LEMMA InitIInv == Init => IInv
BY DcsAreDistinct, BoundsAreRight DEF Init, IInv, TypeOK, MapsAgree, Outcomes

\* In every behaviour the types are right and the maps agree.
LEMMA Invariance == Spec => []IInv
<1>1. IInv /\ [Next]_vars => IInv'
  BY TypeStep, MapsStep DEF IInv
<1> QED BY InitIInv, <1>1, PTL DEF Spec

\* The types of the maps, queues and sessions of MTP::Instance, for any requests,
\* data centres and number of errors.
THEOREM TypeCorrectness == Spec => []TypeOK
<1>1. IInv => TypeOK
  BY DEF IInv
<1> QED BY Invariance, <1>1, PTL

\* The three maps of MTP::Instance always speak of the same requests, the open ones.
THEOREM MapsAlwaysAgree == Spec => []MapsAgree
<1>1. IInv => MapsAgree
  BY DEF IInv
<1> QED BY Invariance, <1>1, PTL

-----------------------------------------------------------------------------
(***************************************************************************)
(* No request is left behind but in the ways that are counted as losses.   *)
(***************************************************************************)

\* Stronger than WaitersAreServed: a request that was cancelled stays among the waiters,
\* and the next one that comes relies on the export or import that was sent for it.
Served ==
    \A d \in Dcs : waiters[d] # {} =>
        Export(d) \in requests \/ Import(d) \in requests \/ d \in unserved

\* Every step keeps the waiters served.
LEMMA ServedStep == IInv /\ Served /\ [Next]_vars => Served'
<1> SUFFICES ASSUME IInv, Served, [Next]_vars, NEW dc \in Dcs, waiters'[dc] # {}
             PROVE  Export(dc) \in requests' \/ Import(dc) \in requests' \/ dc \in unserved'
  BY DEF Served
<1> DEFINE Asked == Export(dc) \in requests' \/ Import(dc) \in requests' \/ dc \in unserved'
<1> USE IdsOfAll
<1>0. \A t \in Dcs : t # dc => Export(t) # Export(dc) /\ Import(t) # Import(dc)
  BY DEF Export, Import
<1>1. ASSUME UNCHANGED waiters, requests \subseteq requests', unserved \subseteq unserved' PROVE Asked
  BY <1>1 DEF Served
<1>2. ASSUME NEW r \in Requests, UNCHANGED <<waiters, unserved>>, Forget(r) PROVE Asked
  BY <1>2 DEF Served, Forget
<1>3. ASSUME NEW r \in Requests, Cancel(r) PROVE Asked
  BY <1>2, <1>3 DEF Cancel, queues, losses
<1>4. ASSUME NEW r \in Requests, NEW p \in Requests \cup {NoId}, Send(r, p) PROVE Asked
  BY <1>1, <1>4 DEF Send, SendTo, queues, losses
<1>5. ASSUME NEW d \in Dcs, NEW r \in Requests, AnswerDone(r, d) PROVE Asked
  BY <1>2, <1>5 DEF AnswerDone, queues, losses
<1>6. ASSUME NEW d \in Dcs, NEW id \in Ids, AnswerUnknown(id, d) PROVE Asked
  BY <1>1, <1>6 DEF AnswerUnknown, Forget, IInv, MapsAgree, queues, losses
<1>7. ASSUME NEW d \in Dcs, NEW t \in Dcs, Exported(t, d) PROVE Asked
  BY <1>0, <1>7 DEF Exported, Served, losses
<1>8. ASSUME NEW d \in Dcs, NEW t \in Dcs, Imported(t, d) PROVE Asked
  <2>1. t # dc
    BY <1>8 DEF Imported, IInv, TypeOK
  <2> QED BY <1>0, <1>8, <2>1 DEF Imported, Served, IInv, TypeOK
<1>9. ASSUME NEW d \in Dcs, NEW r \in Requests, AnswerFail(r, d) PROVE Asked
  BY <1>2, <1>9 DEF AnswerFail, queues, losses
<1>10. ASSUME NEW d \in Dcs, NEW id \in Ids, AnswerTemporary(id, d) PROVE Asked
  BY <1>1, <1>2, <1>10 DEF AnswerTemporary, losses
<1>11. ASSUME NEW d \in Dcs, NEW id \in Ids, AnswerNotInited(id, d) PROVE Asked
  BY <1>1, <1>11 DEF AnswerNotInited, maps, queues, losses
<1>12. ASSUME NEW d \in Dcs, NEW id \in Ids, NEW kind, Unauthorized(id, d, kind) PROVE Asked
  <2> DEFINE own == byDc[id]
  <2>1. own \in Dcs
    BY <1>12 DEF Unauthorized, Comes, IInv, MapsAgree, TypeOK
  <2>2. dc # own => waiters'[dc] = waiters[dc]
    BY <1>12, <2>1 DEF Unauthorized, IInv, TypeOK
  <2>3. requests \subseteq requests' /\ unserved \subseteq unserved'
    BY <1>12 DEF Unauthorized, SendTo, maps
  <2>4. waiters[own] = {} => Export(own) \in requests'
    BY <1>12 DEF Unauthorized, SendTo
  <2> QED BY <2>1, <2>2, <2>3, <2>4 DEF Served
<1>13. ASSUME NEW d \in Dcs, NEW id \in Ids, NEW kind, UnauthorizedHere(id, d, kind) PROVE Asked
  <2>1. waiters' = waiters /\ requests' = requests \ {id} /\ unserved \subseteq unserved'
    BY <1>13 DEF UnauthorizedHere, Forget
  <2>2. CASE id \in Requests
    BY <2>1, <2>2 DEF Served
  <2>3. CASE id \in Imports
    BY <1>0, <1>13, <2>1, <2>3 DEF Served, UnauthorizedHere, Imports
  <2> QED BY <1>13, <2>2, <2>3 DEF UnauthorizedHere, Asking
<1>14. ASSUME NEW d \in Dcs, NEW t \in Dcs, ExportFails(t, d) PROVE Asked
  <2>1. t # dc
    BY <1>14 DEF ExportFails, IInv, TypeOK
  <2> QED BY <1>0, <1>14, <2>1 DEF ExportFails, Forget, Served, IInv, TypeOK
<1>15. ASSUME NEW d \in Dcs, NEW t \in Dcs, ImportFails(t, d) PROVE Asked
  BY <1>0, <1>15 DEF ImportFails, Forget, Served, queues
<1>16. ASSUME NEW d \in Dcs, NEW r \in Requests, NEW t \in Dcs, AnswerMigrate(r, d, t) PROVE Asked
  BY <1>1, <1>16 DEF AnswerMigrate, queues
<1>17. ASSUME NEW d \in Dcs, NEW r \in Requests, AnswerWait(r, d) PROVE Asked
  <2>1. unserved' = unserved /\ (waiters'[dc] # {} => waiters[dc] # {})
    BY <1>17 DEF AnswerWait, queues, IInv, TypeOK
  <2>2. requests \ {r} \subseteq requests'
    BY <1>17 DEF AnswerWait, Forget, maps
  <2> QED BY <2>1, <2>2 DEF Served
<1>18. ASSUME NEW d \in Dcs, ClearSession(d) PROVE Asked
  BY <1>1, <1>18 DEF ClearSession, maps, queues, losses
<1>19. ASSUME NEW d \in Dcs, NEW id \in Ids, GiveUp(id, d) PROVE Asked
  BY <1>1, <1>19 DEF GiveUp, maps, queues, losses
<1>20. ASSUME NEW id \in Ids, CheckDelayed(id) PROVE Asked
  BY <1>1, <1>20 DEF CheckDelayed, maps, losses
<1>21. ASSUME NEW id \in Ids, NEW how \in Hows, ClearCallbacks(id, how) PROVE Asked
  <2>1. requests' = requests \ {id} /\ unserved \subseteq unserved'
    BY <1>21 DEF ClearCallbacks, Forget
  <2>2. waiters[dc] # {}
    BY <1>21 DEF ClearCallbacks, IInv, TypeOK
  <2>3. CASE id \notin parsers \/ id \in Requests
    BY <2>1, <2>2, <2>3 DEF Served, IInv, MapsAgree
  <2>4. CASE id \in parsers \cap Exports /\ how = "told"
    <3>1. Of(id) \in Dcs /\ id = Export(Of(id))
      BY <2>4 DEF Exports, Export, Of
    <3>2. Of(id) # dc
      BY <1>21, <2>4, <3>1 DEF ClearCallbacks, IInv, TypeOK
    <3> QED BY <1>0, <2>1, <2>2, <3>1, <3>2 DEF Served
  <2>5. CASE id \in parsers \ Requests /\ ~(id \in parsers \cap Exports /\ how = "told")
    <3>1. Of(id) \in Dcs /\ (id = Export(Of(id)) \/ id = Import(Of(id)))
      BY <2>5 DEF Ids, Exports, Imports, Export, Import, Of
    <3>2. Of(id) \in unserved'
      BY <1>21, <2>5 DEF ClearCallbacks
    <3> QED BY <1>0, <2>1, <2>2, <3>1, <3>2 DEF Served
  <2> QED BY <2>3, <2>4, <2>5
<1>22. CASE UNCHANGED vars
  BY <1>1, <1>22 DEF vars, maps, queues, losses
<1> QED
  BY <1>3, <1>4, <1>5, <1>6, <1>7, <1>8, <1>9, <1>10, <1>11, <1>12, <1>13, <1>14,
     <1>15, <1>16, <1>17, <1>18, <1>19, <1>20, <1>21, <1>22
  DEF Next, Answered, Refused, Posted, AnswerUnauthorized

\* A request that waits for an authorization waits for one that was asked for, unless it
\* is in a data centre where the code is known to leave its waiters to themselves.
THEOREM WaitersAlwaysServed == Spec => []WaitersAreServed
<1>1. Init => Served
  BY DEF Init, Served
<1>2. Served => WaitersAreServed
  BY DEF Served, WaitersAreServed
<1> QED BY Invariance, ServedStep, <1>1, <1>2, PTL DEF Spec

\* Where a request is looked for: NothingStranded in terms of the variables.
Found(id) ==
    \/ \E d \in Dcs : <<id, d>> \in sent \/ id \in waiters[d]
    \/ id \in delayed \cup stranded
    \/ \E how \in Hows : <<id, how>> \in clearing
AllFound == \A id \in requests : Found(id)

LEMMA FoundIsNotStranded == TypeOK /\ AllFound => NothingStranded
<1> SUFFICES ASSUME TypeOK, AllFound, NEW id \in requests,
                    \A how \in Hows : <<id, how>> \notin clearing, id \notin stranded
             PROVE  \E x : x \in Places(id)
  BY DEF NothingStranded
<1>1. ASSUME NEW d \in Dcs, <<id, d>> \in sent PROVE <<"session", d>> \in Places(id)
  BY <1>1 DEF Places
<1>2. ASSUME NEW d \in Dcs, id \in waiters[d] PROVE <<"waits", d>> \in Places(id)
  BY <1>2 DEF Places
<1>3. ASSUME id \in delayed PROVE <<"delayed", mainDc>> \in Places(id)
  BY <1>3 DEF Places, TypeOK
<1> QED BY <1>1, <1>2, <1>3 DEF AllFound, Found

\* The sent ones are those with a data centre.
LEMMA SentSomewhere ==
    ASSUME NEW s \in SUBSET (Ids \X Dcs), NEW id
    PROVE  id \in SentIds(s) <=> \E w \in Dcs : <<id, w>> \in s
<1>1. ASSUME id \in SentIds(s) PROVE \E w \in Dcs : <<id, w>> \in s
  <2>1. PICK x \in s : id = x[1]
    BY <1>1 DEF SentIds
  <2>2. x = <<x[1], x[2]>> /\ x[2] \in Dcs
    BY <2>1
  <2> QED BY <2>1, <2>2
<1>2. ASSUME NEW w \in Dcs, <<id, w>> \in s PROVE id \in SentIds(s)
  <2>1. <<id, w>>[1] = id
    OBVIOUS
  <2> QED BY <1>2, <2>1 DEF SentIds
<1> QED BY <1>1, <1>2

\* Every step keeps every request where it can be found.
LEMMA FoundStep == IInv /\ AllFound /\ [Next]_vars => AllFound'
<1> SUFFICES ASSUME IInv, AllFound, [Next]_vars, NEW it \in requests'
             PROVE  Found(it)'
  BY DEF AllFound
<1> USE IdsOfAll
<1>0. it \in Ids
  BY TypeStep DEF TypeOK, IInv
<1>1. ASSUME NEW r \in Ids, NEW d \in Dcs, it \in requests, it # r, Rest(r, d) \subseteq sent',
             UNCHANGED clearing, delayed \subseteq delayed', stranded \subseteq stranded',
             \A w \in Dcs : it \in waiters[w] => it \in waiters'[w] \cup stranded'
      PROVE  Found(it)'
  BY <1>1 DEF AllFound, Found, Rest
<1>2. ASSUME it \in requests, sent \subseteq sent', clearing \subseteq clearing',
             UNCHANGED <<delayed, waiters>>, stranded \subseteq stranded'
      PROVE  Found(it)'
  BY <1>2 DEF AllFound, Found
<1>3. ASSUME NEW r \in Requests, Cancel(r) PROVE Found(it)'
  BY <1>3 DEF Cancel, Forget, AllFound, Found, queues, losses
<1>4. ASSUME NEW r \in Requests, NEW p \in Requests \cup {NoId}, Send(r, p) PROVE Found(it)'
  <2>1. PICK d \in Dcs, main \in BOOLEAN : SendTo(r, d, main, sent)
    BY <1>4 DEF Send, IInv, TypeOK
  <2>2. CASE it = r
    BY <2>1, <2>2 DEF SendTo, Found
  <2>3. CASE it # r
    BY <1>2, <1>4, <2>1, <2>3 DEF Send, SendTo, queues, losses
  <2> QED BY <2>2, <2>3
<1>5. ASSUME NEW d \in Dcs, NEW r \in Requests, AnswerDone(r, d) PROVE Found(it)'
  BY <1>1, <1>5 DEF AnswerDone, Forget, queues, losses
<1>6. ASSUME NEW d \in Dcs, NEW id \in Ids, AnswerUnknown(id, d) PROVE Found(it)'
  BY <1>1, <1>6 DEF AnswerUnknown, Forget, queues, losses
<1>7. ASSUME NEW d \in Dcs, NEW t \in Dcs, Exported(t, d) PROVE Found(it)'
  <2>1. CASE it = Import(t)
    BY <1>7, <2>1 DEF Exported, Found
  <2>2. CASE it # Import(t)
    BY <1>1, <1>7, <2>2 DEF Exported, losses
  <2> QED BY <2>1, <2>2
<1>8. ASSUME NEW d \in Dcs, NEW t \in Dcs, Imported(t, d) PROVE Found(it)'
  <2> DEFINE rest == Rest(Import(t), d)
  <2>1. it \in requests /\ it # Import(t) /\ stranded \subseteq stranded'
    BY <1>8 DEF Imported
  <2>2. \A s \in SUBSET (Ids \X Dcs) : \A id : id \in SentIds(s) <=> \E w \in Dcs : <<id, w>> \in s
    BY SentSomewhere
  <2>3. rest \in SUBSET (Ids \X Dcs) /\ sent' \in SUBSET (Ids \X Dcs)
    BY RestTypes, TypeStep DEF IInv, TypeOK
  <2>4. CASE it \in SentIds(rest) \/ it \in waiters[t]
    <3>1. it \in SentIds(sent') \/ it \in stranded'
      BY <1>8, <2>1, <2>4 DEF Imported
    <3> QED BY <2>2, <2>3, <3>1 DEF Found
  <2>5. CASE it \notin SentIds(rest) /\ it \notin waiters[t]
    <3>1. \A w \in Dcs : <<it, w>> \notin sent
      BY <2>1, <2>2, <2>3, <2>5 DEF Rest
    <3>2. \A w \in Dcs : it \in waiters[w] => it \in waiters'[w]
      BY <1>8, <2>5 DEF Imported, IInv, TypeOK
    <3> QED BY <1>8, <2>1, <3>1, <3>2 DEF Imported, AllFound, Found
  <2> QED BY <2>4, <2>5
<1>9. ASSUME NEW d \in Dcs, NEW r \in Requests, AnswerFail(r, d) PROVE Found(it)'
  BY <1>1, <1>9 DEF AnswerFail, Forget, queues, losses
<1>10. ASSUME NEW d \in Dcs, NEW id \in Ids, AnswerTemporary(id, d) PROVE Found(it)'
  <2>1. CASE it = id
    BY <1>10, <2>1 DEF AnswerTemporary, Forget, Found
  <2>2. CASE it # id
    BY <1>1, <1>10, <2>2 DEF AnswerTemporary, Forget, losses
  <2> QED BY <2>1, <2>2
<1>11. ASSUME NEW d \in Dcs, NEW id \in Ids, AnswerNotInited(id, d) PROVE Found(it)'
  <2>1. byDc[id] \in Dcs
    BY <1>11 DEF AnswerNotInited, Comes, IInv, MapsAgree, TypeOK
  <2>2. CASE it = id
    BY <1>11, <2>1, <2>2 DEF AnswerNotInited, Found
  <2>3. CASE it # id
    BY <1>1, <1>11, <2>3 DEF AnswerNotInited, maps, queues, losses
  <2> QED BY <2>2, <2>3
<1>12. ASSUME NEW d \in Dcs, NEW id \in Ids, NEW kind, Unauthorized(id, d, kind) PROVE Found(it)'
  <2> DEFINE own == byDc[id]
  <2>1. own \in Dcs
    BY <1>12 DEF Unauthorized, Comes, IInv, MapsAgree, TypeOK
  <2>2. \A w \in Dcs : waiters[w] \subseteq waiters'[w]
    BY <1>12, <2>1 DEF Unauthorized, IInv, TypeOK
  <2>3. Rest(id, d) \subseteq sent' /\ UNCHANGED <<clearing, delayed, stranded>>
    BY <1>12 DEF Unauthorized, SendTo
  <2>4. CASE it = id
    <3>1. it \in waiters'[own]
      BY <1>12, <2>1, <2>4 DEF Unauthorized, IInv, TypeOK
    <3> QED BY <2>1, <3>1 DEF Found
  <2>5. CASE waiters[own] = {} /\ it = Export(own)
    <3>1. <<it, mainDc>> \in sent' /\ mainDc \in Dcs
      BY <1>12, <2>5 DEF Unauthorized, SendTo, IInv, TypeOK
    <3> QED BY <3>1 DEF Found
  <2>6. CASE it # id /\ ~(waiters[own] = {} /\ it = Export(own))
    <3>1. it \in requests
      BY <1>12, <2>6 DEF Unauthorized, SendTo, maps
    <3> QED BY <1>1, <2>2, <2>3, <2>6, <3>1
  <2> QED BY <2>4, <2>5, <2>6
<1>13. ASSUME NEW d \in Dcs, NEW id \in Ids, NEW kind, UnauthorizedHere(id, d, kind) PROVE Found(it)'
  BY <1>1, <1>13 DEF UnauthorizedHere, Forget
<1>14. ASSUME NEW d \in Dcs, NEW t \in Dcs, ExportFails(t, d) PROVE Found(it)'
  <2>1. \A w \in Dcs : it \in waiters[w] => it \in waiters'[w] \cup stranded'
    BY <1>14 DEF ExportFails, IInv, TypeOK
  <2> QED BY <1>1, <1>14, <2>1 DEF ExportFails, Forget
<1>15. ASSUME NEW d \in Dcs, NEW t \in Dcs, ImportFails(t, d) PROVE Found(it)'
  BY <1>1, <1>15 DEF ImportFails, Forget, queues
<1>16. ASSUME NEW d \in Dcs, NEW r \in Requests, NEW t \in Dcs, AnswerMigrate(r, d, t) PROVE Found(it)'
  <2> DEFINE rest == Rest(r, d)
  <2>1. it \in requests /\ stranded \subseteq stranded' /\ UNCHANGED <<waiters, delayed, clearing>>
    BY <1>16 DEF AnswerMigrate, queues
  <2>2. \A s \in SUBSET (Ids \X Dcs) : \A id : id \in SentIds(s) <=> \E w \in Dcs : <<id, w>> \in s
    BY SentSomewhere
  <2>3. rest \in SUBSET (Ids \X Dcs) /\ sent' \in SUBSET (Ids \X Dcs)
    BY RestTypes, TypeStep DEF IInv, TypeOK
  <2>4. CASE it \in SentIds(rest)
    <3>1. it \in SentIds(sent') \/ it \in stranded'
      BY <1>16, <2>4 DEF AnswerMigrate
    <3> QED BY <2>2, <2>3, <3>1 DEF Found
  <2>5. CASE it = r
    <3>1. <<it, t>> \in sent'
      BY <1>16, <2>5 DEF AnswerMigrate, MainIs
    <3> QED BY <3>1 DEF Found
  <2>6. CASE it \notin SentIds(rest) /\ it # r
    <3>1. \A w \in Dcs : <<it, w>> \notin sent
      BY <2>2, <2>3, <2>6 DEF Rest
    <3> QED BY <2>1, <3>1 DEF AllFound, Found
  <2> QED BY <2>4, <2>5, <2>6
<1>17. ASSUME NEW d \in Dcs, NEW r \in Requests, AnswerWait(r, d) PROVE Found(it)'
  <2> DEFINE p == Follows(r)
             dc == byDc[r]
  <2>1. dc \in Dcs /\ UNCHANGED clearing /\ Rest(r, d) \subseteq sent' /\ it \in requests
    BY <1>17 DEF AnswerWait, Comes, Forget, maps, IInv, MapsAgree, TypeOK
  <2>2. /\ \A w \in Dcs : waiters[w] \subseteq waiters'[w]
        /\ delayed \subseteq delayed' /\ stranded \subseteq stranded'
    BY <1>17, <2>1 DEF AnswerWait, queues, IInv, TypeOK
  <2>3. CASE it # r
    BY <1>1, <2>1, <2>2, <2>3
  <2>4. CASE it = r
    <3>1. <<r, dc>> \in sent' \/ r \in waiters'[dc] \/ r \in delayed' \/ r \in stranded'
      BY <1>17, <2>1, <2>4 DEF AnswerWait, Forget, IInv, TypeOK
    <3> QED BY <2>1, <2>4, <3>1 DEF Found
  <2> QED BY <2>3, <2>4
<1>18. ASSUME NEW d \in Dcs, ClearSession(d) PROVE Found(it)'
  <2>1. PICK S \in SUBSET {x \in sent : x[2] = d}, T \in SUBSET {x \in sent : x[2] = d} :
            /\ sent' = sent \ (S \ T)
            /\ clearing' = clearing \cup {<<x[1], "silently">> : x \in S}
    BY <1>18 DEF ClearSession
  <2>2. it \in requests /\ UNCHANGED <<waiters, delayed, stranded>>
    BY <1>18 DEF ClearSession, maps, queues, losses
  <2> QED BY <2>1, <2>2 DEF AllFound, Found, Hows
<1>19. ASSUME NEW d \in Dcs, NEW id \in Ids, GiveUp(id, d) PROVE Found(it)'
  <2>1. it \in requests /\ UNCHANGED <<waiters, delayed, stranded>> /\ sent' = Rest(id, d)
    BY <1>19 DEF GiveUp, maps, queues, losses
  <2>2. clearing \cup {<<id, "told">>} \subseteq clearing'
    BY <1>19 DEF GiveUp
  <2> QED BY <2>1, <2>2 DEF AllFound, Found, Hows, Rest
<1>20. ASSUME NEW id \in Ids, CheckDelayed(id) PROVE Found(it)'
  <2>1. it \in requests /\ UNCHANGED <<waiters, stranded, clearing>>
    BY <1>20 DEF CheckDelayed, maps, losses
  <2>2. byDc[it] \in Dcs
    BY <1>0, <2>1 DEF IInv, MapsAgree, TypeOK
  <2> QED BY <1>20, <2>1, <2>2 DEF CheckDelayed, AllFound, Found
<1>21. ASSUME NEW id \in Ids, NEW how \in Hows, ClearCallbacks(id, how) PROVE Found(it)'
  <2>1. it \in requests /\ it # id /\ UNCHANGED <<sent, delayed>> /\ stranded \subseteq stranded'
    BY <1>21 DEF ClearCallbacks, Forget
  <2>2. \A w \in Dcs : it \in waiters[w] => it \in waiters'[w] \cup stranded'
    BY <1>21 DEF ClearCallbacks, IInv, TypeOK
  <2>3. \A h \in Hows : <<it, h>> \in clearing => <<it, h>> \in clearing'
    BY <1>21, <2>1 DEF ClearCallbacks
  <2> QED BY <2>1, <2>2, <2>3 DEF AllFound, Found
<1>22. CASE UNCHANGED vars
  BY <1>2, <1>22 DEF vars, maps, queues, losses
<1> QED
  BY <1>3, <1>4, <1>5, <1>6, <1>7, <1>8, <1>9, <1>10, <1>11, <1>12, <1>13, <1>14,
     <1>15, <1>16, <1>17, <1>18, <1>19, <1>20, <1>21, <1>22
  DEF Next, Answered, Refused, Posted, AnswerUnauthorized

\* A request is always with a session, waiting, delayed or about to be cleared, unless it
\* was lost in one of the ways that NothingStranded names.
THEOREM NothingEverStranded == Spec => []NothingStranded
<1>1. Init => AllFound
  BY DEF Init, AllFound
<1>2. IInv /\ AllFound => NothingStranded
  BY FoundIsNotStranded DEF IInv
<1> QED BY Invariance, FoundStep, <1>1, <1>2, PTL DEF Spec

-----------------------------------------------------------------------------
(***************************************************************************)
(* The refinement.                                                         *)
(***************************************************************************)

\* What a step may do to the outcomes: nothing, or one request is sent, or ends.
OutcomeStep ==
    \/ outcome' = outcome
    \/ \E r \in Requests :
          \/ outcome[r] = "new" /\ outcome' = [outcome EXCEPT ![r] = "open"]
          \/ /\ outcome[r] = "open"
             /\ \E how \in {"done", "failed", "dropped", "cancelled"} :
                   outcome' = [outcome EXCEPT ![r] = how]

\* Telling the owner of a request that has callbacks is such a step.
LEMMA TellStep ==
    ASSUME IInv, NEW id \in parsers, NEW how \in {"done", "failed", "dropped", "cancelled"},
           Tell(id, how)
    PROVE  OutcomeStep
BY DEF IInv, MapsAgree, Tell, OutcomeStep

\* Every step is.
LEMMA OutcomesStep == IInv /\ [Next]_vars => OutcomeStep
<1> SUFFICES ASSUME IInv, [Next]_vars, outcome' # outcome PROVE OutcomeStep
  BY DEF OutcomeStep
<1>1. ASSUME NEW r \in Requests, Cancel(r) PROVE OutcomeStep
  BY <1>1 DEF Cancel, Tell, OutcomeStep
<1>2. ASSUME NEW r \in Requests, NEW p \in Requests \cup {NoId}, Send(r, p) PROVE OutcomeStep
  BY <1>2 DEF Send, Tell, OutcomeStep
<1>3. ASSUME NEW d \in Dcs, Answered(d) PROVE OutcomeStep
  BY <1>3, TellStep DEF Answered, AnswerDone, AnswerUnknown, Exported, Imported, Comes
<1>4. ASSUME NEW d \in Dcs, Refused(d) PROVE OutcomeStep
  <2>1. ASSUME NEW r \in Requests, AnswerFail(r, d) \/ AnswerWait(r, d) PROVE OutcomeStep
    BY <2>1, TellStep DEF AnswerFail, AnswerWait, Comes
  <2>2. ASSUME NEW r \in Requests, NEW t \in Dcs, AnswerMigrate(r, d, t) PROVE OutcomeStep
    BY <2>2 DEF AnswerMigrate
  <2>3. ASSUME NEW id \in Ids, AnswerTemporary(id, d) \/ AnswerNotInited(id, d) PROVE OutcomeStep
    BY <2>3, TellStep DEF AnswerTemporary, AnswerNotInited, Comes
  <2>4. ASSUME NEW id \in Ids, AnswerUnauthorized(id, d) PROVE OutcomeStep
    BY <2>4, TellStep DEF AnswerUnauthorized, Unauthorized, UnauthorizedHere, Comes
  <2>5. ASSUME NEW t \in Dcs, ExportFails(t, d) \/ ImportFails(t, d) PROVE OutcomeStep
    BY <2>5 DEF ExportFails, ImportFails
  <2>6. ASSUME NEW id \in Ids, GiveUp(id, d) PROVE OutcomeStep
    BY <2>6 DEF GiveUp
  <2>7. CASE ClearSession(d)
    BY <2>7 DEF ClearSession
  <2> QED BY <1>4, <2>1, <2>2, <2>3, <2>4, <2>5, <2>6, <2>7 DEF Refused
<1>5. ASSUME NEW id \in Ids, CheckDelayed(id) PROVE OutcomeStep
  BY <1>5 DEF CheckDelayed
<1>6. ASSUME NEW id \in Ids, NEW how \in Hows, ClearCallbacks(id, how) PROVE OutcomeStep
  BY <1>6, TellStep DEF ClearCallbacks
<1>7. CASE UNCHANGED vars
  BY <1>7 DEF vars
<1> QED BY <1>1, <1>2, <1>3, <1>4, <1>5, <1>6, <1>7 DEF Next, Posted

\* The phase of a request is its outcome, because the maps agree.
phaseOf == [r \in Requests |-> IF r \in parsers THEN "open" ELSE outcome[r]]
LEMMA PhaseIsOutcome == IInv => phaseOf = outcome
BY DEF IInv, TypeOK, MapsAgree, phaseOf

\* MTP::Instance keeps the promise of RequestService: a request that was sent ends at
\* most once, however it was delayed, moved, authorized, resent or cleared before.
THEOREM Implementation == Spec => ImplementsService
<1>1. Init => Service!Init
  <2> SUFFICES ASSUME Init PROVE phaseOf = [r \in Requests |-> "new"]
    BY DEF Service!Init, phaseOf
  <2> QED BY InitIInv, PhaseIsOutcome DEF Init
<1>2. IInv /\ IInv' /\ [Next]_vars => [Service!Next]_phaseOf
  <2> SUFFICES ASSUME IInv, IInv', [Next]_vars PROVE [Service!Next]_phaseOf
    OBVIOUS
  <2>1. phaseOf = outcome /\ phaseOf' = outcome'
    BY DEF IInv, TypeOK, MapsAgree, phaseOf
  <2>2. OutcomeStep
    BY OutcomesStep
  <2>3. \A r \in Requests :
           /\ Service!Send(r) <=>
                phaseOf[r] = "new" /\ phaseOf' = [phaseOf EXCEPT ![r] = "open"]
           /\ Service!End(r) <=>
                /\ phaseOf[r] = "open"
                /\ \E how \in {"done", "failed", "dropped", "cancelled"} :
                      phaseOf' = [phaseOf EXCEPT ![r] = how]
    BY DEF Service!Send, Service!End, phaseOf
  <2> QED BY <2>1, <2>2, <2>3 DEF OutcomeStep, Service!Next
<1> QED BY Invariance, <1>1, <1>2, PTL DEF Spec, ImplementsService, Service!Spec, phaseOf

-----------------------------------------------------------------------------
(***************************************************************************)
(* A request is in one place at most.                                      *)
(***************************************************************************)

\* The requests of the instance itself, which are sent more than once.
Own == Exports \cup Imports

\* A request is with no session, in no queue and nobody's waiter.
Nowhere(id) ==
    /\ id \notin delayed
    /\ \A d \in Dcs : <<id, d>> \notin sent /\ id \notin waiters[d]

\* It is in one place at most.
OneAt(id) ==
    /\ \A d, e \in Dcs : <<id, d>> \in sent => id \notin waiters[e] /\ (<<id, e>> \in sent => e = d)
    /\ \A d, e \in Dcs : id \in waiters[d] /\ id \in waiters[e] => e = d
    /\ \A d \in Dcs : <<id, d>> \in sent \/ id \in waiters[d] => id \notin delayed

\* The invariant.  Only a request that is nowhere is sent anew: one of the program, which is
\* new, or one of the instance, which is not registered (OwnGone) and whose old callbacks
\* are not about to be cleared (OwnClearing).  An export is sent only if nobody waits, and
\* then neither it nor the import that follows it is under way (OneAsks, AskedFor); an
\* import that is refused is found to wait where it asks for the authorization (ImportsHome).
Single == \A id \in requests : OneAt(id)
NewNowhere == \A r \in Requests : outcome[r] = "new" => Nowhere(r)
OwnGone ==
    \A e \in Own : e \notin requests => Nowhere(e) /\ \A how \in Hows : <<e, how>> \notin clearing
OwnClearing ==
    \A e \in Own : \A how \in Hows : <<e, how>> \in clearing =>
        Nowhere(e) /\ \A h \in Hows : <<e, h>> \in clearing => h = how
OneAsks == \A d \in Dcs : ~(Export(d) \in requests /\ Import(d) \in requests)
AskedFor == \A d \in Dcs : Export(d) \in requests \/ Import(d) \in requests => waiters[d] # {}
ImportsHome ==
    \A d \in Dcs : /\ byDc[Import(d)] \in {d, NoDc}
                   /\ \A e \in Dcs : Import(d) \in waiters[e] => e = d
Sole ==
    /\ Single /\ NewNowhere /\ OwnGone /\ OwnClearing
    /\ OneAsks /\ AskedFor /\ ImportsHome

\* A step puts a request into no place where it was not.
NoMore(id) ==
    /\ id \in delayed' => id \in delayed
    /\ \A d \in Dcs : /\ <<id, d>> \in sent' => <<id, d>> \in sent
                      /\ id \in waiters'[d] => id \in waiters[d]

\* The requests of the instance are one export and one import of each data centre, and
\* none of them is one of the program.
LEMMA OwnIds ==
    /\ \A e \in Own : e \in Ids /\ e \notin Requests /\ \E t \in Dcs : e = Export(t) \/ e = Import(t)
    /\ \A t \in Dcs : Export(t) \in Own /\ Import(t) \in Own
    /\ \A t, u \in Dcs : /\ Export(t) = Export(u) => t = u
                         /\ Import(t) = Import(u) => t = u
                         /\ Export(t) # Import(u)
BY IdsAreDistinct DEF Own, Ids, Exports, Imports, Export, Import

\* A request that is put nowhere stays in one place, or in none.
LEMMA NoMoreStays ==
    ASSUME NEW id, NoMore(id)
    PROVE  (OneAt(id) => OneAt(id)') /\ (Nowhere(id) => Nowhere(id)')
BY DEF NoMore, OneAt, Nowhere

\* One that is nowhere is in one place at most.
LEMMA NowhereIsOne == \A id : Nowhere(id) => OneAt(id)
BY DEF Nowhere, OneAt

\* One of the instance that is somewhere is registered, and not about to be cleared.
LEMMA OwnSomewhere ==
    ASSUME Sole, NEW e \in Own, ~Nowhere(e)
    PROVE  e \in requests /\ \A how \in Hows : <<e, how>> \notin clearing
BY DEF Sole, OwnGone, OwnClearing

\* A request that is new after a step was new before it.
LEMMA NewBefore ==
    ASSUME IInv, [Next]_vars, NEW r \in Requests, outcome'[r] = "new"
    PROVE  outcome[r] = "new" /\ r \notin requests
<1>1. OutcomeStep
  BY OutcomesStep
<1> QED BY <1>1 DEF OutcomeStep, IInv, TypeOK, MapsAgree

\* A request that a session has answered is nowhere else.
LEMMA AnsweredIsNowhere ==
    ASSUME Sole, NEW id \in requests, NEW d \in Dcs, <<id, d>> \in sent
    PROVE  /\ id \notin delayed
           /\ \A e \in Dcs : id \notin waiters[e] /\ <<id, e>> \notin Rest(id, d)
BY DEF Sole, Single, OneAt, Rest

-----------------------------------------------------------------------------
\* A request that ends, with a session or not, leaves the invariant: nothing is put
\* anywhere, and one of the instance was with the session that has answered it.
LEMMA EndedSole ==
    ASSUME IInv, Sole, [Next]_vars, NEW id \in Ids, NEW d \in Dcs,
           id \in Requests \/ <<id, d>> \in sent,
           Forget(id), sent' = Rest(id, d), UNCHANGED <<delayed, waiters, clearing>>
    PROVE  Sole'
<1>1. \A it : NoMore(it)
  BY DEF NoMore, Rest
<1>2. Single'
  BY <1>1, NoMoreStays DEF Sole, Single, Forget
<1>3. NewNowhere'
  BY <1>1, NoMoreStays, NewBefore DEF Sole, NewNowhere
<1>4. OwnGone'
  <2> SUFFICES ASSUME NEW e \in Own, e \notin requests'
               PROVE  Nowhere(e)' /\ \A how \in Hows : <<e, how>> \notin clearing'
    BY DEF OwnGone
  <2>1. CASE e \in requests
    <3>1. e = id /\ <<id, d>> \in sent
      BY <2>1, OwnIds DEF Forget
    <3>2. ~Nowhere(e)
      BY <3>1 DEF Nowhere
    <3>3. \A how \in Hows : <<e, how>> \notin clearing
      BY <3>2, OwnSomewhere
    <3>4. Nowhere(e)'
      BY <2>1, <3>1, AnsweredIsNowhere DEF Nowhere
    <3> QED BY <3>3, <3>4
  <2>2. CASE e \notin requests
    BY <1>1, <2>2, NoMoreStays DEF Sole, OwnGone
  <2> QED BY <2>1, <2>2
<1>5. OwnClearing'
  BY <1>1, NoMoreStays DEF Sole, OwnClearing
<1>6. OneAsks' /\ AskedFor'
  BY DEF Sole, OneAsks, AskedFor, Forget
<1>7. ImportsHome'
  BY OwnIds DEF Sole, ImportsHome, Forget, IInv, TypeOK
<1> QED BY <1>2, <1>3, <1>4, <1>5, <1>6, <1>7 DEF Sole

\* So does one that is moved from one place to another.
LEMMA MovedSole ==
    ASSUME IInv, Sole, [Next]_vars, NEW id \in requests, ~Nowhere(id), OneAt(id)',
           \A it \in Ids : it # id => NoMore(it),
           UNCHANGED <<requests, clearing>>,
           \A d \in Dcs : waiters[d] \subseteq waiters'[d],
           \A d \in Dcs : byDc'[Import(d)] = byDc[Import(d)],
           \A d, e \in Dcs : Import(d) \in waiters'[e] => e = d
    PROVE  Sole'
<1>1. Single'
  BY NoMoreStays DEF Sole, Single, IInv, TypeOK
<1>2. NewNowhere'
  BY IdsOfAll, NoMoreStays, NewBefore DEF Sole, NewNowhere
<1>3. OwnGone' /\ OwnClearing'
  <2>1. \A e \in Own : e # id => NoMore(e)
    BY OwnIds
  <2>2. id \in Own => \A how \in Hows : <<id, how>> \notin clearing
    BY OwnSomewhere
  <2> QED BY <2>1, <2>2, NoMoreStays DEF Sole, OwnGone, OwnClearing
<1>4. OneAsks' /\ AskedFor'
  BY DEF Sole, OneAsks, AskedFor
<1>5. ImportsHome'
  BY DEF Sole, ImportsHome
<1> QED BY <1>1, <1>2, <1>3, <1>4, <1>5 DEF Sole

\* And callbacks that are posted to be cleared, of requests that their sessions let go:
\* those of one of the instance were with it until then.
LEMMA PostedSole ==
    ASSUME IInv, Sole, [Next]_vars, NEW how \in Hows,
           sent' \subseteq sent, UNCHANGED <<requests, byDc, delayed, waiters>>,
           clearing \subseteq clearing',
           \A e \in Own : \A h \in Hows : <<e, h>> \in clearing' /\ <<e, h>> \notin clearing =>
               /\ h = how
               /\ \E d \in Dcs : <<e, d>> \in sent
               /\ \A d \in Dcs : <<e, d>> \notin sent'
    PROVE  Sole'
<1>1. \A it : NoMore(it)
  BY DEF NoMore
<1>2. Single' /\ NewNowhere'
  BY <1>1, NoMoreStays, NewBefore DEF Sole, Single, NewNowhere
<1>3. ASSUME NEW e \in Own, NEW h \in Hows, <<e, h>> \in clearing', <<e, h>> \notin clearing
      PROVE  /\ e \in requests
             /\ Nowhere(e)'
             /\ \A g \in Hows : <<e, g>> \in clearing' => g = h
  <2>1. PICK d \in Dcs : <<e, d>> \in sent
    BY <1>3
  <2>2. e \in requests /\ \A g \in Hows : <<e, g>> \notin clearing
    BY <2>1, OwnSomewhere DEF Nowhere
  <2>3. e \notin delayed /\ \A w \in Dcs : e \notin waiters[w]
    BY <2>1, <2>2, AnsweredIsNowhere
  <2> QED BY <1>3, <2>2, <2>3 DEF Nowhere
<1>4. OwnGone'
  BY <1>1, <1>3, NoMoreStays DEF Sole, OwnGone
<1>5. OwnClearing'
  <2> SUFFICES ASSUME NEW e \in Own, NEW h \in Hows, <<e, h>> \in clearing'
               PROVE  Nowhere(e)' /\ \A g \in Hows : <<e, g>> \in clearing' => g = h
    BY DEF OwnClearing
  <2>1. CASE <<e, h>> \in clearing
    <3>1. Nowhere(e) /\ \A g \in Hows : <<e, g>> \in clearing => g = h
      BY <2>1 DEF Sole, OwnClearing
    <3>2. \A g \in Hows : <<e, g>> \in clearing' => <<e, g>> \in clearing
      BY <3>1 DEF Nowhere
    <3> QED BY <1>1, <3>1, <3>2, NoMoreStays
  <2>2. CASE <<e, h>> \notin clearing
    BY <1>3, <2>2
  <2> QED BY <2>1, <2>2
<1>6. OneAsks' /\ AskedFor' /\ ImportsHome'
  BY DEF Sole, OneAsks, AskedFor, ImportsHome
<1> QED BY <1>2, <1>4, <1>5, <1>6 DEF Sole

\* A request that the program sends was nowhere.
LEMMA SendSole ==
    ASSUME IInv, Sole, [Next]_vars,
           NEW r \in Requests, NEW p \in Requests \cup {NoId}, Send(r, p)
    PROVE  Sole'
<1>1. PICK d \in Dcs, main \in BOOLEAN : SendTo(r, d, main, sent)
  BY DEF Send, IInv, TypeOK
<1>2. UNCHANGED <<delayed, waiters, clearing>> /\ outcome[r] = "new" /\ outcome'[r] = "open"
  BY DEF Send, Tell, queues, IInv, TypeOK
<1>3. Nowhere(r)
  BY <1>2 DEF Sole, NewNowhere
<1>4. \A it : it # r => NoMore(it)
  BY <1>1, <1>2 DEF SendTo, NoMore
<1>5. Single'
  <2>1. OneAt(r)'
    BY <1>1, <1>2, <1>3 DEF SendTo, Nowhere, OneAt
  <2> QED BY <1>1, <1>4, <2>1, NoMoreStays DEF SendTo, Sole, Single
<1>6. NewNowhere'
  BY <1>2, <1>4, NoMoreStays, NewBefore DEF Sole, NewNowhere
<1>7. OwnGone' /\ OwnClearing'
  BY <1>1, <1>2, <1>4, NoMoreStays, OwnIds DEF SendTo, Sole, OwnGone, OwnClearing
<1>8. OneAsks' /\ AskedFor' /\ ImportsHome'
  <2>1. \A t \in Dcs : /\ Export(t) # r /\ Import(t) # r
                       /\ byDc'[Import(t)] = byDc[Import(t)]
    BY <1>1, OwnIds DEF SendTo, IInv, TypeOK
  <2> QED BY <1>1, <1>2, <2>1 DEF SendTo, Sole, OneAsks, AskedFor, ImportsHome
<1> QED BY <1>5, <1>6, <1>7, <1>8 DEF Sole

\* A request that comes is one that its session gives up for it: it is nowhere else then.
LEMMA ComesAlone ==
    ASSUME IInv, Sole, NEW id \in Ids, NEW d \in Dcs, Comes(id, d)
    PROVE  /\ id \in requests /\ <<id, d>> \in sent /\ ~Nowhere(id)
           /\ id \notin delayed
           /\ \A e \in Dcs : id \notin waiters[e] /\ <<id, e>> \notin Rest(id, d)
           /\ byDc[id] \in Dcs
<1>1. id \in requests /\ <<id, d>> \in sent
  BY DEF Comes, IInv, MapsAgree
<1> QED BY <1>1, AnsweredIsNowhere DEF Nowhere, IInv, TypeOK, MapsAgree

\* The first that asks for an authorization has the export sent, which was nowhere: nobody
\* waits, so neither it nor the import is under way.
LEMMA FirstAsksSole ==
    ASSUME IInv, Sole, [Next]_vars, NEW id \in Ids, NEW d \in Dcs, NEW kind,
           Unauthorized(id, d, kind), waiters[byDc[id]] = {}
    PROVE  Sole'
<1>0. PICK dc \in Dcs : byDc[id] = dc
  BY ComesAlone DEF Unauthorized
<1> DEFINE x == Export(dc)
<1>1. /\ id \in requests /\ <<id, d>> \in sent /\ id \notin delayed
      /\ \A e \in Dcs : id \notin waiters[e] /\ <<id, e>> \notin Rest(id, d)
  BY ComesAlone DEF Unauthorized
<1>2. /\ SendTo(x, mainDc, TRUE, Rest(id, d))
      /\ waiters' = [waiters EXCEPT ![dc] = @ \cup {id}]
      /\ UNCHANGED <<delayed, clearing, outcome, mainDc>> /\ mainDc \in Dcs
  BY <1>0 DEF Unauthorized, IInv, TypeOK
<1>3. /\ x \in Own /\ x \notin requests /\ Import(dc) \notin requests /\ Nowhere(x) /\ x # id
      /\ \A how \in Hows : <<x, how>> \notin clearing
  BY <1>0, <1>1, OwnIds DEF Sole, AskedFor, OwnGone
<1>4. \A w \in Dcs : waiters'[w] = IF w = dc THEN {id} ELSE waiters[w]
  BY <1>0, <1>2 DEF IInv, TypeOK
<1>5. \A it : it # x /\ it # id => NoMore(it)
  BY <1>1, <1>2, <1>4 DEF SendTo, NoMore, Rest
<1>6. Single'
  <2>1. OneAt(x)'
    <3>1. x \notin delayed' /\ \A w \in Dcs : x \notin waiters'[w]
      <4>1. x \notin delayed /\ x # id /\ \A w \in Dcs : x \notin waiters[w]
        BY <1>3 DEF Nowhere
      <4>2. delayed' = delayed
        BY <1>2
      <4> HIDE DEF x
      <4> QED BY <1>4, <4>1, <4>2
    <3>2. \A w \in Dcs : <<x, w>> \in sent' => w = mainDc
      BY <1>2, <1>3 DEF SendTo, Nowhere, Rest
    <3> QED BY <3>1, <3>2 DEF OneAt
  <2>2. OneAt(id)'
    BY <1>1, <1>2, <1>3, <1>4 DEF SendTo, OneAt
  <2> QED BY <1>2, <1>5, <2>1, <2>2, NoMoreStays DEF SendTo, Sole, Single
<1>7. NewNowhere'
  BY <1>1, <1>3, <1>5, NoMoreStays, NewBefore, OwnIds DEF Sole, NewNowhere
<1>8. OwnGone' /\ OwnClearing'
  <2>1. id \in Own => \A how \in Hows : <<id, how>> \notin clearing
    BY <1>1, OwnSomewhere DEF Nowhere
  <2> QED BY <1>1, <1>2, <1>3, <1>5, <2>1, NoMoreStays DEF SendTo, Sole, OwnGone, OwnClearing
<1>9. OneAsks' /\ AskedFor'
  <2>1. \A t \in Dcs : /\ Import(t) \in requests' => Import(t) \in requests
                       /\ Export(t) \in requests' => Export(t) \in requests \/ t = dc
    BY <1>1, <1>2, OwnIds DEF SendTo
  <2> QED BY <1>3, <1>4, <2>1 DEF Sole, OneAsks, AskedFor
<1>10. ImportsHome'
  <2>1. \A t \in Dcs : byDc'[Import(t)] = byDc[Import(t)]
    BY <1>1, <1>2, OwnIds DEF SendTo, IInv, TypeOK
  <2>2. \A t \in Dcs : id = Import(t) => t = dc
    BY <1>0, DcsAreDistinct DEF Sole, ImportsHome
  <2> QED BY <1>4, <2>1, <2>2 DEF Sole, ImportsHome
<1> QED BY <1>6, <1>7, <1>8, <1>9, <1>10 DEF Sole

\* One that asks later waits.
LEMMA NextAsksSole ==
    ASSUME IInv, Sole, [Next]_vars, NEW id \in Ids, NEW d \in Dcs, NEW kind,
           Unauthorized(id, d, kind), waiters[byDc[id]] # {}
    PROVE  Sole'
<1> DEFINE dc == byDc[id]
<1>1. /\ id \in requests /\ ~Nowhere(id) /\ id \notin delayed /\ dc \in Dcs
      /\ \A e \in Dcs : id \notin waiters[e] /\ <<id, e>> \notin Rest(id, d)
  BY ComesAlone DEF Unauthorized
<1>2. /\ sent' = Rest(id, d) /\ waiters' = [waiters EXCEPT ![dc] = @ \cup {id}]
      /\ UNCHANGED <<requests, byDc, delayed, clearing>>
  BY DEF Unauthorized, maps
<1>3. \A w \in Dcs : waiters'[w] = IF w = dc THEN waiters[w] \cup {id} ELSE waiters[w]
  BY <1>1, <1>2 DEF IInv, TypeOK
<1>4. OneAt(id)'
  BY <1>1, <1>2, <1>3 DEF OneAt
<1>5. \A it \in Ids : it # id => NoMore(it)
  BY <1>2, <1>3 DEF NoMore, Rest
<1>6. \A t \in Dcs : id = Import(t) => t = dc
  BY <1>1, DcsAreDistinct DEF Sole, ImportsHome
<1>7. \A t, e \in Dcs : Import(t) \in waiters'[e] => e = t
  BY <1>3, <1>6 DEF Sole, ImportsHome
<1> QED BY <1>1, <1>2, <1>3, <1>4, <1>5, <1>7, MovedSole

\* The export is answered, and the import that is sent was nowhere.
LEMMA ExportedSole ==
    ASSUME IInv, Sole, [Next]_vars, NEW t \in Dcs, NEW d \in Dcs, Exported(t, d)
    PROVE  Sole'
<1> DEFINE x == Export(t)
           i == Import(t)
<1>1. /\ x \in requests /\ <<x, d>> \in sent /\ x \notin delayed /\ ~Nowhere(x)
      /\ \A e \in Dcs : x \notin waiters[e] /\ <<x, e>> \notin Rest(x, d)
  BY ComesAlone, OwnIds DEF Exported
<1>2. /\ requests' = (requests \cup {i}) \ {x} /\ sent' = Rest(x, d) \cup {<<i, t>>}
      /\ byDc' = [byDc EXCEPT ![i] = t, ![x] = NoDc]
      /\ UNCHANGED <<delayed, waiters, clearing, outcome>>
  BY DEF Exported
<1>3. /\ i \in Own /\ i \notin requests /\ Nowhere(i) /\ \A how \in Hows : <<i, how>> \notin clearing
      /\ x \in Own /\ i # x
      /\ \A how \in Hows : <<x, how>> \notin clearing
  BY <1>1, OwnIds, OwnSomewhere DEF Sole, OneAsks, OwnGone
<1>4. \A it : it # i => NoMore(it)
  BY <1>2 DEF NoMore, Rest
<1>5. Single'
  <2>1. OneAt(i)'
    BY <1>2, <1>3 DEF Nowhere, OneAt, Rest
  <2> QED BY <1>2, <1>4, <2>1, NoMoreStays DEF Sole, Single
<1>6. NewNowhere'
  BY <1>3, <1>4, NoMoreStays, NewBefore, OwnIds DEF Sole, NewNowhere
<1>7. OwnGone' /\ OwnClearing'
  <2>1. Nowhere(x)'
    BY <1>1, <1>2, <1>3 DEF Nowhere
  <2> QED BY <1>2, <1>3, <1>4, <2>1, NoMoreStays DEF Sole, OwnGone, OwnClearing
<1>8. OneAsks' /\ AskedFor'
  <2>1. \A u \in Dcs : /\ Export(u) \in requests' => Export(u) \in requests /\ u # t
                       /\ Import(u) \in requests' => Import(u) \in requests \/ u = t
    BY <1>2, OwnIds
  <2> QED BY <1>1, <1>2, <2>1 DEF Sole, OneAsks, AskedFor
<1>9. ImportsHome'
  <2>1. \A u \in Dcs : byDc'[Import(u)] = IF u = t THEN t ELSE byDc[Import(u)]
    BY <1>2, <1>3, OwnIds DEF IInv, TypeOK
  <2> QED BY <1>2, <2>1 DEF Sole, ImportsHome
<1> QED BY <1>5, <1>6, <1>7, <1>8, <1>9 DEF Sole

\* The export fails, and nobody waits any more.
LEMMA ForgottenSole ==
    ASSUME IInv, Sole, [Next]_vars, NEW t \in Dcs,
           Export(t) \in requests, Forget(Export(t)),
           sent' \subseteq sent, UNCHANGED delayed, clearing' \subseteq clearing,
           waiters' = [waiters EXCEPT ![t] = {}],
           Nowhere(Export(t))', \A how \in Hows : <<Export(t), how>> \notin clearing'
    PROVE  Sole'
<1> DEFINE x == Export(t)
<1>1. x \in Own
  BY OwnIds
<1>2. \A w \in Dcs : waiters'[w] = IF w = t THEN {} ELSE waiters[w]
  BY DEF IInv, TypeOK
<1>3. \A it : NoMore(it)
  BY <1>2 DEF NoMore
<1>4. Single' /\ NewNowhere'
  BY <1>3, NoMoreStays, NewBefore DEF Sole, Single, NewNowhere, Forget
<1>5. OwnGone' /\ OwnClearing'
  BY <1>1, <1>3, NoMoreStays DEF Sole, OwnGone, OwnClearing, Forget
<1>6. OneAsks' /\ AskedFor'
  <2>1. \A u \in Dcs : /\ Export(u) \in requests' => Export(u) \in requests /\ u # t
                       /\ Import(u) \in requests' => Import(u) \in requests /\ u # t
    BY OwnIds DEF Forget, Sole, OneAsks
  <2> QED BY <1>2, <2>1 DEF Sole, OneAsks, AskedFor
<1>7. ImportsHome'
  <2>1. \A u \in Dcs : byDc'[Import(u)] = byDc[Import(u)]
    BY <1>1, OwnIds DEF Forget, IInv, TypeOK
  <2> QED BY <1>2, <2>1 DEF Sole, ImportsHome
<1> QED BY <1>4, <1>5, <1>6, <1>7 DEF Sole

\* The import is answered: those that wait are sent again, and wait nowhere then.
LEMMA ImportedSole ==
    ASSUME IInv, Sole, [Next]_vars, NEW t \in Dcs, NEW d \in Dcs, Imported(t, d)
    PROVE  Sole'
<1> DEFINE i == Import(t)
           found == waiters[t] \cap requests
           resent == {<<id, t>> : id \in found \ toMain}
<1>1. /\ i \in requests /\ <<i, d>> \in sent /\ i \notin delayed /\ ~Nowhere(i)
      /\ \A e \in Dcs : i \notin waiters[e] /\ <<i, e>> \notin Rest(i, d)
  BY ComesAlone, OwnIds DEF Imported
<1>2. /\ requests' = requests \ {i} /\ UNCHANGED <<delayed, clearing, outcome>>
      /\ waiters' = [waiters EXCEPT ![t] = {}]
      /\ byDc' = [id \in Ids |-> IF id = i THEN NoDc ELSE IF id \in found THEN t ELSE byDc[id]]
  BY DEF Imported
<1>3. sent' \subseteq Rest(i, d) \cup resent
  <2>1. CASE found \cap toMain = {}
    BY <2>1 DEF Imported
  <2>2. CASE found \cap toMain # {}
    <3>1. PICK there \in SUBSET resent : MainIs(t, Rest(i, d), there)
      BY <2>2 DEF Imported
    <3> QED BY <3>1 DEF MainIs, Surviving
  <2> QED BY <2>1, <2>2
<1>4. \A w \in Dcs : waiters'[w] = IF w = t THEN {} ELSE waiters[w]
  BY <1>2 DEF IInv, TypeOK
<1>5. \A it \in Ids : it \notin found => NoMore(it)
  BY <1>2, <1>3, <1>4 DEF NoMore, Rest
<1>6. i \in Own /\ i \notin found /\ \A how \in Hows : <<i, how>> \notin clearing
  BY <1>1, OwnIds, OwnSomewhere
<1>7. \A it \in found : OneAt(it)'
  <2> SUFFICES ASSUME NEW it \in found PROVE OneAt(it)'
    OBVIOUS
  <2>1. OneAt(it) /\ it \in waiters[t]
    BY DEF Sole, Single
  <2>2. it \notin delayed' /\ \A w \in Dcs : it \notin waiters'[w]
    <3>1. it \notin delayed /\ \A w \in Dcs : it \in waiters[w] => w = t
      BY <2>1 DEF OneAt
    <3> QED BY <1>2, <1>4, <3>1
  <2>3. \A w \in Dcs : <<it, w>> \in sent' => w = t
    BY <1>3, <2>1 DEF OneAt, Rest
  <2> QED BY <2>2, <2>3 DEF OneAt
<1>8. Single'
  BY <1>2, <1>5, <1>7, NoMoreStays DEF Sole, Single, IInv, TypeOK
<1>9. NewNowhere'
  BY <1>5, NoMoreStays, NewBefore, IdsOfAll DEF Sole, NewNowhere
<1>10. OwnGone'
  <2> SUFFICES ASSUME NEW e \in Own, e \notin requests'
               PROVE  Nowhere(e)' /\ \A how \in Hows : <<e, how>> \notin clearing'
    BY DEF OwnGone
  <2>1. CASE e = i
    <3>1. Nowhere(i)'
      BY <1>1, <1>2, <1>3, <1>4, <1>6 DEF Nowhere
    <3> QED BY <1>2, <1>6, <2>1, <3>1
  <2>2. CASE e # i
    BY <1>2, <1>5, <2>2, NoMoreStays, OwnIds DEF Sole, OwnGone
  <2> QED BY <2>1, <2>2
<1>11. OwnClearing'
  <2> SUFFICES ASSUME NEW e \in Own, NEW how \in Hows, <<e, how>> \in clearing'
               PROVE  Nowhere(e)' /\ \A h \in Hows : <<e, h>> \in clearing' => h = how
    BY DEF OwnClearing
  <2>1. Nowhere(e) /\ \A h \in Hows : <<e, h>> \in clearing => h = how
    BY <1>2 DEF Sole, OwnClearing
  <2>2. NoMore(e)
    BY <1>5, <2>1, OwnIds DEF Nowhere
  <2> QED BY <1>2, <2>1, <2>2, NoMoreStays
<1>12. OneAsks' /\ AskedFor'
  <2>1. \A u \in Dcs : /\ Export(u) \in requests' => Export(u) \in requests /\ u # t
                       /\ Import(u) \in requests' => Import(u) \in requests /\ u # t
    BY <1>1, <1>2 DEF Sole, OneAsks
  <2> QED BY <1>4, <2>1 DEF Sole, OneAsks, AskedFor
<1>13. ImportsHome'
  <2>1. \A u \in Dcs : Import(u) \in found => u = t
    BY DEF Sole, ImportsHome
  <2>2. \A u \in Dcs : Import(u) \in Ids /\ byDc[Import(u)] \in {u, NoDc}
    BY IdsOfAll DEF Sole, ImportsHome
  <2>3. \A u \in Dcs : byDc'[Import(u)] \in {u, NoDc}
    BY <1>2, <2>1, <2>2
  <2> QED BY <1>4, <2>3 DEF Sole, ImportsHome
<1> QED BY <1>8, <1>9, <1>10, <1>11, <1>12, <1>13 DEF Sole

\* The callbacks of a request are cleared: one of the instance was nowhere.
LEMMA ClearedSole ==
    ASSUME IInv, Sole, [Next]_vars, NEW id \in Ids, NEW how \in Hows, ClearCallbacks(id, how)
    PROVE  Sole'
<1>1. /\ Forget(id) /\ clearing' = clearing \ {<<id, how>>} /\ <<id, how>> \in clearing
      /\ UNCHANGED <<delayed, sent>>
  BY DEF ClearCallbacks
<1>2. id \in Own => Nowhere(id) /\ \A h \in Hows : <<id, h>> \notin clearing'
  BY <1>1 DEF Sole, OwnClearing
<1>3. CASE id \in parsers \cap Exports /\ how = "told"
  <2>1. PICK t \in Dcs : id = Export(t)
    BY <1>3 DEF Exports
  <2>2. waiters' = [waiters EXCEPT ![t] = {}]
    BY <1>3, <2>1, IdsOfAll DEF ClearCallbacks
  <2>3. id \in requests /\ id \in Own
    BY <1>3, <2>1, OwnIds DEF IInv, MapsAgree
  <2>4. Nowhere(id)'
    <3>1. \A w \in Dcs : waiters'[w] \subseteq waiters[w]
      BY <2>2 DEF IInv, TypeOK
    <3> QED BY <1>1, <1>2, <2>3, <3>1 DEF Nowhere
  <2> QED BY <1>1, <1>2, <2>1, <2>2, <2>3, <2>4, ForgottenSole
<1>4. CASE ~(id \in parsers \cap Exports /\ how = "told")
  <2>1. UNCHANGED waiters
    BY <1>4 DEF ClearCallbacks
  <2>2. \A it : NoMore(it)
    BY <1>1, <2>1 DEF NoMore
  <2>3. Single' /\ NewNowhere'
    BY <1>1, <2>2, NoMoreStays, NewBefore DEF Sole, Single, NewNowhere, Forget
  <2>4. OwnGone' /\ OwnClearing'
    BY <1>1, <1>2, <2>2, NoMoreStays DEF Sole, OwnGone, OwnClearing, Forget
  <2>5. OneAsks' /\ AskedFor'
    BY <1>1, <2>1 DEF Sole, OneAsks, AskedFor, Forget
  <2>6. ImportsHome'
    BY <1>1, <2>1, OwnIds DEF Sole, ImportsHome, Forget, IInv, TypeOK
  <2> QED BY <2>3, <2>4, <2>5, <2>6 DEF Sole
<1> QED BY <1>3, <1>4

\* Every step keeps the requests in one place.
LEMMA SoleStep == IInv /\ Sole /\ [Next]_vars => Sole'
<1> SUFFICES ASSUME IInv, Sole, [Next]_vars PROVE Sole'
  OBVIOUS
<1> USE IdsOfAll
<1>1. ASSUME NEW r \in Requests, Cancel(r) PROVE Sole'
  <2>1. CASE byDc[r] \in Dcs
    BY <1>1, <2>1, EndedSole DEF Cancel, Rest, queues
  <2>2. CASE byDc[r] \notin Dcs
    BY <1>1, <2>2 DEF Cancel, IInv, TypeOK, MapsAgree
  <2> QED BY <2>1, <2>2
<1>2. ASSUME NEW r \in Requests, NEW p \in Requests \cup {NoId}, Send(r, p) PROVE Sole'
  BY <1>2, SendSole
<1>3. ASSUME NEW d \in Dcs, NEW r \in Requests, AnswerDone(r, d) PROVE Sole'
  BY <1>3, EndedSole DEF AnswerDone, queues
<1>4. ASSUME NEW d \in Dcs, NEW id \in Ids, AnswerUnknown(id, d) PROVE Sole'
  BY <1>4, EndedSole DEF AnswerUnknown, queues
<1>5. ASSUME NEW d \in Dcs, NEW t \in Dcs, Exported(t, d) PROVE Sole'
  BY <1>5, ExportedSole
<1>6. ASSUME NEW d \in Dcs, NEW t \in Dcs, Imported(t, d) PROVE Sole'
  BY <1>6, ImportedSole
<1>7. ASSUME NEW d \in Dcs, NEW r \in Requests, AnswerFail(r, d) PROVE Sole'
  BY <1>7, EndedSole DEF AnswerFail, queues
<1>8. ASSUME NEW d \in Dcs, NEW id \in Ids, AnswerTemporary(id, d) PROVE Sole'
  <2>1. /\ id \in requests /\ <<id, d>> \in sent /\ ~Nowhere(id)
        /\ \A e \in Dcs : id \notin waiters[e] /\ <<id, e>> \notin Rest(id, d)
    BY <1>8, ComesAlone DEF AnswerTemporary
  <2>2. sent' = Rest(id, d) /\ UNCHANGED <<waiters, clearing>>
    BY <1>8 DEF AnswerTemporary
  <2>3. CASE Forget(id) /\ UNCHANGED delayed
    BY <2>1, <2>2, <2>3, EndedSole
  <2>4. CASE delayed' = delayed \cup {id} /\ UNCHANGED <<requests, byDc>>
    <3>1. OneAt(id)'
      BY <2>1, <2>2, <2>4 DEF OneAt
    <3>2. \A it \in Ids : it # id => NoMore(it)
      BY <2>2, <2>4 DEF NoMore, Rest
    <3>3. \A u, e \in Dcs : Import(u) \in waiters'[e] => e = u
      BY <2>2 DEF Sole, ImportsHome
    <3> QED BY <2>1, <2>2, <2>4, <3>1, <3>2, <3>3, MovedSole
  <2> QED BY <1>8, <2>3, <2>4 DEF AnswerTemporary
<1>9. ASSUME NEW d \in Dcs, NEW id \in Ids, AnswerNotInited(id, d) PROVE Sole'
  <2>1. /\ id \in requests /\ ~Nowhere(id) /\ id \notin delayed
        /\ \A e \in Dcs : id \notin waiters[e] /\ <<id, e>> \notin Rest(id, d)
    BY <1>9, ComesAlone DEF AnswerNotInited
  <2>2. /\ sent' = Rest(id, d) \cup {<<id, byDc[id]>>}
        /\ UNCHANGED <<requests, byDc, delayed, waiters, clearing>>
    BY <1>9 DEF AnswerNotInited, maps, queues
  <2>3. OneAt(id)'
    BY <2>1, <2>2 DEF OneAt
  <2>4. \A it \in Ids : it # id => NoMore(it)
    BY <2>2 DEF NoMore, Rest
  <2>5. \A u, e \in Dcs : Import(u) \in waiters'[e] => e = u
    BY <2>2 DEF Sole, ImportsHome
  <2> QED BY <2>1, <2>2, <2>3, <2>4, <2>5, MovedSole
<1>10. ASSUME NEW d \in Dcs, NEW id \in Ids, NEW kind, Unauthorized(id, d, kind) PROVE Sole'
  BY <1>10, FirstAsksSole, NextAsksSole
<1>11. ASSUME NEW d \in Dcs, NEW id \in Ids, NEW kind, UnauthorizedHere(id, d, kind) PROVE Sole'
  BY <1>11, EndedSole DEF UnauthorizedHere, Comes
<1>12. ASSUME NEW d \in Dcs, NEW t \in Dcs, ExportFails(t, d) PROVE Sole'
  <2> DEFINE x == Export(t)
  <2>1. /\ x \in requests /\ ~Nowhere(x) /\ x \notin delayed
        /\ \A e \in Dcs : x \notin waiters[e] /\ <<x, e>> \notin Rest(x, d)
    BY <1>12, ComesAlone DEF ExportFails
  <2>2. /\ Forget(x) /\ sent' = Rest(x, d) /\ waiters' = [waiters EXCEPT ![t] = {}]
        /\ UNCHANGED <<delayed, clearing>>
    BY <1>12 DEF ExportFails
  <2>3. \A w \in Dcs : waiters'[w] \subseteq waiters[w]
    BY <2>2 DEF IInv, TypeOK
  <2>4. Nowhere(x)'
    BY <2>1, <2>2, <2>3 DEF Nowhere
  <2>5. \A how \in Hows : <<x, how>> \notin clearing'
    BY <2>1, <2>2, OwnIds, OwnSomewhere
  <2>6. sent' \subseteq sent
    BY <2>2 DEF Rest
  <2> QED BY <2>1, <2>2, <2>4, <2>5, <2>6, ForgottenSole
<1>13. ASSUME NEW d \in Dcs, NEW t \in Dcs, ImportFails(t, d) PROVE Sole'
  BY <1>13, EndedSole DEF ImportFails, Comes, queues
<1>14. ASSUME NEW d \in Dcs, NEW r \in Requests, NEW t \in Dcs, AnswerMigrate(r, d, t) PROVE Sole'
  <2>1. /\ r \in requests /\ ~Nowhere(r) /\ r \notin delayed
        /\ \A e \in Dcs : r \notin waiters[e] /\ <<r, e>> \notin Rest(r, d)
    BY <1>14, ComesAlone DEF AnswerMigrate
  <2>2. /\ sent' \subseteq Rest(r, d) \cup {<<r, t>>} /\ byDc' = [byDc EXCEPT ![r] = t]
        /\ UNCHANGED <<requests, delayed, waiters, clearing>>
    BY <1>14 DEF AnswerMigrate, MainIs, Surviving, queues
  <2>3. OneAt(r)'
    BY <2>1, <2>2 DEF OneAt
  <2>4. \A it \in Ids : it # r => NoMore(it)
    BY <2>2 DEF NoMore, Rest
  <2>5. \A u \in Dcs : byDc'[Import(u)] = byDc[Import(u)]
    BY <2>2, OwnIds DEF IInv, TypeOK
  <2>6. \A u, e \in Dcs : Import(u) \in waiters'[e] => e = u
    BY <2>2 DEF Sole, ImportsHome
  <2> QED BY <2>1, <2>2, <2>3, <2>4, <2>5, <2>6, MovedSole
<1>15. ASSUME NEW d \in Dcs, NEW r \in Requests, AnswerWait(r, d) PROVE Sole'
  <2> DEFINE p == Follows(r)
  <2>0. PICK dc \in Dcs : byDc[r] = dc
    BY <1>15, ComesAlone DEF AnswerWait
  <2>1. /\ r \in requests /\ ~Nowhere(r) /\ r \notin delayed
        /\ \A e \in Dcs : r \notin waiters[e] /\ <<r, e>> \notin Rest(r, d)
    BY <1>15, ComesAlone DEF AnswerWait
  <2>2. UNCHANGED clearing
    BY <1>15 DEF AnswerWait
  <2>3. CASE Forget(r) /\ sent' = Rest(r, d) /\ UNCHANGED queues
    BY <2>2, <2>3, EndedSole DEF queues
  <2>4. CASE sent' = Rest(r, d) \cup {<<r, dc>>} /\ UNCHANGED <<requests, byDc, queues>>
    <3>1. OneAt(r)'
      BY <2>1, <2>4 DEF OneAt, queues
    <3>2. \A it \in Ids : it # r => NoMore(it)
      BY <2>4 DEF NoMore, Rest, queues
    <3>3. \A u, e \in Dcs : Import(u) \in waiters'[e] => e = u
      BY <2>4 DEF Sole, ImportsHome, queues
    <3> QED BY <2>1, <2>2, <2>4, <3>1, <3>2, <3>3, MovedSole DEF queues
  <2>5. CASE /\ waiters' = IF p \in waiters[dc] THEN [waiters EXCEPT ![dc] = @ \cup {r}]
                           ELSE waiters
             /\ delayed' = IF p \notin waiters[dc] /\ p \in delayed THEN delayed \cup {r}
                           ELSE delayed
             /\ sent' = Rest(r, d) /\ UNCHANGED maps
    <3>1. \A w \in Dcs : waiters'[w] = IF p \in waiters[dc] /\ w = dc THEN waiters[w] \cup {r}
                                       ELSE waiters[w]
      BY <2>5 DEF IInv, TypeOK
    <3>2. OneAt(r)'
      <4>1. CASE p \in waiters[dc]
        BY <2>1, <2>5, <3>1, <4>1 DEF OneAt
      <4>2. CASE p \notin waiters[dc]
        BY <2>1, <2>5, <3>1, <4>2 DEF OneAt
      <4> QED BY <4>1, <4>2
    <3>3. \A it \in Ids : it # r => NoMore(it)
      BY <2>5, <3>1 DEF NoMore, Rest
    <3>4. \A u, e \in Dcs : Import(u) \in waiters'[e] => e = u
      <4>1. \A u \in Dcs : Import(u) # r
        BY OwnIds
      <4>2. \A u, e \in Dcs : Import(u) \in waiters[e] => e = u
        BY DEF Sole, ImportsHome
      <4> HIDE DEF p
      <4> QED BY <3>1, <4>1, <4>2
    <3> QED BY <2>1, <2>2, <2>5, <3>1, <3>2, <3>3, <3>4, MovedSole DEF maps
  <2> QED BY <1>15, <2>0, <2>3, <2>4, <2>5 DEF AnswerWait
<1>16. ASSUME NEW d \in Dcs, ClearSession(d) PROVE Sole'
  <2>1. PICK S \in SUBSET {x \in sent : x[2] = d} : \E T \in SUBSET {x \in S : x[1] \in Requests} :
            /\ sent' = sent \ (S \ T)
            /\ clearing' = clearing \cup {<<x[1], "silently">> : x \in S}
    BY <1>16 DEF ClearSession
  <2>2. PICK T \in SUBSET {x \in S : x[1] \in Requests} :
            /\ sent' = sent \ (S \ T)
            /\ clearing' = clearing \cup {<<x[1], "silently">> : x \in S}
    BY <2>1
  <2>3. ASSUME NEW e \in Own, NEW h \in Hows, <<e, h>> \in clearing', <<e, h>> \notin clearing
        PROVE  /\ h = "silently"
               /\ \E w \in Dcs : <<e, w>> \in sent
               /\ \A w \in Dcs : <<e, w>> \notin sent'
    <3>1. h = "silently" /\ <<e, d>> \in S
      <4>1. PICK x \in S : <<e, h>> = <<x[1], "silently">>
        BY <2>2, <2>3
      <4>2. x \in Ids \X Dcs /\ x[2] = d
        BY <2>1 DEF IInv, TypeOK
      <4> QED BY <4>1, <4>2
    <3>2. <<e, d>> \notin sent'
      BY <2>2, <3>1, OwnIds
    <3>3. e \in requests /\ <<e, d>> \in sent
      BY <3>1, OwnSomewhere DEF Nowhere
    <3>4. \A w \in Dcs : <<e, w>> \in sent => w = d
      BY <3>3 DEF Sole, Single, OneAt
    <3> QED BY <2>2, <3>1, <3>2, <3>3, <3>4
  <2>4. UNCHANGED <<requests, byDc, delayed, waiters>>
    BY <1>16 DEF ClearSession, maps, queues
  <2>5. "silently" \in Hows /\ sent' \subseteq sent /\ clearing \subseteq clearing'
    BY <2>2 DEF Hows
  <2> QED BY <2>3, <2>4, <2>5, PostedSole
<1>17. ASSUME NEW d \in Dcs, NEW id \in Ids, GiveUp(id, d) PROVE Sole'
  <2>1. /\ <<id, d>> \in sent /\ sent' = Rest(id, d)
        /\ clearing \subseteq clearing'
        /\ clearing' \subseteq clearing \cup {<<id, "told">>, <<RequestOne, "silently">>}
        /\ UNCHANGED <<requests, byDc, delayed, waiters>>
    BY <1>17 DEF GiveUp, maps, queues
  <2>2. ASSUME NEW e \in Own, NEW h \in Hows, <<e, h>> \in clearing', <<e, h>> \notin clearing
        PROVE  /\ h = "told"
               /\ \E w \in Dcs : <<e, w>> \in sent
               /\ \A w \in Dcs : <<e, w>> \notin sent'
    <3>1. e = id /\ h = "told"
      BY <2>1, <2>2, OwnIds, IdsAreDistinct
    <3>2. e \in requests
      BY <2>1, <3>1, OwnSomewhere DEF Nowhere
    <3>3. \A w \in Dcs : <<e, w>> \notin sent'
      BY <2>1, <3>1, <3>2, AnsweredIsNowhere
    <3> QED BY <2>1, <3>1, <3>3
  <2>3. "told" \in Hows /\ sent' \subseteq sent
    BY <2>1 DEF Hows, Rest
  <2> QED BY <2>1, <2>2, <2>3, PostedSole
<1>18. ASSUME NEW id \in Ids, CheckDelayed(id) PROVE Sole'
  <2>1. /\ id \in delayed /\ delayed' = delayed \ {id}
        /\ UNCHANGED <<requests, byDc, waiters, clearing>>
        /\ sent' = IF id \in requests THEN sent \cup {<<id, byDc[id]>>} ELSE sent
    BY <1>18 DEF CheckDelayed, maps
  <2>2. \A it \in Ids : it # id => NoMore(it)
    BY <2>1 DEF NoMore
  <2>3. \A u, e \in Dcs : Import(u) \in waiters'[e] => e = u
    BY <2>1 DEF Sole, ImportsHome
  <2>4. CASE id \in requests
    <3>1. OneAt(id)'
      <4>1. \A w \in Dcs : <<id, w>> \notin sent /\ id \notin waiters[w]
        BY <2>1, <2>4 DEF Sole, Single, OneAt
      <4> QED BY <2>1, <2>4, <4>1 DEF OneAt
    <3>2. ~Nowhere(id)
      BY <2>1 DEF Nowhere
    <3> QED BY <2>1, <2>2, <2>3, <2>4, <3>1, <3>2, MovedSole
  <2>5. CASE id \notin requests
    <3>1. sent' = sent /\ "told" \in Hows
      BY <2>1, <2>5 DEF Hows
    <3>2. \A it : NoMore(it)
      BY <2>1, <3>1 DEF NoMore
    <3>3. Single' /\ NewNowhere'
      BY <2>1, <3>2, NoMoreStays, NewBefore DEF Sole, Single, NewNowhere
    <3>4. OwnGone' /\ OwnClearing'
      BY <2>1, <3>2, NoMoreStays DEF Sole, OwnGone, OwnClearing
    <3>5. OneAsks' /\ AskedFor' /\ ImportsHome'
      BY <2>1 DEF Sole, OneAsks, AskedFor, ImportsHome
    <3> QED BY <3>3, <3>4, <3>5 DEF Sole
  <2> QED BY <2>4, <2>5
<1>19. ASSUME NEW id \in Ids, NEW how \in Hows, ClearCallbacks(id, how) PROVE Sole'
  BY <1>19, ClearedSole
<1>20. CASE UNCHANGED vars
  BY <1>20 DEF vars, maps, queues, Sole, Single, NewNowhere, OwnGone, OwnClearing, OneAsks,
     AskedFor, ImportsHome, Nowhere, OneAt
<1> QED
  BY <1>1, <1>2, <1>3, <1>4, <1>5, <1>6, <1>7, <1>8, <1>9, <1>10, <1>11, <1>12, <1>13, <1>14,
     <1>15, <1>16, <1>17, <1>18, <1>19, <1>20
  DEF Next, Answered, Refused, Posted, AnswerUnauthorized

\* One place at most is what OnePlace says.
LEMMA SingleIsOnePlace == Single => OnePlace
<1> SUFFICES ASSUME NEW id \in requests, OneAt(id), NEW x \in Places(id), NEW y \in Places(id)
             PROVE  x = y
  BY DEF Single, OnePlace
<1>1. \A z \in Places(id) :
          \/ \E d \in Dcs : z = <<"session", d>> /\ <<id, d>> \in sent
          \/ \E d \in Dcs : z = <<"waits", d>> /\ id \in waiters[d]
          \/ z = <<"delayed", mainDc>> /\ id \in delayed
  BY DEF Places
<1> QED BY <1>1 DEF OneAt

\* However a request is delayed, made to wait, moved, sent again or cleared, it is never in
\* two places: no session is given one that another has, that waits or that is delayed.
THEOREM NeverInTwoPlaces == Spec => []OnePlace
<1>1. Init => Sole
  BY DcsAreDistinct, IdsOfAll DEF Init, Sole, Single, NewNowhere, OwnGone, OwnClearing, OneAsks,
     AskedFor, ImportsHome, Nowhere
<1>2. Sole => OnePlace
  BY SingleIsOnePlace DEF Sole
<1> QED BY Invariance, SoleStep, <1>1, <1>2, PTL DEF Spec
=============================================================================
