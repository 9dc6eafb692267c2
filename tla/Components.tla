----------------------------- MODULE Components ------------------------------
(***************************************************************************)
(* The components that share no state in the code: each behaviour is one   *)
(* of `part', the other parts stay as they began.                          *)
(***************************************************************************)
EXTENDS Parts, Transfers

Ids == INSTANCE SparseIds WITH media <- sharedMedia
Queue == INSTANCE TaskQueue

calmVars == <<streamVars, fileVars>>     \* of the parts that need no fairness
vars == <<part, idsVars, loaderVars, sendingVars, taskVars, callVars, keyVars, netVars,
          calmVars>>

Init ==
    /\ part \in {"ids", "loader", "sending", "tasks", "calls", "keys", "connecting", "stream",
                 "file"}
    /\ Ids!Init /\ Loader!Init /\ Sending!Init /\ Queue!Init /\ Call!Init
    /\ Key!Init /\ Net!Init /\ Stream!Init /\ File!Init
    /\ part # "connecting" => ~options

IdsNext ==
    /\ part = "ids" /\ Ids!Next
    /\ UNCHANGED <<part, loaderVars, sendingVars, taskVars, callVars, keyVars, netVars, calmVars>>
LoaderNext ==
    /\ part = "loader" /\ Loader!Next
    /\ UNCHANGED <<part, idsVars, sendingVars, taskVars, callVars, keyVars, netVars, calmVars>>
SendingNext ==
    /\ part = "sending" /\ Sending!Next
    /\ UNCHANGED <<part, idsVars, loaderVars, taskVars, callVars, keyVars, netVars, calmVars>>
TasksNext ==
    /\ part = "tasks" /\ Queue!Next
    /\ UNCHANGED <<part, idsVars, loaderVars, sendingVars, callVars, keyVars, netVars, calmVars>>

CallsNext ==
    /\ part = "calls" /\ Call!Next
    /\ UNCHANGED <<part, idsVars, loaderVars, sendingVars, taskVars, keyVars, netVars, calmVars>>

KeysNext ==
    /\ part = "keys" /\ Key!Next
    /\ UNCHANGED <<part, idsVars, loaderVars, sendingVars, taskVars, callVars, netVars, calmVars>>
ConnectingNext ==
    /\ part = "connecting" /\ Net!Next
    /\ UNCHANGED <<part, idsVars, loaderVars, sendingVars, taskVars, callVars, keyVars, calmVars>>
StreamNext ==
    /\ part = "stream" /\ Stream!Next
    /\ UNCHANGED <<part, idsVars, loaderVars, sendingVars, taskVars, callVars, keyVars, netVars,
                   fileVars>>
FileNext ==
    /\ part = "file" /\ File!Next
    /\ UNCHANGED <<part, idsVars, loaderVars, sendingVars, taskVars, callVars, keyVars, netVars,
                   streamVars>>

Next ==
    \/ IdsNext \/ LoaderNext \/ SendingNext \/ TasksNext \/ CallsNext \/ KeysNext
    \/ ConnectingNext \/ StreamNext \/ FileNext

\* The fairness of each part, as its own specification states it.
Fairness ==
    /\ WF_idsVars(part = "ids" /\ Ids!Respond)
    /\ WF_loaderVars(part = "loader" /\ \E l \in Loaders : Loader!Progress(l))
    /\ WF_sendingVars(part = "sending" /\ Sending!Progress)
    /\ WF_sendingVars(part = "sending" /\ Sending!Unpause)
    /\ WF_taskVars(part = "tasks" /\ Queue!Worker)
    /\ WF_taskVars(part = "tasks" /\ Queue!Main)
    /\ WF_callVars(part = "calls" /\ Call!Progress)
    /\ WF_keyVars(part = "keys" /\ Key!Progress)
    /\ WF_netVars(part = "connecting" /\ Net!Connect)
    /\ WF_netVars(part = "connecting" /\ Net!OnConfigLoaded)
    /\ WF_netVars(part = "connecting" /\ Net!TimersRunOut)

Spec == Init /\ [][Next]_vars /\ Fairness

-----------------------------------------------------------------------------
\* Each part's type invariant.
TypeOK ==
    /\ part = "ids" => Ids!TypeOK
    /\ part = "loader" => Loader!TypeOK
    /\ part = "sending" => Sending!TypeOK
    /\ part = "tasks" => Queue!TypeOK
    /\ part = "calls" => Call!TypeOK
    /\ part = "keys" => Key!TypeOK
    /\ part = "connecting" => Net!TypeOK
    /\ part = "stream" => Stream!TypeOK
    /\ part = "file" => File!TypeOK

\* The properties are stated and explained in the modules.
IdsAreRight == part = "ids" => Ids!IdsAreRight

LoadersAreRight == part = "loader" => Loader!LoadersAreRight

AlbumGoesOnce == part = "sending" => Sending!AlbumGoesOnce

\* What was begun comes to its end, the pages of a viewer, downloads, uploads and calls, each
\* as its own module says.
EverythingEnds ==
    /\ Ids!ViewFills
    /\ Loader!EveryDownloadEnds
    /\ Sending!EverythingIsSent
    /\ Call!EveryCallEnds

TasksAreDone == Queue!TasksAreDone

KeyExchangeIsRight == part = "calls" => Call!KeyExchangeIsRight

KeyIsShared == Key!KeyIsShared

ConnectingIsRight == part = "connecting" => Net!ConnectingIsRight

\* A connection gets a key, and a transport, as their modules say.
ConnectionsComeUp == Key!EveryoneHasTheKey /\ Net!KeepsTrying

EveryoneGetsValues == part = "stream" => Stream!EveryoneGetsValues
OldOrNew == part = "file" => File!OldOrNew
=============================================================================
