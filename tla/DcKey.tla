-------------------------------- MODULE DcKey --------------------------------
(***************************************************************************)
(* The authorization key of one data centre (mtproto/dcenter.cpp) and the  *)
(* sessions that share it.  Each session has a connection thread and a     *)
(* copy of the key in its SessionData.  Whoever has no key creates one in  *)
(* a handshake of three answers, with the key lock held for writing; the   *)
(* others wait for the signal that there is one, which comes through the   *)
(* main thread.                                                            *)
(*                                                                         *)
(* A key is a number, 0 is none.  Left out: the cryptography (an answer is *)
(* good or bad), the sessions that destroy keys after a logout, a CDN that *)
(* has no RSA keys at all (it asks for them before it connects; here       *)
(* rsaKnown is FALSE when those it has are outdated), transports           *)
(* (Connecting) and requests (MtpSession).  The copy and the key are read  *)
(* by the main thread without the lock: a read is taken for atomic.        *)
(***************************************************************************)
EXTENDS Integers, FiniteSets

CONSTANTS
    Sessions,
    Cdn,             \* it is a CDN: its keys may be forgotten, its RSA keys must be loaded
    MaxRetries,      \* of dhClientParamsSend()
    MaxFaults,       \* bound: lost connections, bad answers, forgotten keys, sessions stopped
    None

VARIABLES
    dcKey,           \* Dcenter::_key
    made,            \* how many keys were made
    lock,            \* the session that holds keyMutex() for writing, myKeyLock
    at,              \* what each session does: see Places
    keyId,           \* ConnectionPrivate::keyId
    copy,            \* SessionData::_authKey
    retries,         \* AuthKeyCreateData::retries
    rsaKnown,        \* the CDN configuration is loaded
    cdnAsked,        \* the connections that listen to cdnConfigLoaded()
    cdnLoaded,       \* cdnConfigLoaded() posted to the connection thread
    toSession,       \* Dcenter::authKeyCreated() posted to the main thread
    toConnection,    \* Session::authKeyCreated() posted to the connection thread
    stopping,        \* the session that the main thread is stopping
    missed,          \* history: started without the key, or missed a signal; not told since
    left,            \* history: waiting for a signal although none will come
    faults           \* bound counter

links == <<at, keyId, copy>>
key == <<dcKey, made, lock, retries>>
cdn == <<rsaKnown, cdnAsked, cdnLoaded>>
signals == <<toSession, toConnection>>
history == <<missed, left>>
vars == <<links, key, cdn, signals, stopping, history, faults>>

Handshake == {"pq", "dh", "client", "config"}
\* In a wait for the key lock, or about to give it up, with _sessionDataMutex held.
Blocked == {"locking", "destroying", "unlocking", "destroyed"}
Places == {"new", "starting", "off", "signal", "ready", "stopped"} \cup Handshake \cup Blocked
Recreate == -1                           \* kRecreateKeyId

TypeOK ==
    /\ dcKey \in Nat /\ made \in Nat /\ dcKey <= made
    /\ lock \in Sessions \cup {None} /\ stopping \in Sessions \cup {None}
    /\ at \in [Sessions -> Places]
    /\ keyId \in [Sessions -> Nat \cup {Recreate}] /\ copy \in [Sessions -> Nat]
    /\ retries \in 0..MaxRetries
    /\ rsaKnown \in BOOLEAN /\ cdnAsked \subseteq Sessions /\ cdnLoaded \subseteq Sessions
    /\ toSession \subseteq Sessions /\ toConnection \subseteq Sessions
    /\ missed \subseteq Sessions /\ left \subseteq Sessions
    /\ faults \in 0..MaxFaults

Init ==
    /\ dcKey = 0 /\ made = 0 /\ lock = None /\ retries = 0
    /\ at = [s \in Sessions |-> "new"]
    /\ keyId = [s \in Sessions |-> 0] /\ copy = [s \in Sessions |-> 0]
    /\ rsaKnown = ~Cdn /\ cdnAsked = {} /\ cdnLoaded = {}
    /\ toSession = {} /\ toConnection = {} /\ stopping = None
    /\ missed = {} /\ left = {}
    /\ faults = 0

Goes(s, place) == at' = [at EXCEPT ![s] = place]
Uses(s, k) == keyId' = [keyId EXCEPT ![s] = k]
Copies(s, k) == copy' = [copy EXCEPT ![s] = k]
Fault == faults < MaxFaults /\ faults' = faults + 1

\* The sessions that are connected to Dcenter::authKeyCreated().
Listening == {s \in Sessions : at[s] \notin {"new", "starting"}}
Waiting == {s \in Sessions : at[s] = "signal" /\ s \notin toSession \cup toConnection}

\* Dcenter::setKey()
SetKey(k) ==
    /\ dcKey' = k
    /\ toSession' = toSession \cup Listening
    /\ missed' = missed \cup {s \in Sessions : at[s] = "starting"}
    /\ left' = {}

-----------------------------------------------------------------------------
(***************************************************************************)
(* The main thread, when it is not waiting for a connection.               *)
(***************************************************************************)

\* createDcData(): the key is copied if the lock is free, then the session listens.
CreateDcData(s) ==
    /\ stopping = None /\ at[s] = "new"
    /\ Goes(s, "starting")
    /\ IF lock = None THEN Copies(s, dcKey) /\ UNCHANGED missed
       ELSE missed' = missed \cup {s} /\ UNCHANGED copy
    /\ UNCHANGED <<key, cdn, keyId, signals, stopping, left, faults>>

Start(s) ==
    /\ stopping = None /\ at[s] = "starting"
    /\ Goes(s, "off")
    /\ UNCHANGED <<key, cdn, keyId, copy, signals, stopping, history, faults>>

\* needToResumeAndSend() of a session that was stopped makes a new connection.
Resume(s) ==
    /\ stopping = None /\ at[s] = "stopped"
    /\ Goes(s, "off") /\ Uses(s, 0)
    /\ UNCHANGED <<key, cdn, copy, signals, stopping, history, faults>>

\* Session::authKeyCreatedForDC()
AuthKeyCreatedForDC(s) ==
    /\ stopping = None /\ s \in toSession
    /\ toSession' = toSession \ {s}
    /\ Copies(s, dcKey) /\ missed' = missed \ {s}
    /\ toConnection' = IF at[s] = "stopped" THEN toConnection ELSE toConnection \cup {s}
    /\ UNCHANGED <<key, cdn, at, keyId, stopping, left, faults>>

\* ConnectionPrivate::stop() needs the mutex that a connection holds which waits for the
\* key lock; one that creates a key sets none, so that the others try.
StopBegin(s) ==
    /\ stopping = None /\ Fault /\ at[s] \notin {"new", "starting", "stopped"}
    /\ stopping' = s
    /\ UNCHANGED <<links, key, cdn, signals, history>>

\* Mutant: the others are not told.
StopSilently(s) ==
    /\ stopping = s /\ at[s] \notin Blocked
    /\ stopping' = None
    /\ Goes(s, "stopped")
    /\ toConnection' = toConnection \ {s}
    /\ cdnAsked' = cdnAsked \ {s} /\ cdnLoaded' = cdnLoaded \ {s}
    /\ IF lock = s THEN lock' = None ELSE UNCHANGED lock
    /\ UNCHANGED <<keyId, copy, dcKey, toSession, history, made, retries, rsaKnown, faults>>
StopEnd(s) ==
    /\ stopping = s /\ at[s] \notin Blocked
    /\ stopping' = None
    /\ Goes(s, "stopped")
    /\ toConnection' = toConnection \ {s}
    /\ cdnAsked' = cdnAsked \ {s} /\ cdnLoaded' = cdnLoaded \ {s}
    /\ IF lock = s THEN SetKey(0) /\ lock' = None
       ELSE UNCHANGED <<dcKey, toSession, history, lock>>
    /\ UNCHANGED <<keyId, copy, made, retries, rsaKnown, faults>>

\* The CDN configuration is asked for and comes through the main thread.
CdnConfigLoaded ==
    /\ stopping = None /\ cdnAsked # {} /\ ~rsaKnown
    /\ rsaKnown' = TRUE /\ cdnLoaded' = cdnAsked
    /\ UNCHANGED <<links, key, cdnAsked, signals, stopping, history, faults>>

-----------------------------------------------------------------------------
(***************************************************************************)
(* A connection thread.                                                    *)
(***************************************************************************)

\* updateAuthKey(): nothing can be read while the lock is held, so a signal is waited for,
\* which may have been sent already; the key that is there is used; else the lock is asked
\* for, in a wait.
UpdateAuthKey(s) ==
    IF lock # None
    THEN /\ Uses(s, 0)
         /\ Goes(s, IF at[s] \in Handshake THEN at[s] ELSE "signal")
         /\ left' = IF at[lock] \in Blocked /\ s \notin toSession \cup toConnection'
                    THEN left \cup {s} ELSE left
    ELSE /\ Uses(s, copy[s]) /\ Goes(s, IF copy[s] # 0 THEN "ready" ELSE "locking")
         /\ UNCHANGED left

\* A transport is chosen.
Connected(s) ==
    /\ at[s] = "off" /\ keyId[s] # Recreate
    /\ UNCHANGED toConnection
    /\ UpdateAuthKey(s)
    /\ UNCHANGED <<copy, key, cdn, toSession, stopping, missed, faults>>

AuthKeyCreated(s) ==
    /\ s \in toConnection /\ at[s] \notin Blocked
    /\ toConnection' = toConnection \ {s}
    /\ IF at[s] = "off" THEN UNCHANGED <<at, keyId, left>> ELSE UpdateAuthKey(s)
    /\ UNCHANGED <<copy, key, cdn, toSession, stopping, missed, faults>>

\* The second half of updateAuthKey(), after lockKey(): the key is looked at again.
\* Mutant: it is not.
LockKeyBlindly(s) ==
    /\ at[s] = "locking" /\ lock = None
    /\ lock' = s /\ Goes(s, "pq")
    /\ UNCHANGED <<keyId, copy, dcKey, made, retries, cdn, signals, stopping, history, faults>>
LockKey(s) ==
    /\ at[s] = "locking" /\ lock = None
    /\ IF copy[s] # 0
       THEN Uses(s, copy[s]) /\ Goes(s, "ready") /\ UNCHANGED lock
       ELSE lock' = s /\ Goes(s, "pq") /\ UNCHANGED keyId
    /\ UNCHANGED <<copy, dcKey, made, retries, cdn, signals, stopping, history, faults>>

\* restart(), and waitReceivedFailed(): doDisconnect() unlocks the key and tells nobody.
\* Mutant: the key stays locked.
RestartLocked(s) ==
    /\ Goes(s, "off")
    /\ UNCHANGED <<lock, left>>
Restart(s) ==
    /\ Goes(s, "off")
    /\ IF lock = s THEN lock' = None /\ left' = left \cup Waiting ELSE UNCHANGED <<lock, left>>

\* A bad answer, no answer, or the transport is lost.
Disconnected(s) ==
    /\ Fault
    /\ at[s] \in {"signal", "ready"} \cup Handshake
    /\ Restart(s)
    /\ UNCHANGED <<keyId, copy, dcKey, made, retries, cdn, signals, stopping, missed>>

\* pqAnswered(): a CDN whose RSA key is not known has its configuration asked for, and is
\* restarted by onCDNConfigLoaded(), whatever it does by then.
PqAnswered(s) ==
    /\ at[s] = "pq"
    /\ IF rsaKnown THEN Goes(s, "dh") /\ UNCHANGED cdnAsked
       ELSE Goes(s, "config") /\ cdnAsked' = cdnAsked \cup {s}
    /\ UNCHANGED <<keyId, copy, key, rsaKnown, cdnLoaded, signals, stopping, history, faults>>
OnCDNConfigLoaded(s) ==
    /\ s \in cdnLoaded /\ at[s] \notin Blocked
    /\ cdnLoaded' = cdnLoaded \ {s}
    /\ Restart(s)
    /\ UNCHANGED <<keyId, copy, dcKey, made, retries, rsaKnown, cdnAsked, signals, stopping,
                   missed, faults>>

\* dhParamsAnswered()
DhParamsAnswered(s) ==
    /\ at[s] = "dh"
    /\ Goes(s, "client") /\ retries' = 1
    /\ UNCHANGED <<keyId, copy, dcKey, made, lock, cdn, signals, stopping, history, faults>>

\* dhClientParamsAnswered(), dh_gen_ok: everybody is told, then the lock is given up.
DhGenOk(s) ==
    /\ at[s] = "client"
    /\ made' = made + 1 /\ SetKey(made + 1)
    /\ Goes(s, "unlocking")
    /\ UNCHANGED <<keyId, copy, lock, retries, cdn, toConnection, stopping, faults>>
UnlockKey(s) ==
    /\ at[s] \in {"unlocking", "destroyed"}
    /\ lock' = None
    /\ Goes(s, IF at[s] = "unlocking" THEN "signal" ELSE "off")
    /\ UNCHANGED <<keyId, copy, dcKey, made, retries, cdn, signals, stopping, history, faults>>

\* dh_gen_retry
DhGenRetry(s) ==
    /\ Fault
    /\ at[s] = "client"
    /\ IF retries < MaxRetries THEN retries' = retries + 1 /\ UNCHANGED <<at, lock, left>>
       ELSE Restart(s) /\ UNCHANGED retries
    /\ UNCHANGED <<keyId, copy, dcKey, made, cdn, signals, stopping, missed>>

\* handleReceived() and sendSecureRequest() of a connection whose key is locked, or is not
\* the session's any more.
KeyChanged(s) ==
    /\ at[s] = "ready"
    /\ lock # None \/ keyId[s] # copy[s]
    /\ Restart(s)
    /\ Uses(s, IF lock # None THEN 0 ELSE keyId[s])
    /\ UNCHANGED <<copy, dcKey, made, retries, cdn, signals, stopping, missed, faults>>

\* A CDN does not know the key, handleError(-404): it is destroyed before the next try, in
\* retryByTimer(), for which the lock is waited for.
KeyForgotten(s) ==
    /\ Cdn /\ Fault
    /\ at[s] = "ready"
    /\ Restart(s) /\ Uses(s, Recreate)
    /\ UNCHANGED <<copy, dcKey, made, retries, cdn, signals, stopping, missed>>
RetryByTimer(s) ==
    /\ at[s] = "off" /\ keyId[s] = Recreate
    /\ IF copy[s] # 0 THEN Goes(s, "destroying") /\ UNCHANGED keyId
       ELSE Uses(s, 0) /\ UNCHANGED at
    /\ UNCHANGED <<copy, key, cdn, signals, stopping, history, faults>>

\* Session::destroyKey().  Mutant: whatever key the data centre has.
DestroyAnyKey(s) ==
    /\ at[s] = "destroying" /\ lock = None
    /\ SetKey(0)
    /\ Copies(s, 0) /\ Uses(s, 0) /\ Goes(s, "off")
    /\ UNCHANGED <<made, lock, retries, cdn, toConnection, stopping, faults>>
DestroyKey(s) ==
    /\ at[s] = "destroying" /\ lock = None
    /\ IF copy[s] # 0 /\ copy[s] = dcKey THEN SetKey(0) ELSE UNCHANGED <<dcKey, toSession, history>>
    /\ lock' = s
    /\ Copies(s, 0) /\ Uses(s, 0) /\ Goes(s, "destroyed")
    /\ UNCHANGED <<made, retries, cdn, toConnection, stopping, faults>>

Connection(s) ==
    \/ Connected(s) \/ AuthKeyCreated(s) \/ LockKey(s) \/ KeyChanged(s)
    \/ PqAnswered(s) \/ OnCDNConfigLoaded(s) \/ DhParamsAnswered(s) \/ DhGenOk(s)
    \/ UnlockKey(s) \/ RetryByTimer(s) \/ DestroyKey(s)

Main(s) == Start(s) \/ AuthKeyCreatedForDC(s) \/ StopEnd(s)

Next ==
    \/ CdnConfigLoaded
    \/ \E s \in Sessions :
        \/ Connection(s) \/ Main(s)
        \/ CreateDcData(s) \/ Resume(s) \/ StopBegin(s)
        \/ Disconnected(s) \/ DhGenRetry(s) \/ KeyForgotten(s)

Spec == Init /\ [][Next]_vars

\* Both kinds of threads run, transports connect, the server answers.
Progress == CdnConfigLoaded \/ \E s \in Sessions : Connection(s) \/ Main(s)
FairSpec == Spec /\ WF_vars(Progress)

-----------------------------------------------------------------------------
(***************************************************************************)
(* Properties.                                                             *)
(***************************************************************************)

\* The key is locked as long as a handshake lasts and by whom it is done: on no way out of
\* a handshake does the lock stay behind, and no two sessions create a key at a time.
LockedByHandshake == \A s \in Sessions : 
    at[s] \in Handshake \cup {"unlocking", "destroyed"} <=> lock = s

\* No session goes on with an old copy of the key: it has that of the data centre, or the
\* signal is on its way, unless it came before the session listened.
CopiesAreTold ==
    \A s \in Listening : copy[s] = dcKey \/ s \in toSession \cup missed

\* Nor does a connection with another key than its session: it is told, or finds out when
\* it sends (keyId is 0).
ConnectionsAreTold ==
    \A s \in Sessions : at[s] = "ready" => keyId[s] \in {0, copy[s]} \/ s \in toConnection

\* A second key is created only by a session that has not been told of the first, and a key
\* is forgotten only when such a session stops, or by one that uses this very key.
KeyIsKept ==
    dcKey # 0 =>
        /\ \A s \in Sessions : at[s] = "locking" /\ at'[s] = "pq" => s \in toSession \cup missed
        /\ dcKey' = 0 => lock # None \/ \E s \in Sessions : at[s] = "destroying" /\ copy[s] = dcKey

\* The sessions of a data centre share one key, whoever creates it, and whatever happens to
\* the connections and sessions that take part.
KeyIsShared == [](LockedByHandshake /\ CopiesAreTold /\ ConnectionsAreTold) /\ [][KeyIsKept]_vars

\* The main thread stops a connection that waits for the key lock of one that waits for the
\* main thread to bring the configuration.
Frozen == stopping # None /\ lock # None /\ at[lock] = "config" /\ ~rsaKnown

\* In the end every session that was not stopped uses the key of the data centre, in spite
\* of lost connections and of sessions stopped in a handshake, except for those that wait
\* for a session that unlocked the key without a signal, or after it.
EveryoneHasTheKey ==
    <>[](Frozen \/ \A s \in Sessions :
            \/ at[s] \in {"new", "stopped"} \/ s \in left \cup missed
            \/ at[s] = "ready" /\ keyId[s] = dcKey)
=============================================================================
