----------------------------- MODULE Connecting -----------------------------
(***************************************************************************)
(* How a ConnectionPrivate gets a transport (mtproto/connection.cpp): it   *)
(* tries all endpoints at once, prefers the better ones for a while, and   *)
(* starts anew when none answers in time, or the one in use fails.  What   *)
(* drives it are four timers, calls posted to its own thread, and the      *)
(* configuration that the main thread loads.                               *)
(*                                                                         *)
(* Left out: how long the timers are, what the transports do (a test       *)
(* connects, fails or is silent), the key (DcKey) and the requests         *)
(* (MtpSession), stop(), options without TCP (nothing is done then when    *)
(* no answer comes), and the configuration of a CDN.                       *)
(***************************************************************************)
EXTENDS Integers

CONSTANTS
    Transports,      \* the endpoints of the data centre
    Priority,        \* TestConnection::priority of each
    None

VARIABLES
    tests,           \* _testConnections, and which of them are connected
    chosen,          \* _connection
    timers,          \* which of the four timers are active
    posted,          \* calls of connectToServer() in the event queue
    state,           \* _state
    restarted,       \* ConnectionPrivate::restarted
    options,         \* the options of the data centre are known
    asked,           \* requestConfig() was called
    listens,         \* onConfigLoaded() is connected
    owed,            \* history: what was sent through a lost transport must be sent again
    abandoned        \* history: the tests that are left have no timer

config == <<options, asked, listens>>
vars == <<tests, chosen, timers, posted, state, restarted, config, owed, abandoned>>

Timers == {"connected", "better", "received", "retry"}
NoTests == [t \in Transports |-> "none"]
AllTests == [t \in Transports |-> "connecting"]

TypeOK ==
    /\ tests \in [Transports -> {"none", "connecting", "connected"}]
    /\ chosen \in Transports \cup {None}
    /\ timers \subseteq Timers
    /\ posted \subseteq {"connect", "afterConfig"}
    /\ state \in {"disconnected", "connecting", "connected", "retry"}
    /\ restarted \in BOOLEAN /\ options \in BOOLEAN /\ asked \in BOOLEAN /\ listens \in BOOLEAN
    /\ owed \in BOOLEAN /\ abandoned \in BOOLEAN

Init ==
    /\ tests = NoTests /\ chosen = None /\ timers = {} /\ posted = {"connect"}
    /\ state = "disconnected" /\ restarted = FALSE
    /\ options \in BOOLEAN /\ asked = FALSE /\ listens = FALSE
    /\ owed = FALSE /\ abandoned = FALSE

Testing(t) == tests[t] # "none"

-----------------------------------------------------------------------------
\* destroyAllConnections(): with the transport in use goes what was sent and not answered.
DestroyAllConnections(testsThen) ==
    /\ tests' = testsThen /\ chosen' = None
    /\ owed' = (owed \/ state = "connected")
    /\ abandoned' = FALSE

\* doDisconnect() and restart(): there will be another try, and a resending after it.
Restart(active, calls) ==
    /\ DestroyAllConnections(NoTests)
    /\ timers' = {"retry"}
    /\ state' = IF "retry" \in active THEN "disconnected" ELSE "retry"
    /\ restarted' = TRUE
    /\ posted' = calls

\* connectToServer(): without options the configuration is waited for.
ConnectToServer(afterConfig, active, calls) ==
    IF afterConfig /\ (chosen # None \/ tests # NoTests)
    THEN /\ timers' = active /\ posted' = calls
         /\ UNCHANGED <<tests, chosen, state, restarted, asked, listens, owed, abandoned>>
    ELSE IF options
    THEN /\ DestroyAllConnections(AllTests)
         /\ timers' = {"connected"} /\ posted' = calls
         /\ state' = "connecting"
         /\ UNCHANGED <<restarted, asked, listens>>
    ELSE IF afterConfig
    THEN Restart(active, calls) /\ UNCHANGED <<asked, listens>>
    ELSE /\ DestroyAllConnections(NoTests)
         /\ timers' = active \cap {"retry"} /\ posted' = calls
         /\ asked' = TRUE /\ listens' = TRUE
         /\ UNCHANGED <<state, restarted>>

\* What is posted runs before the timers, which expired later, and the transports, whose
\* tests begin only then, have their turn.
Turn == "connect" \notin posted
Expires(timer) == Turn /\ timer \in timers

Connect == "connect" \in posted
    /\ ConnectToServer(FALSE, timers, posted \ {"connect"}) /\ UNCHANGED options
OnConfigLoaded == "afterConfig" \in posted
    /\ ConnectToServer(TRUE, timers, posted \ {"afterConfig"}) /\ UNCHANGED options
RetryByTimer == Expires("retry")
    /\ ConnectToServer(FALSE, timers \ {"retry"}, posted) /\ UNCHANGED options

\* requestConfig() is answered, or the configuration is loaded for somebody else.
ConfigLoaded(known) ==
    /\ options' = (options \/ known)
    /\ asked' = FALSE
    /\ posted' = IF listens THEN posted \cup {"afterConfig"} ELSE posted
    /\ UNCHANGED <<tests, chosen, timers, state, restarted, listens, owed, abandoned>>

-----------------------------------------------------------------------------
Chooses(t) ==
    /\ chosen' = t /\ tests' = NoTests /\ abandoned' = FALSE

\* Mutant: a better one is waited for without a timer.
OnConnectedUntimed(t) ==
    /\ Turn /\ tests[t] = "connecting"
    /\ IF \E u \in Transports : Testing(u) /\ Priority[u] > Priority[t]
       THEN /\ tests' = [tests EXCEPT ![t] = "connected"]
            /\ timers' = timers \ {"connected"}
            /\ UNCHANGED <<chosen, abandoned>>
       ELSE Chooses(t) /\ timers' = timers \ {"connected", "better"}
    /\ UNCHANGED <<posted, state, restarted, config, owed>>
\* onConnected(): a better one is waited for, if there is any.
OnConnected(t) ==
    /\ Turn /\ tests[t] = "connecting"
    /\ IF \E u \in Transports : Testing(u) /\ Priority[u] > Priority[t]
       THEN /\ tests' = [tests EXCEPT ![t] = "connected"]
            /\ timers' = (timers \ {"connected"}) \cup {"better"}
            /\ UNCHANGED <<chosen, abandoned>>
       ELSE Chooses(t) /\ timers' = timers \ {"connected", "better"}
    /\ UNCHANGED <<posted, state, restarted, config, owed>>

\* confirmBestConnection(), once the timer is not active.
Best(now) ==
    {t \in Transports : now[t] = "connected"
        /\ \A u \in Transports : now[u] = "connected" => Priority[u] <= Priority[t]}

\* onError() and onDisconnected() of a test: the last one starts all over.  If there are
\* others, confirmBestConnection() has nothing to do, see ConnectedIsAwaited.
TestFails(t) ==
    /\ Turn /\ Testing(t)
    /\ LET left == [tests EXCEPT ![t] = "none"]
       IN IF left = NoTests THEN Restart(timers, posted)
          ELSE /\ tests' = left
               /\ UNCHANGED <<chosen, timers, posted, state, restarted, owed, abandoned>>
    /\ UNCHANGED config

\* waitBetterFailed(): if the one that was connected is gone by now, the tests that are
\* left have no timer.
WaitBetterFailed ==
    /\ Expires("better")
    /\ timers' = timers \ {"better"}
    /\ IF Best(tests) # {} THEN \E t \in Best(tests) : Chooses(t)
       ELSE abandoned' = TRUE /\ UNCHANGED <<tests, chosen>>
    /\ UNCHANGED <<posted, state, restarted, config, owed>>

\* Mutant: what was sent is not sent again.
FailForgets(timer) ==
    /\ Expires(timer)
    /\ DestroyAllConnections(NoTests)
    /\ timers' = timers \cap {"retry"}
    /\ state' = "disconnected" /\ restarted' = FALSE
    /\ posted' = IF timer = "received" /\ "retry" \in timers THEN posted
                 ELSE posted \cup {"connect"}
    /\ UNCHANGED config
\* waitConnectedFailed() and waitReceivedFailed(): doDisconnect(), and at once another try.
WaitFailed(timer) ==
    /\ Expires(timer)
    /\ DestroyAllConnections(NoTests)
    /\ timers' = timers \cap {"retry"}
    /\ state' = "disconnected" /\ restarted' = TRUE
    /\ posted' = IF timer = "received" /\ "retry" \in timers THEN posted
                 ELSE posted \cup {"connect"}
    /\ UNCHANGED config

\* authKeyCreated(): the key is known, everything sent before is sent again.
AuthKeyCreated ==
    /\ chosen # None /\ state # "connected"
    /\ state' = "connected" /\ restarted' = FALSE
    /\ owed' = (owed /\ ~restarted)
    /\ UNCHANGED <<tests, chosen, timers, posted, config, abandoned>>

\* onSentSome() and onReceivedSome()
SentSome ==
    /\ chosen # None
    /\ timers' = timers \cup {"received"}
    /\ UNCHANGED <<tests, chosen, posted, state, restarted, config, owed, abandoned>>
ReceivedSome ==
    /\ chosen # None \/ tests # NoTests
    /\ timers' = timers \ {"received"}
    /\ UNCHANGED <<tests, chosen, posted, state, restarted, config, owed, abandoned>>

\* The transport in use fails, an answer is wrong, or a ping is not answered; or a test that
\* has connected is not connected any more in onConnected().
Fails ==
    /\ Turn
    /\ chosen # None \/ \E t \in Transports : tests[t] = "connecting"
    /\ Restart(timers, posted) /\ UNCHANGED config

\* restartNow(), asked for by the main thread at any time.
RestartNow == Restart(timers \ {"retry"}, posted) /\ UNCHANGED config

TimersRunOut == RetryByTimer \/ WaitBetterFailed \/ WaitFailed("connected")

Next ==
    \/ Connect \/ OnConfigLoaded \/ TimersRunOut
    \/ \E t \in Transports : OnConnected(t) \/ TestFails(t)
    \/ \E known \in BOOLEAN : ConfigLoaded(known)
    \/ WaitFailed("received") \/ AuthKeyCreated \/ SentSome \/ ReceivedSome \/ Fails \/ RestartNow

Spec == Init /\ [][Next]_vars

\* Posted calls run, timers run out.  Nothing is assumed of the transports, of the main
\* thread, or of the configuration.
FairSpec ==
    Spec /\ WF_vars(Connect) /\ WF_vars(OnConfigLoaded) /\ WF_vars(TimersRunOut)

-----------------------------------------------------------------------------
(***************************************************************************)
(* Properties.                                                             *)
(***************************************************************************)

\* What went through a transport that was lost is sent again: the flag is set until then.
LossIsRemembered == owed => restarted

\* While no transport is chosen, something is going to happen, unless the connected test
\* was lost while a better one was waited for: then only the tests themselves can end it.
NeverIdle ==
    chosen = None =>
        \/ timers \cap {"connected", "retry", "better"} # {} \/ posted # {} \/ asked
        \/ abandoned /\ tests # NoTests

\* A test that is connected is not forgotten: the timer runs that will choose it.
ConnectedIsAwaited == (\E t \in Transports : tests[t] = "connected") => "better" \in timers

\* Whatever fails, and however timers, transports and posted calls meet, what was lost is
\* not forgotten and the next step is provided for.
ConnectingIsRight == LossIsRemembered /\ NeverIdle /\ ConnectedIsAwaited

\* However often transports fail or are silent, the connection is tried again and again
\* until one is chosen, except for the case of NeverIdle, and for a data centre that the
\* configuration does not have.
KeepsTrying ==
    \/ []<>(chosen # None \/ abandoned \/ ~options)
    \/ []<><<tests = NoTests /\ tests' # NoTests>>_vars
=============================================================================
