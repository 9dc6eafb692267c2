----------------------------- MODULE Parts_proofs -----------------------------
(***************************************************************************)
(* The parts keep their promises, each by itself, for every value of their *)
(* constants.                                                              *)
(***************************************************************************)
EXTENDS Parts, SequenceTheorems, FiniteSetTheorems, TLAPS

-----------------------------------------------------------------------------
(***************************************************************************)
(* The transport of a connection: what was lost is remembered, and the next *)
(* step is provided for, whatever the endpoints are and however they fail. *)
(***************************************************************************)
\* The priority of a TestConnection is a sum of three bits.
Endpoints == Priority \in [Transports -> 0..3] /\ None \notin Transports

\* A call of connectToServer() that is posted, or for which the timer runs, finds nothing
\* that it could destroy.
ConnectsAnew ==
    /\ "connect" \in posted => chosen = None /\ connState # "connected"
    /\ "retry" \in timers => chosen = None /\ tests = Net!NoTests /\ connState # "connected"
    /\ connState = "connected" => chosen # None

\* Tests have a timer, unless they were abandoned, and the configuration that is asked for
\* is waited for.
TestsAreTimed ==
    /\ tests # Net!NoTests => abandoned \/ timers \cap {"connected", "better"} # {}
    /\ "better" \in timers => tests # Net!NoTests
    /\ configAsked => listens

\* The inductive invariant.
NetIInv == Net!TypeOK /\ Net!ConnectingIsRight /\ ConnectsAnew /\ TestsAreTimed

\* If any test is connected, confirmBestConnection() finds one.
LEMMA BestExists ==
    ASSUME Endpoints, Net!TypeOK, Net!Best(tests) = {}
    PROVE  \A t \in Transports : tests[t] # "connected"
<1> SUFFICES ASSUME NEW t \in Transports, tests[t] = "connected" PROVE FALSE
  OBVIOUS
<1> DEFINE Has(n) == \E u \in Transports : tests[u] = "connected" /\ Priority[u] = n
<1>1. \A u \in Transports : Priority[u] \in {0, 1, 2, 3}
  BY DEF Endpoints
<1>2. ASSUME NEW n \in {0, 1, 2, 3}, Has(n), \A m \in {0, 1, 2, 3} : Has(m) => m <= n
      PROVE  FALSE
  <2>1. PICK u \in Transports : tests[u] = "connected" /\ Priority[u] = n
    BY <1>2
  <2>2. \A v \in Transports : tests[v] = "connected" => Priority[v] <= Priority[u]
    BY <1>1, <1>2, <2>1
  <2>. QED
    BY <2>1, <2>2 DEF Net!Best
<1>3. Has(0) \/ Has(1) \/ Has(2) \/ Has(3)
  BY <1>1
<1> HIDE DEF Has
<1>4. CASE Has(3)
  BY <1>2, <1>4
<1>5. CASE ~Has(3) /\ Has(2)
  BY <1>2, <1>5
<1>6. CASE ~Has(3) /\ ~Has(2) /\ Has(1)
  BY <1>2, <1>6
<1>7. CASE ~Has(3) /\ ~Has(2) /\ ~Has(1) /\ Has(0)
  BY <1>2, <1>7
<1>. QED
  BY <1>3, <1>4, <1>5, <1>6, <1>7

LEMMA NetInit == ASSUME Endpoints PROVE Net!Init => NetIInv
  BY DEF Net!Init, NetIInv, Net!TypeOK, Net!ConnectingIsRight, Net!LossIsRemembered,
         Net!NeverIdle, Net!ConnectedIsAwaited, ConnectsAnew, TestsAreTimed, Net!NoTests,
         Net!Timers, Endpoints

\* restart() is right wherever it is called.
LEMMA RestartIsRight ==
    ASSUME NetIInv, NEW active \in SUBSET timers, NEW calls \in SUBSET posted,
           Net!Restart(active, calls), UNCHANGED <<options, configAsked, listens>>
    PROVE  NetIInv'
  BY DEF Net!Restart, Net!DestroyAllConnections, NetIInv, Net!TypeOK, Net!ConnectingIsRight,
         Net!LossIsRemembered, Net!NeverIdle, Net!ConnectedIsAwaited, ConnectsAnew,
         TestsAreTimed, Net!NoTests, Net!Timers

\* connectToServer() is right when nothing is connected.
LEMMA ConnectIsRight ==
    ASSUME NetIInv, NEW afterConfig \in BOOLEAN, NEW active \in SUBSET timers,
           NEW calls \in SUBSET posted, Net!ConnectToServer(afterConfig, active, calls),
           UNCHANGED options,
           afterConfig => active = timers /\ calls = posted \ {"afterConfig"},
           ~afterConfig => chosen = None /\ connState # "connected"
    PROVE  NetIInv'
<1>1. CASE afterConfig /\ (chosen # None \/ tests # Net!NoTests)
  BY <1>1
     DEF Net!ConnectToServer, NetIInv, Net!TypeOK, Net!ConnectingIsRight, Net!LossIsRemembered,
         Net!NeverIdle, Net!ConnectedIsAwaited, ConnectsAnew, TestsAreTimed, Net!Timers
<1>2. CASE ~(afterConfig /\ (chosen # None \/ tests # Net!NoTests)) /\ options
  BY <1>2
     DEF Net!ConnectToServer, Net!DestroyAllConnections, NetIInv, Net!TypeOK,
         Net!ConnectingIsRight, Net!LossIsRemembered, Net!NeverIdle, Net!ConnectedIsAwaited,
         ConnectsAnew, TestsAreTimed, Net!Timers, Net!NoTests, Net!AllTests
<1>3. CASE afterConfig /\ chosen = None /\ tests = Net!NoTests /\ ~options
  BY <1>3, RestartIsRight DEF Net!ConnectToServer
<1>4. CASE ~afterConfig /\ ~options
  BY <1>4
     DEF Net!ConnectToServer, Net!DestroyAllConnections, NetIInv, Net!TypeOK,
         Net!ConnectingIsRight, Net!LossIsRemembered, Net!NeverIdle, Net!ConnectedIsAwaited,
         ConnectsAnew, TestsAreTimed, Net!Timers, Net!NoTests
<1>. QED
  BY <1>1, <1>2, <1>3, <1>4

\* A test that is chosen was the last thing to wait for.
LEMMA ChooseIsRight ==
    ASSUME Endpoints, NetIInv, Net!Turn, NEW t \in Transports, tests # Net!NoTests, Net!Chooses(t),
           NEW ended \in SUBSET Net!Timers, "better" \in ended, timers' = timers \ ended,
           UNCHANGED <<posted, connState, restarted, Net!config, owed>>
    PROVE  NetIInv'
  BY DEF Endpoints, Net!Turn, Net!Chooses, Net!config, NetIInv, Net!TypeOK,
         Net!ConnectingIsRight, Net!LossIsRemembered, Net!NeverIdle, Net!ConnectedIsAwaited,
         ConnectsAnew, TestsAreTimed, Net!Timers, Net!NoTests

\* Every step keeps the invariant.
LEMMA NetSteps == ASSUME Endpoints, NetIInv, [Net!Next]_(Net!vars) PROVE NetIInv'
<1>1. CASE UNCHANGED Net!vars
  BY <1>1
     DEF Net!vars, Net!config, NetIInv, Net!TypeOK, Net!ConnectingIsRight, Net!LossIsRemembered,
         Net!NeverIdle, Net!ConnectedIsAwaited, ConnectsAnew, TestsAreTimed
<1>2. CASE Net!Connect
  <2>. DEFINE rest == posted \ {"connect"}
  <2>1. chosen = None /\ connState # "connected" /\ UNCHANGED options
    BY <1>2 DEF Net!Connect, NetIInv, ConnectsAnew
  <2>2. Net!ConnectToServer(FALSE, timers, rest)
    BY <1>2 DEF Net!Connect
  <2>3. timers \in SUBSET timers /\ rest \in SUBSET posted
    OBVIOUS
  <2>. QED
    BY <2>1, <2>2, <2>3, ConnectIsRight
<1>3. CASE Net!OnConfigLoaded
  <2>. DEFINE rest == posted \ {"afterConfig"}
  <2>1. Net!ConnectToServer(TRUE, timers, rest) /\ UNCHANGED options
    BY <1>3 DEF Net!OnConfigLoaded
  <2>2. timers \in SUBSET timers /\ rest \in SUBSET posted
    OBVIOUS
  <2>. QED
    BY <2>1, <2>2, ConnectIsRight
<1>4. CASE Net!RetryByTimer
  <2>. DEFINE active == timers \ {"retry"}
  <2>1. chosen = None /\ connState # "connected" /\ UNCHANGED options
    BY <1>4 DEF Net!RetryByTimer, Net!Expires, NetIInv, ConnectsAnew
  <2>2. Net!ConnectToServer(FALSE, active, posted)
    BY <1>4 DEF Net!RetryByTimer
  <2>3. active \in SUBSET timers /\ posted \in SUBSET posted
    OBVIOUS
  <2>. QED
    BY <2>1, <2>2, <2>3, ConnectIsRight
<1>5. ASSUME NEW t \in Transports, Net!OnConnected(t) PROVE NetIInv'
  <2>1. /\ Net!Turn /\ tests[t] = "connecting"
        /\ UNCHANGED <<posted, connState, restarted, Net!config, owed>>
    BY <1>5 DEF Net!OnConnected
  <2>2. tests # Net!NoTests
    BY <2>1 DEF Net!NoTests
  <2>3. CASE \E u \in Transports : Net!Testing(u) /\ Priority[u] > Priority[t]
    <3>1. /\ tests' = [tests EXCEPT ![t] = "connected"]
          /\ timers' = (timers \ {"connected"}) \cup {"better"}
          /\ UNCHANGED <<chosen, abandoned>>
      BY <1>5, <2>3 DEF Net!OnConnected
    <3>2. tests' \in [Transports -> {"none", "connecting", "connected"}] /\ tests' # Net!NoTests
      BY <3>1 DEF NetIInv, Net!TypeOK, Net!NoTests
    <3>3. Net!TypeOK'
      BY <2>1, <3>1, <3>2 DEF Net!config, NetIInv, Net!TypeOK, Net!Timers
    <3>. QED
      BY <2>1, <2>2, <3>1, <3>2, <3>3
         DEF Net!config, NetIInv, Net!ConnectingIsRight, Net!LossIsRemembered, Net!NeverIdle,
             Net!ConnectedIsAwaited, ConnectsAnew, TestsAreTimed
  <2>4. CASE ~ \E u \in Transports : Net!Testing(u) /\ Priority[u] > Priority[t]
    <3>1. Net!Chooses(t) /\ timers' = timers \ {"connected", "better"}
      BY <1>5, <2>4 DEF Net!OnConnected
    <3>. QED
      BY <2>1, <2>2, <3>1, {"connected", "better"} \in SUBSET Net!Timers, ChooseIsRight
         DEF Net!Timers
  <2>. QED
    BY <2>3, <2>4
<1>6. ASSUME NEW t \in Transports, Net!TestFails(t) PROVE NetIInv'
  <2>. DEFINE others == [tests EXCEPT ![t] = "none"]
  <2>1. Net!Turn /\ Net!Testing(t) /\ UNCHANGED Net!config
    BY <1>6 DEF Net!TestFails
  <2>2. CASE others = Net!NoTests
    <3>1. Net!Restart(timers, posted)
      BY <1>6, <2>2 DEF Net!TestFails
    <3>. QED
      BY <2>1, <3>1, RestartIsRight, timers \in SUBSET timers, posted \in SUBSET posted
         DEF Net!config
  <2>3. CASE others # Net!NoTests
    <3>1. /\ tests' = others
          /\ UNCHANGED <<chosen, timers, posted, connState, restarted, owed, abandoned>>
      BY <1>6, <2>3 DEF Net!TestFails
    <3>2. tests # Net!NoTests
      BY <2>1 DEF Net!Testing, Net!NoTests
    <3>3. tests' \in [Transports -> {"none", "connecting", "connected"}] /\ tests' # Net!NoTests
      BY <2>3, <3>1 DEF NetIInv, Net!TypeOK
    <3>4. Net!ConnectedIsAwaited'
      BY <3>1 DEF NetIInv, Net!TypeOK, Net!ConnectingIsRight, Net!ConnectedIsAwaited
    <3>. QED
      BY <2>1, <3>1, <3>2, <3>3, <3>4
         DEF Net!config, NetIInv, Net!TypeOK, Net!ConnectingIsRight, Net!LossIsRemembered,
             Net!NeverIdle, ConnectsAnew, TestsAreTimed
  <2>. QED
    BY <2>2, <2>3
<1>7. CASE Net!WaitBetterFailed
  <2>1. /\ Net!Turn /\ "better" \in timers /\ timers' = timers \ {"better"}
        /\ UNCHANGED <<posted, connState, restarted, Net!config, owed>>
    BY <1>7 DEF Net!WaitBetterFailed, Net!Expires
  <2>2. tests # Net!NoTests
    BY <2>1 DEF NetIInv, TestsAreTimed
  <2>3. CASE Net!Best(tests) # {}
    <3>1. PICK t \in Net!Best(tests) : Net!Chooses(t)
      BY <1>7, <2>3 DEF Net!WaitBetterFailed
    <3>2. t \in Transports
      BY DEF Net!Best
    <3>. QED
      BY <2>1, <2>2, <3>1, <3>2, ChooseIsRight, {"better"} \in SUBSET Net!Timers DEF Net!Timers
  <2>4. CASE Net!Best(tests) = {}
    <3>1. abandoned' = TRUE /\ UNCHANGED <<tests, chosen>>
      BY <1>7, <2>4 DEF Net!WaitBetterFailed
    <3>2. \A t \in Transports : tests[t] # "connected"
      BY <2>4, BestExists DEF NetIInv
    <3>. QED
      BY <2>1, <2>2, <3>1, <3>2
         DEF Net!config, NetIInv, Net!TypeOK, Net!ConnectingIsRight, Net!LossIsRemembered,
             Net!NeverIdle, Net!ConnectedIsAwaited, ConnectsAnew, TestsAreTimed, Net!Timers
  <2>. QED
    BY <2>3, <2>4
<1>8. ASSUME NEW waited \in {"connected", "received"}, Net!WaitFailed(waited) PROVE NetIInv'
  BY <1>8
     DEF Net!WaitFailed, Net!Expires, Net!DestroyAllConnections, Net!config, NetIInv,
         Net!TypeOK, Net!ConnectingIsRight, Net!LossIsRemembered, Net!NeverIdle,
         Net!ConnectedIsAwaited, ConnectsAnew, TestsAreTimed, Net!Timers, Net!NoTests
<1>9. ASSUME NEW known \in BOOLEAN, Net!ConfigLoaded(known) PROVE NetIInv'
  BY <1>9
     DEF Net!ConfigLoaded, NetIInv, Net!TypeOK, Net!ConnectingIsRight, Net!LossIsRemembered,
         Net!NeverIdle, Net!ConnectedIsAwaited, ConnectsAnew, TestsAreTimed, Net!Timers
<1>10. CASE Net!AuthKeyCreated
  BY <1>10
     DEF Net!AuthKeyCreated, Net!config, NetIInv, Net!TypeOK, Net!ConnectingIsRight,
         Net!LossIsRemembered, Net!NeverIdle, Net!ConnectedIsAwaited, ConnectsAnew,
         TestsAreTimed
<1>11. CASE Net!SentSome \/ Net!ReceivedSome
  <2>1. UNCHANGED <<tests, chosen, posted, connState, restarted, Net!config, owed, abandoned>>
    BY <1>11 DEF Net!SentSome, Net!ReceivedSome
  <2>2. /\ timers' \subseteq Net!Timers
        /\ \A u \in {"connected", "better", "retry"} : u \in timers' <=> u \in timers
    BY <1>11 DEF Net!SentSome, Net!ReceivedSome, NetIInv, Net!TypeOK, Net!Timers
  <2>3. /\ timers' \cap {"connected", "better"} # {} <=> timers \cap {"connected", "better"} # {}
        /\ timers' \cap {"connected", "retry", "better"} # {}
             <=> timers \cap {"connected", "retry", "better"} # {}
    BY <2>2
  <2>4. Net!TypeOK'
    BY <2>1, <2>2 DEF Net!config, NetIInv, Net!TypeOK
  <2>. QED
    BY <2>1, <2>2, <2>3, <2>4
       DEF Net!config, NetIInv, Net!ConnectingIsRight, Net!LossIsRemembered, Net!NeverIdle,
           Net!ConnectedIsAwaited, ConnectsAnew, TestsAreTimed
<1>12. CASE Net!Fails
  BY <1>12, RestartIsRight, timers \in SUBSET timers, posted \in SUBSET posted
     DEF Net!Fails, Net!config
<1>13. CASE Net!RestartNow
  <2>. DEFINE active == timers \ {"retry"}
  <2>1. Net!Restart(active, posted) /\ UNCHANGED Net!config
    BY <1>13 DEF Net!RestartNow
  <2>. QED
    BY <2>1, RestartIsRight, active \in SUBSET timers, posted \in SUBSET posted DEF Net!config
<1>. QED
  BY <1>1, <1>2, <1>3, <1>4, <1>5, <1>6, <1>7, <1>8, <1>9, <1>10, <1>11, <1>12, <1>13
     DEF Net!Next, Net!TimersRunOut

\* Whatever the endpoints, the variables of a connection have their types, what was sent through
\* a lost transport is remembered until all is sent again, a connection without transport has
\* something to wait for, and a connected test has the timer that will choose it.
THEOREM ConnectingInductive == Endpoints => (Net!Spec => []NetIInv)
<1> SUFFICES ASSUME Endpoints PROVE Net!Spec => []NetIInv
  OBVIOUS
<1>1. Net!Init => NetIInv
  BY NetInit
<1>2. NetIInv /\ [Net!Next]_(Net!vars) => NetIInv'
  BY NetSteps
<1> QED BY <1>1, <1>2, PTL DEF Net!Spec

-----------------------------------------------------------------------------
(***************************************************************************)
(* A local file under two names: a read finds the old value or the new one, *)
(* wherever the process ends.                                              *)
(***************************************************************************)
\* The bounds are numbers.
FileBounds == MaxWrites \in Nat /\ MaxTime \in Nat /\ MaxFileFaults \in Nat

\* What was read or written last is in the file n, or there is nothing to read in it.
Keeps(n) == IF last > 0 THEN file[n] = last ELSE file[n] \in {File!Missing, File!Torn}

\* Between two writes, after a read: one good file, or none.
OneIsGood ==
    IF last > 0 THEN \E n \in File!Names : file[n] = last /\ file[1 - n] = File!Missing
    ELSE \A n \in File!Names : file[n] \in {File!Missing, File!Torn}

\* While one is written the other one is left alone, and is the one to remove.
OtherIsKept ==
    /\ Keeps(1 - writing)
    /\ writing \in File!Names
    /\ toDelete = IF File!Exists(1 - writing) THEN 1 - writing ELSE File!Missing
    /\ last < written

\* What a write that is under way, or was cut, leaves for the next read.
FilesOK ==
    /\ place = "open" => OtherIsKept /\ file[writing] = File!Torn
    /\ place = "finished" => OtherIsKept /\ file[writing] = written
    /\ place = "closed" /\ ~unread => OneIsGood
    /\ place = "closed" /\ unread =>
            /\ last \notin cut
            /\ \E n \in File!Names : Keeps(1 - n) /\ file[n] \in {File!Torn} \cup cut
    /\ place # "closed" => ~unread
    /\ ~unread => cut = {}

\* Values are counted up, and the one being written has a file.
NumbersOK ==
    /\ last <= written /\ \A n \in File!Names : file[n] <= written
    /\ place # "closed" => written > 0 /\ writing \in File!Names

\* The inductive invariant.
FileIInv == File!TypeOK /\ NumbersOK /\ (~spoiled => FilesOK)

\* readFile() finds a value if there is any, and nothing else.
LEMMA ReadableIs ==
    ASSUME File!TypeOK
    PROVE  /\ (\A n \in File!Names : file[n] \in {File!Missing, File!Torn}) =>
                File!Readable = File!Missing
           /\ (\E n \in File!Names : file[n] > 0) =>
                File!Readable > 0 /\ \E n \in File!Names : File!Readable = file[n]
<1>1. File!ToRead = <<1, 0>> \/ File!ToRead = <<0, 1>>
  BY DEF File!ToRead
<1> DEFINE r == File!ToRead[1]
<1>2. r \in File!Names /\ File!ToRead[2] = 1 - r
  BY <1>1 DEF File!Names
<1>3. File!Readable = IF file[r] > 0 THEN file[r]
                 ELSE IF file[1 - r] > 0 THEN file[1 - r] ELSE File!Missing
  <2> DEFINE tries == {i \in {1, 2} : file[File!ToRead[i]] > 0}
  <2>1. (1 \in tries <=> file[r] > 0) /\ (2 \in tries <=> file[1 - r] > 0) /\ tries \subseteq {1, 2}
    BY <1>2
  <2>2. File!Readable = IF tries = {} THEN File!Missing
                   ELSE IF 1 \in tries THEN file[r] ELSE file[1 - r]
    BY <1>2 DEF File!Readable
  <2> HIDE DEF tries
  <2> QED BY <2>1, <2>2
<1> HIDE DEF r
<1>4. /\ file[r] \in {File!Missing, File!Torn} \cup 1..MaxWrites
      /\ file[1 - r] \in {File!Missing, File!Torn} \cup 1..MaxWrites
  BY <1>2 DEF File!TypeOK, File!Names
<1>5. \A n \in File!Names : n = r \/ n = 1 - r
  BY <1>2 DEF File!Names
<1> QED BY <1>2, <1>3, <1>4, <1>5 DEF File!Missing, File!Torn, File!Names

\* There are no files in the beginning.
LEMMA FileInit == FileBounds /\ File!Init => FileIInv
<1> SUFFICES ASSUME FileBounds, File!Init PROVE FileIInv
  OBVIOUS
<1>1. File!TypeOK
  <2>1. /\ file \in [File!Names -> {File!Missing, File!Torn} \cup 1..MaxWrites]
        /\ time \in [File!Names -> 0..MaxTime]
    BY DEF FileBounds, File!Init
  <2>2. clock \in 0..MaxTime /\ written \in 0..MaxWrites /\ fileFaults \in 0..MaxFileFaults
    BY DEF FileBounds, File!Init
  <2> QED BY <2>1, <2>2 DEF File!Init, File!TypeOK
<1>2. NumbersOK /\ FilesOK
  BY DEF File!Init, NumbersOK, FilesOK, OneIsGood, File!Missing
<1> QED BY <1>1, <1>2 DEF FileIInv

\* Both names are names.
LEMMA ToWriteIs == File!ToWrite \in File!Names
  BY DEF File!ToWrite, File!Names

LEMMA ReadableType == ASSUME File!TypeOK PROVE File!Readable \in {File!Missing} \cup 1..MaxWrites
  BY ReadableIs DEF File!TypeOK, File!Names, File!Missing, File!Torn

\* Every step keeps each part of the invariant.
LEMMA FileTypeStep ==
    FileBounds /\ File!TypeOK /\ NumbersOK /\ [File!Next]_(File!vars) => File!TypeOK'
<1> SUFFICES ASSUME FileBounds, File!TypeOK, NumbersOK, [File!Next]_(File!vars) PROVE File!TypeOK'
  OBVIOUS
<1> DEFINE Values == {File!Missing, File!Torn} \cup 1..MaxWrites
           Others == /\ time' \in [File!Names -> 0..MaxTime] /\ clock' \in 0..MaxTime
                     /\ writing' \in File!Names \cup {File!Missing}
                     /\ toDelete' \in File!Names \cup {File!Missing}
                     /\ place' \in {"closed", "open", "finished"}
                     /\ written' \in 0..MaxWrites /\ fileFaults' \in 0..MaxFileFaults
                     /\ last' \in {File!Missing} \cup 1..MaxWrites /\ cut' \subseteq 1..MaxWrites
                     /\ unread' \in BOOLEAN /\ spoiled' \in BOOLEAN
<1>0. file \in [File!Names -> Values] /\ {File!Missing, File!Torn} \subseteq Values
  BY DEF File!TypeOK
<1>00. file' \in [File!Names -> Values] /\ Others => File!TypeOK'
  BY DEF File!TypeOK
<1>w. place # "closed" => written \in 1..MaxWrites /\ written \in Values
  BY DEF File!TypeOK, NumbersOK, FileBounds
<1>1. CASE File!BeginWrite
  <2>1. file' \in [File!Names -> Values]
    BY <1>0, <1>1, ToWriteIs DEF File!BeginWrite
  <2>2. Others
    BY <1>1, ToWriteIs DEF File!BeginWrite, FileBounds, File!TypeOK, File!Names
  <2> QED BY <1>00, <2>1, <2>2
<1>2. CASE File!ReadFile
  <2>1. file' \in [File!Names -> Values]
    BY <1>0, <1>2 DEF File!ReadFile
  <2>2. Others
    BY <1>2, ReadableType DEF File!ReadFile, FileBounds, File!TypeOK
  <2> QED BY <1>00, <2>1, <2>2
<1>3. CASE File!Crash
  BY <1>00, <1>0, <1>w, <1>3 DEF File!Crash, FileBounds, File!TypeOK
<1>4. CASE File!Tick
  BY <1>00, <1>0, <1>4 DEF File!Tick, FileBounds, File!TypeOK
<1>5. ASSUME NEW full \in BOOLEAN, File!FinishWrite(full) PROVE File!TypeOK'
  <2>1. file' \in [File!Names -> Values]
    BY <1>0, <1>w, <1>5 DEF File!FinishWrite
  <2>2. time' \in [File!Names -> 0..MaxTime]
    BY <1>5 DEF File!FinishWrite, File!TypeOK
  <2>3. Others
    BY <1>5, <2>2 DEF File!FinishWrite, FileBounds, File!TypeOK
  <2> QED BY <1>00, <2>1, <2>3
<1>6. ASSUME NEW fault \in BOOLEAN, File!RemoveOther(fault) PROVE File!TypeOK'
  <2>1. file' \in [File!Names -> Values]
    BY <1>0, <1>6 DEF File!RemoveOther
  <2>2. fileFaults' \in 0..MaxFileFaults /\ spoiled' \in BOOLEAN
    BY <1>6 DEF File!RemoveOther, FileBounds, File!TypeOK
  <2>3. Others
    BY <1>w, <1>6, <2>2 DEF File!RemoveOther, File!TypeOK
  <2> QED BY <1>00, <2>1, <2>3
<1>7. CASE UNCHANGED File!vars
  BY <1>7 DEF File!vars, File!TypeOK
<1> QED BY <1>1, <1>2, <1>3, <1>4, <1>5, <1>6, <1>7 DEF File!Next

LEMMA Files == File!TypeOK => \A n \in File!Names : file[n] \in {-1, -2} \cup 1..MaxWrites
  BY DEF File!TypeOK, File!Missing, File!Torn

LEMMA FileNumbersStep ==
    FileBounds /\ File!TypeOK /\ NumbersOK /\ [File!Next]_(File!vars) => NumbersOK'
<1> SUFFICES ASSUME FileBounds, File!TypeOK, NumbersOK, [File!Next]_(File!vars) PROVE NumbersOK'
  OBVIOUS
<1>0. written \in Nat /\ \A n \in File!Names : file[n] \in Int
  BY Files DEF File!TypeOK, FileBounds
<1>1. CASE File!BeginWrite
  <2>1. written' = written + 1 /\ last' = last /\ last \in Int
    BY <1>1 DEF File!BeginWrite, File!TypeOK, File!Missing
  <2>2. ASSUME NEW n \in File!Names PROVE file'[n] = file[n] \/ file'[n] = -2
    BY <1>1, ToWriteIs DEF File!BeginWrite, File!TypeOK, File!Torn
  <2> QED BY <1>0, <1>1, <2>1, <2>2, ToWriteIs DEF File!BeginWrite, NumbersOK
<1>2. CASE File!ReadFile
  <2>1. \A n \in File!Names : file'[n] = file[n] \/ file'[n] = -1
    BY <1>2 DEF File!ReadFile, File!TypeOK, File!Missing
  <2>2. last' <= written
    <3>1. last' = File!Readable /\ (File!Readable = -1 \/ File!Readable > 0)
      BY <1>2, ReadableType DEF File!ReadFile, File!Missing, FileBounds
    <3>2. CASE File!Readable > 0
      <4>1. \E n \in File!Names : file[n] > 0
        BY <3>2, Files, ReadableIs DEF File!Missing, File!Torn
      <4> QED BY <3>1, <4>1, ReadableIs DEF NumbersOK
    <3> QED BY <1>0, <3>1, <3>2
  <2> QED BY <1>0, <1>2, <2>1, <2>2 DEF File!ReadFile, NumbersOK
<1>3. CASE File!Crash
  BY <1>3 DEF File!Crash, NumbersOK
<1>4. CASE File!Tick
  BY <1>4 DEF File!Tick, NumbersOK
<1>5. ASSUME NEW full \in BOOLEAN, File!FinishWrite(full) PROVE NumbersOK'
  <2>1. ASSUME NEW n \in File!Names PROVE file'[n] = file[n] \/ file'[n] = written
    BY <1>5 DEF File!FinishWrite, File!TypeOK
  <2> QED BY <1>0, <1>5, <2>1 DEF File!FinishWrite, NumbersOK
<1>6. ASSUME NEW fault \in BOOLEAN, File!RemoveOther(fault) PROVE NumbersOK'
  <2>1. ASSUME NEW n \in File!Names PROVE file'[n] = file[n] \/ file'[n] = -1
    BY <1>6 DEF File!RemoveOther, File!TypeOK, File!Missing
  <2> QED BY <1>0, <1>6, <2>1 DEF File!RemoveOther, NumbersOK
<1>7. CASE UNCHANGED File!vars
  BY <1>7 DEF File!vars, NumbersOK
<1> QED BY <1>1, <1>2, <1>3, <1>4, <1>5, <1>6, <1>7 DEF File!Next

LEMMA FileFilesStep == FileBounds /\ FileIInv /\ [File!Next]_(File!vars) /\ ~spoiled' => FilesOK'
<1> SUFFICES ASSUME FileBounds, FileIInv, [File!Next]_(File!vars), ~spoiled' PROVE FilesOK'
  OBVIOUS
<1>0. /\ File!TypeOK /\ NumbersOK /\ written \in Nat
      /\ \A n \in File!Names : file[n] \in {-1, -2} \cup 1..MaxWrites
      /\ last \in {-1} \cup 1..MaxWrites
      /\ DOMAIN file = File!Names
  BY Files DEF FileIInv, File!TypeOK, FileBounds, File!Missing
<1>1. CASE File!BeginWrite
  <2>1. ~spoiled /\ ~unread /\ OneIsGood /\ cut' = {}
    BY <1>1 DEF File!BeginWrite, FileIInv, FilesOK
  <2> DEFINE w == File!ToWrite
  <2>2. w \in {0, 1} /\ writing' = w /\ file' = [file EXCEPT ![w] = -2] /\ last' = last
        /\ written' = written + 1 /\ place' = "open" /\ unread' = unread
        /\ toDelete' = IF file[1 - w] # -1 THEN 1 - w ELSE -1
    BY <1>1, ToWriteIs DEF File!BeginWrite, File!Names, File!Torn, File!Missing, File!Exists
  <2>3. last > 0 => file[1 - w] = last
    <3> SUFFICES ASSUME last > 0 PROVE file[1 - w] = last
      OBVIOUS
    <3>1. PICK n \in File!Names : file[n] = last /\ file[1 - n] = -1
      BY <2>1 DEF OneIsGood, File!Missing
    <3>2. w = 1 - n
      BY <3>1 DEF File!ToWrite, File!Exists, File!Missing, File!Names
    <3> QED BY <3>1, <3>2 DEF File!Names
  <2>4. last <= 0 => file[1 - w] \in {-1, -2}
    BY <1>0, <2>1, <2>2 DEF OneIsGood, File!Missing, File!Torn, File!Names
  <2> HIDE DEF w
  <2>5. file'[w] = -2 /\ file'[1 - w] = file[1 - w]
    BY <1>0, <2>2 DEF File!Names
  <2>6. last' < written'
    BY <1>0, <2>2 DEF NumbersOK
  <2> QED BY <2>1, <2>2, <2>3, <2>4, <2>5, <2>6, <1>0
          DEF FilesOK, OtherIsKept, Keeps, File!Exists, File!Missing, File!Torn, File!Names
<1>2. CASE File!ReadFile
  <2>1. ~spoiled /\ FilesOK /\ place' = "closed" /\ ~unread' /\ last' = File!Readable /\ cut' = {}
    BY <1>2 DEF File!ReadFile, FileIInv
  <2>2. CASE File!Readable = -1
    <3>1. file' = file /\ \A n \in File!Names : file[n] \in {-1, -2}
      BY <1>0, <1>2, <2>2, ReadableIs DEF File!ReadFile, File!Missing, File!Torn
    <3> QED BY <2>1, <2>2, <3>1 DEF FilesOK, OneIsGood, File!Missing, File!Torn
  <2>3. CASE File!Readable # -1
    <3>1. PICK n \in File!Names : File!Readable = file[n]
      BY <1>0, <2>3, ReadableIs DEF File!Missing, File!Torn
    <3>2. file[n] > 0
      BY <1>0, <2>3, <3>1, ReadableType DEF File!Missing
    <3>3. file[1 - n] # file[n]
      <4>1. CASE unread
        <5>1. PICK m \in File!Names : Keeps(1 - m) /\ file[m] \in {-2} \cup cut
          BY <2>1, <4>1, <1>2 DEF FilesOK, File!ReadFile, File!Torn
        <5>2. last \notin cut
          BY <2>1, <4>1, <1>2 DEF FilesOK, File!ReadFile
        <5> QED BY <1>0, <3>2, <5>1, <5>2 DEF Keeps, File!Missing, File!Torn, File!Names
      <4>2. CASE ~unread
        <5>1. OneIsGood
          BY <2>1, <4>2, <1>2 DEF FilesOK, File!ReadFile
        <5> QED BY <1>0, <3>2, <5>1 DEF OneIsGood, File!Missing, File!Torn, File!Names
      <4> QED BY <4>1, <4>2
    <3>4. file'[n] = file[n] /\ file'[1 - n] = -1
      BY <1>2, <2>3, <3>1, <3>3 DEF File!ReadFile, File!Missing, File!Names
    <3> QED BY <1>0, <2>1, <3>1, <3>2, <3>4 DEF FilesOK, OneIsGood, File!Missing, File!Names
  <2> QED BY <2>2, <2>3
<1>3. CASE File!Crash
  <2>1. ~spoiled /\ FilesOK /\ OtherIsKept /\ file[writing] \in {-2, written}
    BY <1>0, <1>3 DEF File!Crash, FileIInv, FilesOK, File!TypeOK, File!Torn
  <2> QED BY <1>0, <1>3, <2>1
             DEF File!Crash, FilesOK, OtherIsKept, Keeps, File!Torn, File!Missing
<1>4. CASE File!Tick
  BY <1>4 DEF File!Tick, FileIInv, FilesOK, OneIsGood, OtherIsKept, Keeps, File!Exists
<1>5. ASSUME NEW full \in BOOLEAN, File!FinishWrite(full) PROVE FilesOK'
  <2>1. ~spoiled /\ ~full /\ OtherIsKept /\ ~unread /\ cut' = {}
    BY <1>5 DEF File!FinishWrite, FileIInv, FilesOK
  <2>2. file' = [file EXCEPT ![writing] = written] /\ place' = "finished"
        /\ UNCHANGED <<writing, toDelete, last, unread, written>>
    BY <1>5, <2>1 DEF File!FinishWrite
  <2>3. file'[writing] = written /\ file'[1 - writing] = file[1 - writing]
    BY <1>0, <2>1, <2>2 DEF OtherIsKept, File!Names
  <2> QED BY <2>1, <2>2, <2>3 DEF FilesOK, OtherIsKept, Keeps, File!Exists
<1>6. ASSUME NEW fault \in BOOLEAN, File!RemoveOther(fault) PROVE FilesOK'
  <2>1. ~spoiled /\ ~fault /\ OtherIsKept /\ file[writing] = written /\ written > 0
    BY <1>0, <1>6 DEF File!RemoveOther, FileIInv, FilesOK, NumbersOK
  <2>2. /\ file' = IF toDelete = -1 THEN file ELSE [file EXCEPT ![toDelete] = -1]
        /\ place' = "closed" /\ ~unread' /\ last' = written /\ cut' = {}
    BY <1>6, <2>1 DEF File!RemoveOther, File!Missing
  <2>3. file'[writing] = written /\ file'[1 - writing] = -1
    BY <1>0, <2>1, <2>2 DEF OtherIsKept, File!Names, File!Exists, File!Missing
  <2> QED BY <2>1, <2>2, <2>3 DEF FilesOK, OneIsGood, OtherIsKept, File!Missing
<1>7. CASE UNCHANGED File!vars
  BY <1>7 DEF File!vars, FileIInv, FilesOK, OneIsGood, OtherIsKept, Keeps, File!Exists
<1> QED BY <1>1, <1>2, <1>3, <1>4, <1>5, <1>6, <1>7 DEF File!Next

\* What a read finds follows from what the files have.
LEMMA FilesAreRead == FileBounds /\ FileIInv => File!OldOrNew
<1> SUFFICES ASSUME FileBounds, FileIInv, ~spoiled
             PROVE  File!Readable \in {last} \cup cut
                                  \cup (IF place = "closed" THEN {} ELSE {written})
  BY DEF File!OldOrNew
<1>0. /\ File!TypeOK /\ NumbersOK /\ FilesOK
      /\ \A n \in File!Names : file[n] \in {-1, -2} \cup 1..MaxWrites
      /\ last \in {-1} \cup 1..MaxWrites
  BY Files DEF FileIInv, File!TypeOK, File!Missing
<1>1. \E m \in File!Names :
        /\ Keeps(1 - m)
        /\ file[m] \in {-1, -2, last} \cup cut \cup (IF place = "closed" THEN {} ELSE {written})
  <2>1. CASE place = "closed" /\ ~unread
    BY <1>0, <2>1 DEF FilesOK, OneIsGood, Keeps, File!Missing, File!Torn, File!Names
  <2>2. CASE place = "closed" /\ unread
    BY <1>0, <2>2 DEF FilesOK, File!Torn
  <2>3. CASE place # "closed"
    BY <1>0, <2>3 DEF FilesOK, OtherIsKept, File!Torn, File!TypeOK
  <2> QED BY <2>1, <2>2, <2>3
<1>2. CASE File!Readable = -1
  <2>1. \A n \in File!Names : file[n] <= 0
    BY <1>0, <1>2, ReadableIs DEF File!Missing
  <2>2. last = -1
    BY <1>0, <1>1, <2>1 DEF Keeps, File!Names
  <2> QED BY <1>2, <2>2
<1>3. CASE File!Readable # -1
  <2>1. PICK n \in File!Names : File!Readable = file[n]
    BY <1>0, <1>3, ReadableIs DEF File!Missing, File!Torn
  <2>2. file[n] > 0
    BY <1>0, <1>3, <2>1, ReadableType DEF File!Missing
  <2> QED BY <1>0, <1>1, <2>1, <2>2 DEF Keeps, File!Missing, File!Torn, File!Names
<1> QED BY <1>2, <1>3

\* The numbers of the writes and of what is read of a file agree with what was cut, torn or not
\* removed, and unless the file is spoiled, one place of it has what was written.
THEOREM FileInductive == FileBounds => (File!Spec => []FileIInv)
<1> SUFFICES ASSUME FileBounds PROVE File!Spec => []FileIInv
  OBVIOUS
<1>1. File!Init => FileIInv
  BY FileInit
<1>2. FileIInv /\ [File!Next]_(File!vars) => FileIInv'
  <2> SUFFICES ASSUME FileIInv, [File!Next]_(File!vars) PROVE FileIInv'
    OBVIOUS
  <2>1. spoiled \in BOOLEAN
    BY DEF FileIInv, File!TypeOK
  <2> QED BY <2>1, FileTypeStep, FileNumbersStep, FileFilesStep DEF FileIInv
<1> QED BY <1>1, <1>2, PTL DEF File!Spec

-----------------------------------------------------------------------------
(***************************************************************************)
(* Any number of sessions share the key of a data centre, however many     *)
(* connections are lost, handshakes fail, keys are forgotten and sessions  *)
(* are stopped: the lock is held exactly by the session in a handshake,    *)
(* and whoever has an old key is told, or missed being told.               *)
(***************************************************************************)
\* The first try of dhClientParamsSend() counts.
KeySetting ==
    /\ None \notin Sessions /\ Cdn \in BOOLEAN
    /\ MaxRetries \in Nat \ {0} /\ MaxKeyFaults \in Nat

\* A session that does not listen yet has the key, or missed it: when it begins to listen
\* nothing is lost that is not counted.
StartersAreTold ==
    \A s \in Sessions : at[s] # "new" => copy[s] = dcKey \/ s \in toSession \cup missed

\* No signal is on its way to a session that is not made, and nobody stops it.
NewIsApart ==
    \A s \in Sessions : at[s] = "new" =>
        s \notin toSession \cup toConnection \cup cdnAsked \cup cdnLoaded \cup {stopping}

\* The inductive invariant.
KeyIInv == Key!TypeOK /\ NewIsApart /\ Key!LockedByHandshake /\ StartersAreTold /\ Key!ConnectionsAreTold

\* Where a session is.
LEMMA PlacesApart ==
    /\ Key!Handshake \subseteq Key!Places /\ Key!Blocked \subseteq Key!Places
    /\ {"new", "starting", "off", "signal", "ready", "stopped"} \subseteq Key!Places
    /\ \A p \in Key!Handshake : p \notin {"new", "starting", "off", "signal", "ready", "stopped"} \cup Key!Blocked
    /\ Key!Blocked \cap {"new", "starting", "off", "signal", "ready", "stopped"} = {}
  BY DEF Key!Places, Key!Handshake, Key!Blocked

\* Nothing that the program forgets about a session leaves it with an old key: the four
\* things that SetKey() changes keep the types.
LEMMA SetKeyTypes ==
    ASSUME Key!TypeOK, NEW k \in Nat, Key!SetKey(k)
    PROVE  dcKey' = k /\ toSession' \subseteq Sessions /\ missed' \subseteq Sessions /\ left' = {}
  BY DEF Key!TypeOK, Key!SetKey, Key!Listening

\* Trying to get the key keeps the types of what it changes.
LEMMA UpdateTypes ==
    ASSUME Key!TypeOK, NEW s \in Sessions, Key!UpdateAuthKey(s)
    PROVE  /\ at' \in [Sessions -> Key!Places] /\ keyId' \in [Sessions -> Nat \cup {Key!Recreate}]
           /\ left' \subseteq Sessions
<1>1. at' \in [Sessions -> Key!Places]
  BY PlacesApart DEF Key!TypeOK, Key!UpdateAuthKey, Key!Goes, Key!Uses, Key!Places, Key!Blocked
<1>2. keyId' \in [Sessions -> Nat \cup {Key!Recreate}]
  BY DEF Key!TypeOK, Key!UpdateAuthKey, Key!Uses
<1>3. left' \subseteq Sessions
  BY DEF Key!TypeOK, Key!UpdateAuthKey
<1> QED BY <1>1, <1>2, <1>3

\* So does a restart.
LEMMA RestartTypes ==
    ASSUME Key!TypeOK, NEW s \in Sessions, Key!Restart(s)
    PROVE  /\ at' \in [Sessions -> Key!Places] /\ lock' \in Sessions \cup {None}
           /\ left' \subseteq Sessions
  BY DEF Key!TypeOK, Key!Restart, Key!Goes, Key!Waiting, Key!Places

\* Every step keeps the types.
LEMMA KeyTypeStep == KeySetting /\ Key!TypeOK /\ [Key!Next]_(Key!vars) => Key!TypeOK'
<1> SUFFICES ASSUME KeySetting, Key!TypeOK, [Key!Next]_(Key!vars) PROVE Key!TypeOK'
  OBVIOUS
<1> USE DEF Key!links, Key!key, Key!cdn, Key!signals, Key!history
<1>fault. ASSUME Key!Fault PROVE keyFaults' \in 0..MaxKeyFaults
  BY <1>fault DEF Key!Fault, KeySetting, Key!TypeOK
<1>goes. ASSUME NEW s \in Sessions, NEW p \in Key!Places, Key!Goes(s, p) PROVE at' \in [Sessions -> Key!Places]
  BY <1>goes DEF Key!Goes, Key!TypeOK
<1>names. /\ "new" \in Key!Places /\ "starting" \in Key!Places /\ "off" \in Key!Places /\ "signal" \in Key!Places
          /\ "ready" \in Key!Places /\ "stopped" \in Key!Places /\ "pq" \in Key!Places /\ "dh" \in Key!Places
          /\ "client" \in Key!Places /\ "config" \in Key!Places /\ "locking" \in Key!Places
          /\ "destroying" \in Key!Places /\ "unlocking" \in Key!Places /\ "destroyed" \in Key!Places
  BY DEF Key!Places, Key!Handshake, Key!Blocked
<1>1. CASE Key!CdnConfigLoaded
  BY <1>1 DEF Key!CdnConfigLoaded, Key!TypeOK
<1>2. ASSUME NEW s \in Sessions, Key!CreateDcData(s) PROVE Key!TypeOK'
  BY <1>2, <1>goes, <1>names DEF Key!CreateDcData, Key!Copies, Key!TypeOK
<1>3. ASSUME NEW s \in Sessions, Key!Start(s) PROVE Key!TypeOK'
  BY <1>3, <1>goes, <1>names DEF Key!Start, Key!TypeOK
<1>4. ASSUME NEW s \in Sessions, Key!Resume(s) PROVE Key!TypeOK'
  BY <1>4, <1>goes, <1>names DEF Key!Resume, Key!Uses, Key!TypeOK
<1>5. ASSUME NEW s \in Sessions, Key!AuthKeyCreatedForDC(s) PROVE Key!TypeOK'
  BY <1>5 DEF Key!AuthKeyCreatedForDC, Key!Copies, Key!TypeOK
<1>6. ASSUME NEW s \in Sessions, Key!StopBegin(s) PROVE Key!TypeOK'
  BY <1>6, <1>fault DEF Key!StopBegin, Key!TypeOK
<1>7. ASSUME NEW s \in Sessions, Key!StopEnd(s) PROVE Key!TypeOK'
  <2>1. at' \in [Sessions -> Key!Places]
    BY <1>7, <1>goes, <1>names DEF Key!StopEnd
  <2>2. CASE lock = s
    <3>1. Key!SetKey(0)
      BY <1>7, <2>2 DEF Key!StopEnd
    <3>2. dcKey' = 0 /\ toSession' \subseteq Sessions /\ missed' \subseteq Sessions /\ left' = {}
      BY <3>1, SetKeyTypes
    <3> QED BY <1>7, <2>1, <2>2, <3>2 DEF Key!StopEnd, Key!TypeOK
  <2>3. CASE lock # s
    BY <1>7, <2>1, <2>3 DEF Key!StopEnd, Key!TypeOK
  <2> QED BY <2>2, <2>3
<1>8. ASSUME NEW s \in Sessions, Key!Connected(s) PROVE Key!TypeOK'
  BY <1>8, UpdateTypes DEF Key!Connected, Key!TypeOK
<1>9. ASSUME NEW s \in Sessions, Key!AuthKeyCreated(s) PROVE Key!TypeOK'
  <2>1. CASE at[s] = "off"
    BY <1>9, <2>1 DEF Key!AuthKeyCreated, Key!TypeOK
  <2>2. CASE at[s] # "off"
    <3>1. Key!UpdateAuthKey(s)
      BY <1>9, <2>2 DEF Key!AuthKeyCreated
    <3> QED BY <1>9, <3>1, UpdateTypes DEF Key!AuthKeyCreated, Key!TypeOK
  <2> QED BY <2>1, <2>2
<1>10. ASSUME NEW s \in Sessions, Key!LockKey(s) PROVE Key!TypeOK'
  <2>1. at' \in [Sessions -> Key!Places]
    BY <1>10, <1>goes, <1>names DEF Key!LockKey
  <2>2. keyId' \in [Sessions -> Nat \cup {Key!Recreate}] /\ lock' \in Sessions \cup {None}
    BY <1>10 DEF Key!LockKey, Key!Uses, Key!TypeOK
  <2> QED BY <1>10, <2>1, <2>2 DEF Key!LockKey, Key!TypeOK
<1>11. ASSUME NEW s \in Sessions, Key!Disconnected(s) PROVE Key!TypeOK'
  BY <1>11, <1>fault, RestartTypes DEF Key!Disconnected, Key!TypeOK
<1>12. ASSUME NEW s \in Sessions, Key!PqAnswered(s) PROVE Key!TypeOK'
  <2>1. at' \in [Sessions -> Key!Places]
    BY <1>12, <1>goes, <1>names DEF Key!PqAnswered
  <2> QED BY <1>12, <2>1 DEF Key!PqAnswered, Key!TypeOK
<1>13. ASSUME NEW s \in Sessions, Key!OnCDNConfigLoaded(s) PROVE Key!TypeOK'
  BY <1>13, RestartTypes DEF Key!OnCDNConfigLoaded, Key!TypeOK
<1>14. ASSUME NEW s \in Sessions, Key!DhParamsAnswered(s) PROVE Key!TypeOK'
  <2>1. at' \in [Sessions -> Key!Places]
    BY <1>14, <1>goes, <1>names DEF Key!DhParamsAnswered
  <2> QED BY <1>14, <2>1 DEF Key!DhParamsAnswered, Key!TypeOK, KeySetting
<1>15. ASSUME NEW s \in Sessions, Key!DhGenOk(s) PROVE Key!TypeOK'
  <2>1. at' \in [Sessions -> Key!Places]
    BY <1>15, <1>goes, <1>names DEF Key!DhGenOk
  <2>2. keysMade + 1 \in Nat /\ keysMade' = keysMade + 1 /\ Key!SetKey(keysMade + 1)
    BY <1>15 DEF Key!DhGenOk, Key!TypeOK
  <2>3. dcKey' = keysMade + 1 /\ toSession' \subseteq Sessions /\ missed' \subseteq Sessions /\ left' = {}
    BY <2>2, SetKeyTypes
  <2> QED BY <1>15, <2>1, <2>2, <2>3 DEF Key!DhGenOk, Key!TypeOK
<1>16. ASSUME NEW s \in Sessions, Key!UnlockKey(s) PROVE Key!TypeOK'
  <2>1. at' \in [Sessions -> Key!Places]
    BY <1>16, <1>goes, <1>names DEF Key!UnlockKey
  <2> QED BY <1>16, <2>1 DEF Key!UnlockKey, Key!TypeOK
<1>17. ASSUME NEW s \in Sessions, Key!DhGenRetry(s) PROVE Key!TypeOK'
  <2>1. CASE retries < MaxRetries
    BY <1>17, <1>fault, <2>1 DEF Key!DhGenRetry, Key!TypeOK, KeySetting
  <2>2. CASE ~(retries < MaxRetries)
    BY <1>17, <1>fault, <2>2, RestartTypes DEF Key!DhGenRetry, Key!TypeOK
  <2> QED BY <2>1, <2>2
<1>18. ASSUME NEW s \in Sessions, Key!KeyChanged(s) PROVE Key!TypeOK'
  <2>1. keyId' \in [Sessions -> Nat \cup {Key!Recreate}]
    BY <1>18 DEF Key!KeyChanged, Key!Uses, Key!TypeOK
  <2> QED BY <1>18, <2>1, RestartTypes DEF Key!KeyChanged, Key!TypeOK
<1>19. ASSUME NEW s \in Sessions, Key!KeyForgotten(s) PROVE Key!TypeOK'
  <2>1. keyId' \in [Sessions -> Nat \cup {Key!Recreate}]
    BY <1>19 DEF Key!KeyForgotten, Key!Uses, Key!TypeOK
  <2> QED BY <1>19, <1>fault, <2>1, RestartTypes DEF Key!KeyForgotten, Key!TypeOK
<1>20. ASSUME NEW s \in Sessions, Key!RetryByTimer(s) PROVE Key!TypeOK'
  BY <1>20, <1>goes, <1>names DEF Key!RetryByTimer, Key!Uses, Key!TypeOK
<1>21. ASSUME NEW s \in Sessions, Key!DestroyKey(s) PROVE Key!TypeOK'
  <2>1. at' \in [Sessions -> Key!Places]
    BY <1>21, <1>goes, <1>names DEF Key!DestroyKey
  <2>2. copy' \in [Sessions -> Nat] /\ keyId' \in [Sessions -> Nat \cup {Key!Recreate}]
    BY <1>21 DEF Key!DestroyKey, Key!Copies, Key!Uses, Key!TypeOK
  <2>3. CASE copy[s] # 0 /\ copy[s] = dcKey
    <3>1. Key!SetKey(0)
      BY <1>21, <2>3 DEF Key!DestroyKey
    <3>2. dcKey' = 0 /\ toSession' \subseteq Sessions /\ missed' \subseteq Sessions /\ left' = {}
      BY <3>1, SetKeyTypes
    <3> QED BY <1>21, <2>1, <2>2, <3>2 DEF Key!DestroyKey, Key!TypeOK
  <2>4. CASE ~(copy[s] # 0 /\ copy[s] = dcKey)
    BY <1>21, <2>1, <2>2, <2>4 DEF Key!DestroyKey, Key!TypeOK
  <2> QED BY <2>3, <2>4
<1>22. CASE UNCHANGED Key!vars
  BY <1>22 DEF Key!vars, Key!TypeOK
<1> QED
  BY <1>1, <1>2, <1>3, <1>4, <1>5, <1>6, <1>7, <1>8, <1>9, <1>10, <1>11, <1>12, <1>13, <1>14,
     <1>15, <1>16, <1>17, <1>18, <1>19, <1>20, <1>21, <1>22
  DEF Key!Next, Key!Connection, Key!Main


\* Where the lock is held.
Locked == Key!Handshake \cup {"unlocking", "destroyed"}

\* A session that moves to another place, and takes the lock or gives it up accordingly,
\* leaves the lock with the session in the handshake.
LEMMA LockMoves ==
    ASSUME Key!TypeOK, Key!LockedByHandshake, None \notin Sessions, NEW s \in Sessions, NEW p, Key!Goes(s, p),
           \/ p \notin Locked /\ lock' = IF lock = s THEN None ELSE lock
           \/ p \in Locked /\ lock \in {None, s} /\ lock' = s
    PROVE  Key!LockedByHandshake'
<1>1. \A r \in Sessions : at'[r] = IF r = s THEN p ELSE at[r]
  BY DEF Key!Goes, Key!TypeOK
<1>2. \A r \in Sessions : at[r] \in Locked <=> lock = r
  BY DEF Key!LockedByHandshake, Locked
<1>3. \A r \in Sessions : at'[r] \in Locked <=> lock' = r
  BY <1>1, <1>2
<1> QED BY <1>3 DEF Key!LockedByHandshake, Locked

\* A restart gives up the lock.
LEMMA LockAfterRestart ==
    ASSUME Key!TypeOK, Key!LockedByHandshake, None \notin Sessions, NEW s \in Sessions, Key!Restart(s)
    PROVE  Key!LockedByHandshake'
<1>1. "off" \notin Locked
  BY DEF Locked, Key!Handshake
<1> QED BY <1>1, LockMoves DEF Key!Restart

\* Trying to get the key does not touch the lock.
LEMMA LockAfterUpdate ==
    ASSUME Key!TypeOK, Key!LockedByHandshake, None \notin Sessions, NEW s \in Sessions,
           Key!UpdateAuthKey(s), at[s] \notin Key!Blocked, UNCHANGED lock
    PROVE  Key!LockedByHandshake'
<1>1. /\ {"signal", "ready", "locking"} \cap Locked = {}
      /\ Key!Handshake \subseteq Locked /\ Locked \subseteq Key!Handshake \cup Key!Blocked
  BY DEF Locked, Key!Handshake, Key!Blocked
<1>2. lock = s <=> at[s] \in Key!Handshake
  BY <1>1 DEF Key!LockedByHandshake, Locked
<1>3. CASE lock = s
  BY <1>1, <1>2, <1>3, LockMoves DEF Key!UpdateAuthKey
<1>4. CASE lock # s
  <2>1. PICK p \in {"signal", "ready", "locking"} : Key!Goes(s, p)
    BY <1>2, <1>4 DEF Key!UpdateAuthKey
  <2> QED BY <1>1, <1>4, <2>1, LockMoves
<1> QED BY <1>3, <1>4

\* Every step keeps the lock with the session in the handshake.
LEMMA LockStep == KeySetting /\ Key!TypeOK /\ Key!LockedByHandshake /\ [Key!Next]_(Key!vars) => Key!LockedByHandshake'
<1> SUFFICES ASSUME KeySetting, Key!TypeOK, Key!LockedByHandshake, [Key!Next]_(Key!vars) PROVE Key!LockedByHandshake'
  OBVIOUS
<1> USE DEF Key!links, Key!key, Key!cdn, Key!signals, Key!history
<1>none. None \notin Sessions
  BY DEF KeySetting
<1>places. /\ {"pq", "dh", "client", "config", "unlocking", "destroyed"} = Locked
           /\ Key!Handshake = {"pq", "dh", "client", "config"}
           /\ Key!Blocked = {"locking", "destroying", "unlocking", "destroyed"}
  BY DEF Locked, Key!Handshake, Key!Blocked
<1>lock. \A r \in Sessions : at[r] \in Locked <=> lock = r
  BY DEF Key!LockedByHandshake, Locked
<1>same. ASSUME UNCHANGED <<at, lock>> PROVE Key!LockedByHandshake'
  BY <1>same DEF Key!LockedByHandshake
<1>out. ASSUME NEW s \in Sessions, NEW p, Key!Goes(s, p), p \notin Locked, at[s] \notin Locked,
               UNCHANGED lock
        PROVE  Key!LockedByHandshake'
  BY <1>none, <1>lock, <1>out, LockMoves
<1>in. ASSUME NEW s \in Sessions, NEW p, Key!Goes(s, p), p \in Locked, at[s] \in Locked,
              UNCHANGED lock
       PROVE  Key!LockedByHandshake'
  BY <1>none, <1>lock, <1>in, LockMoves
<1>1. CASE Key!CdnConfigLoaded
  BY <1>1, <1>same DEF Key!CdnConfigLoaded
<1>2. ASSUME NEW s \in Sessions, Key!CreateDcData(s) PROVE Key!LockedByHandshake'
  BY <1>2, <1>places, <1>out DEF Key!CreateDcData
<1>3. ASSUME NEW s \in Sessions, Key!Start(s) PROVE Key!LockedByHandshake'
  BY <1>3, <1>places, <1>out DEF Key!Start
<1>4. ASSUME NEW s \in Sessions, Key!Resume(s) PROVE Key!LockedByHandshake'
  BY <1>4, <1>places, <1>out DEF Key!Resume
<1>5. ASSUME NEW s \in Sessions, Key!AuthKeyCreatedForDC(s) PROVE Key!LockedByHandshake'
  BY <1>5, <1>same DEF Key!AuthKeyCreatedForDC
<1>6. ASSUME NEW s \in Sessions, Key!StopBegin(s) PROVE Key!LockedByHandshake'
  BY <1>6, <1>same DEF Key!StopBegin
<1>7. ASSUME NEW s \in Sessions, Key!StopEnd(s) PROVE Key!LockedByHandshake'
  <2>1. Key!Goes(s, "stopped") /\ "stopped" \notin Locked /\ lock' = IF lock = s THEN None ELSE lock
    BY <1>7, <1>places DEF Key!StopEnd
  <2> QED BY <1>none, <2>1, LockMoves
<1>8. ASSUME NEW s \in Sessions, Key!Connected(s) PROVE Key!LockedByHandshake'
  BY <1>8, <1>none, <1>places, LockAfterUpdate DEF Key!Connected
<1>9. ASSUME NEW s \in Sessions, Key!AuthKeyCreated(s) PROVE Key!LockedByHandshake'
  BY <1>9, <1>none, <1>same, LockAfterUpdate DEF Key!AuthKeyCreated
<1>10. ASSUME NEW s \in Sessions, Key!LockKey(s) PROVE Key!LockedByHandshake'
  <2>1. CASE copy[s] # 0
    BY <1>10, <1>places, <1>out, <2>1 DEF Key!LockKey
  <2>2. CASE copy[s] = 0
    BY <1>10, <1>none, <1>places, <2>2, LockMoves DEF Key!LockKey
  <2> QED BY <2>1, <2>2
<1>11. ASSUME NEW s \in Sessions, Key!Disconnected(s) PROVE Key!LockedByHandshake'
  BY <1>11, <1>none, LockAfterRestart DEF Key!Disconnected
<1>12. ASSUME NEW s \in Sessions, Key!PqAnswered(s) PROVE Key!LockedByHandshake'
  BY <1>12, <1>places, <1>in DEF Key!PqAnswered
<1>13. ASSUME NEW s \in Sessions, Key!OnCDNConfigLoaded(s) PROVE Key!LockedByHandshake'
  BY <1>13, <1>none, LockAfterRestart DEF Key!OnCDNConfigLoaded
<1>14. ASSUME NEW s \in Sessions, Key!DhParamsAnswered(s) PROVE Key!LockedByHandshake'
  BY <1>14, <1>places, <1>in DEF Key!DhParamsAnswered
<1>15. ASSUME NEW s \in Sessions, Key!DhGenOk(s) PROVE Key!LockedByHandshake'
  BY <1>15, <1>places, <1>in DEF Key!DhGenOk
<1>16. ASSUME NEW s \in Sessions, Key!UnlockKey(s) PROVE Key!LockedByHandshake'
  <2>1. lock = s
    BY <1>16, <1>places, <1>lock DEF Key!UnlockKey
  <2>2. PICK p \in {"signal", "off"} : Key!Goes(s, p)
    BY <1>16 DEF Key!UnlockKey
  <2>3. p \notin Locked /\ lock' = None
    BY <1>16, <1>places, <2>2 DEF Key!UnlockKey
  <2> QED BY <1>none, <2>1, <2>2, <2>3, LockMoves
<1>17. ASSUME NEW s \in Sessions, Key!DhGenRetry(s) PROVE Key!LockedByHandshake'
  BY <1>17, <1>none, <1>same, LockAfterRestart DEF Key!DhGenRetry
<1>18. ASSUME NEW s \in Sessions, Key!KeyChanged(s) PROVE Key!LockedByHandshake'
  BY <1>18, <1>none, LockAfterRestart DEF Key!KeyChanged
<1>19. ASSUME NEW s \in Sessions, Key!KeyForgotten(s) PROVE Key!LockedByHandshake'
  BY <1>19, <1>none, LockAfterRestart DEF Key!KeyForgotten
<1>20. ASSUME NEW s \in Sessions, Key!RetryByTimer(s) PROVE Key!LockedByHandshake'
  <2>1. CASE copy[s] # 0
    BY <1>20, <1>places, <1>out, <2>1 DEF Key!RetryByTimer
  <2>2. CASE copy[s] = 0
    BY <1>20, <1>same, <2>2 DEF Key!RetryByTimer
  <2> QED BY <2>1, <2>2
<1>21. ASSUME NEW s \in Sessions, Key!DestroyKey(s) PROVE Key!LockedByHandshake'
  BY <1>21, <1>none, <1>places, LockMoves DEF Key!DestroyKey
<1>22. CASE UNCHANGED Key!vars
  BY <1>22, <1>same DEF Key!vars
<1> QED
  BY <1>1, <1>2, <1>3, <1>4, <1>5, <1>6, <1>7, <1>8, <1>9, <1>10, <1>11, <1>12, <1>13, <1>14,
     <1>15, <1>16, <1>17, <1>18, <1>19, <1>20, <1>21, <1>22
  DEF Key!Next, Key!Connection, Key!Main


\* No place that a connection goes to makes its session new.
LEMMA GoesNotNew ==
    ASSUME Key!TypeOK, NEW s \in Sessions, NEW p, Key!Goes(s, p), p # "new"
    PROVE  \A r \in Sessions : at'[r] = "new" => at[r] = "new"
  BY DEF Key!TypeOK, Key!Goes

\* Every step leaves those apart that are not made.
LEMMA ApartStep == KeySetting /\ Key!TypeOK /\ NewIsApart /\ [Key!Next]_(Key!vars) =>
    NewIsApart' /\ \A r \in Sessions : at'[r] = "new" => at[r] = "new"
<1> DEFINE Fewer == \A r \in Sessions : at'[r] = "new" => at[r] = "new"
           Made(r) == at[r] # "new"
<1> SUFFICES ASSUME KeySetting, Key!TypeOK, NewIsApart, [Key!Next]_(Key!vars) PROVE NewIsApart' /\ Fewer
  OBVIOUS
<1> USE DEF Key!links, Key!key, Key!cdn, Key!signals, Key!history
<1>apart. \A r \in toSession \cup toConnection \cup cdnAsked \cup cdnLoaded \cup {stopping} :
              r \in Sessions => Made(r)
  BY DEF NewIsApart
<1>keep. ASSUME Fewer,
                \A r \in Sessions : r \in toSession' \cup toConnection' \cup cdnAsked' \cup cdnLoaded'
                                          \cup {stopping'} => Made(r)
         PROVE  NewIsApart' /\ Fewer
  BY <1>keep DEF NewIsApart
<1>update. ASSUME NEW s \in Sessions, Key!UpdateAuthKey(s), Made(s) PROVE Fewer
  BY <1>update, GoesNotNew DEF Key!UpdateAuthKey
<1>setKey. ASSUME NEW k, Key!SetKey(k) PROVE \A r \in toSession' : r \in toSession \/ Made(r)
  BY <1>setKey DEF Key!SetKey, Key!Listening
<1>1. CASE Key!CdnConfigLoaded
  BY <1>1, <1>apart, <1>keep DEF Key!CdnConfigLoaded
<1>2. ASSUME NEW s \in Sessions, Key!CreateDcData(s) PROVE NewIsApart' /\ Fewer
  BY <1>2, <1>apart, <1>keep, GoesNotNew DEF Key!CreateDcData
<1>3. ASSUME NEW s \in Sessions, Key!Start(s) PROVE NewIsApart' /\ Fewer
  BY <1>3, <1>apart, <1>keep, GoesNotNew DEF Key!Start
<1>4. ASSUME NEW s \in Sessions, Key!Resume(s) PROVE NewIsApart' /\ Fewer
  BY <1>4, <1>apart, <1>keep, GoesNotNew DEF Key!Resume
<1>5. ASSUME NEW s \in Sessions, Key!AuthKeyCreatedForDC(s) PROVE NewIsApart' /\ Fewer
  BY <1>5, <1>apart, <1>keep DEF Key!AuthKeyCreatedForDC
<1>6. ASSUME NEW s \in Sessions, Key!StopBegin(s) PROVE NewIsApart' /\ Fewer
  BY <1>6, <1>apart, <1>keep DEF Key!StopBegin
<1>7. ASSUME NEW s \in Sessions, Key!StopEnd(s) PROVE NewIsApart' /\ Fewer
  <2>1. Fewer
    BY <1>7, GoesNotNew DEF Key!StopEnd
  <2>2. \A r \in Sessions : r \in toSession' => Made(r)
    BY <1>7, <1>apart, <1>setKey DEF Key!StopEnd
  <2> QED BY <1>7, <1>apart, <1>keep, <2>1, <2>2 DEF Key!StopEnd, KeySetting
<1>8. ASSUME NEW s \in Sessions, Key!Connected(s) PROVE NewIsApart' /\ Fewer
  BY <1>8, <1>apart, <1>keep, <1>update DEF Key!Connected
<1>9. ASSUME NEW s \in Sessions, Key!AuthKeyCreated(s) PROVE NewIsApart' /\ Fewer
  BY <1>9, <1>apart, <1>keep, <1>update DEF Key!AuthKeyCreated
<1>10. ASSUME NEW s \in Sessions, Key!LockKey(s) PROVE NewIsApart' /\ Fewer
  BY <1>10, <1>apart, <1>keep, GoesNotNew DEF Key!LockKey
<1>11. ASSUME NEW s \in Sessions, Key!Disconnected(s) PROVE NewIsApart' /\ Fewer
  BY <1>11, <1>apart, <1>keep, GoesNotNew DEF Key!Disconnected, Key!Restart
<1>12. ASSUME NEW s \in Sessions, Key!PqAnswered(s) PROVE NewIsApart' /\ Fewer
  BY <1>12, <1>apart, <1>keep, GoesNotNew DEF Key!PqAnswered
<1>13. ASSUME NEW s \in Sessions, Key!OnCDNConfigLoaded(s) PROVE NewIsApart' /\ Fewer
  BY <1>13, <1>apart, <1>keep, GoesNotNew DEF Key!OnCDNConfigLoaded, Key!Restart
<1>14. ASSUME NEW s \in Sessions, Key!DhParamsAnswered(s) PROVE NewIsApart' /\ Fewer
  BY <1>14, <1>apart, <1>keep, GoesNotNew DEF Key!DhParamsAnswered
<1>15. ASSUME NEW s \in Sessions, Key!DhGenOk(s) PROVE NewIsApart' /\ Fewer
  BY <1>15, <1>apart, <1>keep, <1>setKey, GoesNotNew DEF Key!DhGenOk
<1>16. ASSUME NEW s \in Sessions, Key!UnlockKey(s) PROVE NewIsApart' /\ Fewer
  BY <1>16, <1>apart, <1>keep, GoesNotNew DEF Key!UnlockKey
<1>17. ASSUME NEW s \in Sessions, Key!DhGenRetry(s) PROVE NewIsApart' /\ Fewer
  BY <1>17, <1>apart, <1>keep, GoesNotNew DEF Key!DhGenRetry, Key!Restart
<1>18. ASSUME NEW s \in Sessions, Key!KeyChanged(s) PROVE NewIsApart' /\ Fewer
  BY <1>18, <1>apart, <1>keep, GoesNotNew DEF Key!KeyChanged, Key!Restart
<1>19. ASSUME NEW s \in Sessions, Key!KeyForgotten(s) PROVE NewIsApart' /\ Fewer
  BY <1>19, <1>apart, <1>keep, GoesNotNew DEF Key!KeyForgotten, Key!Restart
<1>20. ASSUME NEW s \in Sessions, Key!RetryByTimer(s) PROVE NewIsApart' /\ Fewer
  BY <1>20, <1>apart, <1>keep, GoesNotNew DEF Key!RetryByTimer
<1>21. ASSUME NEW s \in Sessions, Key!DestroyKey(s) PROVE NewIsApart' /\ Fewer
  BY <1>21, <1>apart, <1>keep, <1>setKey, GoesNotNew DEF Key!DestroyKey
<1>22. CASE UNCHANGED Key!vars
  BY <1>22, <1>apart, <1>keep DEF Key!vars
<1> QED
  BY <1>1, <1>2, <1>3, <1>4, <1>5, <1>6, <1>7, <1>8, <1>9, <1>10, <1>11, <1>12, <1>13, <1>14,
     <1>15, <1>16, <1>17, <1>18, <1>19, <1>20, <1>21, <1>22
  DEF Key!Next, Key!Connection, Key!Main

\* A step after which every session that was made has the same copy of the same key, and
\* forgets no signal.
LEMMA ToldAsBefore ==
    ASSUME StartersAreTold, UNCHANGED dcKey,
           \A s \in Sessions : at'[s] # "new" =>
               /\ at[s] # "new" /\ copy'[s] = copy[s]
               /\ s \in toSession \cup missed => s \in toSession' \cup missed'
    PROVE  StartersAreTold'
  BY DEF StartersAreTold

\* SetKey() tells everybody who listens, and counts who begins to.
LEMMA SetKeyTells ==
    ASSUME Key!TypeOK, StartersAreTold, NEW k, Key!SetKey(k),
           \A s \in Sessions : at'[s] # "new" => at[s] # "new"
    PROVE  StartersAreTold'
  BY DEF StartersAreTold, Key!SetKey, Key!Listening

\* Going somewhere makes no session.
LEMMA GoesMade ==
    ASSUME Key!TypeOK, NEW s \in Sessions, NEW p, Key!Goes(s, p), at[s] # "new"
    PROVE  \A r \in Sessions : at'[r] # "new" => at[r] # "new"
  BY DEF Key!TypeOK, Key!Goes

\* No step leaves a session with an old key without a signal or a note that it was missed.
LEMMA ToldStep == Key!TypeOK /\ NewIsApart /\ StartersAreTold /\ [Key!Next]_(Key!vars) => StartersAreTold'
<1> SUFFICES ASSUME Key!TypeOK, NewIsApart, StartersAreTold, [Key!Next]_(Key!vars) PROVE StartersAreTold'
  OBVIOUS
<1> USE DEF Key!links, Key!key, Key!cdn, Key!signals, Key!history
<1>same. ASSUME UNCHANGED <<dcKey, copy, toSession, missed>>,
                \A s \in Sessions : at'[s] # "new" => at[s] # "new"
         PROVE  StartersAreTold'
  BY <1>same, ToldAsBefore
<1>restart. ASSUME NEW s \in Sessions, Key!Restart(s), at[s] # "new",
                   UNCHANGED <<dcKey, copy, toSession, missed>>
            PROVE  StartersAreTold'
  BY <1>restart, <1>same, GoesMade DEF Key!Restart
<1>update. ASSUME NEW s \in Sessions, Key!UpdateAuthKey(s), at[s] # "new",
                  UNCHANGED <<dcKey, copy, toSession, missed>>
           PROVE  StartersAreTold'
  BY <1>update, <1>same, GoesMade DEF Key!UpdateAuthKey
<1>1. CASE Key!CdnConfigLoaded
  BY <1>1, <1>same DEF Key!CdnConfigLoaded
<1>2. ASSUME NEW s \in Sessions, Key!CreateDcData(s) PROVE StartersAreTold'
  BY <1>2 DEF Key!CreateDcData, Key!Copies, Key!Goes, StartersAreTold, Key!TypeOK
<1>3. ASSUME NEW s \in Sessions, Key!Start(s) PROVE StartersAreTold'
  BY <1>3, <1>same, GoesMade DEF Key!Start
<1>4. ASSUME NEW s \in Sessions, Key!Resume(s) PROVE StartersAreTold'
  BY <1>4, <1>same, GoesMade DEF Key!Resume
<1>5. ASSUME NEW s \in Sessions, Key!AuthKeyCreatedForDC(s) PROVE StartersAreTold'
  BY <1>5 DEF Key!AuthKeyCreatedForDC, Key!Copies, StartersAreTold, Key!TypeOK
<1>6. ASSUME NEW s \in Sessions, Key!StopBegin(s) PROVE StartersAreTold'
  BY <1>6, <1>same DEF Key!StopBegin
<1>7. ASSUME NEW s \in Sessions, Key!StopEnd(s) PROVE StartersAreTold'
  <2>0. at[s] # "new"
    BY <1>7 DEF NewIsApart, Key!StopEnd
  <2>1. \A r \in Sessions : at'[r] # "new" => at[r] # "new"
    BY <1>7, <2>0, GoesMade DEF Key!StopEnd
  <2>2. CASE lock = s
    BY <1>7, <2>1, <2>2, SetKeyTells DEF Key!StopEnd
  <2>3. CASE lock # s
    BY <1>7, <1>same, <2>1, <2>3 DEF Key!StopEnd
  <2> QED BY <2>2, <2>3
<1>8. ASSUME NEW s \in Sessions, Key!Connected(s) PROVE StartersAreTold'
  BY <1>8, <1>update DEF Key!Connected
<1>9. ASSUME NEW s \in Sessions, Key!AuthKeyCreated(s) PROVE StartersAreTold'
  <2>1. at[s] # "new"
    BY <1>9 DEF NewIsApart, Key!AuthKeyCreated
  <2> QED BY <1>9, <1>same, <1>update, <2>1 DEF Key!AuthKeyCreated
<1>10. ASSUME NEW s \in Sessions, Key!LockKey(s) PROVE StartersAreTold'
  BY <1>10, <1>same, GoesMade DEF Key!LockKey
<1>11. ASSUME NEW s \in Sessions, Key!Disconnected(s) PROVE StartersAreTold'
  BY <1>11, <1>restart DEF Key!Disconnected, Key!Handshake
<1>12. ASSUME NEW s \in Sessions, Key!PqAnswered(s) PROVE StartersAreTold'
  BY <1>12, <1>same, GoesMade DEF Key!PqAnswered
<1>13. ASSUME NEW s \in Sessions, Key!OnCDNConfigLoaded(s) PROVE StartersAreTold'
  <2>1. at[s] # "new"
    BY <1>13 DEF NewIsApart, Key!OnCDNConfigLoaded
  <2> QED BY <1>13, <1>restart, <2>1 DEF Key!OnCDNConfigLoaded
<1>14. ASSUME NEW s \in Sessions, Key!DhParamsAnswered(s) PROVE StartersAreTold'
  BY <1>14, <1>same, GoesMade DEF Key!DhParamsAnswered
<1>15. ASSUME NEW s \in Sessions, Key!DhGenOk(s) PROVE StartersAreTold'
  BY <1>15, SetKeyTells, GoesMade DEF Key!DhGenOk
<1>16. ASSUME NEW s \in Sessions, Key!UnlockKey(s) PROVE StartersAreTold'
  BY <1>16, <1>same, GoesMade DEF Key!UnlockKey
<1>17. ASSUME NEW s \in Sessions, Key!DhGenRetry(s) PROVE StartersAreTold'
  BY <1>17, <1>same, <1>restart DEF Key!DhGenRetry
<1>18. ASSUME NEW s \in Sessions, Key!KeyChanged(s) PROVE StartersAreTold'
  BY <1>18, <1>restart DEF Key!KeyChanged
<1>19. ASSUME NEW s \in Sessions, Key!KeyForgotten(s) PROVE StartersAreTold'
  BY <1>19, <1>restart DEF Key!KeyForgotten
<1>20. ASSUME NEW s \in Sessions, Key!RetryByTimer(s) PROVE StartersAreTold'
  BY <1>20, <1>same, GoesMade DEF Key!RetryByTimer
<1>21. ASSUME NEW s \in Sessions, Key!DestroyKey(s) PROVE StartersAreTold'
  <2>1. \A r \in Sessions : at'[r] # "new" => at[r] # "new"
    BY <1>21, GoesMade DEF Key!DestroyKey
  <2>2. CASE copy[s] # 0 /\ copy[s] = dcKey
    BY <1>21, <2>1, <2>2, SetKeyTells DEF Key!DestroyKey
  <2>3. CASE ~(copy[s] # 0 /\ copy[s] = dcKey)
    BY <1>21, <2>1, <2>3 DEF Key!DestroyKey, Key!Copies, StartersAreTold, Key!TypeOK
  <2> QED BY <2>2, <2>3
<1>22. CASE UNCHANGED Key!vars
  BY <1>22, <1>same DEF Key!vars
<1> QED
  BY <1>1, <1>2, <1>3, <1>4, <1>5, <1>6, <1>7, <1>8, <1>9, <1>10, <1>11, <1>12, <1>13, <1>14,
     <1>15, <1>16, <1>17, <1>18, <1>19, <1>20, <1>21, <1>22
  DEF Key!Next, Key!Connection, Key!Main


\* A connection that goes anywhere but to "ready" is none that has a key.
LEMMA GoesUnready ==
    ASSUME Key!TypeOK, Key!ConnectionsAreTold, NEW s \in Sessions, NEW p, Key!Goes(s, p), p # "ready",
           \A r \in Sessions : r # s =>
               keyId'[r] = keyId[r] /\ copy'[r] = copy[r] /\ (r \in toConnection => r \in toConnection')
    PROVE  Key!ConnectionsAreTold'
  BY DEF Key!TypeOK, Key!ConnectionsAreTold, Key!Goes

\* One that gets ready has its session's copy, or was told to look for another.
LEMMA GetsReady ==
    ASSUME Key!TypeOK, Key!ConnectionsAreTold, NEW s \in Sessions, NEW p, Key!Goes(s, p), NEW k, Key!Uses(s, k),
           k \in {0, copy[s]}, UNCHANGED copy, toConnection \ {s} \subseteq toConnection'
    PROVE  Key!ConnectionsAreTold'
  BY DEF Key!TypeOK, Key!ConnectionsAreTold, Key!Goes, Key!Uses

\* Nothing changes for the connections.
LEMMA ConnectionsAsBefore ==
    ASSUME Key!ConnectionsAreTold, UNCHANGED <<at, keyId, copy>>, toConnection \subseteq toConnection'
    PROVE  Key!ConnectionsAreTold'
  BY DEF Key!ConnectionsAreTold

\* No step leaves a connection with another key than its session without telling it.
LEMMA ConnectionsStep == Key!TypeOK /\ Key!ConnectionsAreTold /\ [Key!Next]_(Key!vars) => Key!ConnectionsAreTold'
<1> SUFFICES ASSUME Key!TypeOK, Key!ConnectionsAreTold, [Key!Next]_(Key!vars) PROVE Key!ConnectionsAreTold'
  OBVIOUS
<1> USE DEF Key!links, Key!key, Key!cdn, Key!signals, Key!history
<1>off. ASSUME NEW s \in Sessions, NEW p, Key!Goes(s, p), p # "ready",
               UNCHANGED <<keyId, copy>>, toConnection \ {s} \subseteq toConnection'
        PROVE  Key!ConnectionsAreTold'
  BY <1>off, GoesUnready
<1>1. CASE Key!CdnConfigLoaded
  BY <1>1, ConnectionsAsBefore DEF Key!CdnConfigLoaded
<1>2. ASSUME NEW s \in Sessions, Key!CreateDcData(s) PROVE Key!ConnectionsAreTold'
  <2>1. \A r \in Sessions : r # s => copy'[r] = copy[r]
    BY <1>2 DEF Key!CreateDcData, Key!Copies, Key!TypeOK
  <2> QED BY <1>2, <2>1, GoesUnready DEF Key!CreateDcData
<1>3. ASSUME NEW s \in Sessions, Key!Start(s) PROVE Key!ConnectionsAreTold'
  BY <1>3, <1>off DEF Key!Start
<1>4. ASSUME NEW s \in Sessions, Key!Resume(s) PROVE Key!ConnectionsAreTold'
  <2>1. \A r \in Sessions : r # s => keyId'[r] = keyId[r]
    BY <1>4 DEF Key!Resume, Key!Uses, Key!TypeOK
  <2> QED BY <1>4, <2>1, GoesUnready DEF Key!Resume
<1>5. ASSUME NEW s \in Sessions, Key!AuthKeyCreatedForDC(s) PROVE Key!ConnectionsAreTold'
  BY <1>5 DEF Key!AuthKeyCreatedForDC, Key!Copies, Key!ConnectionsAreTold, Key!TypeOK
<1>6. ASSUME NEW s \in Sessions, Key!StopBegin(s) PROVE Key!ConnectionsAreTold'
  BY <1>6, ConnectionsAsBefore DEF Key!StopBegin
<1>7. ASSUME NEW s \in Sessions, Key!StopEnd(s) PROVE Key!ConnectionsAreTold'
  BY <1>7, <1>off DEF Key!StopEnd
<1>update. ASSUME NEW s \in Sessions, Key!UpdateAuthKey(s), UNCHANGED copy,
                  toConnection \ {s} \subseteq toConnection'
           PROVE  Key!ConnectionsAreTold'
  <2>1. PICK p : Key!Goes(s, p) /\ \E k \in {0, copy[s]} : Key!Uses(s, k)
    BY <1>update DEF Key!UpdateAuthKey
  <2> QED BY <1>update, <2>1, GetsReady
<1>8. ASSUME NEW s \in Sessions, Key!Connected(s) PROVE Key!ConnectionsAreTold'
  BY <1>8, <1>update DEF Key!Connected
<1>9. ASSUME NEW s \in Sessions, Key!AuthKeyCreated(s) PROVE Key!ConnectionsAreTold'
  <2>1. CASE at[s] = "off"
    <3>1. UNCHANGED <<at, keyId, copy>> /\ toConnection' = toConnection \ {s}
      BY <1>9, <2>1 DEF Key!AuthKeyCreated
    <3> QED BY <2>1, <3>1 DEF Key!ConnectionsAreTold
  <2>2. CASE at[s] # "off"
    BY <1>9, <1>update, <2>2 DEF Key!AuthKeyCreated
  <2> QED BY <2>1, <2>2
<1>10. ASSUME NEW s \in Sessions, Key!LockKey(s) PROVE Key!ConnectionsAreTold'
  <2>1. CASE copy[s] # 0
    BY <1>10, <2>1, GetsReady DEF Key!LockKey
  <2>2. CASE copy[s] = 0
    BY <1>10, <1>off, <2>2 DEF Key!LockKey
  <2> QED BY <2>1, <2>2
<1>11. ASSUME NEW s \in Sessions, Key!Disconnected(s) PROVE Key!ConnectionsAreTold'
  BY <1>11, <1>off DEF Key!Disconnected, Key!Restart
<1>12. ASSUME NEW s \in Sessions, Key!PqAnswered(s) PROVE Key!ConnectionsAreTold'
  BY <1>12, <1>off DEF Key!PqAnswered
<1>13. ASSUME NEW s \in Sessions, Key!OnCDNConfigLoaded(s) PROVE Key!ConnectionsAreTold'
  BY <1>13, <1>off DEF Key!OnCDNConfigLoaded, Key!Restart
<1>14. ASSUME NEW s \in Sessions, Key!DhParamsAnswered(s) PROVE Key!ConnectionsAreTold'
  BY <1>14, <1>off DEF Key!DhParamsAnswered
<1>15. ASSUME NEW s \in Sessions, Key!DhGenOk(s) PROVE Key!ConnectionsAreTold'
  BY <1>15, <1>off DEF Key!DhGenOk
<1>16. ASSUME NEW s \in Sessions, Key!UnlockKey(s) PROVE Key!ConnectionsAreTold'
  <2>1. PICK p \in {"signal", "off"} : Key!Goes(s, p)
    BY <1>16 DEF Key!UnlockKey
  <2> QED BY <1>16, <1>off, <2>1 DEF Key!UnlockKey
<1>17. ASSUME NEW s \in Sessions, Key!DhGenRetry(s) PROVE Key!ConnectionsAreTold'
  BY <1>17, <1>off, ConnectionsAsBefore DEF Key!DhGenRetry, Key!Restart
<1>18. ASSUME NEW s \in Sessions, Key!KeyChanged(s) PROVE Key!ConnectionsAreTold'
  <2>1. \A r \in Sessions : r # s => keyId'[r] = keyId[r]
    BY <1>18 DEF Key!KeyChanged, Key!Uses, Key!TypeOK
  <2> QED BY <1>18, <2>1, GoesUnready DEF Key!KeyChanged, Key!Restart
<1>19. ASSUME NEW s \in Sessions, Key!KeyForgotten(s) PROVE Key!ConnectionsAreTold'
  <2>1. \A r \in Sessions : r # s => keyId'[r] = keyId[r]
    BY <1>19 DEF Key!KeyForgotten, Key!Uses, Key!TypeOK
  <2> QED BY <1>19, <2>1, GoesUnready DEF Key!KeyForgotten, Key!Restart
<1>20. ASSUME NEW s \in Sessions, Key!RetryByTimer(s) PROVE Key!ConnectionsAreTold'
  <2>1. CASE copy[s] # 0
    BY <1>20, <1>off, <2>1 DEF Key!RetryByTimer
  <2>2. CASE copy[s] = 0
    <3>1. Key!Uses(s, 0) /\ UNCHANGED <<at, copy, toConnection>>
      BY <1>20, <2>2 DEF Key!RetryByTimer
    <3> QED BY <3>1 DEF Key!Uses, Key!ConnectionsAreTold, Key!TypeOK
  <2> QED BY <2>1, <2>2
<1>21. ASSUME NEW s \in Sessions, Key!DestroyKey(s) PROVE Key!ConnectionsAreTold'
  <2>1. \A r \in Sessions : r # s => keyId'[r] = keyId[r] /\ copy'[r] = copy[r]
    BY <1>21 DEF Key!DestroyKey, Key!Copies, Key!Uses, Key!TypeOK
  <2> QED BY <1>21, <2>1, GoesUnready DEF Key!DestroyKey
<1>22. CASE UNCHANGED Key!vars
  BY <1>22, ConnectionsAsBefore DEF Key!vars
<1> QED
  BY <1>1, <1>2, <1>3, <1>4, <1>5, <1>6, <1>7, <1>8, <1>9, <1>10, <1>11, <1>12, <1>13, <1>14,
     <1>15, <1>16, <1>17, <1>18, <1>19, <1>20, <1>21, <1>22
  DEF Key!Next, Key!Connection, Key!Main


\* A handshake begins only with LockKey(), which looks at the session's copy again.
LEMMA HandshakeBegins ==
    ASSUME Key!TypeOK, NewIsApart, [Key!Next]_(Key!vars), NEW s \in Sessions, at[s] = "locking", at'[s] = "pq"
    PROVE  copy[s] = 0
<1> USE DEF Key!links, Key!key, Key!cdn, Key!signals, Key!history
<1>1. Key!LockKey(s)
  <2>1. ASSUME NEW r \in Sessions, NEW p, Key!Goes(r, p), r # s \/ p # "pq" PROVE FALSE
    BY <2>1 DEF Key!Goes, Key!TypeOK
  <2>2. at' # at
    OBVIOUS
  <2>3. ASSUME NEW r \in Sessions, Key!UpdateAuthKey(r), at[r] \notin Key!Blocked PROVE FALSE
    <3>1. r # s
      BY <2>3 DEF Key!Blocked
    <3>2. PICK p : Key!Goes(r, p)
      BY <2>3 DEF Key!UpdateAuthKey
    <3> QED BY <2>1, <3>1, <3>2
  <2>4. ASSUME NEW r \in Sessions, Key!Restart(r) PROVE FALSE
    BY <2>1, <2>4 DEF Key!Restart
  <2>5. ASSUME NEW r \in Sessions, Key!Connection(r) PROVE r = s /\ Key!LockKey(s)
    <3>1. ~Key!Connected(r) /\ ~Key!AuthKeyCreated(r)
      BY <2>2, <2>3 DEF Key!Connected, Key!AuthKeyCreated, Key!Blocked
    <3>2. ~Key!KeyChanged(r) /\ ~Key!OnCDNConfigLoaded(r)
      BY <2>4 DEF Key!KeyChanged, Key!OnCDNConfigLoaded
    <3>3. ~Key!PqAnswered(r) /\ ~Key!DhParamsAnswered(r) /\ ~Key!DhGenOk(r) /\ ~Key!UnlockKey(r)
      BY <2>1 DEF Key!PqAnswered, Key!DhParamsAnswered, Key!DhGenOk, Key!UnlockKey
    <3>4. ~Key!RetryByTimer(r) /\ ~Key!DestroyKey(r)
      BY <2>1, <2>2 DEF Key!RetryByTimer, Key!DestroyKey
    <3>5. Key!LockKey(r)
      BY <2>5, <3>1, <3>2, <3>3, <3>4 DEF Key!Connection
    <3> QED BY <2>1, <3>5 DEF Key!LockKey
  <2>6. ASSUME NEW r \in Sessions,
               Key!Main(r) \/ Key!CreateDcData(r) \/ Key!Resume(r) \/ Key!StopBegin(r) \/ Key!Disconnected(r)
                 \/ Key!DhGenRetry(r) \/ Key!KeyForgotten(r)
        PROVE  FALSE
    <3>1. ~Key!Main(r)
      BY <2>1, <2>2 DEF Key!Main, Key!Start, Key!AuthKeyCreatedForDC, Key!StopEnd
    <3>2. ~Key!CreateDcData(r) /\ ~Key!Resume(r) /\ ~Key!StopBegin(r)
      BY <2>1, <2>2 DEF Key!CreateDcData, Key!Resume, Key!StopBegin
    <3> QED BY <2>2, <2>4, <2>6, <3>1, <3>2
               DEF Key!Disconnected, Key!DhGenRetry, Key!KeyForgotten
  <2>7. ~Key!CdnConfigLoaded /\ ~UNCHANGED Key!vars
    BY <2>2 DEF Key!CdnConfigLoaded, Key!vars
  <2> QED BY <2>5, <2>6, <2>7 DEF Key!Next
<1> QED BY <1>1 DEF Key!LockKey, Key!Goes, Key!TypeOK

\* The key is forgotten only by a session in a handshake that is stopped, or by one that
\* destroys the key that it uses.
LEMMA KeyForgottenBy ==
    ASSUME Key!TypeOK, [Key!Next]_(Key!vars), dcKey # 0, dcKey' = 0
    PROVE  lock \in Sessions \/ \E s \in Sessions : at[s] = "destroying" /\ copy[s] = dcKey
<1> USE DEF Key!links, Key!key, Key!cdn, Key!signals, Key!history
<1>0. dcKey' # dcKey
  OBVIOUS
<1>1. ASSUME NEW s \in Sessions, Key!Connection(s)
      PROVE  at[s] = "destroying" /\ copy[s] = dcKey
  <2>1. ~Key!Connected(s) /\ ~Key!AuthKeyCreated(s) /\ ~Key!LockKey(s) /\ ~Key!KeyChanged(s) /\ ~Key!PqAnswered(s)
        /\ ~Key!OnCDNConfigLoaded(s) /\ ~Key!DhParamsAnswered(s) /\ ~Key!UnlockKey(s) /\ ~Key!RetryByTimer(s)
    BY <1>0
       DEF Key!Connected, Key!AuthKeyCreated, Key!LockKey, Key!KeyChanged, Key!PqAnswered,
           Key!OnCDNConfigLoaded, Key!DhParamsAnswered, Key!UnlockKey, Key!RetryByTimer
  <2>2. ~Key!DhGenOk(s)
    BY DEF Key!DhGenOk, Key!SetKey, Key!TypeOK
  <2> QED BY <1>0, <1>1, <2>1, <2>2 DEF Key!Connection, Key!DestroyKey
<1>2. ASSUME NEW s \in Sessions, Key!Main(s) PROVE lock = s
  BY <1>0, <1>2 DEF Key!Main, Key!Start, Key!AuthKeyCreatedForDC, Key!StopEnd
<1>3. ASSUME NEW s \in Sessions
      PROVE  ~Key!CreateDcData(s) /\ ~Key!Resume(s) /\ ~Key!StopBegin(s) /\ ~Key!Disconnected(s) /\ ~Key!DhGenRetry(s)
             /\ ~Key!KeyForgotten(s)
  BY <1>0
     DEF Key!CreateDcData, Key!Resume, Key!StopBegin, Key!Disconnected, Key!DhGenRetry,
         Key!KeyForgotten
<1>4. ~Key!CdnConfigLoaded /\ ~UNCHANGED Key!vars
  BY <1>0 DEF Key!CdnConfigLoaded, Key!vars
<1> QED BY <1>1, <1>2, <1>3, <1>4 DEF Key!Next

\* A step makes a second key, or forgets one, only as KeyIsKept says.
LEMMA KeptStep == KeySetting /\ KeyIInv /\ [Key!Next]_(Key!vars) => Key!KeyIsKept
<1> SUFFICES ASSUME KeySetting, KeyIInv, [Key!Next]_(Key!vars), dcKey # 0 PROVE
        /\ \A s \in Sessions : at[s] = "locking" /\ at'[s] = "pq" => s \in toSession \cup missed
        /\ dcKey' = 0 => lock # None \/ \E s \in Sessions : at[s] = "destroying" /\ copy[s] = dcKey
  BY DEF Key!KeyIsKept
<1>1. ASSUME NEW s \in Sessions, at[s] = "locking", at'[s] = "pq" PROVE s \in toSession \cup missed
  <2>1. copy[s] = 0
    BY <1>1, HandshakeBegins DEF KeyIInv
  <2> QED BY <1>1, <2>1 DEF KeyIInv, StartersAreTold
<1>2. ASSUME dcKey' = 0
      PROVE  lock # None \/ \E s \in Sessions : at[s] = "destroying" /\ copy[s] = dcKey
  BY <1>2, KeyForgottenBy DEF KeyIInv, KeySetting
<1> QED BY <1>1, <1>2

\* Nobody has a key in the beginning.
LEMMA KeyInit == KeySetting /\ Key!Init => KeyIInv
<1> SUFFICES ASSUME KeySetting, Key!Init PROVE KeyIInv
  OBVIOUS
<1>1. Key!TypeOK
  BY DEF Key!Init, KeySetting, Key!TypeOK, Key!Places
<1>2. NewIsApart /\ StartersAreTold /\ Key!ConnectionsAreTold
  BY DEF KeySetting, Key!Init, NewIsApart, StartersAreTold, Key!ConnectionsAreTold
<1>3. Key!LockedByHandshake
  BY DEF KeySetting, Key!Init, Key!LockedByHandshake, Key!Handshake
<1> QED BY <1>1, <1>2, <1>3 DEF KeyIInv

\* Whatever the sessions, the key, the sessions and the signals have their types, and nobody has
\* an old key without being told.
THEOREM KeyInductive == KeySetting => (Key!Spec => []KeyIInv)
<1> SUFFICES ASSUME KeySetting PROVE Key!Spec => []KeyIInv
  OBVIOUS
<1>1. Key!Init => KeyIInv
  BY KeyInit
<1>2. KeyIInv /\ [Key!Next]_(Key!vars) => KeyIInv'
  BY KeyTypeStep, ApartStep, LockStep, ToldStep, ConnectionsStep DEF KeyIInv
<1> QED BY <1>1, <1>2, PTL DEF Key!Spec

-----------------------------------------------------------------------------
(***************************************************************************)
(* Any number of consumers, values and calls of fire() within handlers:    *)
(* every consumer gets every value once and stays subscribed until its     *)
(* subscription ends, whatever the handlers do, as long as no fire()       *)
(* within another moves the consumers.                                     *)
(***************************************************************************)
\* The bounds are numbers.
StreamBounds == MaxConsumers \in Nat /\ MaxFires \in Nat /\ MaxDepth \in Nat

\* The calls of fire() on the stack: what is removed lies before the place of the loop, all but
\* the innermost are in a handler, and each has its own value.
FiresOK ==
    /\ \A i \in 1..Len(fires) :
            /\ 1 <= fires[i].it /\ fires[i].it <= fires[i].end
            /\ fires[i].end <= Len(consumers) + 1
            /\ fires[i].removeFrom < fires[i].it /\ fires[i].value <= fired
            /\ fires[i].running => fires[i].it < fires[i].end
            /\ i > 1 => fires[i].running
    /\ \A i, j \in 1..Len(fires) : fires[i].value = fires[j].value => i = j

\* Values to come were given to nobody, and nobody is told before being subscribed.
ValuesOK ==
    /\ \A v \in 1..MaxFires : v > fired => got[v] = {}
    /\ \A v \in 1..MaxFires : wanted[v] \subseteq 1..subscribed

Cells == 1..Len(consumers)

\* A consumer that has not ended is in one cell, and nothing else is in the list.
CellsOK ==
    /\ \A i \in Cells : consumers[i] \in Stream!Alive \cup {0}
    /\ \A i, j \in Cells : consumers[i] = consumers[j] => i = j \/ consumers[i] = 0
    /\ ~gone => \A c \in Stream!Alive : \E i \in Cells : consumers[i] = c

\* From the first removed cell up to the place of the loop all are empty.
RemovedOK ==
    \A i \in 1..Len(fires) : fires[i].removeFrom # 0 =>
        \A k \in Cells : fires[i].removeFrom <= k /\ k < fires[i].it => consumers[k] = 0

\* The cells a call has not come to yet.
Ahead(f, k) == f.it <= k /\ k < f.end /\ (f.running => k # f.it)

\* They have everybody who is still to be told of its value, and nobody who was.
RestOK ==
    /\ \A i \in 1..Len(fires) : \A c \in wanted[fires[i].value] \ (terminated \cup got[fires[i].value]) :
            \E k \in Cells : Ahead(fires[i], k) /\ consumers[k] = c
    /\ \A i \in 1..Len(fires) : \A k \in Cells :
            Ahead(fires[i], k) => consumers[k] \notin got[fires[i].value]

LoopsOK == CellsOK /\ RemovedOK /\ RestOK /\ Stream!GivenToAll /\ ~twice

\* The inductive invariant.
StreamIInv == Stream!TypeOK /\ FiresOK /\ ValuesOK /\ (~disturbed => LoopsOK)

\* The stack of calls after a call has begun.
LEMMA Pushed ==
    ASSUME NEW S, NEW s \in Seq(S), NEW e \in S
    PROVE  LET t == <<e>> \o s IN
           /\ t \in Seq(S) /\ Len(t) = Len(s) + 1 /\ t[1] = e
           /\ \A i \in 2..Len(t) : i - 1 \in 1..Len(s) /\ t[i] = s[i - 1]
<1>1. <<e>> \in Seq(S) /\ Len(<<e>>) = 1 /\ <<e>>[1] = e
  OBVIOUS
<1> DEFINE t == <<e>> \o s
<1>2. /\ t \in Seq(S) /\ Len(t) = Len(<<e>>) + Len(s)
      /\ \A i \in 1..Len(<<e>>) + Len(s) : t[i] = IF i <= Len(<<e>>) THEN <<e>>[i] ELSE s[i - Len(<<e>>)]
  BY <1>1, ConcatProperties, Zenon
<1> HIDE DEF t
<1>3. Len(s) \in Nat
  BY LenProperties
<1>4. /\ t \in Seq(S) /\ Len(t) = Len(s) + 1 /\ t[1] = e
      /\ \A i \in 2..Len(t) : i - 1 \in 1..Len(s) /\ t[i] = s[i - 1]
  BY <1>1, <1>2, <1>3
<1> QED BY <1>4 DEF t

\* After the innermost call has ended.
LEMMA Popped ==
    ASSUME NEW S, NEW s \in Seq(S), s # <<>>
    PROVE  /\ Tail(s) \in Seq(S) /\ Len(Tail(s)) = Len(s) - 1 /\ Head(s) = s[1] /\ Head(s) \in S
           /\ Len(s) \in Nat \ {0}
           /\ \A i \in 1..Len(Tail(s)) : i + 1 \in 1..Len(s) /\ Tail(s)[i] = s[i + 1]
  BY HeadTailProperties, EmptySeq, LenProperties

\* After it has gone on.
LEMMA Changed ==
    ASSUME NEW S, NEW s \in Seq(S), s # <<>>, NEW e \in S
    PROVE  LET t == <<e>> \o Tail(s) IN
           /\ t \in Seq(S) /\ Len(t) = Len(s) /\ t[1] = e
           /\ \A i \in 2..Len(t) : t[i] = s[i]
<1>1. /\ Tail(s) \in Seq(S) /\ Len(Tail(s)) = Len(s) - 1 /\ Len(s) \in Nat
      /\ \A i \in 1..Len(Tail(s)) : Tail(s)[i] = s[i + 1]
  BY Popped
<1> DEFINE t == <<e>> \o Tail(s)
<1>2. /\ t \in Seq(S) /\ Len(t) = Len(Tail(s)) + 1 /\ t[1] = e
      /\ \A i \in 2..Len(t) : i - 1 \in 1..Len(Tail(s)) /\ t[i] = Tail(s)[i - 1]
  BY <1>1, Pushed
<1> QED BY <1>1, <1>2

\* What Finish() makes of a list whose cells from r up to e are removed.
NewCells(s, e) == SubSeq(s, e, Len(s))
KeptCells(s, r, e) == SubSeq(s, 1, r - 1) \o NewCells(s, e)
AllCells(s, r, e) ==
    KeptCells(s, r, e) \o SubSeq(s, Len(KeptCells(s, r, e)) + 1, Len(s))

LEMMA Shortened ==
    ASSUME NEW S, NEW s \in Seq(S), NEW r \in Nat, NEW e \in Nat, 1 <= r, r <= e, e <= Len(s) + 1
    PROVE  /\ KeptCells(s, r, e) \in Seq(S) /\ Len(KeptCells(s, r, e)) = Len(s) - (e - r)
           /\ \A k \in 1..Len(KeptCells(s, r, e)) :
                    KeptCells(s, r, e)[k] = IF k < r THEN s[k] ELSE s[k + (e - r)]
           /\ AllCells(s, r, e) \in Seq(S) /\ Len(AllCells(s, r, e)) = Len(s)
           /\ NewCells(s, e) = <<>> => AllCells(s, r, e) = s
<1> DEFINE new == SubSeq(s, e, Len(s))
           begin == SubSeq(s, 1, r - 1)
           kept == begin \o new
           rest == SubSeq(s, Len(kept) + 1, Len(s))
<1>0. Len(s) \in Nat /\ \A i \in 1..Len(s) : s[i] \in S
  BY LenProperties, ElementOfSeq
<1>1. new \in Seq(S) /\ Len(new) = Len(s) + 1 - e
      /\ \A i \in 1..Len(new) : new[i] = s[e + i - 1]
  BY <1>0, SubSeqProperties
<1>2. begin \in Seq(S) /\ Len(begin) = r - 1 /\ \A i \in 1..Len(begin) : begin[i] = s[i]
  BY <1>0, SubSeqProperties
<1> HIDE DEF new, begin
<1>3. /\ kept \in Seq(S) /\ Len(kept) = Len(begin) + Len(new)
      /\ \A k \in 1..Len(begin) + Len(new) :
            kept[k] = IF k <= Len(begin) THEN begin[k] ELSE new[k - Len(begin)]
  BY <1>1, <1>2, ConcatProperties, Zenon
<1> HIDE DEF kept
<1>4. /\ Len(kept) = Len(s) - (e - r)
      /\ \A k \in 1..Len(kept) : kept[k] = IF k < r THEN s[k] ELSE s[k + (e - r)]
  BY <1>0, <1>1, <1>2, <1>3
<1>5. /\ rest \in Seq(S) /\ Len(rest) = Len(s) - Len(kept)
      /\ \A i \in 1..Len(rest) : rest[i] = s[Len(kept) + i]
  BY <1>0, <1>3, <1>4, SubSeqProperties
<1> HIDE DEF rest
<1>6. /\ kept \o rest \in Seq(S) /\ Len(kept \o rest) = Len(kept) + Len(rest)
      /\ \A k \in 1..Len(kept) + Len(rest) :
            (kept \o rest)[k] = IF k <= Len(kept) THEN kept[k] ELSE rest[k - Len(kept)]
  BY <1>3, <1>5, ConcatProperties, Zenon
<1>8. Len(kept \o rest) = Len(s)
  BY <1>0, <1>4, <1>5, <1>6
<1>7. ASSUME new = <<>> PROVE kept \o rest = s
  <2>1. e = Len(s) + 1
    BY <1>7, <1>1, <1>0, EmptySeq
  <2>2. ASSUME NEW k \in 1..Len(s) PROVE (kept \o rest)[k] = s[k]
    <3>1. (kept \o rest)[k] = IF k <= Len(kept) THEN kept[k] ELSE rest[k - Len(kept)]
      BY <1>6, <1>8
    <3>2. k <= Len(kept) => kept[k] = s[k]
      BY <2>1, <1>4, <1>0
    <3>3. ASSUME ~(k <= Len(kept)) PROVE rest[k - Len(kept)] = s[k]
      <4>0. Len(kept) \in Nat /\ Len(rest) = Len(s) - Len(kept) /\ Len(s) \in Nat
        BY <1>3, <1>5, <1>0, LenProperties
      <4>1. k - Len(kept) \in 1..Len(rest)
        BY <3>3, <4>0
      <4>2. PICK i \in 1..Len(rest) : i = k - Len(kept)
        BY <4>1, Zenon
      <4>3. rest[i] = s[Len(kept) + i]
        BY <1>5
      <4>4. Len(kept) + i = k
        BY <4>0, <4>2
      <4> QED BY <4>2, <4>3, <4>4
    <3> QED BY <3>1, <3>2, <3>3
  <2> QED BY <2>2, <1>6, <1>8, SeqEqual
<1>9. NewCells(s, e) = new /\ KeptCells(s, r, e) = kept /\ AllCells(s, r, e) = kept \o rest
  BY DEF NewCells, KeptCells, AllCells, new, begin, kept, rest
<1> QED BY <1>3, <1>4, <1>6, <1>7, <1>8, <1>9

\* The innermost call and the stack.
LEMMA Innermost ==
    ASSUME Stream!TypeOK, fires # <<>>
    PROVE  /\ Len(fires) \in Nat \ {0} /\ Stream!Fire = fires[1] /\ Stream!Fire \in Stream!Fires
           /\ Len(consumers) \in Nat
           /\ \A i \in 1..Len(fires) : fires[i] \in Stream!Fires
<1>1. fires \in Seq(Stream!Fires) /\ consumers \in Seq(0..subscribed)
  BY DEF Stream!TypeOK
<1>2. Len(fires) \in Nat \ {0} /\ Head(fires) = fires[1] /\ Head(fires) \in Stream!Fires
  BY <1>1, Popped
<1>3. \A i \in 1..Len(fires) : fires[i] \in Stream!Fires
  BY <1>1, ElementOfSeq
<1> QED BY <1>1, <1>2, <1>3, LenProperties DEF Stream!Fire

\* What is known of it while the loop goes on.
LEMMA Places ==
    ASSUME Stream!TypeOK, FiresOK, fires # <<>>
    PROVE  /\ Stream!Fire.it \in Nat /\ Stream!Fire.end \in Nat /\ Stream!Fire.removeFrom \in Nat
           /\ Stream!Fire.value \in 1..MaxFires /\ Stream!Fire.running \in BOOLEAN
           /\ 1 <= Stream!Fire.it /\ Stream!Fire.it <= Stream!Fire.end /\ Stream!Fire.end <= Len(consumers) + 1
           /\ Stream!Fire.removeFrom < Stream!Fire.it /\ Stream!Fire.value <= fired
           /\ Stream!Fire.running => Stream!Fire.it < Stream!Fire.end
<1>1. Stream!Fire = fires[1] /\ Stream!Fire \in Stream!Fires /\ 1 \in 1..Len(fires)
  BY Innermost
<1> QED BY <1>1 DEF Stream!Fires, FiresOK

\* It goes on.
LEMMA Goes ==
    ASSUME Stream!TypeOK, fires # <<>>, NEW g \in Stream!Fires, Stream!Becomes(g)
    PROVE  /\ fires' \in Seq(Stream!Fires) /\ Len(fires') = Len(fires) /\ fires'[1] = g
           /\ \A i \in 1..Len(fires) : i # 1 => fires'[i] = fires[i]
<1>1. fires \in Seq(Stream!Fires) /\ Len(fires) \in Nat
  BY LenProperties DEF Stream!TypeOK
<1> DEFINE t == <<g>> \o Tail(fires)
<1>2. t \in Seq(Stream!Fires) /\ Len(t) = Len(fires) /\ t[1] = g /\ \A i \in 2..Len(t) : t[i] = fires[i]
  BY <1>1, Changed
<1>3. fires' = t
  BY DEF Stream!Becomes
<1> HIDE DEF t
<1> QED BY <1>1, <1>2, <1>3

\* One cell changes.
LEMMA CellSet ==
    ASSUME Stream!TypeOK, NEW k \in Cells, NEW c \in 0..subscribed
    PROVE  /\ [consumers EXCEPT ![k] = c] \in Seq(0..subscribed)
           /\ Len([consumers EXCEPT ![k] = c]) = Len(consumers)
           /\ \A j \in Cells : [consumers EXCEPT ![k] = c][j] = IF j = k THEN c ELSE consumers[j]
  BY ExceptSeq DEF Stream!TypeOK, Cells

\* The content of one cell is moved to another.
LEMMA CellMoves ==
    ASSUME NEW S, NEW s \in Seq(S), NEW r \in 1..Len(s), NEW q \in 1..Len(s), NEW e \in S
    PROVE  LET t == [s EXCEPT ![r] = s[q], ![q] = e] IN
           /\ t \in Seq(S) /\ Len(t) = Len(s)
           /\ \A j \in 1..Len(s) : t[j] = IF j = q THEN e ELSE IF j = r THEN s[q] ELSE s[j]
<1>1. s[q] \in S
  BY ElementOfSeq
<1> DEFINE u == [s EXCEPT ![r] = s[q]]
           t == [u EXCEPT ![q] = e]
<1>2. /\ u \in Seq(S) /\ Len(u) = Len(s)
      /\ \A j \in 1..Len(s) : u[j] = IF j = r THEN s[q] ELSE s[j]
  BY <1>1, ExceptSeq
<1> HIDE DEF u
<1>3. q \in 1..Len(u)
  BY <1>2
<1>4. /\ t \in Seq(S) /\ Len(t) = Len(u)
      /\ \A j \in 1..Len(u) : t[j] = IF j = q THEN e ELSE u[j]
  BY <1>2, <1>3, ExceptSeq
<1> HIDE DEF t
<1>5. /\ t \in Seq(S) /\ Len(t) = Len(s)
      /\ \A j \in 1..Len(s) : t[j] = IF j = q THEN e ELSE IF j = r THEN s[q] ELSE s[j]
  BY <1>2, <1>4
<1>6. t = [s EXCEPT ![r] = s[q], ![q] = e]
  BY DEF t, u
<1> QED BY <1>5, <1>6, Zenon

\* The innermost call has moved the consumer it was at to the first removed cell.
LEMMA CellMoved ==
    ASSUME Stream!TypeOK, FiresOK, fires # <<>>, Stream!Fire.running, Stream!Fire.removeFrom # 0,
           consumers' = [consumers EXCEPT ![Stream!Fire.removeFrom] = consumers[Stream!Fire.it], ![Stream!Fire.it] = 0]
    PROVE  /\ Stream!Fire.removeFrom \in Cells /\ Stream!Fire.it \in Cells
           /\ consumers' \in Seq(0..subscribed) /\ Len(consumers') = Len(consumers)
           /\ \A j \in Cells : consumers'[j] = IF j = Stream!Fire.it THEN 0
                                               ELSE IF j = Stream!Fire.removeFrom THEN consumers[Stream!Fire.it]
                                               ELSE consumers[j]
<1>0. subscribed \in Nat /\ Len(consumers) \in Nat /\ consumers \in Seq(0..subscribed)
  BY LenProperties DEF Stream!TypeOK
<1>1. Stream!Fire.removeFrom \in Cells /\ Stream!Fire.it \in Cells
  BY <1>0, Places DEF Cells
<1>2. 0 \in 0..subscribed
  BY <1>0
<1> DEFINE list == [consumers EXCEPT ![Stream!Fire.removeFrom] = consumers[Stream!Fire.it], ![Stream!Fire.it] = 0]
<1>3. /\ list \in Seq(0..subscribed) /\ Len(list) = Len(consumers)
      /\ \A j \in 1..Len(consumers) :
            list[j] = IF j = Stream!Fire.it THEN 0
                      ELSE IF j = Stream!Fire.removeFrom THEN consumers[Stream!Fire.it] ELSE consumers[j]
  BY <1>0, <1>1, <1>2, CellMoves DEF Cells
<1>4. consumers' = list
  OBVIOUS
<1> HIDE DEF list
<1> QED BY <1>1, <1>3, <1>4 DEF Cells

\* The end of fire(): a call within another leaves the length of the list, and the list unless
\* it is counted; the outermost one drops the removed cells.
LEMMA ListShrinks ==
    ASSUME Stream!TypeOK, FiresOK, Stream!Finish
    PROVE  /\ fires # <<>> /\ ~Stream!Fire.running /\ Stream!Fire.it = Stream!Fire.end
           /\ fires' \in Seq(Stream!Fires) /\ Len(fires') = Len(fires) - 1
           /\ \A i \in 1..Len(fires') : i + 1 \in 1..Len(fires) /\ fires'[i] = fires[i + 1]
           /\ consumers' \in Seq(0..subscribed)
           /\ Stream!Nested => Len(consumers') = Len(consumers)
           /\ (Stream!Nested /\ ~disturbed') \/ Stream!Fire.removeFrom = 0 => consumers' = consumers
           /\ ~Stream!Nested /\ Stream!Fire.removeFrom # 0 =>
                /\ Len(consumers') = Len(consumers) - (Stream!Fire.end - Stream!Fire.removeFrom)
                /\ \A k \in 1..Len(consumers') :
                        consumers'[k] = IF k < Stream!Fire.removeFrom THEN consumers[k]
                                        ELSE consumers[k + (Stream!Fire.end - Stream!Fire.removeFrom)]
<1>0. fires # <<>> /\ ~Stream!Fire.running /\ Stream!Fire.it = Stream!Fire.end /\ fires' = Tail(fires)
  BY DEF Stream!Finish, Stream!LoopsTurn
<1>1. fires \in Seq(Stream!Fires) /\ consumers \in Seq(0..subscribed) /\ disturbed \in BOOLEAN
  BY DEF Stream!TypeOK
<1>2. /\ fires' \in Seq(Stream!Fires) /\ Len(fires') = Len(fires) - 1
      /\ \A i \in 1..Len(fires') : i + 1 \in 1..Len(fires) /\ fires'[i] = fires[i + 1]
  BY <1>0, <1>1, Popped
<1>3. CASE Stream!Fire.removeFrom = 0
  <2>1. consumers' = consumers
    BY <1>3 DEF Stream!Finish
  <2> QED BY <1>0, <1>1, <1>2, <1>3, <2>1
<1>4. CASE Stream!Fire.removeFrom # 0
  <2>1. PICK r \in Nat, e \in Nat : r = Stream!Fire.removeFrom /\ e = Stream!Fire.end
    BY <1>0, Places
  <2>2. 1 <= r /\ r <= e /\ e <= Len(consumers) + 1
    BY <1>0, <1>4, <2>1, Places
  <2> DEFINE kept == KeptCells(consumers, r, e)
             whole == AllCells(consumers, r, e)
  <2>3. /\ kept \in Seq(0..subscribed) /\ Len(kept) = Len(consumers) - (e - r)
        /\ \A k \in 1..Len(kept) : kept[k] = IF k < r THEN consumers[k] ELSE consumers[k + (e - r)]
        /\ whole \in Seq(0..subscribed) /\ Len(whole) = Len(consumers)
        /\ NewCells(consumers, e) = <<>> => whole = consumers
    BY <1>1, <2>2, Shortened
  <2>4. /\ consumers' = IF Stream!Nested THEN whole ELSE kept
        /\ disturbed' = (disturbed \/ (Stream!Nested /\ NewCells(consumers, e) # <<>>))
    BY <1>4, <2>1 DEF Stream!Finish, NewCells, KeptCells, AllCells
  <2> HIDE DEF kept, whole
  <2>5. CASE Stream!Nested
    BY <1>0, <1>1, <1>2, <1>4, <2>3, <2>4, <2>5
  <2>6. CASE ~Stream!Nested
    <3>1. consumers' = kept
      BY <2>4, <2>6
    <3> QED BY <1>0, <1>2, <1>4, <2>1, <2>3, <2>6, <3>1
  <2> QED BY <2>5, <2>6
<1> QED BY <1>3, <1>4

\* How a call goes on.
LEMMA NextCall ==
    ASSUME NEW f \in Stream!Fires
    PROVE  /\ LET g == [f EXCEPT !.running = TRUE] IN
                g \in Stream!Fires /\ g.value = f.value /\ g.it = f.it /\ g.end = f.end
                /\ g.removeFrom = f.removeFrom /\ g.running
           /\ LET g == [f EXCEPT !.it = @ + 1, !.running = FALSE] IN
                g \in Stream!Fires /\ g.value = f.value /\ g.it = f.it + 1 /\ g.end = f.end
                /\ g.removeFrom = f.removeFrom /\ ~g.running
           /\ LET g == [f EXCEPT !.it = @ + 1, !.removeFrom = @ + 1, !.running = FALSE] IN
                g \in Stream!Fires /\ g.value = f.value /\ g.it = f.it + 1 /\ g.end = f.end
                /\ g.removeFrom = f.removeFrom + 1 /\ ~g.running
           /\ LET g == [f EXCEPT !.it = @ + 1, !.removeFrom = IF @ = 0 THEN f.it ELSE @] IN
                g \in Stream!Fires /\ g.value = f.value /\ g.it = f.it + 1 /\ g.end = f.end
                /\ g.removeFrom = (IF f.removeFrom = 0 THEN f.it ELSE f.removeFrom)
                /\ g.running = f.running
<1>1. PICK n \in Nat, m \in Nat, p \in Nat :
        n = f.it + 1 /\ m = f.removeFrom + 1 /\ p = IF f.removeFrom = 0 THEN f.it ELSE f.removeFrom
  BY DEF Stream!Fires
<1> DEFINE on == [f EXCEPT !.it = n]
           moved == [on EXCEPT !.removeFrom = m]
           removed == [on EXCEPT !.removeFrom = p]
<1>2. on \in Stream!Fires /\ on.value = f.value /\ on.it = n /\ on.end = f.end
      /\ on.removeFrom = f.removeFrom /\ on.running = f.running
  BY DEF Stream!Fires
<1> HIDE DEF on
<1>3. moved \in Stream!Fires /\ moved.value = f.value /\ moved.it = n /\ moved.end = f.end
      /\ moved.removeFrom = m
  BY <1>2 DEF Stream!Fires
<1>4. removed \in Stream!Fires /\ removed.value = f.value /\ removed.it = n /\ removed.end = f.end
      /\ removed.removeFrom = p /\ removed.running = f.running
  BY <1>2 DEF Stream!Fires
<1> HIDE DEF moved, removed
<1>5. LET g == [f EXCEPT !.running = TRUE] IN
        g \in Stream!Fires /\ g.value = f.value /\ g.it = f.it /\ g.end = f.end
        /\ g.removeFrom = f.removeFrom /\ g.running
  BY DEF Stream!Fires
<1>6. LET g == [on EXCEPT !.running = FALSE] IN
        g \in Stream!Fires /\ g.value = f.value /\ g.it = n /\ g.end = f.end
        /\ g.removeFrom = f.removeFrom /\ ~g.running
  BY <1>2 DEF Stream!Fires
<1>7. LET g == [moved EXCEPT !.running = FALSE] IN
        g \in Stream!Fires /\ g.value = f.value /\ g.it = n /\ g.end = f.end
        /\ g.removeFrom = m /\ ~g.running
  BY <1>3 DEF Stream!Fires
<1>8. /\ [f EXCEPT !.it = @ + 1, !.running = FALSE] = [on EXCEPT !.running = FALSE]
      /\ [f EXCEPT !.it = @ + 1, !.removeFrom = @ + 1, !.running = FALSE]
            = [moved EXCEPT !.running = FALSE]
      /\ [f EXCEPT !.it = @ + 1, !.removeFrom = IF @ = 0 THEN f.it ELSE @] = removed
  BY <1>1, <1>2, Zenon DEF on, moved, removed
<1> QED BY <1>1, <1>4, <1>5, <1>6, <1>7, <1>8, Zenon

\* The innermost call comes to a consumer that goes on.
LEMMA Puts ==
    ASSUME Stream!TypeOK, Stream!PutNext
    PROVE  /\ fires # <<>> /\ ~Stream!Fire.running /\ Stream!Fire.it < Stream!Fire.end
           /\ fires' \in Seq(Stream!Fires) /\ Len(fires') = Len(fires)
           /\ fires'[1].value = Stream!Fire.value /\ fires'[1].it = Stream!Fire.it /\ fires'[1].end = Stream!Fire.end
           /\ fires'[1].removeFrom = Stream!Fire.removeFrom /\ fires'[1].running
           /\ \A i \in 1..Len(fires) : i # 1 => fires'[i] = fires[i]
<1>1. PICK g : g = [Stream!Fire EXCEPT !.running = TRUE]
  OBVIOUS
<1>2. fires # <<>> /\ ~Stream!Fire.running /\ Stream!Fire.it < Stream!Fire.end /\ Stream!Becomes(g)
  BY <1>1 DEF Stream!PutNext, Stream!LoopsTurn
<1>3. Stream!Fire \in Stream!Fires
  BY <1>2, Innermost
<1>4. g \in Stream!Fires /\ g.value = Stream!Fire.value /\ g.it = Stream!Fire.it /\ g.end = Stream!Fire.end
      /\ g.removeFrom = Stream!Fire.removeFrom /\ g.running
  BY <1>1, <1>3, NextCall, Zenon
<1>5. /\ fires' \in Seq(Stream!Fires) /\ Len(fires') = Len(fires) /\ fires'[1] = g
      /\ \A i \in 1..Len(fires) : i # 1 => fires'[i] = fires[i]
  BY <1>2, <1>4, Goes, Zenon
<1> QED BY <1>2, <1>4, <1>5, Zenon

\* The innermost call comes to a cell without one.
LEMMA Skips ==
    ASSUME Stream!TypeOK, Stream!PutNextEnded
    PROVE  /\ fires # <<>> /\ ~Stream!Fire.running /\ Stream!Fire.it < Stream!Fire.end
           /\ fires' \in Seq(Stream!Fires) /\ Len(fires') = Len(fires)
           /\ fires'[1].value = Stream!Fire.value /\ fires'[1].it = Stream!Fire.it + 1 /\ fires'[1].end = Stream!Fire.end
           /\ fires'[1].removeFrom = (IF Stream!Fire.removeFrom = 0 THEN Stream!Fire.it ELSE Stream!Fire.removeFrom)
           /\ ~fires'[1].running
           /\ \A i \in 1..Len(fires) : i # 1 => fires'[i] = fires[i]
<1>1. PICK g : g = [Stream!Fire EXCEPT !.it = @ + 1, !.removeFrom = IF @ = 0 THEN Stream!Fire.it ELSE @]
  OBVIOUS
<1>2. fires # <<>> /\ ~Stream!Fire.running /\ Stream!Fire.it < Stream!Fire.end /\ Stream!Becomes(g)
  BY <1>1, Zenon DEF Stream!PutNextEnded, Stream!LoopsTurn
<1>3. Stream!Fire \in Stream!Fires
  BY <1>2, Innermost
<1>4. g \in Stream!Fires /\ g.value = Stream!Fire.value /\ g.it = Stream!Fire.it + 1 /\ g.end = Stream!Fire.end
      /\ g.removeFrom = (IF Stream!Fire.removeFrom = 0 THEN Stream!Fire.it ELSE Stream!Fire.removeFrom)
      /\ g.running = Stream!Fire.running
  BY <1>1, <1>3, NextCall, Zenon
<1>5. /\ fires' \in Seq(Stream!Fires) /\ Len(fires') = Len(fires) /\ fires'[1] = g
      /\ \A i \in 1..Len(fires) : i # 1 => fires'[i] = fires[i]
  BY <1>2, <1>4, Goes, Zenon
<1> QED BY <1>2, <1>4, <1>5, Zenon

\* The handler returns to it.
LEMMA Returns ==
    ASSUME Stream!TypeOK, Stream!HandlerReturns
    PROVE  /\ fires # <<>> /\ Stream!Fire.running
           /\ fires' \in Seq(Stream!Fires) /\ Len(fires') = Len(fires)
           /\ fires'[1].value = Stream!Fire.value /\ fires'[1].it = Stream!Fire.it + 1 /\ fires'[1].end = Stream!Fire.end
           /\ fires'[1].removeFrom = (IF Stream!Fire.removeFrom = 0 THEN 0 ELSE Stream!Fire.removeFrom + 1)
           /\ ~fires'[1].running
           /\ \A i \in 1..Len(fires) : i # 1 => fires'[i] = fires[i]
<1>1. fires # <<>> /\ Stream!Fire.running
  BY DEF Stream!HandlerReturns
<1>2. Stream!Fire \in Stream!Fires
  BY <1>1, Innermost
<1>3. PICK g \in Stream!Fires :
        /\ Stream!Becomes(g) /\ g.value = Stream!Fire.value /\ g.it = Stream!Fire.it + 1 /\ g.end = Stream!Fire.end
        /\ g.removeFrom = (IF Stream!Fire.removeFrom = 0 THEN 0 ELSE Stream!Fire.removeFrom + 1) /\ ~g.running
  <2>1. CASE Stream!Fire.removeFrom = 0
    <3>1. PICK g : g = [Stream!Fire EXCEPT !.it = @ + 1, !.running = FALSE]
      OBVIOUS
    <3>2. Stream!Becomes(g)
      BY <2>1, <3>1, Zenon DEF Stream!HandlerReturns
    <3>3. g \in Stream!Fires /\ g.value = Stream!Fire.value /\ g.it = Stream!Fire.it + 1 /\ g.end = Stream!Fire.end
          /\ g.removeFrom = Stream!Fire.removeFrom /\ ~g.running
      BY <1>2, <3>1, NextCall, Zenon
    <3> QED BY <2>1, <3>2, <3>3, Zenon
  <2>2. CASE Stream!Fire.removeFrom # 0
    <3>1. PICK g : g = [Stream!Fire EXCEPT !.it = @ + 1, !.removeFrom = @ + 1, !.running = FALSE]
      OBVIOUS
    <3>2. Stream!Becomes(g)
      BY <2>2, <3>1, Zenon DEF Stream!HandlerReturns
    <3>3. g \in Stream!Fires /\ g.value = Stream!Fire.value /\ g.it = Stream!Fire.it + 1 /\ g.end = Stream!Fire.end
          /\ g.removeFrom = Stream!Fire.removeFrom + 1 /\ ~g.running
      BY <1>2, <3>1, NextCall, Zenon
    <3> QED BY <2>2, <3>2, <3>3, Zenon
  <2> QED BY <2>1, <2>2
<1>4. /\ fires' \in Seq(Stream!Fires) /\ Len(fires') = Len(fires) /\ fires'[1] = g
      /\ \A i \in 1..Len(fires) : i # 1 => fires'[i] = fires[i]
  BY <1>1, <1>3, Goes, Zenon
<1> QED BY <1>1, <1>3, <1>4, Zenon

\* A call begins.
LEMMA Begins ==
    ASSUME StreamBounds, Stream!TypeOK, Stream!FireForward
    PROVE  /\ fired' = fired + 1 /\ fired' \in 1..MaxFires /\ Len(fires) < MaxDepth
           /\ fires' \in Seq(Stream!Fires) /\ Len(fires') = Len(fires) + 1
           /\ fires'[1].value = fired' /\ fires'[1].it = 1 /\ fires'[1].end = Len(consumers) + 1
           /\ fires'[1].removeFrom = 0 /\ ~fires'[1].running
           /\ \A i \in 1..Len(fires') : i # 1 => i - 1 \in 1..Len(fires) /\ fires'[i] = fires[i - 1]
<1>1. Len(consumers) \in Nat /\ Len(fires) \in Nat /\ fires \in Seq(Stream!Fires)
  BY LenProperties DEF Stream!TypeOK
<1>2. fired' = fired + 1 /\ fired' \in 1..MaxFires /\ Len(fires) < MaxDepth
  BY DEF Stream!FireForward, StreamBounds, Stream!TypeOK
<1>3. PICK g : g = [value |-> fired', it |-> 1, removeFrom |-> 0, end |-> Len(consumers) + 1,
                    running |-> FALSE]
  OBVIOUS
<1>4. g \in Stream!Fires /\ g.value = fired' /\ g.it = 1 /\ g.end = Len(consumers) + 1
      /\ g.removeFrom = 0 /\ ~g.running
  BY <1>1, <1>2, <1>3 DEF Stream!Fires
<1>5. fires' = <<g>> \o fires
  BY <1>3 DEF Stream!FireForward
<1>6. /\ fires' \in Seq(Stream!Fires) /\ Len(fires') = Len(fires) + 1 /\ fires'[1] = g
      /\ \A i \in 2..Len(fires') : i - 1 \in 1..Len(fires) /\ fires'[i] = fires[i - 1]
  BY <1>1, <1>4, <1>5, Pushed
<1>7. \A i \in 1..Len(fires') : i # 1 => i - 1 \in 1..Len(fires) /\ fires'[i] = fires[i - 1]
  BY <1>1, <1>6
<1> QED BY <1>2, <1>4, <1>6, <1>7

\* Types are kept.
LEMMA StreamTypeStep == StreamBounds /\ Stream!TypeOK /\ FiresOK /\ [Stream!Next]_(Stream!vars) => Stream!TypeOK'
<1> SUFFICES ASSUME StreamBounds, Stream!TypeOK, FiresOK, [Stream!Next]_(Stream!vars) PROVE Stream!TypeOK'
  OBVIOUS
<1> USE DEF StreamBounds
<1>0. /\ subscribed \in Nat /\ fired \in Nat /\ Len(consumers) \in Nat /\ Len(fires) \in Nat
      /\ consumers \in Seq(0..subscribed) /\ fires \in Seq(Stream!Fires)
  BY LenProperties DEF Stream!TypeOK
<1>a. \A i \in 1..Len(fires) : fires[i].end \in Nat /\ fires[i].end <= Len(consumers) + 1
  <2>1. \A i \in 1..Len(fires) : fires[i] \in Stream!Fires
    BY <1>0, ElementOfSeq
  <2> QED BY <2>1 DEF Stream!TypeOK, Stream!Fires
<1>1. CASE Stream!Subscribe
  <2>1. subscribed' = subscribed + 1 /\ subscribed' \in 0..MaxConsumers /\ terminated' \subseteq 1..subscribed'
    BY <1>0, <1>1 DEF Stream!Subscribe, Stream!TypeOK
  <2>2. consumers \in Seq(0..subscribed') /\ subscribed' \in 0..subscribed'
    BY <1>0, <2>1, SeqMonotonic
  <2>3. consumers' \in Seq(0..subscribed') /\ Len(consumers') = Len(consumers) + 1
    BY <2>2, <1>1, AppendProperties DEF Stream!Subscribe
  <2>4. fires' = fires /\ UNCHANGED <<fired, gone, Stream!history>>
    BY <1>1 DEF Stream!Subscribe
  <2>5. \A i \in 1..Len(fires) : fires[i].end <= Len(consumers') + 1
    BY <1>0, <1>a, <2>3
  <2> QED BY <2>1, <2>3, <2>4, <2>5 DEF Stream!TypeOK, Stream!history
<1>2. ASSUME NEW c \in Stream!Consumers, Stream!Terminate(c) PROVE Stream!TypeOK'
  <2>1. terminated' = terminated \cup {c} /\ c \in 1..subscribed /\ UNCHANGED <<subscribed, fires, fired, gone, Stream!history>>
    BY <1>2 DEF Stream!Terminate, Stream!Alive
  <2>2. consumers' \in Seq(0..subscribed) /\ Len(consumers') = Len(consumers)
    <3>1. PICK ends \in [1..Len(consumers) -> BOOLEAN] :
            consumers' = [i \in 1..Len(consumers) |-> IF ends[i] THEN 0 ELSE consumers[i]]
      <4> DEFINE cells == {i \in 1..Len(consumers) : consumers[i] = c}
                 ends == [i \in 1..Len(consumers) |-> i \in cells /\ \A j \in cells : i <= j]
      <4>1. consumers' = [i \in 1..Len(consumers) |-> IF ends[i] THEN 0 ELSE consumers[i]]
        BY <1>2 DEF Stream!Terminate
      <4>2. ends \in [1..Len(consumers) -> BOOLEAN]
        OBVIOUS
      <4> QED BY <4>1, <4>2
    <3>2. \A i \in 1..Len(consumers) : consumers'[i] \in 0..subscribed
      BY <1>0, <3>1, ElementOfSeq
    <3> QED BY <1>0, <3>1, <3>2, IsASeq
  <2> QED BY <2>1, <2>2 DEF Stream!TypeOK, Stream!history
<1>3. CASE Stream!Destroy
  <2>1. gone' = TRUE /\ UNCHANGED <<subscribed, fires, fired, Stream!history>>
    BY <1>3 DEF Stream!Destroy
  <2>2. terminated' \subseteq 1..subscribed
    BY <1>3 DEF Stream!Destroy, Stream!Alive, Stream!TypeOK
  <2>3. consumers' \in Seq(0..subscribed) /\ Len(consumers') = Len(consumers)
    BY <1>0, <1>3 DEF Stream!Destroy
  <2> QED BY <2>1, <2>2, <2>3 DEF Stream!TypeOK, Stream!history
<1>4. CASE Stream!FireForward
  <2>1. /\ fired' \in 1..MaxFires /\ fires' \in Seq(Stream!Fires) /\ Len(fires') <= MaxDepth
        /\ \A i \in 1..Len(fires') : fires'[i].end <= Len(consumers) + 1
    <3>1. ASSUME NEW i \in 1..Len(fires') PROVE fires'[i].end <= Len(consumers) + 1
      <4>1. CASE i = 1
        BY <1>0, <1>4, <4>1, Begins
      <4>2. CASE i # 1
        <5>1. PICK j \in 1..Len(fires) : fires'[i] = fires[j]
          BY <1>4, <4>2, Begins
        <5> QED BY <1>a, <5>1
      <4> QED BY <4>1, <4>2
    <3> QED BY <1>0, <1>4, <3>1, Begins
  <2>2. UNCHANGED <<consumers, subscribed, terminated, gone, got, twice, disturbed>>
    BY <1>4 DEF Stream!FireForward
  <2>3. wanted' \in [1..MaxFires -> SUBSET Stream!Consumers]
    <3>1. Stream!Alive \in SUBSET Stream!Consumers
      BY <1>0 DEF Stream!Alive, Stream!Consumers, Stream!TypeOK
    <3>2. wanted' = [wanted EXCEPT ![fired'] = Stream!Alive]
      BY <1>4 DEF Stream!FireForward
    <3> QED BY <3>1, <3>2 DEF Stream!TypeOK
  <2> QED BY <2>1, <2>2, <2>3 DEF Stream!TypeOK
<1>5. CASE Stream!PutNext
  <2>1. fires' \in Seq(Stream!Fires) /\ Len(fires') = Len(fires)
        /\ \A i \in 1..Len(fires) : fires'[i].end = fires[i].end
    BY <1>5, Puts, Innermost
  <2>2. UNCHANGED <<consumers, subscribed, terminated, fired, gone, wanted, disturbed>>
    BY <1>5 DEF Stream!PutNext
  <2>3. got' \in [1..MaxFires -> SUBSET Stream!Consumers]
    <3>1. consumers[Stream!Fire.it] \in Stream!Consumers
      BY <1>0, <1>5 DEF Stream!PutNext, Stream!Alive, Stream!Consumers, Stream!TypeOK
    <3>2. Stream!Fire.value \in 1..MaxFires
      BY <1>5, Puts, Places
    <3>3. got' = [got EXCEPT ![Stream!Fire.value] = got[Stream!Fire.value] \cup {consumers[Stream!Fire.it]}]
      BY <1>5 DEF Stream!PutNext
    <3> QED BY <3>1, <3>2, <3>3 DEF Stream!TypeOK
  <2>4. twice' \in BOOLEAN
    BY <1>5 DEF Stream!PutNext
  <2> QED BY <2>1, <2>2, <2>3, <2>4 DEF Stream!TypeOK
<1>6. CASE Stream!PutNextEnded
  <2>1. fires' \in Seq(Stream!Fires) /\ Len(fires') = Len(fires)
        /\ \A i \in 1..Len(fires) : fires'[i].end = fires[i].end
    BY <1>6, Skips, Innermost
  <2>2. UNCHANGED <<subscribed, terminated, fired, gone, Stream!history>>
    BY <1>6 DEF Stream!PutNextEnded
  <2>3. Stream!Fire.it \in Cells /\ 0 \in 0..subscribed
    BY <1>0, <1>6, Skips, Places DEF Cells
  <2>4. consumers' \in Seq(0..subscribed) /\ Len(consumers') = Len(consumers)
    BY <1>6, <2>3, CellSet DEF Stream!PutNextEnded
  <2> QED BY <2>1, <2>2, <2>4 DEF Stream!TypeOK, Stream!history
<1>7. CASE Stream!HandlerReturns
  <2>1. fires' \in Seq(Stream!Fires) /\ Len(fires') = Len(fires)
        /\ \A i \in 1..Len(fires) : fires'[i].end = fires[i].end
    BY <1>7, Returns, Innermost
  <2>2. UNCHANGED <<subscribed, terminated, fired, gone, wanted, got, twice>> /\ disturbed' \in BOOLEAN
    BY <1>7 DEF Stream!HandlerReturns, Stream!TypeOK
  <2>3. consumers' \in Seq(0..subscribed) /\ Len(consumers') = Len(consumers)
    <3>1. CASE Stream!Fire.removeFrom = 0
      BY <1>0, <1>7, <3>1 DEF Stream!HandlerReturns
    <3>2. CASE Stream!Fire.removeFrom # 0
      <4>1. consumers' = [consumers EXCEPT ![Stream!Fire.removeFrom] = consumers[Stream!Fire.it], ![Stream!Fire.it] = 0]
        BY <1>7, <3>2, Zenon DEF Stream!HandlerReturns
      <4> QED BY <1>7, <3>2, <4>1, Returns, CellMoved
    <3> QED BY <3>1, <3>2
  <2> QED BY <2>1, <2>2, <2>3 DEF Stream!TypeOK
<1>8. CASE Stream!Finish
  <2>1. UNCHANGED <<subscribed, terminated, fired, gone, wanted, got, twice>> /\ disturbed' \in BOOLEAN
    BY <1>8 DEF Stream!Finish, Stream!TypeOK
  <2>2. fires' \in Seq(Stream!Fires) /\ Len(fires') <= MaxDepth /\ consumers' \in Seq(0..subscribed)
    BY <1>0, <1>8, ListShrinks DEF Stream!TypeOK
  <2>3. \A i \in 1..Len(fires') : fires'[i].end <= Len(consumers') + 1
    <3>1. CASE Stream!Nested
      BY <1>8, <3>1, ListShrinks DEF Stream!TypeOK
    <3>2. CASE ~Stream!Nested
      <4>1. Len(fires') = 0
        BY <1>0, <1>8, <3>2, ListShrinks, Innermost DEF Stream!Nested
      <4> QED BY <4>1
    <3> QED BY <3>1, <3>2
  <2> QED BY <2>1, <2>2, <2>3 DEF Stream!TypeOK
<1>9. CASE UNCHANGED Stream!vars
  BY <1>9 DEF Stream!vars, Stream!history, Stream!TypeOK
<1> QED BY <1>1, <1>2, <1>3, <1>4, <1>5, <1>6, <1>7, <1>8, <1>9 DEF Stream!Next

\* A new consumer comes behind the others.
LEMMA Appends ==
    ASSUME Stream!TypeOK, Stream!Subscribe
    PROVE  /\ subscribed' = subscribed + 1 /\ Len(consumers') = Len(consumers) + 1
           /\ consumers'[Len(consumers) + 1] = subscribed + 1
           /\ \A k \in Cells : consumers'[k] = consumers[k]
           /\ UNCHANGED <<terminated, fires, fired, gone, Stream!history>>
<1>1. subscribed \in Nat /\ consumers \in Seq(0..subscribed) /\ subscribed' = subscribed + 1
  BY DEF Stream!TypeOK, Stream!Subscribe
<1>2. consumers \in Seq(Nat) /\ subscribed' \in Nat /\ consumers' = Append(consumers, subscribed')
  BY <1>1, SeqMonotonic DEF Stream!Subscribe
<1>3. /\ Len(consumers') = Len(consumers) + 1 /\ consumers'[Len(consumers) + 1] = subscribed'
      /\ \A k \in 1..Len(consumers) : consumers'[k] = consumers[k]
  BY <1>2, AppendProperties
<1> QED BY <1>1, <1>3 DEF Cells, Stream!Subscribe

\* The first cell of a consumer whose subscription ends is emptied.
LEMMA Empties ==
    ASSUME Stream!TypeOK, NEW c \in Stream!Consumers, Stream!Terminate(c)
    PROVE  /\ c \in Stream!Alive /\ terminated' = terminated \cup {c} /\ Len(consumers') = Len(consumers)
           /\ \A k \in Cells : consumers'[k] = 0 \/ consumers'[k] = consumers[k]
           /\ \A k \in Cells : consumers[k] # c => consumers'[k] = consumers[k]
           /\ \A k \in Cells : (\A j \in Cells : consumers[j] = c => j = k) /\ consumers[k] = c
                    => consumers'[k] = 0
           /\ UNCHANGED <<subscribed, fires, fired, gone, Stream!history>>
<1>1. c \in Stream!Alive /\ terminated' = terminated \cup {c} /\ UNCHANGED <<subscribed, fires, fired, gone, Stream!history>>
  BY DEF Stream!Terminate
<1>2. Len(consumers) \in Nat
  BY LenProperties DEF Stream!TypeOK
<1> DEFINE First(i) == consumers[i] = c /\ \A j \in Cells : consumers[j] = c => i <= j
<1>3. consumers' = [i \in Cells |-> IF First(i) THEN 0 ELSE consumers[i]]
  <2> DEFINE cells == {i \in 1..Len(consumers) : consumers[i] = c}
  <2>1. consumers' = [i \in 1..Len(consumers) |->
                         IF i \in cells /\ \A j \in cells : i <= j THEN 0 ELSE consumers[i]]
    BY DEF Stream!Terminate
  <2>2. \A i \in Cells : First(i) <=> i \in cells /\ \A j \in cells : i <= j
    BY DEF Cells
  <2> HIDE DEF First, cells
  <2> QED BY <2>1, <2>2 DEF Cells
<1>4. \A k \in Cells : consumers'[k] = IF First(k) THEN 0 ELSE consumers[k]
  BY <1>3
<1>5. Len(consumers') = Len(consumers)
  BY <1>2, <1>3 DEF Cells
<1>6. \A k \in Cells : (\A j \in Cells : consumers[j] = c => j = k) /\ consumers[k] = c => First(k)
  BY <1>2 DEF Cells
<1> QED BY <1>1, <1>4, <1>5, <1>6

\* All cells of a stream that is destroyed are emptied.
LEMMA Destroys ==
    ASSUME Stream!TypeOK, Stream!Destroy
    PROVE  /\ ~gone /\ gone' /\ Len(consumers') = Len(consumers)
           /\ \A k \in Cells : consumers'[k] = 0
           /\ terminated' = terminated \cup {c \in Stream!Alive : \E i \in Cells : consumers[i] = c}
           /\ UNCHANGED <<subscribed, fires, fired, Stream!history>>
<1>1. Len(consumers) \in Nat
  BY LenProperties DEF Stream!TypeOK
<1> QED BY <1>1 DEF Stream!Destroy, Cells

\* The stack is as described.
LEMMA FiresStep == StreamBounds /\ Stream!TypeOK /\ FiresOK /\ [Stream!Next]_(Stream!vars) => FiresOK'
<1> SUFFICES ASSUME StreamBounds, Stream!TypeOK, FiresOK, [Stream!Next]_(Stream!vars) PROVE FiresOK'
  OBVIOUS
<1>0. /\ subscribed \in Nat /\ fired \in Nat /\ Len(consumers) \in Nat /\ Len(fires) \in Nat
      /\ \A i \in 1..Len(fires) :
            /\ fires[i].it \in Nat /\ fires[i].removeFrom \in Nat /\ fires[i].end \in Nat
            /\ fires[i].value \in Nat /\ fires[i].running \in BOOLEAN
  <2>1. \A i \in 1..Len(fires) : fires[i] \in Stream!Fires
    BY ElementOfSeq DEF Stream!TypeOK
  <2>2. subscribed \in Nat /\ fired \in Nat /\ Len(consumers) \in Nat /\ Len(fires) \in Nat
    BY LenProperties DEF Stream!TypeOK
  <2> QED BY <2>1, <2>2 DEF Stream!Fires
<1>1. ASSUME fires' = fires, fired' = fired, Len(consumers') \in Nat, Len(consumers') >= Len(consumers)
      PROVE  FiresOK'
  BY <1>0, <1>1 DEF FiresOK
<1>2. ASSUME fires # <<>>, fired' = fired, Len(consumers') = Len(consumers), Len(fires') = Len(fires),
             \A i \in 1..Len(fires) : i # 1 => fires'[i] = fires[i],
             fires'[1].value = Stream!Fire.value, fires'[1].end = Stream!Fire.end,
             1 <= fires'[1].it, fires'[1].it <= Stream!Fire.end, fires'[1].removeFrom < fires'[1].it,
             fires'[1].running => fires'[1].it < Stream!Fire.end
      PROVE  FiresOK'
  <2>1. Stream!Fire = fires[1] /\ 1 \in 1..Len(fires)
    BY <1>2, Innermost
  <2>2. \A i \in 1..Len(fires') :
            /\ 1 <= fires'[i].it /\ fires'[i].it <= fires'[i].end
            /\ fires'[i].end <= Len(consumers') + 1
            /\ fires'[i].removeFrom < fires'[i].it /\ fires'[i].value <= fired'
            /\ fires'[i].running => fires'[i].it < fires'[i].end
            /\ i > 1 => fires'[i].running
    BY <1>0, <1>2, <2>1 DEF FiresOK
  <2>3. \A i \in 1..Len(fires) : fires'[i].value = fires[i].value
    BY <1>2, <2>1
  <2>4. \A i, j \in 1..Len(fires') : fires'[i].value = fires'[j].value => i = j
    BY <1>2, <2>3 DEF FiresOK
  <2> QED BY <2>2, <2>4 DEF FiresOK
<1>3. CASE Stream!Subscribe
  BY <1>0, <1>1, <1>3, Appends
<1>4. ASSUME NEW c \in Stream!Consumers, Stream!Terminate(c) PROVE FiresOK'
  BY <1>0, <1>1, <1>4, Empties
<1>5. CASE Stream!Destroy
  BY <1>0, <1>1, <1>5, Destroys
<1>6. CASE Stream!FireForward
  <2>1. Stream!HandlersTurn /\ consumers' = consumers
    BY <1>6 DEF Stream!FireForward
  <2>2. ASSUME NEW i \in 1..Len(fires') PROVE
            /\ 1 <= fires'[i].it /\ fires'[i].it <= fires'[i].end
            /\ fires'[i].end <= Len(consumers') + 1
            /\ fires'[i].removeFrom < fires'[i].it /\ fires'[i].value <= fired'
            /\ fires'[i].running => fires'[i].it < fires'[i].end
            /\ i > 1 => fires'[i].running
    <3>1. CASE i = 1
      BY <1>0, <1>6, <2>1, <3>1, Begins
    <3>2. CASE i # 1
      <4>1. PICK j \in 1..Len(fires) : j = i - 1 /\ fires'[i] = fires[j]
        BY <1>6, <3>2, Begins
      <4>2. fires[j].running
        <5>1. CASE j = 1
          <6>1. fires # <<>>
            BY <4>1, EmptySeq DEF Stream!TypeOK
          <6> QED BY <2>1, <5>1, <6>1, Innermost DEF Stream!HandlersTurn
        <5>2. CASE j # 1
          BY <1>0, <4>1, <5>2 DEF FiresOK
        <5> QED BY <5>1, <5>2
      <4>3. fires[j].value <= fired /\ fired' = fired + 1
        BY <1>6, <4>1, Begins DEF FiresOK
      <4> QED BY <1>0, <2>1, <4>1, <4>2, <4>3 DEF FiresOK
    <3> QED BY <3>1, <3>2
  <2>3. ASSUME NEW i \in 1..Len(fires'), NEW j \in 1..Len(fires'), fires'[i].value = fires'[j].value
        PROVE  i = j
    <3>1. \A k \in 1..Len(fires') : k # 1 => fires'[k].value <= fired /\ fires'[k].value \in Nat
      BY <1>0, <1>6, Begins DEF FiresOK
    <3>2. fires'[1].value > fired
      BY <1>0, <1>6, Begins
    <3>3. CASE i = 1 \/ j = 1
      BY <1>0, <2>3, <3>1, <3>2, <3>3
    <3>4. CASE i # 1 /\ j # 1
      <4>1. PICK k \in 1..Len(fires), l \in 1..Len(fires) :
                k = i - 1 /\ l = j - 1 /\ fires'[i] = fires[k] /\ fires'[j] = fires[l]
        BY <1>6, <3>4, Begins
      <4>2. k = l
        BY <2>3, <4>1 DEF FiresOK
      <4> QED BY <4>1, <4>2
    <3> QED BY <3>3, <3>4
  <2> QED BY <2>2, <2>3 DEF FiresOK
<1>7. CASE Stream!PutNext
  <2>1. consumers' = consumers /\ fired' = fired
    BY <1>7 DEF Stream!PutNext
  <2> QED BY <1>2, <1>7, <2>1, Puts, Places
<1>8. CASE Stream!PutNextEnded
  <2>1. fired' = fired
    BY <1>8 DEF Stream!PutNextEnded
  <2>2. Stream!Fire.it \in Cells /\ 0 \in 0..subscribed
    BY <1>0, <1>8, Skips, Places DEF Cells
  <2>3. Len(consumers') = Len(consumers)
    BY <1>8, <2>2, CellSet DEF Stream!PutNextEnded
  <2>4. 1 <= fires'[1].it /\ fires'[1].it <= Stream!Fire.end /\ fires'[1].removeFrom < fires'[1].it
    BY <1>8, Skips, Places
  <2> QED BY <1>2, <1>8, <2>1, <2>3, <2>4, Skips
<1>9. CASE Stream!HandlerReturns
  <2>1. fired' = fired
    BY <1>9 DEF Stream!HandlerReturns
  <2>2. Len(consumers') = Len(consumers)
    <3>1. CASE Stream!Fire.removeFrom = 0
      BY <1>9, <3>1 DEF Stream!HandlerReturns
    <3>2. CASE Stream!Fire.removeFrom # 0
      <4>1. consumers' = [consumers EXCEPT ![Stream!Fire.removeFrom] = consumers[Stream!Fire.it], ![Stream!Fire.it] = 0]
        BY <1>9, <3>2, Zenon DEF Stream!HandlerReturns
      <4> QED BY <1>9, <3>2, <4>1, Returns, CellMoved
    <3> QED BY <3>1, <3>2
  <2>3. 1 <= fires'[1].it /\ fires'[1].it <= Stream!Fire.end /\ fires'[1].removeFrom < fires'[1].it
    BY <1>9, Returns, Places
  <2> QED BY <1>2, <1>9, <2>1, <2>2, <2>3, Returns
<1>10. CASE Stream!Finish
  <2>1. CASE Stream!Nested
    <3>1. fired' = fired /\ Len(consumers') = Len(consumers)
      BY <1>10, <2>1, ListShrinks DEF Stream!Finish
    <3>2. \A i \in 1..Len(fires') : i + 1 \in 1..Len(fires) /\ fires'[i] = fires[i + 1]
      BY <1>10, ListShrinks
    <3>3. \A i \in 1..Len(fires') : fires'[i].running
      BY <1>0, <3>2 DEF FiresOK
    <3>4. \A i \in 1..Len(fires') :
            /\ 1 <= fires'[i].it /\ fires'[i].it <= fires'[i].end
            /\ fires'[i].end <= Len(consumers') + 1
            /\ fires'[i].removeFrom < fires'[i].it /\ fires'[i].value <= fired'
            /\ fires'[i].running => fires'[i].it < fires'[i].end
      BY <3>1, <3>2 DEF FiresOK
    <3>5. ASSUME NEW i \in 1..Len(fires'), NEW j \in 1..Len(fires'), fires'[i].value = fires'[j].value
          PROVE  i = j
      <4>1. i + 1 = j + 1
        BY <3>2, <3>5 DEF FiresOK
      <4> QED BY <4>1
    <3> QED BY <3>3, <3>4, <3>5 DEF FiresOK
  <2>2. CASE ~Stream!Nested
    <3>1. Len(fires') = 0
      BY <1>0, <1>10, <2>2, ListShrinks, Innermost DEF Stream!Nested
    <3> QED BY <3>1 DEF FiresOK
  <2> QED BY <2>1, <2>2
<1>11. CASE UNCHANGED Stream!vars
  BY <1>11 DEF Stream!vars, FiresOK
<1> QED BY <1>3, <1>4, <1>5, <1>6, <1>7, <1>8, <1>9, <1>10, <1>11 DEF Stream!Next

\* What was given and wanted is.
LEMMA ValuesStep == StreamBounds /\ Stream!TypeOK /\ FiresOK /\ ValuesOK /\ [Stream!Next]_(Stream!vars) => ValuesOK'
<1> SUFFICES ASSUME StreamBounds, Stream!TypeOK, FiresOK, ValuesOK, [Stream!Next]_(Stream!vars) PROVE ValuesOK'
  OBVIOUS
<1>0. subscribed \in Nat /\ fired \in Nat
  BY DEF Stream!TypeOK
<1>1. CASE Stream!Subscribe
  BY <1>0, <1>1, Appends DEF ValuesOK, Stream!history
<1>2. CASE Stream!FireForward
  <2>1. wanted' = [wanted EXCEPT ![fired'] = Stream!Alive] /\ got' = got /\ subscribed' = subscribed
    BY <1>2 DEF Stream!FireForward
  <2>2. Stream!Alive \subseteq 1..subscribed
    BY DEF Stream!Alive
  <2>3. \A v \in 1..MaxFires : v > fired' => got'[v] = {}
    BY <1>0, <1>2, <2>1, Begins DEF ValuesOK, StreamBounds
  <2>4. \A v \in 1..MaxFires : wanted'[v] \subseteq 1..subscribed'
    BY <2>1, <2>2 DEF ValuesOK, Stream!TypeOK
  <2> QED BY <2>3, <2>4 DEF ValuesOK
<1>3. CASE Stream!PutNext
  <2>1. /\ got' = [got EXCEPT ![Stream!Fire.value] = got[Stream!Fire.value] \cup {consumers[Stream!Fire.it]}]
        /\ wanted' = wanted /\ fired' = fired /\ subscribed' = subscribed
    BY <1>3 DEF Stream!PutNext
  <2>2. Stream!Fire.value \in 1..MaxFires /\ Stream!Fire.value <= fired
    BY <1>3, Puts, Places
  <2> QED BY <1>0, <2>1, <2>2 DEF ValuesOK, Stream!TypeOK, StreamBounds
<1>4. ASSUME UNCHANGED <<got, wanted, fired, subscribed>> PROVE ValuesOK'
  BY <1>4 DEF ValuesOK
<1>5. ASSUME NEW c \in Stream!Consumers, Stream!Terminate(c) PROVE ValuesOK'
  BY <1>4, <1>5 DEF Stream!Terminate, Stream!history
<1>6. CASE Stream!Destroy \/ UNCHANGED Stream!vars
  BY <1>4, <1>6 DEF Stream!Destroy, Stream!vars, Stream!history
<1>7. CASE Stream!PutNextEnded
  BY <1>4, <1>7 DEF Stream!PutNextEnded, Stream!history
<1>8. CASE Stream!HandlerReturns
  BY <1>4, <1>8 DEF Stream!HandlerReturns
<1>9. CASE Stream!Finish
  BY <1>4, <1>9 DEF Stream!Finish
<1> QED BY <1>1, <1>2, <1>3, <1>5, <1>6, <1>7, <1>8, <1>9 DEF Stream!Next

\* A cell without a consumer that goes on is empty already, so nothing is lost there.
LEMMA SkipsKeep ==
    ASSUME Stream!TypeOK, FiresOK, CellsOK, Stream!PutNextEnded
    PROVE  consumers' = consumers
<1>1. fires # <<>> /\ Stream!Fire.it < Stream!Fire.end /\ consumers[Stream!Fire.it] \notin Stream!Alive
      /\ consumers' = [consumers EXCEPT ![Stream!Fire.it] = 0]
  BY DEF Stream!PutNextEnded, Stream!LoopsTurn
<1>2. Stream!Fire.it \in Cells
  BY <1>1, Places, Innermost DEF Cells
<1>3. consumers[Stream!Fire.it] = 0
  BY <1>1, <1>2 DEF CellsOK
<1>4. consumers \in Seq(0..subscribed) /\ consumers' \in Seq(0..subscribed) /\ Len(consumers') = Len(consumers)
      /\ \A k \in Cells : consumers'[k] = consumers[k]
  <2>1. consumers \in Seq(0..subscribed) /\ 0 \in 0..subscribed
    BY DEF Stream!TypeOK
  <2> QED BY <1>1, <1>2, <1>3, <2>1, CellSet
<1> QED BY <1>4, SeqEqual DEF Cells

\* When the handler returns nothing is moved, or the only call moves the consumer it was at.
LEMMA ReturnsTo ==
    ASSUME Stream!TypeOK, FiresOK, Stream!HandlerReturns, ~disturbed'
    PROVE  \/ Stream!Fire.removeFrom = 0 /\ consumers' = consumers
           \/ /\ Stream!Fire.removeFrom # 0 /\ Len(fires) = 1
              /\ Stream!Fire.removeFrom \in Cells /\ Stream!Fire.it \in Cells /\ Stream!Fire.removeFrom < Stream!Fire.it
              /\ Len(consumers') = Len(consumers)
              /\ \A j \in Cells : consumers'[j] = IF j = Stream!Fire.it THEN 0
                                                  ELSE IF j = Stream!Fire.removeFrom THEN consumers[Stream!Fire.it]
                                                  ELSE consumers[j]
<1>1. CASE Stream!Fire.removeFrom = 0
  BY <1>1 DEF Stream!HandlerReturns
<1>2. CASE Stream!Fire.removeFrom # 0
  <2>1. consumers' = [consumers EXCEPT ![Stream!Fire.removeFrom] = consumers[Stream!Fire.it], ![Stream!Fire.it] = 0]
    BY <1>2, Zenon DEF Stream!HandlerReturns
  <2>2. ~Stream!Nested /\ fires # <<>> /\ Stream!Fire.running
    BY <1>2, Zenon DEF Stream!HandlerReturns
  <2>3. Len(fires) \in Nat \ {0}
    BY <2>2, Innermost
  <2>4. Len(fires) = 1
    BY <2>2, <2>3 DEF Stream!Nested
  <2> QED BY <1>2, <2>1, <2>2, <2>4, CellMoved, Places
<1> QED BY <1>1, <1>2

\* What was counted stays counted.
LEMMA StaysDisturbed == Stream!TypeOK /\ [Stream!Next]_(Stream!vars) /\ disturbed => disturbed'
<1> SUFFICES ASSUME [Stream!Next]_(Stream!vars), disturbed PROVE disturbed'
  OBVIOUS
<1>1. ASSUME NEW c \in Stream!Consumers, Stream!Terminate(c) PROVE disturbed'
  BY <1>1 DEF Stream!Terminate, Stream!history
<1>2. CASE Stream!Subscribe \/ Stream!Destroy \/ Stream!FireForward \/ UNCHANGED Stream!vars
  BY <1>2 DEF Stream!Subscribe, Stream!Destroy, Stream!FireForward, Stream!vars, Stream!history
<1>3. CASE Stream!PutNext
  BY <1>3 DEF Stream!PutNext
<1>4. CASE Stream!PutNextEnded
  BY <1>4 DEF Stream!PutNextEnded, Stream!history
<1>5. CASE Stream!HandlerReturns
  BY <1>5, Zenon DEF Stream!HandlerReturns
<1>6. CASE Stream!Finish
  BY <1>6, Zenon DEF Stream!Finish
<1> QED BY <1>1, <1>2, <1>3, <1>4, <1>5, <1>6 DEF Stream!Next

\* The consumers stay in their cells.
LEMMA CellsStep == StreamBounds /\ StreamIInv /\ [Stream!Next]_(Stream!vars) /\ ~disturbed' => CellsOK'
<1> SUFFICES ASSUME StreamBounds, StreamIInv, [Stream!Next]_(Stream!vars), ~disturbed' PROVE CellsOK'
  OBVIOUS
<1>0. /\ Stream!TypeOK /\ FiresOK /\ CellsOK /\ RemovedOK
      /\ subscribed \in Nat /\ terminated \subseteq 1..subscribed /\ Len(consumers) \in Nat
  BY StaysDisturbed, LenProperties DEF StreamIInv, LoopsOK, Stream!TypeOK
<1>1. ASSUME UNCHANGED <<consumers, subscribed, terminated, gone>> PROVE CellsOK'
  BY <1>0, <1>1 DEF CellsOK, Cells, Stream!Alive
<1>2. CASE Stream!Subscribe
  <2>1. /\ subscribed' = subscribed + 1 /\ Len(consumers') = Len(consumers) + 1
        /\ consumers'[Len(consumers) + 1] = subscribed + 1
        /\ \A k \in Cells : consumers'[k] = consumers[k]
        /\ terminated' = terminated /\ gone' = gone
    BY <1>0, <1>2, Appends
  <2>2. Stream!Alive' = Stream!Alive \cup {subscribed + 1} /\ subscribed + 1 \notin Stream!Alive
    BY <1>0, <2>1 DEF Stream!Alive
  <2>3. Cells' = Cells \cup {Len(consumers) + 1} /\ Len(consumers) + 1 \notin Cells
    BY <1>0, <2>1 DEF Cells
  <2>4. \A i \in Cells' : consumers'[i] \in Stream!Alive' \cup {0}
    BY <1>0, <2>1, <2>2, <2>3 DEF CellsOK
  <2>5. \A i \in Cells : consumers[i] # subscribed + 1
    BY <1>0, <2>2 DEF CellsOK
  <2>6. \A i, j \in Cells' : consumers'[i] = consumers'[j] => i = j \/ consumers'[i] = 0
    BY <1>0, <2>1, <2>3, <2>5 DEF CellsOK
  <2>7. ~gone' => \A c \in Stream!Alive' : \E i \in Cells' : consumers'[i] = c
    BY <1>0, <2>1, <2>2, <2>3 DEF CellsOK
  <2> QED BY <2>4, <2>6, <2>7 DEF CellsOK
<1>3. ASSUME NEW c \in Stream!Consumers, Stream!Terminate(c) PROVE CellsOK'
  <2>1. /\ c \in Stream!Alive /\ terminated' = terminated \cup {c} /\ Len(consumers') = Len(consumers)
        /\ \A k \in Cells : consumers'[k] = 0 \/ consumers'[k] = consumers[k]
        /\ \A k \in Cells : consumers[k] # c => consumers'[k] = consumers[k]
        /\ \A k \in Cells : (\A j \in Cells : consumers[j] = c => j = k) /\ consumers[k] = c
                    => consumers'[k] = 0
        /\ subscribed' = subscribed /\ gone' = gone
    BY <1>0, <1>3, Empties
  <2>2. Stream!Alive' = Stream!Alive \ {c} /\ Cells' = Cells /\ c # 0
    BY <1>0, <2>1 DEF Stream!Alive, Cells
  <2>3. \A k \in Cells : consumers[k] = c => consumers'[k] = 0
    BY <1>0, <2>1, <2>2 DEF CellsOK
  <2>4. \A i \in Cells : consumers'[i] \in Stream!Alive' \cup {0}
    BY <1>0, <2>1, <2>2, <2>3 DEF CellsOK
  <2>5. \A i, j \in Cells : consumers'[i] = consumers'[j] => i = j \/ consumers'[i] = 0
    BY <1>0, <2>1 DEF CellsOK
  <2>6. ~gone => \A d \in Stream!Alive' : \E i \in Cells : consumers'[i] = d
    BY <1>0, <2>1, <2>2 DEF CellsOK
  <2> QED BY <2>1, <2>2, <2>4, <2>5, <2>6 DEF CellsOK
<1>4. CASE Stream!Destroy
  <2>1. gone' /\ Len(consumers') = Len(consumers) /\ \A k \in Cells : consumers'[k] = 0
    BY <1>0, <1>4, Destroys
  <2>2. Cells' = Cells
    BY <2>1 DEF Cells
  <2> QED BY <2>1, <2>2 DEF CellsOK
<1>5. CASE Stream!FireForward \/ Stream!PutNext \/ UNCHANGED Stream!vars
  BY <1>1, <1>5 DEF Stream!FireForward, Stream!PutNext, Stream!vars
<1>6. CASE Stream!PutNextEnded
  <2>1. UNCHANGED <<subscribed, terminated, gone>>
    BY <1>6 DEF Stream!PutNextEnded
  <2> QED BY <1>0, <1>1, <1>6, <2>1, SkipsKeep
<1>7. CASE Stream!HandlerReturns
  <2>1. UNCHANGED <<subscribed, terminated, gone>>
    BY <1>7 DEF Stream!HandlerReturns
  <2>2. CASE Stream!Fire.removeFrom = 0
    BY <1>0, <1>1, <1>7, <2>1, <2>2, ReturnsTo
  <2>3. CASE Stream!Fire.removeFrom # 0
    <3>1. /\ Len(fires) = 1 /\ Stream!Fire.removeFrom \in Cells /\ Stream!Fire.it \in Cells
          /\ Stream!Fire.removeFrom < Stream!Fire.it /\ Len(consumers') = Len(consumers)
          /\ \A j \in Cells : consumers'[j] = IF j = Stream!Fire.it THEN 0
                                              ELSE IF j = Stream!Fire.removeFrom THEN consumers[Stream!Fire.it]
                                              ELSE consumers[j]
      BY <1>0, <1>7, <2>3, ReturnsTo
    <3>2. fires # <<>> /\ Stream!Fire = fires[1] /\ 1 \in 1..Len(fires)
      BY <1>0, <1>7, Innermost DEF Stream!HandlerReturns
    <3>3. consumers[Stream!Fire.removeFrom] = 0
      BY <1>0, <2>3, <3>1, <3>2 DEF RemovedOK, Cells
    <3>4. Cells' = Cells /\ Stream!Alive' = Stream!Alive /\ Stream!Fire.removeFrom # Stream!Fire.it
      BY <1>0, <2>1, <3>1 DEF Cells, Stream!Alive
    <3>5. \A i \in Cells : consumers'[i] \in Stream!Alive \cup {0}
      BY <1>0, <3>1 DEF CellsOK
    <3>6. \A i, j \in Cells : consumers'[i] = consumers'[j] => i = j \/ consumers'[i] = 0
      BY <1>0, <3>1 DEF CellsOK
    <3>7. ASSUME ~gone, NEW c \in Stream!Alive PROVE \E i \in Cells : consumers'[i] = c
      <4>1. PICK i \in Cells : consumers[i] = c
        BY <1>0, <3>7 DEF CellsOK
      <4>2. c # 0
        BY <1>0 DEF Stream!Alive
      <4>3. CASE i = Stream!Fire.it
        BY <3>1, <3>4, <4>1, <4>3
      <4>4. CASE i # Stream!Fire.it
        BY <3>1, <3>3, <4>1, <4>2, <4>4
      <4> QED BY <4>3, <4>4
    <3> QED BY <2>1, <3>4, <3>5, <3>6, <3>7 DEF CellsOK
  <2> QED BY <2>2, <2>3
<1>8. CASE Stream!Finish
  <2>1. UNCHANGED <<subscribed, terminated, gone>>
    BY <1>8 DEF Stream!Finish
  <2>2. CASE Stream!Nested \/ Stream!Fire.removeFrom = 0
    BY <1>0, <1>1, <1>8, <2>1, <2>2, ListShrinks
  <2>3. CASE ~Stream!Nested /\ Stream!Fire.removeFrom # 0
    <3>1. PICK r \in Nat, e \in Nat : r = Stream!Fire.removeFrom /\ e = Stream!Fire.end
      BY <1>0, <1>8, ListShrinks, Places
    <3>2. r < e /\ r # 0 /\ e <= Len(consumers) + 1 /\ Stream!Fire.it = e
      BY <1>0, <1>8, <2>3, <3>1, ListShrinks, Places
    <3>3. /\ Len(consumers') = Len(consumers) - (e - r)
          /\ \A k \in 1..Len(consumers') :
                consumers'[k] = IF k < r THEN consumers[k] ELSE consumers[k + (e - r)]
      BY <1>0, <1>8, <2>3, <3>1, ListShrinks
    <3>4. \A k \in Cells : r <= k /\ k < e => consumers[k] = 0
      <4>1. Stream!Fire = fires[1] /\ 1 \in 1..Len(fires)
        BY <1>0, <1>8, ListShrinks, Innermost
      <4> QED BY <1>0, <3>1, <3>2, <4>1 DEF RemovedOK
    <3> DEFINE From(k) == IF k < r THEN k ELSE k + (e - r)
    <3>5. \A k \in Cells' : From(k) \in Cells /\ consumers'[k] = consumers[From(k)]
      <4> SUFFICES ASSUME NEW k \in Cells' PROVE From(k) \in Cells /\ consumers'[k] = consumers[From(k)]
        OBVIOUS
      <4>1. From(k) \in Cells
        BY <1>0, <3>2, <3>3 DEF Cells
      <4>2. consumers'[k] = IF k < r THEN consumers[k] ELSE consumers[k + (e - r)]
        BY <3>3 DEF Cells
      <4> QED BY <4>1, <4>2
    <3>6. \A k, l \in Cells' : From(k) = From(l) => k = l
      BY <1>0, <3>2, <3>3 DEF Cells
    <3>7. \A i \in Cells : consumers[i] # 0 => \E k \in Cells' : From(k) = i
      <4> SUFFICES ASSUME NEW i \in Cells, consumers[i] # 0 PROVE \E k \in Cells' : From(k) = i
        OBVIOUS
      <4>1. i < r \/ i >= e
        BY <1>0, <3>2, <3>4 DEF Cells
      <4>2. CASE i < r
        <5>1. i \in Cells' /\ From(i) = i
          BY <1>0, <3>2, <3>3, <4>2 DEF Cells
        <5> QED BY <5>1
      <4>3. CASE i >= e
        <5>1. i - (e - r) \in Cells' /\ From(i - (e - r)) = i
          BY <1>0, <3>2, <3>3, <4>3 DEF Cells
        <5> QED BY <5>1
      <4> QED BY <4>1, <4>2, <4>3
    <3> HIDE DEF From
    <3>8. Stream!Alive' = Stream!Alive /\ \A c \in Stream!Alive : c # 0
      BY <1>0, <2>1 DEF Stream!Alive
    <3>9. \A i \in Cells' : consumers'[i] \in Stream!Alive \cup {0}
      BY <1>0, <3>5 DEF CellsOK
    <3>10. \A i, j \in Cells' : consumers'[i] = consumers'[j] => i = j \/ consumers'[i] = 0
      BY <1>0, <3>5, <3>6 DEF CellsOK
    <3>11. ASSUME ~gone, NEW c \in Stream!Alive PROVE \E i \in Cells' : consumers'[i] = c
      <4>1. PICK i \in Cells : consumers[i] = c
        BY <1>0, <3>11 DEF CellsOK
      <4> QED BY <3>5, <3>7, <3>8, <4>1
    <3> QED BY <2>1, <3>8, <3>9, <3>10, <3>11 DEF CellsOK
  <2> QED BY <2>2, <2>3
<1> QED BY <1>2, <1>3, <1>4, <1>5, <1>6, <1>7, <1>8 DEF Stream!Next

\* The end of a call that leaves the list, or leaves no call.
LEMMA FinishKeeps ==
    ASSUME Stream!TypeOK, FiresOK, Stream!Finish, ~disturbed'
    PROVE  Len(fires') = 0 \/ consumers' = consumers
<1>1. CASE Stream!Nested \/ Stream!Fire.removeFrom = 0
  BY <1>1, ListShrinks
<1>2. CASE ~Stream!Nested
  <2>1. fires # <<>> /\ Len(fires') = Len(fires) - 1
    BY ListShrinks
  <2>2. Len(fires) \in Nat \ {0}
    BY <2>1, Innermost
  <2> QED BY <1>2, <2>1, <2>2 DEF Stream!Nested
<1> QED BY <1>1, <1>2

\* Removed cells stay empty.
LEMMA RemovedStep == StreamBounds /\ StreamIInv /\ [Stream!Next]_(Stream!vars) /\ ~disturbed' => RemovedOK'
<1> SUFFICES ASSUME StreamBounds, StreamIInv, [Stream!Next]_(Stream!vars), ~disturbed' PROVE RemovedOK'
  OBVIOUS
<1>0. /\ Stream!TypeOK /\ FiresOK /\ CellsOK /\ RemovedOK /\ Len(consumers) \in Nat /\ Len(fires) \in Nat
      /\ \A i \in 1..Len(fires) :
            fires[i].it \in Nat /\ fires[i].removeFrom \in Nat /\ fires[i].end \in Nat
  <2>1. Stream!TypeOK /\ FiresOK /\ CellsOK /\ RemovedOK
    BY StaysDisturbed DEF StreamIInv, LoopsOK
  <2>2. Len(consumers) \in Nat /\ Len(fires) \in Nat /\ \A i \in 1..Len(fires) : fires[i] \in Stream!Fires
    BY <2>1, LenProperties, ElementOfSeq DEF Stream!TypeOK
  <2> QED BY <2>1, <2>2 DEF Stream!Fires
<1>1. ASSUME fires' = fires, Len(consumers') \in Nat,
             \A k \in Cells : consumers'[k] = 0 \/ consumers'[k] = consumers[k]
      PROVE  RemovedOK'
  <2> SUFFICES ASSUME NEW i \in 1..Len(fires), fires[i].removeFrom # 0,
                      NEW k \in Cells', fires[i].removeFrom <= k, k < fires[i].it
               PROVE  consumers'[k] = 0
    BY <1>1 DEF RemovedOK
  <2>1. k \in Cells
    BY <1>0, <1>1 DEF FiresOK, Cells
  <2> QED BY <1>0, <1>1, <2>1 DEF RemovedOK
<1>2. CASE Stream!Subscribe
  BY <1>0, <1>1, <1>2, Appends
<1>3. ASSUME NEW c \in Stream!Consumers, Stream!Terminate(c) PROVE RemovedOK'
  BY <1>0, <1>1, <1>3, Empties
<1>4. CASE Stream!Destroy
  BY <1>0, <1>1, <1>4, Destroys
<1>5. CASE UNCHANGED Stream!vars
  BY <1>0, <1>1, <1>5 DEF Stream!vars
<1>6. CASE Stream!FireForward
  <2>1. consumers' = consumers
    BY <1>6 DEF Stream!FireForward
  <2>2. ASSUME NEW i \in 1..Len(fires'), fires'[i].removeFrom # 0
        PROVE  \E j \in 1..Len(fires) : fires'[i] = fires[j]
    BY <1>0, <1>6, <2>2, Begins
  <2> QED BY <1>0, <2>1, <2>2 DEF RemovedOK, Cells
<1>7. CASE Stream!PutNext
  <2>1. consumers' = consumers
    BY <1>7 DEF Stream!PutNext
  <2>2. fires # <<>> /\ Stream!Fire = fires[1] /\ Len(fires') = Len(fires)
    BY <1>0, <1>7, Puts, Innermost
  <2>3. \A i \in 1..Len(fires) : fires'[i].removeFrom = fires[i].removeFrom /\ fires'[i].it = fires[i].it
    BY <1>0, <1>7, <2>2, Puts
  <2> QED BY <1>0, <2>1, <2>2, <2>3 DEF RemovedOK, Cells
<1>8. CASE Stream!PutNextEnded
  <2>1. consumers' = consumers
    BY <1>0, <1>8, SkipsKeep
  <2>2. fires # <<>> /\ Stream!Fire = fires[1] /\ Len(fires') = Len(fires) /\ 1 \in 1..Len(fires)
    BY <1>0, <1>8, Skips, Innermost
  <2>3. Stream!Fire.it \in Cells
    BY <1>0, <1>8, Skips, Places DEF Cells
  <2>4. consumers[Stream!Fire.it] = 0
    BY <1>0, <1>8, <2>3 DEF Stream!PutNextEnded, CellsOK
  <2>5. ASSUME NEW i \in 1..Len(fires), fires'[i].removeFrom # 0,
               NEW k \in Cells, fires'[i].removeFrom <= k, k < fires'[i].it
        PROVE  consumers[k] = 0
    <3>1. CASE i # 1
      <4>1. fires'[i] = fires[i]
        BY <1>0, <1>8, <3>1, Skips
      <4> QED BY <1>0, <2>5, <4>1 DEF RemovedOK
    <3>2. CASE i = 1
      <4>1. /\ fires'[i].it = Stream!Fire.it + 1
            /\ fires'[i].removeFrom = IF Stream!Fire.removeFrom = 0 THEN Stream!Fire.it ELSE Stream!Fire.removeFrom
        BY <1>0, <1>8, <3>2, Skips
      <4>2. Stream!Fire.it \in Nat /\ k \in Nat
        BY <1>0, <2>2 DEF Cells
      <4>3. CASE k = Stream!Fire.it
        BY <2>4, <4>3
      <4>4. CASE k # Stream!Fire.it
        <5>1. k < Stream!Fire.it /\ Stream!Fire.removeFrom # 0 /\ Stream!Fire.removeFrom <= k
          BY <2>5, <4>1, <4>2, <4>4
        <5> QED BY <1>0, <2>2, <5>1 DEF RemovedOK
      <4> QED BY <4>3, <4>4
    <3> QED BY <3>1, <3>2
  <2> QED BY <2>1, <2>2, <2>5 DEF RemovedOK, Cells
<1>9. CASE Stream!HandlerReturns
  <2>1. fires # <<>> /\ Stream!Fire = fires[1] /\ Len(fires') = Len(fires) /\ 1 \in 1..Len(fires)
    BY <1>0, <1>9, Returns, Innermost
  <2>2. CASE Stream!Fire.removeFrom = 0
    <3>1. consumers' = consumers /\ fires'[1].removeFrom = 0
      BY <1>0, <1>9, <2>2, ReturnsTo, Returns
    <3>2. \A i \in 1..Len(fires) : i # 1 => fires'[i] = fires[i]
      BY <1>0, <1>9, Returns
    <3> QED BY <1>0, <2>1, <3>1, <3>2 DEF RemovedOK, Cells
  <2>3. CASE Stream!Fire.removeFrom # 0
    <3>1. /\ Len(fires) = 1 /\ Stream!Fire.removeFrom < Stream!Fire.it /\ Len(consumers') = Len(consumers)
          /\ \A j \in Cells : consumers'[j] = IF j = Stream!Fire.it THEN 0
                                              ELSE IF j = Stream!Fire.removeFrom THEN consumers[Stream!Fire.it]
                                              ELSE consumers[j]
      BY <1>0, <1>9, <2>3, ReturnsTo
    <3>2. fires'[1].it = Stream!Fire.it + 1 /\ fires'[1].removeFrom = Stream!Fire.removeFrom + 1
      BY <1>0, <1>9, <2>3, Returns
    <3>3. ASSUME NEW k \in Cells, Stream!Fire.removeFrom + 1 <= k, k < Stream!Fire.it + 1 PROVE consumers'[k] = 0
      <4>0. Stream!Fire.it \in Nat /\ Stream!Fire.removeFrom \in Nat /\ k \in Nat
        BY <1>0, <2>1 DEF Cells
      <4>1. CASE k = Stream!Fire.it
        BY <3>1, <4>1
      <4>2. CASE k # Stream!Fire.it
        <5>1. k < Stream!Fire.it /\ Stream!Fire.removeFrom <= k /\ k # Stream!Fire.removeFrom
          BY <3>3, <4>0, <4>2
        <5> QED BY <1>0, <2>1, <2>3, <3>1, <5>1 DEF RemovedOK
      <4> QED BY <4>1, <4>2
    <3>4. Cells' = Cells /\ \A i \in 1..Len(fires') : i = 1
      BY <2>1, <3>1 DEF Cells
    <3> QED BY <3>2, <3>3, <3>4 DEF RemovedOK
  <2> QED BY <2>2, <2>3
<1>10. CASE Stream!Finish
  <2>1. CASE Len(fires') = 0
    BY <2>1 DEF RemovedOK
  <2>2. CASE consumers' = consumers
    <3>1. \A i \in 1..Len(fires') : i + 1 \in 1..Len(fires) /\ fires'[i] = fires[i + 1]
      BY <1>0, <1>10, ListShrinks
    <3> QED BY <1>0, <2>2, <3>1 DEF RemovedOK, Cells
  <2> QED BY <1>0, <1>10, <2>1, <2>2, FinishKeeps
<1> QED BY <1>2, <1>3, <1>4, <1>5, <1>6, <1>7, <1>8, <1>9, <1>10 DEF Stream!Next

\* What the steps below need of the calls.
LEMMA CallTypes ==
    ASSUME Stream!TypeOK, FiresOK, ValuesOK
    PROVE  /\ Len(consumers) \in Nat /\ Len(fires) \in Nat /\ fired \in Nat
           /\ \A i \in 1..Len(fires) :
                /\ fires[i].value \in 1..MaxFires /\ fires[i].value <= fired
                /\ fires[i].it \in Nat /\ fires[i].end \in Nat /\ fires[i].running \in BOOLEAN
                /\ fires[i].end <= Len(consumers) + 1 /\ 1 <= fires[i].it
                /\ \A c \in wanted[fires[i].value] \ terminated : c \in Stream!Alive
                /\ 0 \notin got[fires[i].value]
<1>1. Len(consumers) \in Nat /\ Len(fires) \in Nat /\ fired \in Nat
  BY LenProperties DEF Stream!TypeOK
<1>2. ASSUME NEW i \in 1..Len(fires)
      PROVE  /\ fires[i].value \in 1..MaxFires /\ fires[i].value <= fired
             /\ fires[i].it \in Nat /\ fires[i].end \in Nat /\ fires[i].running \in BOOLEAN
             /\ fires[i].end <= Len(consumers) + 1 /\ 1 <= fires[i].it
  <2>1. fires[i] \in Stream!Fires
    BY ElementOfSeq DEF Stream!TypeOK
  <2> QED BY <2>1 DEF Stream!Fires, FiresOK
<1>3. ASSUME NEW v \in 1..MaxFires
      PROVE  (\A c \in wanted[v] \ terminated : c \in Stream!Alive) /\ 0 \notin got[v]
  BY DEF ValuesOK, Stream!TypeOK, Stream!Alive, Stream!Consumers
<1> QED BY <1>1, <1>2, <1>3

\* Whoever is still to be told of a value is ahead of its call, whoever was is not.
LEMMA RestStep == StreamBounds /\ StreamIInv /\ [Stream!Next]_(Stream!vars) /\ ~disturbed' => RestOK'
<1> SUFFICES ASSUME StreamBounds, StreamIInv, [Stream!Next]_(Stream!vars), ~disturbed' PROVE RestOK'
  OBVIOUS
<1>a. Stream!TypeOK /\ FiresOK /\ ValuesOK /\ CellsOK /\ RestOK
  BY StaysDisturbed DEF StreamIInv, LoopsOK
<1>b. /\ Len(consumers) \in Nat /\ Len(fires) \in Nat /\ fired \in Nat
      /\ \A i \in 1..Len(fires) :
            /\ fires[i].value \in 1..MaxFires /\ fires[i].value <= fired
            /\ fires[i].it \in Nat /\ fires[i].end \in Nat /\ fires[i].running \in BOOLEAN
            /\ fires[i].end <= Len(consumers) + 1 /\ 1 <= fires[i].it
            /\ \A c \in wanted[fires[i].value] \ terminated : c \in Stream!Alive
            /\ 0 \notin got[fires[i].value]
  BY <1>a, CallTypes
<1> DEFINE Awaits(f, c) == \E k \in Cells : Ahead(f, k) /\ consumers[k] = c
           ToTell(i) == wanted[fires[i].value] \ (terminated \cup got[fires[i].value])
<1>c. /\ \A i \in 1..Len(fires) : \A c \in ToTell(i) : Awaits(fires[i], c)
      /\ \A i \in 1..Len(fires) : \A k \in Cells :
            Ahead(fires[i], k) => consumers[k] \notin got[fires[i].value]
  BY <1>a DEF RestOK
<1>1. CASE Stream!Subscribe
  <2>1. /\ Len(consumers') = Len(consumers) + 1 /\ \A k \in Cells : consumers'[k] = consumers[k]
        /\ UNCHANGED <<terminated, fires, wanted, got>>
    BY <1>a, <1>1, Appends DEF Stream!history
  <2>2. Cells' = Cells \cup {Len(consumers) + 1}
    BY <1>b, <2>1 DEF Cells
  <2>3. \A i \in 1..Len(fires) : \A k \in Cells' : Ahead(fires[i], k) => k \in Cells
    BY <1>b, <2>2 DEF Ahead, Cells
  <2>4. ASSUME NEW i \in 1..Len(fires), NEW c \in ToTell(i)
        PROVE  \E k \in Cells' : Ahead(fires[i], k) /\ consumers'[k] = c
    <3>1. PICK k \in Cells : Ahead(fires[i], k) /\ consumers[k] = c
      BY <1>c, <2>4
    <3> QED BY <2>1, <2>2, <3>1
  <2>5. \A i \in 1..Len(fires) : \A k \in Cells' :
            Ahead(fires[i], k) => consumers'[k] \notin got[fires[i].value]
    BY <1>c, <2>1, <2>3
  <2> QED BY <2>1, <2>4, <2>5 DEF RestOK, Ahead
<1>2. ASSUME NEW d \in Stream!Consumers, Stream!Terminate(d) PROVE RestOK'
  <2>1. /\ d \in Stream!Alive /\ terminated' = terminated \cup {d} /\ Len(consumers') = Len(consumers)
        /\ \A k \in Cells : consumers'[k] = 0 \/ consumers'[k] = consumers[k]
        /\ \A k \in Cells : consumers[k] # d => consumers'[k] = consumers[k]
        /\ UNCHANGED <<fires, wanted, got>>
    BY <1>a, <1>2, Empties DEF Stream!history
  <2>2. Cells' = Cells
    BY <2>1 DEF Cells
  <2>3. ASSUME NEW i \in 1..Len(fires),
               NEW c \in wanted[fires[i].value] \ (terminated' \cup got[fires[i].value])
        PROVE  \E k \in Cells : Ahead(fires[i], k) /\ consumers'[k] = c
    <3>1. c \in ToTell(i) /\ c # d
      BY <2>1, <2>3
    <3>2. PICK k \in Cells : Ahead(fires[i], k) /\ consumers[k] = c
      BY <1>c, <3>1
    <3> QED BY <2>1, <3>1, <3>2
  <2>4. \A i \in 1..Len(fires) : \A k \in Cells :
            Ahead(fires[i], k) => consumers'[k] \notin got[fires[i].value]
    BY <1>b, <1>c, <2>1
  <2> QED BY <2>1, <2>2, <2>3, <2>4 DEF RestOK, Ahead
<1>3. CASE Stream!Destroy
  <2>1. /\ ~gone /\ Len(consumers') = Len(consumers) /\ \A k \in Cells : consumers'[k] = 0
        /\ terminated' = terminated \cup {c \in Stream!Alive : \E i \in Cells : consumers[i] = c}
        /\ UNCHANGED <<fires, wanted, got>>
    BY <1>a, <1>3, Destroys DEF Stream!history
  <2>2. Cells' = Cells /\ \A c \in Stream!Alive : c \in terminated'
    BY <1>a, <2>1 DEF Cells, CellsOK
  <2>3. \A i \in 1..Len(fires) : wanted[fires[i].value] \ (terminated' \cup got[fires[i].value]) = {}
    BY <1>b, <2>1, <2>2
  <2>4. \A i \in 1..Len(fires) : \A k \in Cells : consumers'[k] \notin got[fires[i].value]
    BY <1>b, <2>1
  <2> QED BY <2>1, <2>2, <2>3, <2>4 DEF RestOK
<1>4. CASE Stream!FireForward
  <2>1. /\ ~gone /\ wanted' = [wanted EXCEPT ![fired'] = Stream!Alive]
        /\ UNCHANGED <<consumers, terminated, got>>
    BY <1>4 DEF Stream!FireForward
  <2>2. ASSUME NEW i \in 1..Len(fires')
        PROVE  /\ \A c \in wanted'[fires'[i].value] \ (terminated \cup got[fires'[i].value]) :
                    Awaits(fires'[i], c)
               /\ \A k \in Cells : Ahead(fires'[i], k) => consumers[k] \notin got[fires'[i].value]
    <3>1. CASE i = 1
      <4>1. fires'[i].value = fired' /\ fired' \in 1..MaxFires /\ fired' = fired + 1
            /\ fires'[i].it = 1 /\ fires'[i].end = Len(consumers) + 1 /\ ~fires'[i].running
        BY <1>a, <1>4, <3>1, Begins
      <4>2. wanted'[fired'] = Stream!Alive /\ got[fired'] = {}
        BY <1>a, <1>b, <2>1, <4>1 DEF Stream!TypeOK, ValuesOK
      <4>3. \A k \in Cells : Ahead(fires'[i], k)
        BY <1>b, <4>1 DEF Ahead, Cells
      <4>4. \A c \in Stream!Alive : \E k \in Cells : consumers[k] = c
        BY <1>a, <2>1 DEF CellsOK
      <4> QED BY <4>1, <4>2, <4>3, <4>4
    <3>2. CASE i # 1
      <4>1. PICK j \in 1..Len(fires) : fires'[i] = fires[j]
        BY <1>a, <1>4, <3>2, Begins
      <4>2. fired' = fired + 1
        BY <1>4 DEF Stream!FireForward
      <4>3. fires[j].value # fired'
        BY <1>b, <4>2
      <4>4. wanted'[fires[j].value] = wanted[fires[j].value]
        BY <1>a, <1>b, <2>1, <4>3 DEF Stream!TypeOK
      <4> QED BY <1>c, <4>1, <4>4
    <3> QED BY <3>1, <3>2
  <2> QED BY <2>1, <2>2 DEF RestOK, Cells
<1>5. CASE Stream!PutNext
  <2>1. /\ consumers[Stream!Fire.it] \in Stream!Alive /\ UNCHANGED <<consumers, terminated, wanted>>
        /\ got' = [got EXCEPT ![Stream!Fire.value] = got[Stream!Fire.value] \cup {consumers[Stream!Fire.it]}]
    BY <1>5 DEF Stream!PutNext
  <2>2. fires # <<>> /\ Stream!Fire = fires[1] /\ 1 \in 1..Len(fires) /\ Len(fires') = Len(fires)
        /\ ~fires[1].running /\ fires[1].it < fires[1].end
    BY <1>a, <1>5, Puts, Innermost
  <2>3. fires[1].it \in Cells
    BY <1>b, <2>2 DEF Cells
  <2>4. ASSUME NEW i \in 1..Len(fires)
        PROVE  /\ \A c \in wanted[fires'[i].value] \ (terminated \cup got'[fires'[i].value]) :
                    Awaits(fires'[i], c)
               /\ \A k \in Cells : Ahead(fires'[i], k) => consumers[k] \notin got'[fires'[i].value]
    <3>1. CASE i = 1
      <4>1. fires'[i].value = fires[1].value /\ fires'[i].it = fires[1].it
            /\ fires'[i].end = fires[1].end /\ fires'[i].running
        BY <1>a, <1>5, <2>2, <3>1, Puts
      <4>2. got'[fires[1].value] = got[fires[1].value] \cup {consumers[fires[1].it]}
        BY <1>a, <1>b, <2>1, <2>2 DEF Stream!TypeOK
      <4>3. \A k \in Cells : Ahead(fires'[i], k) <=> Ahead(fires[1], k) /\ k # fires[1].it
        BY <2>2, <4>1 DEF Ahead
      <4>4. ASSUME NEW c \in wanted[fires[1].value] \ (terminated \cup got'[fires[1].value])
            PROVE  Awaits(fires'[i], c)
        <5>1. c \in ToTell(1) /\ c # consumers[fires[1].it]
          BY <4>2, <4>4
        <5>2. PICK k \in Cells : Ahead(fires[1], k) /\ consumers[k] = c
          BY <1>c, <2>2, <5>1
        <5> QED BY <4>3, <5>1, <5>2
      <4>5. ASSUME NEW k \in Cells, Ahead(fires'[i], k) PROVE consumers[k] \notin got'[fires[1].value]
        <5>1. Ahead(fires[1], k) /\ k # fires[1].it
          BY <4>3, <4>5
        <5>2. consumers[k] \notin got[fires[1].value]
          BY <1>c, <2>2, <5>1
        <5>3. consumers[fires[1].it] # 0
          BY <2>1, <2>2 DEF Stream!Alive
        <5>4. consumers[k] # consumers[fires[1].it]
          BY <1>a, <2>3, <5>1, <5>3 DEF CellsOK
        <5> QED BY <4>2, <5>2, <5>4
      <4> QED BY <4>1, <4>4, <4>5
    <3>2. CASE i # 1
      <4>1. fires'[i] = fires[i] /\ fires[i].value # fires[1].value
        BY <1>a, <1>5, <2>2, <3>2, Puts DEF FiresOK
      <4>2. got'[fires[i].value] = got[fires[i].value]
        BY <1>a, <1>b, <2>1, <2>2, <4>1 DEF Stream!TypeOK
      <4> QED BY <1>c, <4>1, <4>2
    <3> QED BY <3>1, <3>2
  <2> QED BY <2>1, <2>2, <2>4 DEF RestOK, Cells
<1>6. CASE Stream!PutNextEnded
  <2>1. consumers' = consumers /\ UNCHANGED <<terminated, wanted, got>>
    BY <1>a, <1>6, SkipsKeep DEF Stream!PutNextEnded, Stream!history
  <2>2. fires # <<>> /\ Stream!Fire = fires[1] /\ 1 \in 1..Len(fires) /\ Len(fires') = Len(fires)
        /\ ~fires[1].running /\ consumers[fires[1].it] \notin Stream!Alive
    BY <1>a, <1>6, Skips, Innermost DEF Stream!PutNextEnded
  <2>3. ASSUME NEW i \in 1..Len(fires)
        PROVE  /\ \A c \in wanted[fires'[i].value] \ (terminated \cup got[fires'[i].value]) :
                    Awaits(fires'[i], c)
               /\ \A k \in Cells : Ahead(fires'[i], k) => consumers[k] \notin got[fires'[i].value]
    <3>1. CASE i = 1
      <4>1. fires'[i].value = fires[1].value /\ fires'[i].it = fires[1].it + 1
            /\ fires'[i].end = fires[1].end /\ ~fires'[i].running
        BY <1>a, <1>6, <2>2, <3>1, Skips
      <4>2. \A k \in Cells : Ahead(fires'[i], k) <=> Ahead(fires[1], k) /\ k # fires[1].it
        BY <1>b, <2>2, <4>1 DEF Ahead, Cells
      <4>3. ASSUME NEW c \in ToTell(1) PROVE Awaits(fires'[i], c)
        <5>1. PICK k \in Cells : Ahead(fires[1], k) /\ consumers[k] = c
          BY <1>c, <2>2, <4>3
        <5>2. c \in Stream!Alive
          BY <1>b, <2>2, <4>3
        <5> QED BY <2>2, <4>2, <5>1, <5>2
      <4> QED BY <1>c, <2>2, <4>1, <4>2, <4>3
    <3>2. CASE i # 1
      <4>1. fires'[i] = fires[i]
        BY <1>a, <1>6, <3>2, Skips
      <4> QED BY <1>c, <4>1
    <3> QED BY <3>1, <3>2
  <2> QED BY <2>1, <2>2, <2>3 DEF RestOK, Cells
<1>7. CASE Stream!HandlerReturns
  <2>1. UNCHANGED <<terminated, wanted, got>>
    BY <1>7 DEF Stream!HandlerReturns
  <2>2. fires # <<>> /\ Stream!Fire = fires[1] /\ 1 \in 1..Len(fires) /\ Len(fires') = Len(fires)
        /\ fires[1].running
    BY <1>a, <1>7, Returns, Innermost
  <2>3. /\ Cells' = Cells
        /\ \A i \in 1..Len(fires) : \A k \in Cells : Ahead(fires[i], k) => consumers'[k] = consumers[k]
    <3>1. CASE Stream!Fire.removeFrom = 0
      BY <1>a, <1>7, <3>1, ReturnsTo DEF Cells
    <3>2. CASE Stream!Fire.removeFrom # 0
      <4>1. /\ Len(fires) = 1 /\ Stream!Fire.removeFrom < Stream!Fire.it /\ Len(consumers') = Len(consumers)
            /\ \A j \in Cells : consumers'[j] = IF j = Stream!Fire.it THEN 0
                                                ELSE IF j = Stream!Fire.removeFrom THEN consumers[Stream!Fire.it]
                                                ELSE consumers[j]
            /\ Stream!Fire.removeFrom \in Cells /\ Stream!Fire.it \in Cells
        BY <1>a, <1>7, <3>2, ReturnsTo
      <4>2. ASSUME NEW i \in 1..Len(fires), NEW k \in Cells, Ahead(fires[i], k)
            PROVE  k # Stream!Fire.it /\ k # Stream!Fire.removeFrom
        BY <1>b, <2>2, <4>1, <4>2 DEF Ahead, Cells
      <4> QED BY <4>1, <4>2 DEF Cells
    <3> QED BY <3>1, <3>2
  <2>4. ASSUME NEW i \in 1..Len(fires)
        PROVE  /\ fires'[i].value = fires[i].value
               /\ \A k \in Cells : Ahead(fires'[i], k) <=> Ahead(fires[i], k)
    <3>1. CASE i = 1
      <4>1. fires'[i].value = fires[1].value /\ fires'[i].it = fires[1].it + 1
            /\ fires'[i].end = fires[1].end /\ ~fires'[i].running
        BY <1>a, <1>7, <2>2, <3>1, Returns
      <4> QED BY <1>b, <2>2, <3>1, <4>1 DEF Ahead, Cells
    <3>2. CASE i # 1
      BY <1>a, <1>7, <3>2, Returns
    <3> QED BY <3>1, <3>2
  <2>5. ASSUME NEW i \in 1..Len(fires), NEW c \in ToTell(i)
        PROVE  \E k \in Cells : Ahead(fires'[i], k) /\ consumers'[k] = c
    <3>1. PICK k \in Cells : Ahead(fires[i], k) /\ consumers[k] = c
      BY <1>c, <2>5
    <3> QED BY <2>3, <2>4, <3>1
  <2>6. \A i \in 1..Len(fires) : \A k \in Cells :
            Ahead(fires'[i], k) => consumers'[k] \notin got[fires[i].value]
    BY <1>c, <2>3, <2>4
  <2> HIDE DEF Awaits
  <2> QED BY <2>1, <2>2, <2>3, <2>4, <2>5, <2>6 DEF RestOK
<1>8. CASE Stream!Finish
  <2>1. UNCHANGED <<terminated, wanted, got>>
    BY <1>8 DEF Stream!Finish
  <2>2. CASE Len(fires') = 0
    BY <2>2 DEF RestOK
  <2>3. CASE consumers' = consumers
    <3>1. \A i \in 1..Len(fires') : i + 1 \in 1..Len(fires) /\ fires'[i] = fires[i + 1]
      BY <1>a, <1>8, ListShrinks
    <3>2. ASSUME NEW i \in 1..Len(fires')
          PROVE  /\ \A c \in wanted[fires'[i].value] \ (terminated \cup got[fires'[i].value]) :
                        Awaits(fires'[i], c)
                 /\ \A k \in Cells : Ahead(fires'[i], k) => consumers[k] \notin got[fires'[i].value]
      <4>1. PICK j \in 1..Len(fires) : fires'[i] = fires[j]
        BY <3>1
      <4> QED BY <1>c, <4>1
    <3> QED BY <2>1, <2>3, <3>2 DEF RestOK, Cells
  <2> QED BY <1>a, <1>8, <2>2, <2>3, FinishKeeps
<1>9. CASE UNCHANGED Stream!vars
  BY <1>a, <1>9 DEF Stream!vars, Stream!history, RestOK, Cells
<1> QED BY <1>1, <1>2, <1>3, <1>4, <1>5, <1>6, <1>7, <1>8, <1>9 DEF Stream!Next

\* A value that is not being fired any more was given to all.
LEMMA GivenStep == StreamBounds /\ StreamIInv /\ [Stream!Next]_(Stream!vars) /\ ~disturbed' => Stream!GivenToAll'
<1> SUFFICES ASSUME StreamBounds, StreamIInv, [Stream!Next]_(Stream!vars), ~disturbed' PROVE Stream!GivenToAll'
  OBVIOUS
<1>a. Stream!TypeOK /\ FiresOK /\ ValuesOK /\ RestOK /\ Stream!GivenToAll
  BY StaysDisturbed DEF StreamIInv, LoopsOK
<1>b. Len(fires) \in Nat /\ fired \in Nat /\ fired <= MaxFires
  BY <1>a, CallTypes DEF Stream!TypeOK, StreamBounds
<1>1. ASSUME fired' = fired, wanted' = wanted, terminated \subseteq terminated', Len(fires') = Len(fires),
             \A v \in 1..fired : got[v] \subseteq got'[v],
             \A i \in 1..Len(fires) : fires'[i].value = fires[i].value
      PROVE  Stream!GivenToAll'
  BY <1>a, <1>1 DEF Stream!GivenToAll
<1>2. CASE Stream!Subscribe
  BY <1>a, <1>1, <1>2, Appends DEF Stream!history
<1>3. ASSUME NEW d \in Stream!Consumers, Stream!Terminate(d) PROVE Stream!GivenToAll'
  BY <1>a, <1>1, <1>3, Empties DEF Stream!history
<1>4. CASE Stream!Destroy
  BY <1>a, <1>1, <1>4, Destroys DEF Stream!history
<1>5. CASE Stream!FireForward
  <2> SUFFICES ASSUME NEW v \in 1..fired', \A i \in 1..Len(fires') : fires'[i].value # v
               PROVE  wanted'[v] \ terminated' \subseteq got'[v]
    BY DEF Stream!GivenToAll
  <2>1. /\ wanted' = [wanted EXCEPT ![fired'] = Stream!Alive] /\ UNCHANGED <<terminated, got>>
    BY <1>5 DEF Stream!FireForward
  <2>2. /\ fired' = fired + 1 /\ fires'[1].value = fired' /\ 1 \in 1..Len(fires')
        /\ Len(fires') = Len(fires) + 1
        /\ \A i \in 1..Len(fires') : i # 1 => i - 1 \in 1..Len(fires) /\ fires'[i] = fires[i - 1]
    BY <1>a, <1>b, <1>5, Begins
  <2>3. v \in 1..fired /\ v # fired'
    BY <1>b, <2>2
  <2>4. ASSUME NEW i \in 1..Len(fires) PROVE fires[i].value # v
    <3>1. i + 1 \in 1..Len(fires') /\ i + 1 # 1 /\ (i + 1) - 1 = i
      BY <1>b, <2>2
    <3>2. fires'[i + 1] = fires[(i + 1) - 1]
      BY <2>2, <3>1
    <3> QED BY <3>1, <3>2
  <2>5. wanted'[v] = wanted[v]
    BY <1>a, <1>b, <2>1, <2>3 DEF Stream!TypeOK, StreamBounds
  <2> QED BY <1>a, <2>1, <2>3, <2>4, <2>5 DEF Stream!GivenToAll
<1>6. CASE Stream!PutNext
  <2>1. /\ got' = [got EXCEPT ![Stream!Fire.value] = got[Stream!Fire.value] \cup {consumers[Stream!Fire.it]}]
        /\ UNCHANGED <<fired, wanted, terminated>>
    BY <1>6 DEF Stream!PutNext
  <2>2. \A v \in 1..fired : got[v] \subseteq got'[v]
    BY <1>a, <1>b, <2>1 DEF Stream!TypeOK, StreamBounds
  <2>3. Len(fires') = Len(fires) /\ \A i \in 1..Len(fires) : fires'[i].value = fires[i].value
    BY <1>a, <1>6, Puts, Innermost
  <2> QED BY <1>1, <2>1, <2>2, <2>3
<1>7. CASE Stream!PutNextEnded
  <2>1. UNCHANGED <<fired, wanted, terminated, got>>
    BY <1>7 DEF Stream!PutNextEnded, Stream!history
  <2>2. Len(fires') = Len(fires) /\ \A i \in 1..Len(fires) : fires'[i].value = fires[i].value
    BY <1>a, <1>7, Skips, Innermost
  <2> QED BY <1>1, <2>1, <2>2
<1>8. CASE Stream!HandlerReturns
  <2>1. UNCHANGED <<fired, wanted, terminated, got>>
    BY <1>8 DEF Stream!HandlerReturns
  <2>2. Len(fires') = Len(fires) /\ \A i \in 1..Len(fires) : fires'[i].value = fires[i].value
    BY <1>a, <1>8, Returns, Innermost
  <2> QED BY <1>1, <2>1, <2>2
<1>9. CASE Stream!Finish
  <2> SUFFICES ASSUME NEW v \in 1..fired, \A i \in 1..Len(fires') : fires'[i].value # v
               PROVE  wanted[v] \ terminated \subseteq got[v]
    BY <1>9 DEF Stream!GivenToAll, Stream!Finish
  <2>1. /\ fires # <<>> /\ ~Stream!Fire.running /\ Stream!Fire.it = Stream!Fire.end /\ Len(fires') = Len(fires) - 1
        /\ \A i \in 1..Len(fires') : i + 1 \in 1..Len(fires) /\ fires'[i] = fires[i + 1]
    BY <1>a, <1>9, ListShrinks
  <2>2. Stream!Fire = fires[1] /\ 1 \in 1..Len(fires) /\ Stream!Fire.it \in Nat
    BY <1>a, <2>1, Innermost, Places
  <2>3. CASE Stream!Fire.value = v
    <3>1. \A k \in Cells : ~Ahead(fires[1], k)
      BY <1>a, <2>1, <2>2, CallTypes DEF Ahead, Cells
    <3>2. wanted[v] \ (terminated \cup got[v]) = {}
      BY <1>a, <2>2, <2>3, <3>1 DEF RestOK
    <3> QED BY <3>2
  <2>4. CASE Stream!Fire.value # v
    <3>1. ASSUME NEW i \in 1..Len(fires) PROVE fires[i].value # v
      <4>1. CASE i = 1
        BY <2>2, <2>4, <4>1
      <4>2. CASE i # 1
        <5>1. i - 1 \in 1..Len(fires') /\ (i - 1) + 1 = i
          BY <1>b, <2>1, <4>2
        <5>2. fires'[i - 1] = fires[(i - 1) + 1]
          BY <2>1, <5>1
        <5> QED BY <5>1, <5>2
      <4> QED BY <4>1, <4>2
    <3> QED BY <1>a, <3>1 DEF Stream!GivenToAll
  <2> QED BY <2>3, <2>4
<1>10. CASE UNCHANGED Stream!vars
  BY <1>a, <1>10 DEF Stream!vars, Stream!history, Stream!GivenToAll
<1> QED BY <1>2, <1>3, <1>4, <1>5, <1>6, <1>7, <1>8, <1>9, <1>10 DEF Stream!Next

\* Nobody gets a value twice.
LEMMA OnceStep == StreamBounds /\ StreamIInv /\ [Stream!Next]_(Stream!vars) /\ ~disturbed' => ~twice'
<1> SUFFICES ASSUME StreamBounds, StreamIInv, [Stream!Next]_(Stream!vars), ~disturbed' PROVE ~twice'
  OBVIOUS
<1>a. Stream!TypeOK /\ FiresOK /\ ValuesOK /\ RestOK /\ ~twice
  BY StaysDisturbed DEF StreamIInv, LoopsOK
<1>1. CASE Stream!PutNext
  <2>1. /\ fires # <<>> /\ ~Stream!Fire.running /\ Stream!Fire.it < Stream!Fire.end
    BY <1>a, <1>1, Puts
  <2>2. Stream!Fire = fires[1] /\ 1 \in 1..Len(fires)
    BY <1>a, <2>1, Innermost
  <2>3. Stream!Fire.it \in Cells /\ Ahead(fires[1], Stream!Fire.it)
    BY <1>a, <2>1, <2>2, CallTypes DEF Ahead, Cells
  <2>4. consumers[Stream!Fire.it] \notin got[Stream!Fire.value]
    BY <1>a, <2>2, <2>3 DEF RestOK
  <2> QED BY <1>a, <1>1, <2>4 DEF Stream!PutNext
<1>2. ASSUME NEW d \in Stream!Consumers, Stream!Terminate(d) PROVE ~twice'
  BY <1>a, <1>2 DEF Stream!Terminate, Stream!history
<1>3. CASE Stream!Subscribe \/ Stream!Destroy \/ Stream!FireForward \/ UNCHANGED Stream!vars
  BY <1>a, <1>3
     DEF Stream!Subscribe, Stream!Destroy, Stream!FireForward, Stream!vars, Stream!history
<1>4. CASE Stream!PutNextEnded
  BY <1>a, <1>4 DEF Stream!PutNextEnded, Stream!history
<1>5. CASE Stream!HandlerReturns
  BY <1>a, <1>5 DEF Stream!HandlerReturns
<1>6. CASE Stream!Finish
  BY <1>a, <1>6 DEF Stream!Finish
<1> QED BY <1>1, <1>2, <1>3, <1>4, <1>5, <1>6 DEF Stream!Next

\* In the beginning there is nobody.
LEMMA StreamInit == StreamBounds /\ Stream!Init => StreamIInv
<1> SUFFICES ASSUME StreamBounds, Stream!Init PROVE StreamIInv
  OBVIOUS
<1>1. Len(fires) = 0 /\ Len(consumers) = 0 /\ fires \in Seq(Stream!Fires) /\ consumers \in Seq(0..subscribed)
  BY EmptySeq DEF Stream!Init
<1>2. Stream!TypeOK
  <2>1. subscribed \in 0..MaxConsumers /\ fired \in 0..MaxFires
    BY DEF Stream!Init, StreamBounds
  <2>4. terminated \subseteq 1..subscribed /\ gone \in BOOLEAN /\ twice \in BOOLEAN /\ disturbed \in BOOLEAN
    BY Zenon DEF Stream!Init
  <2>2. wanted \in [1..MaxFires -> SUBSET Stream!Consumers] /\ got \in [1..MaxFires -> SUBSET Stream!Consumers]
    BY DEF Stream!Init
  <2>3. Len(fires) <= MaxDepth /\ \A i \in 1..Len(fires) : fires[i].end <= Len(consumers) + 1
    BY <1>1 DEF StreamBounds
  <2> QED BY <1>1, <2>1, <2>2, <2>3, <2>4 DEF Stream!TypeOK
<1>3. FiresOK /\ ValuesOK /\ RemovedOK /\ RestOK
  BY <1>1 DEF Stream!Init, FiresOK, ValuesOK, RemovedOK, RestOK
<1>4. CellsOK /\ Stream!GivenToAll
  BY <1>1 DEF Stream!Init, CellsOK, Cells, Stream!Alive, Stream!GivenToAll
<1> QED BY <1>2, <1>3, <1>4 DEF StreamIInv, LoopsOK, Stream!Init

\* A consumer that is in one cell is there once.
LEMMA CompleteList == Stream!TypeOK /\ CellsOK => Stream!ListIsComplete
<1> SUFFICES ASSUME Stream!TypeOK, CellsOK, ~gone, NEW c \in Stream!Alive
             PROVE  Stream!Cardinality({i \in 1..Len(consumers) : consumers[i] = c}) = 1
  BY DEF Stream!ListIsComplete
<1>1. PICK k \in Cells : consumers[k] = c
  BY DEF CellsOK
<1>2. c # 0
  BY DEF Stream!Alive
<1>3. {i \in 1..Len(consumers) : consumers[i] = c} = {k}
  BY <1>1, <1>2 DEF CellsOK, Cells
<1>4. Stream!Cardinality({k}) = Cardinality({k})
  BY DEF Cardinality, Stream!Cardinality
<1> QED BY <1>3, <1>4, FS_Singleton

\* What a list of consumers, the calls of fire() and what was given always are: the types, the
\* places of the loops, and while nothing is disturbed who has got what.
THEOREM StreamInductive == StreamBounds => (Stream!Spec => []StreamIInv)
<1> SUFFICES ASSUME StreamBounds PROVE Stream!Spec => []StreamIInv
  OBVIOUS
<1>1. Stream!Init => StreamIInv
  BY StreamInit
<1>2. StreamIInv /\ [Stream!Next]_(Stream!vars) => StreamIInv'
  <2> SUFFICES ASSUME StreamIInv, [Stream!Next]_(Stream!vars) PROVE StreamIInv'
    OBVIOUS
  <2>1. Stream!TypeOK' /\ FiresOK' /\ ValuesOK'
    BY StreamTypeStep, FiresStep, ValuesStep DEF StreamIInv
  <2>2. ~disturbed' => LoopsOK'
    BY CellsStep, RemovedStep, RestStep, GivenStep, OnceStep DEF LoopsOK
  <2> QED BY <2>1, <2>2 DEF StreamIInv
<1> QED BY <1>1, <1>2, PTL DEF Stream!Spec

-----------------------------------------------------------------------------
(***************************************************************************)
(* Whoever talks has the key that the other party has, and the keys of a   *)
(* call are exchanged once, in whatever order its answers, its DH          *)
(* configurations, the updates, the timers and the clicks come.            *)
(***************************************************************************)
\* The bounds are numbers.
CallBounds == MaxCalls \in Nat /\ MaxObjects \in Nat

\* The types: a discarded call has a reason, an update is of a call, and the server knows these
\* of each call.
Reasons == {"busy", "other"}
Updates == [kind : {"requested", "received", "accepted", "confirmed", "discarded"}, id : Call!Ids,
            reason : Reasons]
Server == [status : {"none", "requested", "received", "accepted", "confirmed", "discarded"},
           ours : BOOLEAN, power : Nat, reason : Reasons]

\* The types, of the updates too.
CallTypesOK ==
    /\ call # None => call \in Call!Calls
    /\ object \in Nat /\ made \in 0..MaxCalls
    /\ dhAsked \in Seq(Nat)
    /\ callRequests \subseteq Call!Requests
    /\ callAnswers \subseteq [to : Call!Requests, ok : BOOLEAN, id : 0..MaxCalls, reason : Reasons]
    /\ updates \in Seq(Updates)
    /\ server \in [Call!Ids -> Server]

\* What is asked and not answered, or answered and not handled.
Asked == callRequests \cup {a.to : a \in callAnswers}
\* An update of this kind is on its way.
Told(kind, i) == \E p \in DOMAIN updates : updates[p].kind = kind /\ updates[p].id = i
\* What the server knows of a call: who has dialled it, that keys were exchanged, that it was
\* declined or found busy, that no keys were exchanged yet and none will be.
Ours(i) == server[i].ours
Kept(i) == server[i].status \in {"accepted", "confirmed"}
Refused(i) == server[i].reason = "busy"
Early(i) == server[i].status \in {"none", "requested", "received"} \/ Refused(i)

\* Nothing was asked that only an accepted call asks, and nothing of it is told.
Silent(i) ==
    /\ \A r \in Asked : r.kind = "confirm" => r.id # i
    /\ ~Told("accepted", i) /\ ~Told("confirmed", i)
Unaccepted(i) == \A r \in Asked : r.kind = "accept" => r.id # i
\* The call may still send messages.acceptCall.
CanAccept(c) ==
    /\ c.type = "Incoming"
    /\ c.state \in {"Starting", "WaitingIncoming"} \/ (c.state = "ExchangingKeys" /\ c.answerAfterDh)

\* Nobody knows of a call that there is not, or of an object to come.
KnownOK ==
    /\ \A r \in Asked : r.id \in 0..made /\ r.object <= object
    /\ \A a \in callAnswers : a.id \in 0..made
    /\ \A p \in DOMAIN updates : updates[p].id <= made
    /\ call # None => call.id <= made /\ object >= 1
    /\ \A i \in Call!Ids : i > made => server[i].status = "none" /\ server[i].reason = "other" /\ ~Ours(i)
    /\ \A p \in DOMAIN dhAsked : dhAsked[p] <= object

\* An update tells what has happened: who was told of a call that it was requested has not
\* answered it, each of the steps is told once, and a call is not confirmed before it is told
\* that it was accepted.
UpdatesOK ==
    /\ \A p \in DOMAIN updates :
        LET u == updates[p] IN
        /\ u.reason = "busy" => Refused(u.id)
        /\ u.kind = "accepted" => Ours(u.id)
        /\ u.kind = "confirmed" => ~Ours(u.id) /\ server[u.id].status \in {"confirmed", "discarded"}
        /\ u.kind = "requested" => ~Ours(u.id) /\ Unaccepted(u.id) /\ ~Kept(u.id)
        /\ u.kind = "requested" /\ call # None => call.id # u.id
    /\ \A p, q \in DOMAIN updates :
        updates[p].id = updates[q].id /\ updates[p].kind = updates[q].kind
            /\ updates[p].kind \in {"requested", "accepted", "confirmed"} => p = q
    /\ \A r \in Asked : r.kind = "confirm" => ~Told("accepted", r.id)

\* No keys before the call is accepted, or when it was declined.
ServerOK ==
    \A i \in 1..made :
        /\ Early(i) => Silent(i)
        /\ Refused(i) => server[i].status = "discarded"
        /\ Ours(i) => server[i].power # 0

\* A request is one that its call may make, and an incoming call is declined as busy only before
\* it was accepted.
AskedOK(r) ==
    /\ r.kind = "accept" => r.id >= 1 /\ ~Ours(r.id)
    /\ r.kind = "confirm" => r.id >= 1 /\ Ours(r.id)
    /\ r.kind = "request" => r.power # 0 /\ r.final = None /\ r.reason = "other"
    /\ r.kind = "discard" /\ r.object # 0 => r.final \in Call!Outcomes
    /\ r.reason = "busy" =>
        /\ r.kind = "discard" /\ r.id >= 1 /\ ~Ours(r.id) /\ ~Kept(r.id)
        /\ Unaccepted(r.id) /\ ~Told("requested", r.id)
        /\ call # None /\ call.id = r.id => ~CanAccept(call)
\* An answer is of the call that it was asked of, and of one of ours if it was dialled.
AnswersOK ==
    \A a \in callAnswers :
        /\ a.reason = "busy" => a.id # 0 /\ Refused(a.id)
        /\ a.to.kind = "request" /\ a.ok => a.id >= 1 /\ Ours(a.id)
        /\ a.to.kind # "request" => a.id \in {0, a.to.id}

\* An accept or a confirm, of which there is one for each call.
Keyed(x) == x.kind \in {"accept", "confirm"}
Same(r, s) == r.kind = s.kind /\ r.id = s.id
OnceOK ==
    /\ \A r, s \in callRequests : Keyed(r) /\ Same(r, s) => r = s
    /\ \A a, b \in callAnswers : Keyed(a.to) /\ Same(a.to, b.to) => a = b
    /\ \A r \in callRequests, a \in callAnswers : Keyed(r) => ~Same(r, a.to)

\* The call itself: it is destroyed when it is over, an outgoing one answers nothing, the power
\* of one that started once has the number of its object, and it is busy when the server says so.
CallOK(c) ==
    /\ c.state \notin Call!Final
    /\ c.type = "Outgoing" => ~c.answerAfterDh /\ c.state \notin {"Starting", "WaitingIncoming"}
    /\ c.again => c.type = "Outgoing" /\ c.power # 0
    /\ ~c.again => c.power \in {0, object} /\ ~c.aborted
    /\ ~c.again /\ c.state = "Busy" => c.id # 0 /\ Refused(c.id)
    /\ \A p \in DOMAIN c.posted : c.posted[p] \in {"Established", "Error"} \cup Call!Outcomes

\* Whoever talks has exchanged the keys, and nothing of that is on its way any more.
ControllerOK(c) ==
    ~c.again /\ c.controller # "none" =>
        c.id # 0 /\ ~Early(c.id) /\ ~Told("accepted", c.id) /\ ~Told("confirmed", c.id)

\* An incoming call is accepted with its power, once: until then it has no power or may still be
\* accepted.  Its DH configuration is asked for once.
IncomingOK(c) ==
    c.type = "Incoming" =>
        /\ c.id >= 1 /\ ~Ours(c.id)
        /\ \A r \in Asked : r.object = object => r.kind \notin {"request", "confirm"}
        /\ CanAccept(c) \/ c.power = 0 => Unaccepted(c.id) /\ ~Kept(c.id)
        /\ c.power # 0 => \A p \in DOMAIN dhAsked : dhAsked[p] # object
        /\ \A p, q \in DOMAIN dhAsked : dhAsked[p] = object /\ dhAsked[q] = object => p = q
        /\ \A r \in Asked : r.kind = "accept" /\ r.id = c.id => r.power = c.power
        /\ Kept(c.id) => server[c.id].power = c.power
        /\ c.controller # "none" => server[c.id].status \in {"confirmed", "discarded"}

\* An outgoing call that has started once is asked for once, with its power, and confirmed for the
\* one controller it will have.
OutgoingOK(c) ==
    c.type = "Outgoing" /\ ~c.again =>
        /\ c.id # 0 /\ ~Ours(c.id) => Refused(c.id)
        /\ c.id # 0 /\ Ours(c.id) => server[c.id].power = c.power
        /\ \A r \in Asked : r.object = object /\ r.kind = "request" =>
             r.power = c.power /\ r.id = c.id /\ (c.id # 0 => ~Ours(c.id))
        /\ \A a \in callAnswers : a.to.object = object /\ a.to.kind = "request" =>
             /\ a.ok => server[a.id].power = c.power
             /\ \A r \in callRequests : r.object = object => r.kind # "request"
             /\ \A b \in callAnswers : b.to.object = object /\ b.to.kind = "request" => a = b
        /\ \A r \in Asked : r.object = object /\ r.kind = "confirm" =>
             r.id = c.id /\ c.controller = "none"

\* What is asked, answered, told and known, and what the call is.
WorldOK == UpdatesOK /\ ServerOK /\ (\A r \in Asked : AskedOK(r)) /\ AnswersOK /\ OnceOK
OwnOK == call # None => CallOK(call) /\ ControllerOK(call) /\ IncomingOK(call) /\ OutgoingOK(call)
\* The inductive invariant.
CallIInv == CallTypesOK /\ KnownOK /\ WorldOK /\ OwnOK

\* A call within a step, with what it is to send.
Wide ==
    [type : {"Outgoing", "Incoming"}, state : Call!States, id : 0..MaxCalls, power : Nat,
     again : BOOLEAN, answerAfterDh : BOOLEAN, finishAfter : Call!Optional(Call!Outcomes),
     finishTimers : SUBSET Call!Outcomes, discardTimer : BOOLEAN,
     controller : {"none", "started", "connected"}, posted : Seq(Call!States \cup {"Error"}),
     aborted : BOOLEAN, out : SUBSET Call!Requests, asks : BOOLEAN]
\* What a handler leaves alone.
Alike(c, d) ==
    /\ d.type = c.type /\ d.id = c.id /\ d.power = c.power /\ d.again = c.again
    /\ d.answerAfterDh = c.answerAfterDh /\ d.aborted = c.aborted
Less(c, d) == d.controller \in {c.controller, "none"} /\ d.posted = c.posted /\ d.asks = c.asks
\* A messages.discardCall of the call.
Discard(c, r) ==
    /\ r \in Call!Requests /\ r.kind = "discard" /\ r.object = object /\ r.id = c.id
    /\ r.final \in Call!Outcomes

LEMMA CallIsWide ==
    ASSUME NEW c \in Call!Calls PROVE c \in Wide /\ c.out = {} /\ c.asks = FALSE
  BY DEF Call!Calls, Wide

\* A step ends with a call.
LEMMA WideIsCall ==
    ASSUME NEW c \in Wide
    PROVE  /\ [c EXCEPT !.out = {}, !.asks = FALSE] \in Call!Calls
           /\ LET d == [c EXCEPT !.out = {}, !.asks = FALSE]
              IN Alike(c, d) /\ d.state = c.state /\ d.controller = c.controller /\ d.posted = c.posted
  BY DEF Call!Calls, Wide, Alike

\* What setState(), finish() and hangup() do.
LEMMA SetStateIs ==
    ASSUME NEW c \in Wide, NEW s \in Call!States
    PROVE  LET d == Call!SetState(c, s) IN
           /\ d \in Wide /\ Alike(c, d) /\ Less(c, d) /\ d.out = c.out
           /\ d.state \in {c.state, s}
           /\ c.state \notin {"Failed", "FailedHangingUp"} => d.state = s
           /\ s = "Failed" => d.state = s
<1>1. CASE c.state = "Failed" \/ (c.state = "FailedHangingUp" /\ s # "Failed") \/ c.state = s
    BY <1>1 DEF Call!SetState, Alike, Less
<1>2. CASE ~(c.state = "Failed" \/ (c.state = "FailedHangingUp" /\ s # "Failed") \/ c.state = s)
    <2> DEFINE d == [c EXCEPT !.state = s, !.controller = IF s \in Call!Final \cup {"Busy"} THEN "none" ELSE @]
    <2>1. Call!SetState(c, s) = d
        BY <1>2 DEF Call!SetState
    <2>2. d \in Wide /\ Alike(c, d) /\ Less(c, d) /\ d.out = c.out /\ d.state = s
        BY DEF Wide, Alike, Less
    <2> QED
        BY <2>1, <2>2, <1>2
<1> QED
    BY <1>1, <1>2

LEMMA FinishIs ==
    ASSUME NEW c \in Wide, object \in Nat, NEW final \in Call!Outcomes, NEW reason \in Reasons
    PROVE  LET d == Call!Finish(c, final, reason) IN
           /\ d \in Wide /\ Alike(c, d) /\ Less(c, d)
           /\ d.state \in {c.state, "HangingUp", "FailedHangingUp"}
           /\ \A r \in d.out : r \in c.out \/ /\ Discard(c, r) /\ r.reason = reason
                                              /\ d.state \in {"HangingUp", "FailedHangingUp"}
<1>1. CASE c.state = "Requesting"
    <2> DEFINE d == [c EXCEPT !.finishTimers = @ \cup {final}, !.finishAfter = final]
    <2>1. Call!Finish(c, final, reason) = d
        BY <1>1 DEF Call!Finish, Call!Ending
    <2>2. d \in Wide /\ Alike(c, d) /\ Less(c, d) /\ d.out = c.out /\ d.state = c.state
        BY DEF Wide, Alike, Less, Call!Optional
    <2> QED
        BY <2>1, <2>2
<1>2. CASE c.state \in Call!Ending
    BY <1>2 DEF Call!Finish, Alike, Less, Call!Ending
<1>3. CASE c.state # "Requesting" /\ c.state \notin Call!Ending
    <2> DEFINE s == IF final = "Ended" THEN "HangingUp" ELSE "FailedHangingUp"
               r == [Call!Request("discard", c) EXCEPT !.final = final, !.reason = reason]
               b == Call!SetState(c, s)
               d == [b EXCEPT !.finishTimers = @ \cup {final}, !.out = @ \cup {r}]
    <2>1. Call!Finish(c, final, reason) = d
        BY <1>3 DEF Call!Finish, Call!Ending
    <2>2. Discard(c, r) /\ r.reason = reason
        BY DEF Discard, Call!Request, Call!Requests, Wide, Call!Optional, Reasons
    <2>3. s \in Call!States /\ s \in {"HangingUp", "FailedHangingUp"}
        BY DEF Call!States, Call!Ending
    <2>4. b \in Wide /\ Alike(c, b) /\ Less(c, b) /\ b.out = c.out /\ b.state = s
        BY <2>3, <1>3, SetStateIs DEF Call!Ending
    <2> HIDE DEF s, r, b
    <2>5. d \in Wide /\ Alike(b, d) /\ Less(b, d) /\ d.out = b.out \cup {r} /\ d.state = b.state
        BY <2>2, <2>4 DEF Wide, Alike, Less, Discard
    <2> HIDE DEF d
    <2> QED
        BY <2>1, <2>2, <2>3, <2>4, <2>5 DEF Alike, Less
<1> QED
    BY <1>1, <1>2, <1>3

LEMMA HangupIs ==
    ASSUME NEW c \in Wide, object \in Nat
    PROVE  LET d == Call!Hangup(c) IN
           /\ d \in Wide /\ Alike(c, d) /\ Less(c, d)
           /\ d.state \in {c.state, "HangingUp", "FailedHangingUp", "Ended"}
           /\ d.state = "Busy" => FALSE
           /\ \A r \in d.out : r \in c.out \/ /\ Discard(c, r) /\ (r.reason = "busy" => Call!Declined(c))
                                              /\ d.state \in {"HangingUp", "FailedHangingUp"}
<1>1. CASE c.state = "Busy"
    <2> DEFINE d == [c EXCEPT !.state = "Ended"]
    <2>1. d \in Wide /\ Alike(c, d) /\ Less(c, d) /\ d.out = c.out /\ d.state = "Ended"
        BY DEF Wide, Alike, Less, Call!States, Call!Ending
    <2> QED
        BY <1>1, <2>1 DEF Call!Hangup
<1>2. CASE c.state # "Busy"
    BY <1>2, FinishIs DEF Call!Hangup, Call!Outcomes, Reasons
<1> QED
    BY <1>1, <1>2

\* The first of the updates, or of the configurations that were asked for, may be taken.
Shrinks(s, t) == t = s \/ t = <<>> \/ (s # <<>> /\ t = Tail(s))

\* A request that the client may make now.
NewOK(r) ==
    /\ r \in Call!Requests /\ r.id <= made /\ r.object <= object'
    /\ r.kind = "accept" =>
        /\ r.id >= 1 /\ ~Ours(r.id) /\ Unaccepted(r.id) /\ ~Told("requested", r.id)
        /\ \A s \in Asked : s.reason = "busy" => s.id # r.id
    /\ r.kind = "confirm" =>
        /\ r.id >= 1 /\ Ours(r.id) /\ ~Told("accepted", r.id)' /\ ~Early(r.id)
        /\ \A s \in Asked : s.kind = "confirm" => s.id # r.id
    /\ r.kind = "request" => r.power # 0 /\ r.final = None /\ r.reason = "other"
    /\ r.kind = "discard" /\ r.object # 0 => r.final \in Call!Outcomes
    /\ r.reason = "busy" =>
        /\ r.kind = "discard" /\ r.id >= 1 /\ ~Ours(r.id) /\ ~Kept(r.id)
        /\ Unaccepted(r.id) /\ ~Told("requested", r.id)'

\* The call after the step, as seen by the others.
SideOK ==
    call # None =>
        /\ call \in Call!Calls /\ call.id <= made /\ object >= 1
        /\ ~Told("requested", call.id)
        /\ \A r \in Asked : r.reason = "busy" /\ r.id = call.id => ~CanAccept(call)

\* A step of the client, that may take an update and an answer and make a request.
ClientStep ==
    /\ UNCHANGED <<server, made>>
    /\ Shrinks(updates, updates')
    /\ callAnswers' \subseteq callAnswers
    /\ object' \in Nat /\ object <= object'
    /\ dhAsked' \in Seq(Nat) /\ \A p \in DOMAIN dhAsked' : dhAsked'[p] <= object'
    /\ \A r \in callRequests' : r \in callRequests \/ NewOK(r)
    /\ \A r, s \in callRequests' : r \notin callRequests /\ s \notin callRequests /\ Keyed(r) => r = s
    /\ SideOK'

\* What is left of a sequence was there before.
LEMMA Shrunk ==
    ASSUME NEW S, NEW s \in Seq(S), NEW t, Shrinks(s, t)
    PROVE  /\ t \in Seq(S)
           /\ \E d \in {0, 1} : \A p \in DOMAIN t : p \in Nat /\ p + d \in DOMAIN s /\ t[p] = s[p + d]
<1>1. CASE t = s
    <2>1. \A p \in DOMAIN t : p \in Nat /\ p + 0 \in DOMAIN s /\ t[p] = s[p + 0]
        BY <1>1
    <2> QED
        BY <1>1, <2>1
<1>2. CASE s # <<>> /\ t = Tail(s)
    <2>1. t \in Seq(S) /\ \A p \in DOMAIN t : p \in Nat /\ p + 1 \in DOMAIN s /\ t[p] = s[p + 1]
        BY <1>2
    <2> QED
        BY <2>1
<1>3. CASE t = <<>>
    <2>1. t \in Seq(S) /\ DOMAIN t = {}
        BY <1>3
    <2> QED
        BY <2>1
<1> QED
    BY <1>1, <1>2, <1>3 DEF Shrinks

LEMMA ShrunkNumbers ==
    ASSUME NEW s \in Seq(Nat), NEW t, Shrinks(s, t)
    PROVE  /\ t \in Seq(Nat)
           /\ \E d \in {0, 1} : \A p \in DOMAIN t : p \in Nat /\ p + d \in DOMAIN s /\ t[p] = s[p + d]
  BY Shrunk

LEMMA ShrunkUpdates ==
    ASSUME updates \in Seq(Updates), Shrinks(updates, updates')
    PROVE  /\ updates' \in Seq(Updates)
           /\ \E d \in {0, 1} : \A p \in DOMAIN updates' :
                  p \in Nat /\ p + d \in DOMAIN updates /\ updates'[p] = updates[p + d]
<1>1. PICK S : S = Updates
    OBVIOUS
<1>2. updates \in Seq(S)
    BY <1>1
<1>3. PICK t : t = updates'
    OBVIOUS
<1>4. /\ t \in Seq(S)
      /\ \E d \in {0, 1} : \A p \in DOMAIN t : p \in Nat /\ p + d \in DOMAIN updates /\ t[p] = updates[p + d]
    BY <1>2, <1>3, Shrunk
<1> QED
    BY <1>1, <1>3, <1>4

\* A client's step tells nothing.
LEMMA ToldLess ==
    ASSUME updates \in Seq(Updates), Shrinks(updates, updates'), NEW kind, NEW i, Told(kind, i)'
    PROVE  Told(kind, i)
  BY ShrunkUpdates DEF Told

\* A step of the client that asks only what it may keeps the world right.
LEMMA WorldStep ==
    ASSUME CallTypesOK, KnownOK, WorldOK, ClientStep
    PROVE  CallTypesOK' /\ KnownOK' /\ WorldOK'
<1> USE DEF WorldOK
<1>1. CallTypesOK'
    <2>1. updates' \in Seq(Updates)
        BY ShrunkUpdates DEF CallTypesOK, ClientStep
    <2>2. callRequests' \subseteq Call!Requests
        BY DEF CallTypesOK, ClientStep, NewOK
    <2>3. call' # None => call' \in Call!Calls
        BY DEF ClientStep, SideOK
    <2>4. object' \in Nat /\ made' \in 0..MaxCalls /\ dhAsked' \in Seq(Nat)
        BY DEF CallTypesOK, ClientStep
    <2>5. server' \in [Call!Ids -> Server]
        BY DEF CallTypesOK, ClientStep
    <2>6. callAnswers' \subseteq [to : Call!Requests, ok : BOOLEAN, id : 0..MaxCalls, reason : Reasons]
        BY DEF CallTypesOK, ClientStep
    <2> QED
        BY <2>1, <2>2, <2>3, <2>4, <2>5, <2>6
           DEF CallTypesOK, Call!Calls, Updates, Server, Call!Requests, Call!Ids, Reasons
<1>2. \A r \in Asked' : r \in Asked \/ (r \in callRequests' /\ r \notin callRequests /\ NewOK(r))
    BY DEF Asked, ClientStep
<1>3. \A kind, i : Told(kind, i)' => Told(kind, i)
    BY ToldLess DEF CallTypesOK, ClientStep
<1>4. UNCHANGED <<server, made>> /\ callAnswers' \subseteq callAnswers
    BY DEF ClientStep
<1>5. PICK n \in {0, 1} : \A p \in DOMAIN updates' : p \in Nat /\ p + n \in DOMAIN updates /\ updates'[p] = updates[p + n]
    <2>1. updates \in Seq(Updates) /\ Shrinks(updates, updates')
        BY DEF CallTypesOK, ClientStep
    <2> QED
        BY <2>1, ShrunkUpdates, Zenon
<1>6. KnownOK'
    <2>1. \A r \in Asked' : r.id \in 0..made' /\ r.object <= object'
        <3> SUFFICES ASSUME NEW r \in Asked' PROVE r.id \in 0..made' /\ r.object <= object'
            OBVIOUS
        <3>1. CASE r \in Asked
            <4>1. r.object \in Nat
                BY <3>1 DEF CallTypesOK, Asked, Call!Requests
            <4> QED
                BY <3>1, <1>4, <4>1 DEF KnownOK, ClientStep, CallTypesOK
        <3>2. CASE NewOK(r)
            BY <3>2, <1>4 DEF NewOK, Call!Requests, CallTypesOK
        <3> QED
            BY <3>1, <3>2, <1>2
    <2>2. \A a \in callAnswers' : a.id \in 0..made'
        BY <1>4 DEF KnownOK
    <2>3. \A p \in DOMAIN updates' : updates'[p].id <= made'
        BY <1>5, <1>4 DEF KnownOK
    <2>4. \A i \in Call!Ids : i > made' => server'[i].status = "none" /\ server'[i].reason = "other" /\ ~Ours(i)'
        BY <1>4 DEF KnownOK, Ours
    <2> QED
        BY <2>1, <2>2, <2>3, <2>4, <1>4 DEF KnownOK, ClientStep, SideOK
<1>7. \A i : /\ Ours(i)' = Ours(i) /\ Kept(i)' = Kept(i) /\ Refused(i)' = Refused(i) /\ Early(i)' = Early(i)
    BY <1>4 DEF Ours, Kept, Refused, Early
<1>8. UpdatesOK'
    <2>1. ASSUME NEW p \in DOMAIN updates', NEW u, u = updates'[p]
          PROVE  /\ u.reason = "busy" => Refused(u.id)'
                 /\ u.kind = "accepted" => Ours(u.id)'
                 /\ u.kind = "confirmed" => ~Ours(u.id)' /\ server'[u.id].status \in {"confirmed", "discarded"}
                 /\ u.kind = "requested" => ~Ours(u.id)' /\ Unaccepted(u.id)' /\ ~Kept(u.id)'
                 /\ u.kind = "requested" /\ call' # None => call'.id # u.id
        <3>1. p + n \in DOMAIN updates /\ u = updates[p + n]
            BY <1>5, <2>1
        <3>2. /\ u.reason = "busy" => Refused(u.id)
              /\ u.kind = "accepted" => Ours(u.id)
              /\ u.kind = "confirmed" => ~Ours(u.id) /\ server[u.id].status \in {"confirmed", "discarded"}
              /\ u.kind = "requested" => ~Ours(u.id) /\ Unaccepted(u.id) /\ ~Kept(u.id)
            BY <3>1 DEF UpdatesOK
        <3>3. Told(u.kind, u.id) /\ Told(u.kind, u.id)'
            BY <3>1, <2>1 DEF Told
        <3>4. u.kind = "requested" => Unaccepted(u.id)'
            BY <3>2, <3>3, <1>2 DEF Unaccepted, NewOK
        <3>5. u.kind = "requested" /\ call' # None => call'.id # u.id
            BY <3>3 DEF ClientStep, SideOK
        <3> QED
            BY <3>2, <3>4, <3>5, <1>7, <1>4
    <2>2. \A p, q \in DOMAIN updates' :
              updates'[p].id = updates'[q].id /\ updates'[p].kind = updates'[q].kind
                  /\ updates'[p].kind \in {"requested", "accepted", "confirmed"} => p = q
        <3> SUFFICES ASSUME NEW p \in DOMAIN updates', NEW q \in DOMAIN updates',
                            updates'[p].id = updates'[q].id, updates'[p].kind = updates'[q].kind,
                            updates'[p].kind \in {"requested", "accepted", "confirmed"}
                     PROVE  p = q
            OBVIOUS
        <3>1. p + n = q + n
            <4>1. /\ p + n \in DOMAIN updates /\ updates'[p] = updates[p + n]
                  /\ q + n \in DOMAIN updates /\ updates'[q] = updates[q + n]
                BY <1>5
            <4> QED
                BY <4>1 DEF UpdatesOK
        <3> QED
            BY <3>1, <1>5
    <2>3. \A r \in Asked' : r.kind = "confirm" => ~Told("accepted", r.id)'
        BY <1>2, <1>3 DEF UpdatesOK, NewOK
    <2> QED
        BY <2>1, <2>2, <2>3 DEF UpdatesOK
<1>9. ServerOK'
    <2>1. ASSUME NEW i \in 1..made, Early(i) PROVE Silent(i)'
        <3>1. Silent(i)
            BY <2>1 DEF ServerOK
        <3> QED
            BY <3>1, <2>1, <1>2, <1>3 DEF Silent, NewOK
    <2> QED
        BY <2>1, <1>4, <1>7 DEF ServerOK
<1>10. ASSUME NEW r \in Asked' PROVE AskedOK(r)'
    <2>1. CASE r \in Asked
        <3>1. AskedOK(r)
            BY <2>1
        <3>2. r.reason = "busy" => Unaccepted(r.id)' /\ ~Told("requested", r.id)'
            BY <2>1, <3>1, <1>2, <1>3 DEF AskedOK, Unaccepted, NewOK
        <3>4. r.reason = "busy" /\ call' # None /\ call'.id = r.id => ~CanAccept(call)'
            BY DEF ClientStep, SideOK
        <3> QED
            BY <3>1, <3>2, <3>4, <1>7 DEF AskedOK
    <2>2. CASE r \in callRequests' /\ r \notin callRequests /\ NewOK(r)
        <3>1. r.reason = "busy" => Unaccepted(r.id)'
            BY <2>2, <1>2 DEF NewOK, Unaccepted, ClientStep, Keyed
        <3>4. r.reason = "busy" /\ call' # None /\ call'.id = r.id => ~CanAccept(call)'
            BY DEF ClientStep, SideOK
        <3> QED
            BY <2>2, <3>1, <3>4, <1>7 DEF AskedOK, NewOK
    <2> QED
        BY <2>1, <2>2, <1>2
<1>11. AnswersOK'
    BY <1>4, <1>7 DEF AnswersOK
<1>12. OnceOK'
    <2>1. \A r \in callRequests' : Keyed(r) /\ r \notin callRequests =>
              \A s \in Asked : ~Same(r, s)
        BY DEF ClientStep, NewOK, Keyed, Same, Unaccepted
    <2>2. \A r, s \in callRequests' : Keyed(r) /\ Same(r, s) => r = s
        BY <2>1 DEF OnceOK, ClientStep, Keyed, Same, Asked
    <2>3. \A r \in callRequests', a \in callAnswers' : Keyed(r) => ~Same(r, a.to)
        BY <2>1, <1>4 DEF OnceOK, Asked
    <2> QED
        BY <2>2, <2>3, <1>4 DEF OnceOK
<1> QED
    BY <1>1, <1>6, <1>8, <1>9, <1>10, <1>11, <1>12

\* The call d comes from c without an exchange of keys.
Quiet(c, d) ==
    /\ Alike(c, d)
    /\ c.controller = "none" => d.controller = "none"
    /\ d.state \in {"Starting", "WaitingIncoming"} => c.state \in {"Starting", "WaitingIncoming"}
    /\ d.state = "ExchangingKeys" => c.state = "ExchangingKeys"
    /\ d.state = "Busy" => c.state = "Busy" \/ (c.id # 0 /\ Refused(c.id))
    /\ \A p \in DOMAIN d.posted : d.posted[p] \in {"Established", "Error"} \cup Call!Outcomes
\* A discard that may be made on the way.
Parting(c, d, r) ==
    /\ Discard(c, r)
    /\ r.reason = "busy" => Call!Declined(c) /\ d.state \notin {"Starting", "WaitingIncoming", "ExchangingKeys"}
Calmed(c, d) == d \in Wide /\ Quiet(c, d) /\ \A r \in d.out : Parting(c, d, r)

\* A step of the client that exchanges no keys: a call goes on towards its end or is destroyed.
CalmStep ==
    /\ UNCHANGED <<server, made, object>>
    /\ Shrinks(updates, updates') /\ Shrinks(dhAsked, dhAsked') /\ callAnswers' \subseteq callAnswers
    /\ \/ callRequests' \subseteq callRequests /\ call' \in {call, None}
       \/ call # None /\ \E d : Calmed(call, d) /\ Call!After(d)

\* A quiet call accepts no more than before.
LEMMA QuietAccepts ==
    ASSUME NEW c, NEW d, Quiet(c, d), CanAccept(d)
    PROVE  CanAccept(c)
  BY DEF Quiet, Alike, CanAccept

LEMMA QuietSame ==
    ASSUME NEW c, CallOK(c)
    PROVE  Quiet(c, c)
  BY DEF Quiet, Alike, CallOK

\* What a calm step makes of the call, and what it asks.
LEMMA CalmFacts ==
    ASSUME CallIInv, CalmStep
    PROVE  /\ call' # None => /\ call # None /\ call' \in Call!Calls /\ Quiet(call, call')
                              /\ call'.state \notin Call!Final
           /\ \A r \in callRequests' : \/ r \in callRequests
                                  \/ /\ call # None /\ Discard(call, r)
                                     /\ r.reason = "busy" => Call!Declined(call)
                                     /\ r.reason = "busy" /\ call' # None => ~CanAccept(call')
<1>1. CASE callRequests' \subseteq callRequests /\ call' \in {call, None}
    BY <1>1, QuietSame DEF CallIInv, OwnOK, CallTypesOK, CallOK
<1>2. CASE call # None /\ \E d : Calmed(call, d) /\ Call!After(d)
    <2>1. PICK d : Calmed(call, d) /\ Call!After(d)
        BY <1>2
    <2> DEFINE e == [d EXCEPT !.out = {}, !.asks = FALSE]
    <2>2. e \in Call!Calls /\ Alike(d, e) /\ e.state = d.state /\ e.controller = d.controller /\ e.posted = d.posted
        BY <2>1, WideIsCall DEF Calmed
    <2>3. call' = (IF d.state \in Call!Final THEN None ELSE e) /\ callRequests' = callRequests \cup d.out
        BY <2>1 DEF Call!After
    <2> HIDE DEF e
    <2>4. Quiet(call, e)
        BY <2>1, <2>2 DEF Calmed, Quiet, Alike
    <2>5. ASSUME NEW r \in callRequests', r \notin callRequests
          PROVE  /\ Discard(call, r)
                 /\ r.reason = "busy" => Call!Declined(call)
                 /\ r.reason = "busy" /\ call' # None => ~CanAccept(call')
        <3>1. Parting(call, d, r)
            BY <2>1, <2>3, <2>5 DEF Calmed
        <3>2. r.reason = "busy" => ~CanAccept(e)
            BY <3>1, <2>2 DEF Parting, CanAccept
        <3> QED
            BY <3>1, <3>2, <2>3 DEF Parting
    <2> QED
        BY <2>2, <2>3, <2>4, <2>5, <1>2
<1> QED
    BY <1>1, <1>2 DEF CalmStep

\* Calm steps keep the invariant.
LEMMA CalmStepSafe ==
    ASSUME CallIInv, CalmStep
    PROVE  CallIInv'
<1> USE DEF CallIInv
<1>1. /\ call' # None => /\ call # None /\ call' \in Call!Calls /\ Quiet(call, call')
                         /\ call'.state \notin Call!Final
      /\ \A r \in callRequests' : \/ r \in callRequests
                             \/ /\ call # None /\ Discard(call, r)
                                /\ r.reason = "busy" => Call!Declined(call)
                                /\ r.reason = "busy" /\ call' # None => ~CanAccept(call')
    BY CalmFacts
<1>2. UNCHANGED <<server, made, object>> /\ callAnswers' \subseteq callAnswers
    BY DEF CalmStep
<1>3. \A kind, i : Told(kind, i)' => Told(kind, i)
    BY ToldLess DEF CallTypesOK, CalmStep
<1>4. dhAsked \in Seq(Nat) /\ Shrinks(dhAsked, dhAsked')
    BY DEF CalmStep, CallTypesOK
<1>5. /\ dhAsked' \in Seq(Nat)
      /\ \E n \in {0, 1} : \A p \in DOMAIN dhAsked' : p \in Nat /\ p + n \in DOMAIN dhAsked /\ dhAsked'[p] = dhAsked[p + n]
    BY <1>4, ShrunkNumbers, Zenon
<1>6. \A i : /\ Ours(i)' = Ours(i) /\ Kept(i)' = Kept(i) /\ Refused(i)' = Refused(i) /\ Early(i)' = Early(i)
    BY <1>2 DEF Ours, Kept, Refused, Early
<1>7. ASSUME NEW r \in callRequests', r \notin callRequests
      PROVE  NewOK(r) /\ ~Keyed(r) /\ r.kind = "discard"
    <2>1. call # None /\ Discard(call, r) /\ (r.reason = "busy" => Call!Declined(call))
        BY <1>1, <1>7
    <2>2. r \in Call!Requests /\ r.id <= made /\ r.object <= object' /\ r.kind = "discard" /\ r.final \in Call!Outcomes
        BY <2>1, <1>2 DEF Discard, KnownOK, CallTypesOK
    <2>3. ASSUME r.reason = "busy"
          PROVE  /\ r.id >= 1 /\ ~Ours(r.id) /\ ~Kept(r.id)
                 /\ Unaccepted(r.id) /\ ~Told("requested", r.id)'
        <3>1. CanAccept(call) /\ IncomingOK(call) /\ call.type = "Incoming" /\ r.id = call.id
            BY <2>1, <2>3 DEF Call!Declined, CanAccept, OwnOK, Discard
        <3>2. ~Told("requested", call.id)
            BY <2>1 DEF WorldOK, UpdatesOK, Told
        <3> QED
            BY <3>1, <3>2, <1>3 DEF IncomingOK
    <2> QED
        BY <2>2, <2>3 DEF NewOK, Keyed
<1>8. SideOK'
    <2> SUFFICES ASSUME call' # None
                 PROVE  /\ call' \in Call!Calls /\ call'.id <= made' /\ object' >= 1
                        /\ ~Told("requested", call.id)'
                        /\ \A r \in Asked' : r.reason = "busy" /\ r.id = call'.id => ~CanAccept(call)'
        BY DEF SideOK
    <2>1. call'.id = call.id /\ call # None
        BY <1>1 DEF Quiet, Alike
    <2>2. ~Told("requested", call.id)
        BY <2>1 DEF WorldOK, UpdatesOK, Told
    <2>3. ~Told("requested", call.id)'
        BY <2>1, <2>2, <1>3
    <2>4. CanAccept(call)' => CanAccept(call)
        <3>1. CanAccept(call') => CanAccept(call)
            BY <1>1, QuietAccepts
        <3> QED
            BY <3>1 DEF CanAccept
    <2>5. ASSUME NEW r \in Asked', r.reason = "busy", r.id = call'.id
          PROVE  ~CanAccept(call)'
        <3>1. CASE r \in Asked
            BY <3>1, <2>1, <2>4, <2>5 DEF WorldOK, AskedOK
        <3>2. CASE r \in callRequests' /\ r \notin callRequests
            <4>1. ~CanAccept(call')
                BY <3>2, <1>1, <2>5
            <4> QED
                BY <4>1 DEF CanAccept
        <3> QED
            BY <3>1, <3>2, <1>2 DEF Asked
    <2> QED
        BY <1>1, <1>2, <2>1, <2>3, <2>5 DEF KnownOK
<1>9. ClientStep
    <2>1. \A p \in DOMAIN dhAsked' : dhAsked'[p] <= object'
        BY <1>5, <1>2 DEF KnownOK
    <2>2. object' \in Nat /\ object <= object'
        BY <1>2 DEF CallTypesOK
    <2> QED
        BY <1>2, <1>5, <1>7, <1>8, <2>1, <2>2 DEF ClientStep, CalmStep
<1>10. CallTypesOK' /\ KnownOK' /\ WorldOK'
    BY <1>9, WorldStep
<1>11. ASSUME call' # None PROVE CallOK(call)' /\ ControllerOK(call)' /\ IncomingOK(call)' /\ OutgoingOK(call)'
    <2> DEFINE c == call
    <2>1. PICK d : d = call'
        OBVIOUS
    <2>2. /\ c # None /\ d \in Call!Calls /\ Quiet(c, d) /\ d.state \notin Call!Final
          /\ CallOK(c) /\ ControllerOK(c) /\ IncomingOK(c) /\ OutgoingOK(c)
        BY <1>1, <1>11, <2>1 DEF OwnOK
    <2>3. \A r \in Asked' : r \in Asked \/ r.kind = "discard"
        BY <1>7, <1>2 DEF Asked
    <2>4. CallOK(d)'
        BY <2>2, <1>2, <1>6 DEF CallOK, Quiet, Alike
    <2>5. ControllerOK(d)'
        BY <2>2, <1>3, <1>6 DEF ControllerOK, Quiet, Alike
    <2>6. IncomingOK(d)'
        <3> SUFFICES ASSUME d.type = "Incoming"
                     PROVE  /\ d.id >= 1 /\ ~Ours(d.id)'
                            /\ \A r \in Asked' : r.object = object' => r.kind \notin {"request", "confirm"}
                            /\ CanAccept(d) \/ d.power = 0 => Unaccepted(d.id)' /\ ~Kept(d.id)'
                            /\ d.power # 0 => \A p \in DOMAIN dhAsked' : dhAsked'[p] # object'
                            /\ \A p, q \in DOMAIN dhAsked' : dhAsked'[p] = object' /\ dhAsked'[q] = object' => p = q
                            /\ \A r \in Asked' : r.kind = "accept" /\ r.id = d.id => r.power = d.power
                            /\ Kept(d.id)' => server'[d.id].power = d.power
                            /\ d.controller # "none" => server'[d.id].status \in {"confirmed", "discarded"}
            BY DEF IncomingOK, CanAccept
        <3>1. c.type = "Incoming" /\ d.id = c.id /\ d.power = c.power /\ (d.controller # "none" => c.controller # "none")
            BY <2>2 DEF Quiet, Alike
        <3>2. CanAccept(d) => CanAccept(c)
            BY <2>2, QuietAccepts
        <3>3. CanAccept(d) \/ d.power = 0 => Unaccepted(d.id)' /\ ~Kept(d.id)'
            BY <2>2, <2>3, <3>1, <3>2, <1>6 DEF IncomingOK, Unaccepted
        <3>4. d.power # 0 => \A p \in DOMAIN dhAsked' : dhAsked'[p] # object'
            BY <2>2, <3>1, <1>5, <1>2 DEF IncomingOK
        <3>5. \A p, q \in DOMAIN dhAsked' : dhAsked'[p] = object' /\ dhAsked'[q] = object' => p = q
            <4>1. PICK n \in {0, 1} : \A p \in DOMAIN dhAsked' : p \in Nat /\ p + n \in DOMAIN dhAsked /\ dhAsked'[p] = dhAsked[p + n]
                BY <1>5
            <4> SUFFICES ASSUME NEW p \in DOMAIN dhAsked', NEW q \in DOMAIN dhAsked',
                                dhAsked'[p] = object', dhAsked'[q] = object'
                         PROVE  p = q
                OBVIOUS
            <4>2. p \in Nat /\ q \in Nat /\ p + n = q + n
                BY <4>1, <2>2, <3>1, <1>2 DEF IncomingOK
            <4> QED
                BY <4>2
        <3> QED
            BY <2>2, <2>3, <3>1, <3>3, <3>4, <3>5, <1>2, <1>6 DEF IncomingOK
    <2>7. OutgoingOK(d)'
        <3>1. d.type = c.type /\ d.again = c.again /\ d.id = c.id /\ d.power = c.power
              /\ (c.controller = "none" => d.controller = "none")
            BY <2>2 DEF Quiet, Alike
        <3>2. \A r \in callRequests' : r \in callRequests \/ r.kind = "discard"
            BY <1>7
        <3> QED
            BY <2>2, <2>3, <3>1, <3>2, <1>2, <1>6 DEF OutgoingOK
    <2> QED
        BY <2>1, <2>4, <2>5, <2>6, <2>7
<1> QED
    BY <1>10, <1>11 DEF OwnOK

\* A step of the client takes nothing but an update and an answer.
Common ==
    UNCHANGED <<server, made>> /\ Shrinks(updates, updates') /\ callAnswers' \subseteq callAnswers

\* Such a step tells nothing new and changes nothing that the server knows.
LEMMA CommonFacts ==
    ASSUME CallTypesOK, Common
    PROVE  /\ \A kind, i : Told(kind, i)' => Told(kind, i)
           /\ \A i : /\ Ours(i)' = Ours(i) /\ Kept(i)' = Kept(i) /\ Refused(i)' = Refused(i)
                    /\ Early(i)' = Early(i)
           /\ server' = server /\ made' = made /\ callAnswers' \subseteq callAnswers
<1>1. \A kind, i : Told(kind, i)' => Told(kind, i)
    BY ToldLess DEF CallTypesOK, Common
<1>2. \A i : /\ Ours(i)' = Ours(i) /\ Kept(i)' = Kept(i) /\ Refused(i)' = Refused(i)
            /\ Early(i)' = Early(i)
    BY DEF Ours, Kept, Refused, Early, Common
<1> QED
    BY <1>1, <1>2 DEF Common

\* The DH configuration comes.
StartStep ==
    /\ call # None /\ Common /\ UNCHANGED object
    /\ dhAsked # <<>> /\ Head(dhAsked) = object /\ dhAsked' = Tail(dhAsked)
    /\ Call!After(Call!Start(call))

\* What start() does.
LEMMA StartIs ==
    ASSUME CallBounds, NEW c \in Wide, c.out = {}, object \in Nat
    PROVE  LET e == Call!Start(c) IN
           /\ e \in Wide /\ e.type = c.type /\ e.id = c.id /\ e.state = c.state
           /\ e.answerAfterDh = c.answerAfterDh /\ e.controller = c.controller
           /\ e.aborted = c.aborted /\ e.posted = c.posted
           /\ e.power = IF c.power = 0 THEN object ELSE c.power + MaxObjects
           /\ e.again <=> (c.power > 0 /\ c.type = "Outgoing")
           /\ \A r \in e.out :
                /\ r \in Call!Requests /\ r.kind = (IF c.type = "Outgoing" THEN "request" ELSE "received")
                /\ r.object = object /\ r.id = c.id /\ r.power = e.power /\ r.final = None
                /\ r.reason = "other" /\ e.out = {r}
<1> USE DEF CallBounds
<1> DEFINE d == [c EXCEPT !.power = IF @ = 0 THEN object ELSE @ + MaxObjects,
                          !.again = c.power > 0 /\ c.type = "Outgoing"]
           r == Call!Request(IF c.type = "Outgoing" THEN "request" ELSE "received", d)
           e == Call!Start(c)
<1>0. PICK n \in Nat : n = IF c.power = 0 THEN object ELSE c.power + MaxObjects
    BY DEF Wide
<1>1. /\ d \in Wide /\ d.type = c.type /\ d.id = c.id /\ d.state = c.state
      /\ d.answerAfterDh = c.answerAfterDh /\ d.controller = c.controller
      /\ d.aborted = c.aborted /\ d.posted = c.posted /\ d.out = {}
      /\ d.power = IF c.power = 0 THEN object ELSE c.power + MaxObjects
      /\ d.again <=> (c.power > 0 /\ c.type = "Outgoing")
    <2>1. d = [c EXCEPT !.power = n, !.again = c.power > 0 /\ c.type = "Outgoing"]
        BY <1>0
    <2> HIDE DEF d
    <2> QED
        BY <2>1, <1>0 DEF Wide
<1>2. e = CASE c.state \in {"Starting", "Requesting"} -> [d EXCEPT !.out = @ \cup {r}]
            [] c.state = "ExchangingKeys" /\ c.answerAfterDh -> [d EXCEPT !.asks = TRUE]
            [] OTHER -> d
    BY DEF Call!Start
<1> HIDE DEF e
<1>3. /\ r \in Call!Requests /\ r.kind = (IF c.type = "Outgoing" THEN "request" ELSE "received")
      /\ r.object = object /\ r.id = c.id /\ r.power = d.power /\ r.final = None /\ r.reason = "other"
    <2> HIDE DEF d
    <2> QED
        BY <1>1 DEF Call!Request, Call!Requests, Wide, Call!Optional
<1> HIDE DEF d, r
<1>4. CASE c.state \in {"Starting", "Requesting"}
    <2>1. e = [d EXCEPT !.out = @ \cup {r}]
        BY <1>2, <1>4
    <2>2. /\ e \in Wide /\ e.type = d.type /\ e.id = d.id /\ e.state = d.state
          /\ e.answerAfterDh = d.answerAfterDh /\ e.controller = d.controller
          /\ e.aborted = d.aborted /\ e.posted = d.posted /\ e.power = d.power /\ e.again = d.again
          /\ e.out = {r}
        BY <2>1, <1>1, <1>3 DEF Wide
    <2> QED
        BY <2>2, <1>1, <1>3 DEF e
<1>5. CASE c.state = "ExchangingKeys" /\ c.answerAfterDh
    <2>1. e = [d EXCEPT !.asks = TRUE]
        BY <1>2, <1>5
    <2>2. /\ e \in Wide /\ e.type = d.type /\ e.id = d.id /\ e.state = d.state
          /\ e.answerAfterDh = d.answerAfterDh /\ e.controller = d.controller
          /\ e.aborted = d.aborted /\ e.posted = d.posted /\ e.power = d.power /\ e.again = d.again
          /\ e.out = {}
        BY <2>1, <1>1, <1>3 DEF Wide
    <2> QED
        BY <2>2, <1>1, <1>3 DEF e
<1>6. CASE c.state \notin {"Starting", "Requesting"} /\ ~(c.state = "ExchangingKeys" /\ c.answerAfterDh)
    <2>1. e = d
        BY <1>2, <1>6
    <2> QED
        BY <2>1, <1>1, <1>3 DEF e
<1>7. QED
    BY <1>4, <1>5, <1>6 DEF e

\* start() asks for the call with its new power, and a call that starts once has none before.
LEMMA StartStepSafe ==
    ASSUME CallBounds, CallIInv, StartStep
    PROVE  CallIInv'
<1> USE DEF CallIInv
<1>1. /\ call # None /\ Common /\ object' = object
      /\ dhAsked # <<>> /\ Head(dhAsked) = object /\ dhAsked' = Tail(dhAsked)
    BY DEF StartStep
<1>2. /\ \A kind, i : Told(kind, i)' => Told(kind, i)
      /\ \A i : /\ Ours(i)' = Ours(i) /\ Kept(i)' = Kept(i) /\ Refused(i)' = Refused(i)
               /\ Early(i)' = Early(i)
      /\ server' = server /\ made' = made /\ callAnswers' \subseteq callAnswers
    BY <1>1, CommonFacts
<1>3. /\ object \in Nat /\ call \in Call!Calls /\ call \in Wide /\ call.out = {}
    BY <1>1, CallIsWide DEF CallTypesOK
<1>0. PICK c : c = call
    OBVIOUS
<1>4. /\ CallOK(c) /\ ControllerOK(c) /\ IncomingOK(c) /\ OutgoingOK(c)
    BY <1>1, <1>0 DEF OwnOK
<1>5. PICK e : e = Call!Start(call)
    OBVIOUS
<1>6. /\ e \in Wide /\ e.type = c.type /\ e.id = c.id /\ e.state = c.state
      /\ e.answerAfterDh = c.answerAfterDh /\ e.controller = c.controller
      /\ e.aborted = c.aborted /\ e.posted = c.posted
      /\ e.power = (IF c.power = 0 THEN object ELSE c.power + MaxObjects)
      /\ e.again <=> (c.power > 0 /\ c.type = "Outgoing")
      /\ \A r \in e.out :
          /\ r \in Call!Requests /\ r.kind = (IF c.type = "Outgoing" THEN "request" ELSE "received")
          /\ r.object = object /\ r.id = c.id /\ r.power = e.power /\ r.final = None
          /\ r.reason = "other" /\ e.out = {r}
    BY <1>3, <1>0, <1>5, StartIs
<1>7. PICK d : d = [e EXCEPT !.out = {}, !.asks = FALSE]
    OBVIOUS
<1>8. /\ d \in Call!Calls /\ Alike(e, d) /\ d.state = e.state /\ d.controller = e.controller /\ d.posted = e.posted
    BY <1>6, <1>7, WideIsCall
<1>9. call' = d /\ callRequests' = callRequests \cup e.out
    <2>1. e.state \notin Call!Final
        BY <1>4, <1>6 DEF CallOK
    <2> QED
        BY <2>1, <1>5, <1>7 DEF StartStep, Call!After
<1>10. /\ d.type = c.type /\ d.id = c.id /\ d.state = c.state /\ d.answerAfterDh = c.answerAfterDh
       /\ d.controller = c.controller /\ d.aborted = c.aborted /\ d.posted = c.posted
       /\ d.power = (IF c.power = 0 THEN object ELSE c.power + MaxObjects)
       /\ d.again <=> (c.power > 0 /\ c.type = "Outgoing")
    BY <1>6, <1>8 DEF Alike
<1>11. /\ c.power \in Nat /\ MaxObjects \in Nat /\ object >= 1 /\ c.id <= made
    BY <1>1, <1>3, <1>0 DEF CallBounds, Call!Calls, KnownOK
<1>12. d.power \in Nat /\ d.power # 0
    BY <1>3, <1>10, <1>11
<1>13. \A r \in callRequests' : r \in callRequests \/
          /\ r \in Call!Requests /\ r.kind = (IF c.type = "Outgoing" THEN "request" ELSE "received")
          /\ r.object = object /\ r.id = c.id /\ r.power = d.power /\ r.final = None
          /\ r.reason = "other" /\ e.out = {r}
    BY <1>6, <1>8, <1>9 DEF Alike
<1>14. CanAccept(d) = CanAccept(c)
    BY <1>10 DEF CanAccept
<1>15. ClientStep
    <2>1. \A r \in callRequests' : r \in callRequests \/ NewOK(r)
        <3> SUFFICES ASSUME NEW r \in callRequests', r \notin callRequests PROVE NewOK(r)
            OBVIOUS
        <3>1. /\ r \in Call!Requests /\ r.kind \in {"request", "received"}
              /\ r.object = object /\ r.id = c.id /\ r.power = d.power /\ r.final = None
              /\ r.reason = "other"
            BY <1>13
        <3> QED
            BY <3>1, <1>1, <1>3, <1>11, <1>12 DEF NewOK
    <2>2. SideOK'
        <3>1. ~Told("requested", c.id)'
            BY <1>1, <1>0, <1>2 DEF WorldOK, UpdatesOK, Told
        <3>2. \A r \in Asked' : r.reason = "busy" => r \in Asked
            BY <1>2, <1>13 DEF Asked
        <3>3. \A r \in Asked' : r.reason = "busy" /\ r.id = c.id => ~CanAccept(d)
            BY <1>1, <1>0, <1>14, <3>2 DEF WorldOK, AskedOK
        <3>4. /\ d \in Call!Calls /\ d.id <= made' /\ object' >= 1
              /\ ~Told("requested", d.id)'
              /\ \A r \in Asked' : r.reason = "busy" /\ r.id = d.id => ~CanAccept(d)'
            BY <1>1, <1>2, <1>8, <1>10, <1>11, <3>1, <3>3 DEF CanAccept
        <3> QED
            BY <3>4, <1>9 DEF SideOK
    <2>3. dhAsked' \in Seq(Nat) /\ \A p \in DOMAIN dhAsked' : dhAsked'[p] <= object'
        BY <1>1 DEF CallTypesOK, KnownOK
    <2> QED
        BY <1>1, <1>2, <1>3, <1>13, <2>1, <2>2, <2>3 DEF ClientStep, Common, Keyed
<1>16. CallTypesOK' /\ KnownOK' /\ WorldOK'
    BY <1>15, WorldStep
<1>17. CallOK(d)'
    <2>1. d.again => d.type = "Outgoing" /\ d.power # 0
        BY <1>10, <1>12
    <2>3. ~d.again => ~c.again
        BY <1>4, <1>10, <1>11 DEF CallOK
    <2>4. c.power # 0 /\ c.type # "Outgoing" => FALSE
        <3>1. 1 \in DOMAIN dhAsked /\ dhAsked[1] = object
            BY <1>1 DEF CallTypesOK
        <3>2. c.type # "Outgoing" => c.type = "Incoming"
            BY <1>0, <1>3 DEF Call!Calls
        <3> QED
            BY <3>1, <3>2, <1>4 DEF IncomingOK
    <2>2. ~d.again => d.power \in {0, object'} /\ ~d.aborted
        BY <1>1, <1>4, <1>10, <1>11, <2>3, <2>4 DEF CallOK
    <2> QED
        BY <1>2, <1>4, <1>10, <2>1, <2>2, <2>3 DEF CallOK
<1>18. ControllerOK(d)'
    <2>1. ~d.again => ~c.again
        BY <1>4, <1>10, <1>11 DEF CallOK
    <2> QED
        BY <1>2, <1>4, <1>10, <2>1 DEF ControllerOK
<1>19. IncomingOK(d)'
    <2> SUFFICES ASSUME d.type = "Incoming"
                 PROVE  /\ d.id >= 1 /\ ~Ours(d.id)'
                        /\ \A r \in Asked' : r.object = object' => r.kind \notin {"request", "confirm"}
                        /\ CanAccept(d) \/ d.power = 0 => Unaccepted(d.id)' /\ ~Kept(d.id)'
                        /\ d.power # 0 => \A p \in DOMAIN dhAsked' : dhAsked'[p] # object'
                        /\ \A p, q \in DOMAIN dhAsked' : dhAsked'[p] = object' /\ dhAsked'[q] = object' => p = q
                        /\ \A r \in Asked' : r.kind = "accept" /\ r.id = d.id => r.power = d.power
                        /\ Kept(d.id)' => server'[d.id].power = d.power
                        /\ d.controller # "none" => server'[d.id].status \in {"confirmed", "discarded"}
        BY DEF IncomingOK, CanAccept
    <2>1. c.type = "Incoming"
        BY <1>10
    <2>2. \A p \in DOMAIN dhAsked' : p \in Nat /\ p + 1 \in DOMAIN dhAsked /\ dhAsked'[p] = dhAsked[p + 1]
        BY <1>1 DEF CallTypesOK
    <2>3. 1 \in DOMAIN dhAsked /\ dhAsked[1] = object
        BY <1>1 DEF CallTypesOK
    <2>4. c.power = 0 /\ \A p \in DOMAIN dhAsked : dhAsked[p] = object => p = 1
        BY <2>1, <2>3, <1>4 DEF IncomingOK
    <2>5. \A p \in DOMAIN dhAsked' : dhAsked'[p] # object'
        <3> SUFFICES ASSUME NEW p \in DOMAIN dhAsked', dhAsked'[p] = object' PROVE FALSE
            OBVIOUS
        <3>1. p \in 1..Len(dhAsked) - 1 /\ p + 1 = 1
            BY <2>2, <2>4, <1>1 DEF CallTypesOK
        <3> QED
            BY <3>1
    <2>6. Unaccepted(c.id) /\ ~Kept(c.id)
        BY <2>1, <2>4, <1>4 DEF IncomingOK
    <2>7. \A r \in Asked' : r \in Asked \/ r.kind = "received"
        BY <2>1, <1>2, <1>13 DEF Asked
    <2> QED
        BY <2>1, <2>5, <2>6, <2>7, <1>1, <1>2, <1>4, <1>10, <1>14 DEF IncomingOK, Unaccepted
<1>20. OutgoingOK(d)'
    <2> SUFFICES ASSUME d.type = "Outgoing", ~d.again
                 PROVE  OutgoingOK(d)'
        BY DEF OutgoingOK
    <2>1. c.type = "Outgoing" /\ ~c.again /\ c.power = 0
        BY <1>4, <1>10, <1>11 DEF CallOK
    <2>2. \A r \in Asked : r.object = object => r.kind # "request"
        BY <2>1, <1>4 DEF OutgoingOK, WorldOK, AskedOK
    <2>3. c.id # 0 => ~Ours(c.id)
        <3>1. c.id # 0 => c.id \in 1..made
            BY <1>0, <1>11, <1>3 DEF Call!Calls, CallTypesOK
        <3> QED
            BY <3>1, <2>1, <1>4 DEF OutgoingOK, WorldOK, ServerOK
    <2>4. c.id # 0 => ~Ours(c.id)' /\ Refused(c.id)'
        BY <2>1, <2>3, <1>2, <1>4 DEF OutgoingOK
    <2>5. \A a \in callAnswers' : ~(a.to.object = object' /\ a.to.kind = "request")
        BY <2>2, <1>1, <1>2 DEF Asked
    <2>6. \A r \in Asked' : r.object = object' /\ r.kind = "request" => r.power = d.power /\ r.id = d.id
        BY <2>2, <2>5, <1>1, <1>10, <1>13 DEF Asked
    <2>7. \A r \in Asked' : r.object = object' /\ r.kind = "confirm" => r.id = d.id /\ d.controller = "none"
        BY <2>1, <1>1, <1>2, <1>4, <1>10, <1>13 DEF Asked, OutgoingOK
    <2> QED
        BY <2>4, <2>5, <2>6, <2>7, <1>10 DEF OutgoingOK
<1> QED
    BY <1>9, <1>16, <1>17, <1>18, <1>19, <1>20 DEF OwnOK

\* The call is answered.
AcceptStep ==
    /\ call # None /\ Common /\ UNCHANGED <<object, dhAsked>>
    /\ CanAccept(call) /\ Call!After(Call!ActuallyAnswer(call))

\* What actuallyAnswer() does.
LEMMA AnswerIs ==
    ASSUME NEW c \in Wide, c.out = {}, object \in Nat, CanAccept(c)
    PROVE  LET e == Call!ActuallyAnswer(c) IN
           /\ e \in Wide /\ e.type = c.type /\ e.id = c.id /\ e.power = c.power
           /\ e.again = c.again /\ e.aborted = c.aborted /\ e.posted = c.posted
           /\ e.controller \in {c.controller, "none"}
           /\ e.state = "ExchangingKeys" /\ (e.answerAfterDh <=> c.power = 0)
           /\ \A r \in e.out :
                /\ c.power # 0
                /\ r \in Call!Requests /\ r.kind = "accept" /\ r.object = object /\ r.id = c.id
                /\ r.power = c.power /\ r.final = None /\ r.reason = "other" /\ e.out = {r}
<1> DEFINE b == Call!SetState(c, "ExchangingKeys")
           r == Call!Request("accept", c)
           out == IF c.power = 0 THEN {} ELSE {r}
           e == Call!ActuallyAnswer(c)
<1>1. e = [b EXCEPT !.answerAfterDh = (c.power = 0), !.out = @ \cup out]
    BY DEF Call!ActuallyAnswer, CanAccept
<1>2. b \in Wide /\ Alike(c, b) /\ Less(c, b) /\ b.out = {} /\ b.state = "ExchangingKeys"
    <2>1. "ExchangingKeys" \in Call!States /\ c.state \notin {"Failed", "FailedHangingUp"}
        BY DEF Call!States, CanAccept
    <2> QED
        BY <2>1, SetStateIs
<1>3. /\ r \in Call!Requests /\ r.kind = "accept" /\ r.object = object /\ r.id = c.id
      /\ r.power = c.power /\ r.final = None /\ r.reason = "other"
    BY DEF Call!Request, Call!Requests, Wide, Call!Optional
<1> HIDE DEF b, r, e
<1>4. /\ e \in Wide /\ e.type = b.type /\ e.id = b.id /\ e.power = b.power
      /\ e.again = b.again /\ e.aborted = b.aborted /\ e.posted = b.posted
      /\ e.controller = b.controller /\ e.state = b.state /\ (e.answerAfterDh <=> c.power = 0)
      /\ e.out = out
    <2>1. out \subseteq Call!Requests
        BY <1>3
    <2> HIDE DEF out
    <2>2. PICK n \in BOOLEAN : n <=> c.power = 0
        OBVIOUS
    <2>3. e = [b EXCEPT !.answerAfterDh = n, !.out = @ \cup out]
        BY <1>1, <2>2
    <2> QED
        BY <1>2, <2>1, <2>2, <2>3 DEF Wide
<1> QED
    BY <1>2, <1>3, <1>4 DEF Alike, Less, e

\* A call is accepted once, and with the power it has.
LEMMA AcceptStepSafe ==
    ASSUME CallIInv, AcceptStep
    PROVE  CallIInv'
<1> USE DEF CallIInv
<1>1. /\ call # None /\ Common /\ object' = object /\ dhAsked' = dhAsked /\ CanAccept(call)
    BY DEF AcceptStep
<1>2. /\ \A kind, i : Told(kind, i)' => Told(kind, i)
      /\ \A i : /\ Ours(i)' = Ours(i) /\ Kept(i)' = Kept(i) /\ Refused(i)' = Refused(i)
               /\ Early(i)' = Early(i)
      /\ server' = server /\ made' = made /\ callAnswers' \subseteq callAnswers
    BY <1>1, CommonFacts
<1>3. /\ object \in Nat /\ call \in Call!Calls /\ call \in Wide /\ call.out = {}
    BY <1>1, CallIsWide DEF CallTypesOK
<1>0. PICK c : c = call
    OBVIOUS
<1>4. /\ CallOK(c) /\ ControllerOK(c) /\ IncomingOK(c) /\ OutgoingOK(c)
    BY <1>1, <1>0 DEF OwnOK
<1>5. PICK e : e = Call!ActuallyAnswer(call)
    OBVIOUS
<1>6. /\ e \in Wide /\ e.type = c.type /\ e.id = c.id /\ e.power = c.power
      /\ e.again = c.again /\ e.aborted = c.aborted /\ e.posted = c.posted
      /\ e.controller \in {c.controller, "none"}
      /\ e.state = "ExchangingKeys" /\ (e.answerAfterDh <=> c.power = 0)
      /\ \A r \in e.out :
           /\ c.power # 0
           /\ r \in Call!Requests /\ r.kind = "accept" /\ r.object = object /\ r.id = c.id
           /\ r.power = c.power /\ r.final = None /\ r.reason = "other" /\ e.out = {r}
    BY <1>1, <1>3, <1>0, <1>5, AnswerIs
<1>7. PICK d : d = [e EXCEPT !.out = {}, !.asks = FALSE]
    OBVIOUS
<1>8. /\ d \in Call!Calls /\ Alike(e, d) /\ d.state = e.state /\ d.controller = e.controller /\ d.posted = e.posted
    BY <1>6, <1>7, WideIsCall
<1>9. call' = d /\ callRequests' = callRequests \cup e.out
    <2>1. e.state \notin Call!Final
        BY <1>6 DEF Call!Final
    <2> QED
        BY <2>1, <1>5, <1>7 DEF AcceptStep, Call!After
<1>10. /\ d.type = "Incoming" /\ c.type = "Incoming" /\ d.id = c.id /\ d.power = c.power /\ d.again = c.again
       /\ d.aborted = c.aborted /\ d.posted = c.posted /\ d.state = "ExchangingKeys"
       /\ d.controller \in {c.controller, "none"} /\ (d.answerAfterDh <=> c.power = 0)
    BY <1>0, <1>1, <1>6, <1>8 DEF Alike, CanAccept
<1>11. /\ c.id >= 1 /\ c.id <= made /\ object >= 1 /\ ~Ours(c.id) /\ Unaccepted(c.id) /\ ~Kept(c.id)
       /\ ~Told("requested", c.id)
    BY <1>0, <1>1, <1>4, <1>10 DEF KnownOK, IncomingOK, WorldOK, UpdatesOK, Told
<1>12. \A s \in Asked : s.reason = "busy" => s.id # c.id
    BY <1>0, <1>1 DEF WorldOK, AskedOK
<1>13. \A r \in callRequests' : r \in callRequests \/
          /\ c.power # 0 /\ r \in Call!Requests /\ r.kind = "accept" /\ r.object = object /\ r.id = c.id
          /\ r.power = c.power /\ r.final = None /\ r.reason = "other" /\ e.out = {r}
    BY <1>6, <1>9
<1>15. ClientStep
    <2>1. \A r \in callRequests' : r \in callRequests \/ NewOK(r)
        BY <1>1, <1>3, <1>11, <1>12, <1>13 DEF NewOK
    <2>2. SideOK'
        <3>1. \A r \in Asked' : r.reason = "busy" => r.id # c.id
            BY <1>2, <1>12, <1>13 DEF Asked
        <3>2. /\ d \in Call!Calls /\ d.id <= made' /\ object' >= 1 /\ ~Told("requested", d.id)'
              /\ \A r \in Asked' : r.reason = "busy" /\ r.id = d.id => ~CanAccept(d)'
            BY <1>1, <1>2, <1>8, <1>10, <1>11, <3>1
        <3> QED
            BY <3>2, <1>9 DEF SideOK
    <2>3. dhAsked' \in Seq(Nat) /\ \A p \in DOMAIN dhAsked' : dhAsked'[p] <= object'
        BY <1>1 DEF CallTypesOK, KnownOK
    <2>4. \A r, s \in callRequests' : r \notin callRequests /\ s \notin callRequests /\ Keyed(r) => r = s
        BY <1>13
    <2>5. object' \in Nat /\ object <= object'
        BY <1>1, <1>3
    <2> QED
        BY <1>1, <1>2, <2>1, <2>2, <2>3, <2>4, <2>5 DEF ClientStep, Common
<1>16. CallTypesOK' /\ KnownOK' /\ WorldOK'
    BY <1>15, WorldStep
<1>17. CallOK(d)'
    BY <1>1, <1>4, <1>10 DEF CallOK, Call!Final
<1>18. ControllerOK(d)'
    BY <1>2, <1>4, <1>10 DEF ControllerOK
<1>19. IncomingOK(d)'
    <2> SUFFICES ASSUME d.type = "Incoming"
                 PROVE  /\ d.id >= 1 /\ ~Ours(d.id)'
                        /\ \A r \in Asked' : r.object = object' => r.kind \notin {"request", "confirm"}
                        /\ CanAccept(d) \/ d.power = 0 => Unaccepted(d.id)' /\ ~Kept(d.id)'
                        /\ d.power # 0 => \A p \in DOMAIN dhAsked' : dhAsked'[p] # object'
                        /\ \A p, q \in DOMAIN dhAsked' : dhAsked'[p] = object' /\ dhAsked'[q] = object' => p = q
                        /\ \A r \in Asked' : r.kind = "accept" /\ r.id = d.id => r.power = d.power
                        /\ Kept(d.id)' => server'[d.id].power = d.power
                        /\ d.controller # "none" => server'[d.id].status \in {"confirmed", "discarded"}
        BY DEF IncomingOK, CanAccept
    <2>1. c.power # 0 => ~CanAccept(d)
        BY <1>10 DEF CanAccept
    <2>2. c.power = 0 => Asked' \subseteq Asked
        BY <1>2, <1>13 DEF Asked
    <2>3. \A r \in Asked' : r \in Asked \/ (r.kind = "accept" /\ r.power = d.power)
        BY <1>2, <1>10, <1>13 DEF Asked
    <2> QED
        BY <2>1, <2>2, <2>3, <1>1, <1>2, <1>4, <1>10, <1>11 DEF IncomingOK, Unaccepted
<1>20. OutgoingOK(d)'
    BY <1>10 DEF OutgoingOK
<1> QED
    BY <1>9, <1>16, <1>17, <1>18, <1>19, <1>20 DEF OwnOK

\* Another call is created in place of this one.
NewCallStep(type, id) ==
    /\ Common /\ Call!CreateCall(type, id)
    /\ \/ type = "Outgoing" /\ id = 0
       \/ /\ type = "Incoming" /\ (call = None \/ call.state = "Busy") /\ updates # <<>> /\ updates' = Tail(updates)
          /\ Head(updates).kind = "requested" /\ Head(updates).id = id

\* What is told once is not told again.
LEMMA ToldOnce ==
    ASSUME CallTypesOK, UpdatesOK, updates # <<>>, updates' = Tail(updates),
           NEW u, u = Head(updates), u.kind \in {"requested", "accepted", "confirmed"}
    PROVE  Told(u.kind, u.id) /\ ~Told(u.kind, u.id)'
<1>1. updates \in Seq(Updates)
    BY DEF CallTypesOK
<1>2. 1 \in DOMAIN updates /\ updates[1] = u
    BY <1>1
<1>3. \A p \in DOMAIN updates' : p \in Nat \ {0} /\ p + 1 \in DOMAIN updates /\ updates'[p] = updates[p + 1]
    BY <1>1
<1>4. ASSUME Told(u.kind, u.id)' PROVE FALSE
    <2>1. PICK p \in DOMAIN updates' : updates'[p].kind = u.kind /\ updates'[p].id = u.id
        BY <1>4 DEF Told
    <2>2. p \in Nat \ {0} /\ p + 1 \in DOMAIN updates /\ updates[p + 1].kind = u.kind /\ updates[p + 1].id = u.id
        BY <2>1, <1>3
    <2>3. p + 1 = 1
        BY <2>2, <1>2 DEF UpdatesOK
    <2> QED
        BY <2>2, <2>3
<1> QED
    BY <1>2, <1>4 DEF Told

\* A new call knows nothing and is not known.
LEMMA NewCallStepSafe ==
    ASSUME CallBounds, CallIInv, NEW type, NEW id, NewCallStep(type, id)
    PROVE  CallIInv'
<1> USE DEF CallIInv
<1>1. Common /\ object \in Nat
    BY DEF NewCallStep, CallTypesOK
<1>2. /\ \A kind, i : Told(kind, i)' => Told(kind, i)
      /\ \A i : /\ Ours(i)' = Ours(i) /\ Kept(i)' = Kept(i) /\ Refused(i)' = Refused(i)
               /\ Early(i)' = Early(i)
      /\ server' = server /\ made' = made /\ callAnswers' \subseteq callAnswers
    BY <1>1, CommonFacts
<1>3. \A r \in callRequests' : r \in callRequests \/
          (/\ type = "Outgoing" /\ call # None /\ Discard(call, r)
           /\ r.reason = "busy" => Call!Declined(call))
    <2> SUFFICES ASSUME NEW r \in callRequests', r \notin callRequests
                 PROVE  /\ type = "Outgoing" /\ call # None /\ Discard(call, r)
                        /\ r.reason = "busy" => Call!Declined(call)
        OBVIOUS
    <2>1. call # None /\ r \in Call!Hangup(call).out
        BY DEF NewCallStep, Call!CreateCall
    <2>2. call \in Wide /\ call.out = {}
        BY <2>1, CallIsWide DEF CallTypesOK
    <2>3. PICK e : e = Call!Hangup(call)
        OBVIOUS
    <2>4. \A x \in e.out : x \in call.out \/ /\ Discard(call, x) /\ (x.reason = "busy" => Call!Declined(call))
        BY <2>2, <2>3, <1>1, HangupIs
    <2>5. call.state # "Busy"
        <3> SUFFICES ASSUME call.state = "Busy" PROVE FALSE
            OBVIOUS
        <3>1. Call!Hangup(call) = [call EXCEPT !.state = "Ended"]
            BY DEF Call!Hangup
        <3> QED
            BY <3>1, <2>1, <2>2 DEF Wide
    <2> QED
        BY <2>1, <2>2, <2>3, <2>4, <2>5 DEF NewCallStep
<1>4. \A r \in Asked' : r \in Asked \/ (r.kind = "discard" /\ type = "Outgoing" /\ r.object = object)
    BY <1>2, <1>3 DEF Asked, Discard
<1>5. object' = object + 1 /\ dhAsked' = Append(dhAsked, object')
    BY DEF NewCallStep, Call!CreateCall
<1>6. \A r \in Asked' : r.object # object'
    <2>1. \A r \in Asked : r.object \in Nat /\ r.object <= object
        BY DEF CallTypesOK, Asked, Call!Requests, KnownOK
    <2> QED
        BY <2>1, <1>1, <1>4, <1>5
<1>7. /\ dhAsked' \in Seq(Nat) /\ \A p \in DOMAIN dhAsked' : dhAsked'[p] <= object'
      /\ \A p \in DOMAIN dhAsked' : dhAsked'[p] = object' => p = Len(dhAsked) + 1
    <2>1. dhAsked \in Seq(Nat) /\ \A p \in DOMAIN dhAsked : dhAsked[p] \in Nat /\ dhAsked[p] <= object
        BY DEF CallTypesOK, KnownOK
    <2> QED
        BY <2>1, <1>1, <1>5
<1>8. /\ ~Told("requested", id)'
      /\ type \in {"Outgoing", "Incoming"} /\ id \in 0..MaxCalls /\ id <= made
      /\ type = "Outgoing" => id = 0
      /\ type = "Incoming" =>
            /\ id >= 1 /\ ~Ours(id) /\ Unaccepted(id) /\ ~Kept(id)
            /\ \A r \in Asked : r.reason = "busy" => r.id # id
    <2>1. CASE type = "Outgoing" /\ id = 0
        <3>1. ~Told("requested", 0)
            <4>1. \A p \in DOMAIN updates : updates[p] \in Updates
                BY DEF CallTypesOK
            <4>2. \A x \in Updates : x.id # 0
                BY DEF Updates, Call!Ids
            <4> QED
                BY <4>1, <4>2 DEF Told
        <3>2. ~Told("requested", id)'
            BY <3>1, <2>1, <1>2
        <3> QED
            BY <3>2, <2>1 DEF CallBounds, CallTypesOK
    <2>2. CASE /\ type = "Incoming" /\ updates # <<>> /\ updates' = Tail(updates)
               /\ Head(updates).kind = "requested" /\ Head(updates).id = id
        <3>1. PICK u : u = Head(updates)
            OBVIOUS
        <3>2. u.kind = "requested" /\ u.id = id /\ Told("requested", id) /\ ~Told("requested", id)'
            BY <2>2, <3>1, ToldOnce DEF WorldOK
        <3>3. id \in Call!Ids /\ id <= made /\ ~Ours(id) /\ Unaccepted(id) /\ ~Kept(id)
            <4>1. PICK p \in DOMAIN updates : updates[p].kind = "requested" /\ updates[p].id = id
                BY <3>2 DEF Told
            <4>2. updates[p] \in Updates
                BY DEF CallTypesOK
            <4> QED
                BY <4>1, <4>2 DEF Updates, KnownOK, WorldOK, UpdatesOK
        <3>4. \A r \in Asked : r.reason = "busy" => r.id # id
            BY <3>2 DEF WorldOK, AskedOK
        <3> QED
            BY <2>2, <3>2, <3>3, <3>4 DEF CallBounds, Call!Ids
    <2> QED
        BY <2>1, <2>2 DEF NewCallStep
<1>9. PICK d : d = Call!New(type, id)
    OBVIOUS
<1>10. /\ d \in Call!Calls /\ d.type = type /\ d.id = id /\ d.power = 0 /\ d.again = FALSE
       /\ d.answerAfterDh = FALSE /\ d.controller = "none" /\ d.posted = <<>> /\ d.aborted = FALSE
       /\ d.state = (IF type = "Outgoing" THEN "Requesting" ELSE "Starting")
    BY <1>8, <1>9 DEF Call!New, Call!Calls, Call!States, Call!Optional
<1>11. call' = d
    BY <1>9 DEF NewCallStep, Call!CreateCall
<1>18. ASSUME NEW r \in callRequests', r \notin callRequests
       PROVE  NewOK(r) /\ ~Keyed(r)
    <2>1. call # None /\ Discard(call, r) /\ (r.reason = "busy" => Call!Declined(call))
        BY <1>3, <1>18
    <2>2. r \in Call!Requests /\ r.id <= made /\ r.object <= object' /\ r.kind = "discard" /\ r.final \in Call!Outcomes
        BY <2>1, <1>1, <1>5 DEF Discard, KnownOK, CallTypesOK
    <2>3. ASSUME r.reason = "busy"
          PROVE  /\ r.id >= 1 /\ ~Ours(r.id) /\ ~Kept(r.id)
                 /\ Unaccepted(r.id) /\ ~Told("requested", r.id)'
        <3>1. CanAccept(call) /\ IncomingOK(call) /\ call.type = "Incoming" /\ r.id = call.id
            BY <2>1, <2>3 DEF Call!Declined, CanAccept, OwnOK, Discard
        <3>2. ~Told("requested", call.id)
            BY <2>1 DEF WorldOK, UpdatesOK, Told
        <3> QED
            BY <3>1, <3>2, <1>2 DEF IncomingOK
    <2> QED
        BY <2>2, <2>3 DEF NewOK, Keyed
<1>12. ClientStep
    <2>1. SideOK'
        <3>1. \A r \in Asked' : r.reason = "busy" /\ r.id = d.id => ~CanAccept(d)
            BY <1>4, <1>8, <1>10 DEF CanAccept
        <3>2. /\ d \in Call!Calls /\ d.id <= made' /\ object' >= 1 /\ ~Told("requested", d.id)'
              /\ \A r \in Asked' : r.reason = "busy" /\ r.id = d.id => ~CanAccept(d)'
            BY <1>1, <1>2, <1>5, <1>8, <1>10, <3>1 DEF CanAccept
        <3> QED
            BY <3>2, <1>11 DEF SideOK
    <2>2. object' \in Nat /\ object <= object'
        BY <1>1, <1>5
    <2> QED
        BY <1>1, <1>2, <1>7, <1>18, <2>1, <2>2 DEF ClientStep, Common
<1>13. CallTypesOK' /\ KnownOK' /\ WorldOK'
    BY <1>12, WorldStep
<1>14. CallOK(d)'
    BY <1>8, <1>10 DEF CallOK, Call!Final
<1>15. ControllerOK(d)'
    BY <1>10 DEF ControllerOK
<1>16. IncomingOK(d)'
    <2> SUFFICES ASSUME d.type = "Incoming"
                 PROVE  /\ d.id >= 1 /\ ~Ours(d.id)'
                        /\ \A r \in Asked' : r.object = object' => r.kind \notin {"request", "confirm"}
                        /\ CanAccept(d) \/ d.power = 0 => Unaccepted(d.id)' /\ ~Kept(d.id)'
                        /\ d.power # 0 => \A p \in DOMAIN dhAsked' : dhAsked'[p] # object'
                        /\ \A p, q \in DOMAIN dhAsked' : dhAsked'[p] = object' /\ dhAsked'[q] = object' => p = q
                        /\ \A r \in Asked' : r.kind = "accept" /\ r.id = d.id => r.power = d.power
                        /\ Kept(d.id)' => server'[d.id].power = d.power
                        /\ d.controller # "none" => server'[d.id].status \in {"confirmed", "discarded"}
        BY DEF IncomingOK, CanAccept
    <2>1. type = "Incoming"
        BY <1>10
    <2> QED
        BY <2>1, <1>2, <1>4, <1>6, <1>7, <1>8, <1>10 DEF Unaccepted
<1>17. OutgoingOK(d)'
    <2>1. \A a \in callAnswers' : a.to.object # object'
        BY <1>6 DEF Asked
    <2> QED
        BY <2>1, <1>6, <1>8, <1>10 DEF OutgoingOK
<1> QED
    BY <1>11, <1>13, <1>14, <1>15, <1>16, <1>17 DEF OwnOK

\* A call that is redialled has not exchanged its keys, unless it has started twice.
LEMMA RedialSafe ==
    ASSUME CallIInv, Call!Redial
    PROVE  CallIInv'
<1> USE DEF CallIInv
<1>1. /\ call # None /\ call.state = "Busy" /\ Common /\ object' = object /\ object \in Nat
      /\ dhAsked' = Append(dhAsked, object) /\ call \in Call!Calls
    BY DEF Call!Redial, Call!Environment, Common, Shrinks, CallTypesOK
<1>2. /\ \A kind, i : Told(kind, i)' => Told(kind, i)
      /\ \A i : /\ Ours(i)' = Ours(i) /\ Kept(i)' = Kept(i) /\ Refused(i)' = Refused(i)
               /\ Early(i)' = Early(i)
      /\ server' = server /\ made' = made /\ callAnswers' \subseteq callAnswers
    BY <1>1, CommonFacts
<1>3. PICK c : c = call
    OBVIOUS
<1>4. /\ CallOK(c) /\ ControllerOK(c) /\ IncomingOK(c) /\ OutgoingOK(c)
    BY <1>1, <1>3 DEF OwnOK
<1>5. PICK a \in BOOLEAN : a <=> c.controller # "none"
    OBVIOUS
<1>6. PICK d : d = [call EXCEPT !.type = "Outgoing", !.state = "Requesting", !.answerAfterDh = FALSE,
                                !.aborted = a]
    OBVIOUS
<1>7. /\ d \in Wide /\ d.type = "Outgoing" /\ d.state = "Requesting" /\ d.answerAfterDh = FALSE
      /\ d.aborted = a /\ d.controller = c.controller /\ d.posted = c.posted /\ d.id = c.id
      /\ d.power = c.power /\ d.again = c.again /\ d.out = {} /\ d.asks = FALSE
    <2>1. call \in Wide /\ call.out = {} /\ call.asks = FALSE
        BY <1>1, CallIsWide
    <2> QED
        BY <2>1, <1>3, <1>5, <1>6 DEF Wide, Call!States
<1>8. PICK e : e = [d EXCEPT !.out = {}, !.asks = FALSE]
    OBVIOUS
<1>9. e \in Call!Calls /\ Alike(d, e) /\ e.state = d.state /\ e.controller = d.controller /\ e.posted = d.posted
    BY <1>7, <1>8, WideIsCall
<1>10. /\ e.type = "Outgoing" /\ e.state = "Requesting" /\ e.answerAfterDh = FALSE
       /\ e.aborted = a /\ e.controller = c.controller /\ e.posted = c.posted /\ e.id = c.id
       /\ e.power = c.power /\ e.again = c.again
    BY <1>7, <1>9 DEF Alike
<1>11. call' = e /\ callRequests' = callRequests
    <2>1. d = [call EXCEPT !.type = "Outgoing", !.state = "Requesting", !.answerAfterDh = FALSE,
                           !.aborted = call.controller # "none"]
        BY <1>3, <1>5, <1>6
    <2> HIDE DEF CallIInv
    <2>2. Call!After(d)
        BY <2>1 DEF Call!Redial, Call!Becomes
    <2> QED
        BY <2>2, <1>7, <1>8 DEF Call!After, Call!Final
<1>12. Asked' \subseteq Asked
    BY <1>2, <1>11 DEF Asked
<1>13. ClientStep
    <2>1. SideOK'
        <3>1. ~Told("requested", c.id)'
            BY <1>1, <1>2, <1>3 DEF WorldOK, UpdatesOK, Told
        <3>2. /\ e \in Call!Calls /\ e.id <= made' /\ object' >= 1 /\ ~Told("requested", e.id)'
              /\ \A r \in Asked' : r.reason = "busy" /\ r.id = e.id => ~CanAccept(e)'
            BY <1>1, <1>2, <1>3, <1>9, <1>10, <3>1 DEF CanAccept, KnownOK
        <3> QED
            BY <3>2, <1>11 DEF SideOK
    <2>2. object' \in Nat /\ object <= object'
        BY <1>1
    <2>3. dhAsked' \in Seq(Nat) /\ \A p \in DOMAIN dhAsked' : dhAsked'[p] <= object'
        <3>1. dhAsked \in Seq(Nat) /\ \A p \in DOMAIN dhAsked : dhAsked[p] <= object
            BY DEF CallTypesOK, KnownOK
        <3> QED
            BY <3>1, <1>1
    <2> QED
        BY <1>1, <1>2, <1>11, <2>1, <2>2, <2>3 DEF ClientStep, Common
<1>14. CallTypesOK' /\ KnownOK' /\ WorldOK'
    BY <1>13, WorldStep
<1>15. ~c.again => c.controller = "none" /\ c.id # 0 /\ Refused(c.id)
    BY <1>1, <1>3, <1>4 DEF CallOK, ControllerOK, Early
<1>16. CallOK(e)'
    BY <1>1, <1>4, <1>5, <1>10, <1>15 DEF CallOK, Call!Final
<1>17. ControllerOK(e)'
    BY <1>10, <1>15 DEF ControllerOK
<1>18. IncomingOK(e)'
    BY <1>10 DEF IncomingOK
<1>19. OutgoingOK(e)'
    <2>1. c.type \in {"Incoming", "Outgoing"}
        BY <1>1, <1>3 DEF Call!Calls
    <2>2. CASE c.type = "Incoming"
        <3>1. /\ \A r \in Asked' : r.object = object' => r.kind \notin {"request", "confirm"}
              /\ ~Ours(c.id)'
            BY <2>2, <1>1, <1>2, <1>4, <1>12 DEF IncomingOK
        <3>2. \A a1 \in callAnswers' : a1.to \in Asked'
            BY DEF Asked
        <3> QED
            BY <3>1, <3>2, <1>2, <1>10, <1>15 DEF OutgoingOK
    <2>3. CASE c.type = "Outgoing"
        BY <2>3, <1>1, <1>2, <1>4, <1>10, <1>11, <1>12, <1>15 DEF OutgoingOK
    <2> QED
        BY <2>1, <2>2, <2>3
<1> QED
    BY <1>11, <1>14, <1>16, <1>17, <1>18, <1>19 DEF OwnOK

\* An outgoing call gets its number.
TakesStep(a) ==
    /\ call # None /\ Common /\ UNCHANGED <<object, dhAsked>>
    /\ a \in callAnswers /\ a.ok /\ a.to.kind = "request" /\ a.to.object = object
    /\ callAnswers' = callAnswers \ {a} /\ Call!After(Call!Requested(call, a))

\* What the answer to messages.requestCall does.
LEMMA RequestedIs ==
    ASSUME NEW c \in Wide, c.out = {}, c.type = "Outgoing", c.state \notin Call!Final, object \in Nat,
           NEW a, a.id \in 0..MaxCalls
    PROVE  LET e == Call!Requested(c, a) IN
           /\ e \in Wide /\ e.type = "Outgoing" /\ e.id = a.id /\ e.power = c.power
           /\ e.again = c.again /\ e.aborted = c.aborted /\ e.posted = c.posted
           /\ e.answerAfterDh = c.answerAfterDh /\ e.controller \in {c.controller, "none"}
           /\ e.state \in {"Waiting", "HangingUp", "FailedHangingUp", "Ended"}
           /\ \A r \in e.out : Discard(e, r) /\ r.reason # "busy"
<1> DEFINE b == Call!SetState(c, "Waiting")
           d == [b EXCEPT !.id = a.id]
           e == Call!Requested(c, a)
<1>1. /\ b \in Wide /\ Alike(c, b) /\ Less(c, b) /\ b.out = {}
      /\ b.state \in {"Waiting", "FailedHangingUp"}
    <2>1. "Waiting" \in Call!States /\ c.state # "Failed"
        BY DEF Call!States, Call!Final
    <2> QED
        BY <2>1, SetStateIs
<1> HIDE DEF b
<1>2. /\ d \in Wide /\ d.type = b.type /\ d.id = a.id /\ d.power = b.power /\ d.again = b.again
      /\ d.answerAfterDh = b.answerAfterDh /\ d.aborted = b.aborted /\ d.controller = b.controller
      /\ d.posted = b.posted /\ d.out = b.out /\ d.state = b.state
    BY <1>1 DEF Wide
<1>3. e = IF d.finishAfter = None THEN Call!Waits([d EXCEPT !.discardTimer = TRUE], FALSE)
          ELSE IF d.finishAfter = "Failed" THEN Call!Fail(d) ELSE Call!Hangup(d)
    BY DEF Call!Requested, b
<1> HIDE DEF d, e
<1>4. CASE d.finishAfter = None
    <2>1. e = [d EXCEPT !.discardTimer = TRUE]
        BY <1>3, <1>4 DEF Call!Waits
    <2>2. /\ e \in Wide /\ e.type = d.type /\ e.id = d.id /\ e.power = d.power /\ e.again = d.again
          /\ e.answerAfterDh = d.answerAfterDh /\ e.aborted = d.aborted /\ e.controller = d.controller
          /\ e.posted = d.posted /\ e.out = d.out /\ e.state = d.state
        BY <2>1, <1>2 DEF Wide
    <2> QED
        BY <2>2, <1>1, <1>2 DEF Alike, Less, e
<1>5. CASE d.finishAfter # None /\ d.finishAfter = "Failed"
    <2>1. e = Call!Finish(d, "Failed", "other")
        BY <1>3, <1>5 DEF Call!Fail
    <2>2. /\ e \in Wide /\ Alike(d, e) /\ Less(d, e)
          /\ e.state \in {d.state, "HangingUp", "FailedHangingUp"}
          /\ \A r \in e.out : r \in d.out \/ (Discard(d, r) /\ r.reason = "other")
        BY <2>1, <1>2, FinishIs DEF Call!Outcomes, Reasons
    <2> QED
        BY <2>2, <1>1, <1>2 DEF Alike, Less, Discard, e
<1>6. CASE d.finishAfter # None /\ d.finishAfter # "Failed"
    <2>1. e = Call!Hangup(d)
        BY <1>3, <1>6
    <2>2. /\ e \in Wide /\ Alike(d, e) /\ Less(d, e)
          /\ e.state \in {d.state, "HangingUp", "FailedHangingUp", "Ended"}
          /\ \A r \in e.out : r \in d.out \/ (Discard(d, r) /\ (r.reason = "busy" => Call!Declined(d)))
        BY <2>1, <1>2, HangupIs
    <2> QED
        BY <2>2, <1>1, <1>2 DEF Alike, Less, Discard, Call!Declined, e
<1> QED
    BY <1>4, <1>5, <1>6

\* An outgoing call gets the number under which the server has its power.
LEMMA TakesStepSafe ==
    ASSUME CallIInv, NEW a, TakesStep(a)
    PROVE  CallIInv'
<1> USE DEF CallIInv
<1>1. /\ call # None /\ Common /\ object' = object /\ dhAsked' = dhAsked
      /\ a \in callAnswers /\ a.ok /\ a.to.kind = "request" /\ a.to.object = object
      /\ callAnswers' = callAnswers \ {a} /\ a.to \in Asked
    BY DEF TakesStep, Asked
<1>2. /\ \A kind, i : Told(kind, i)' => Told(kind, i)
      /\ \A i : /\ Ours(i)' = Ours(i) /\ Kept(i)' = Kept(i) /\ Refused(i)' = Refused(i)
               /\ Early(i)' = Early(i)
      /\ server' = server /\ made' = made /\ callAnswers' \subseteq callAnswers
    BY <1>1, CommonFacts
<1>3. /\ object \in Nat /\ call \in Call!Calls /\ call \in Wide /\ call.out = {}
    BY <1>1, CallIsWide DEF CallTypesOK
<1>0. PICK c : c = call
    OBVIOUS
<1>4. /\ CallOK(c) /\ ControllerOK(c) /\ IncomingOK(c) /\ OutgoingOK(c)
    BY <1>1, <1>0 DEF OwnOK
<1>5. c.type = "Outgoing" /\ c.state \notin Call!Final
    <2>1. c.type \in {"Incoming", "Outgoing"}
        BY <1>0, <1>3 DEF Call!Calls
    <2> QED
        BY <2>1, <1>1, <1>4 DEF IncomingOK, CallOK
<1>6. a.id \in 0..MaxCalls /\ a.id >= 1 /\ a.id <= made /\ Ours(a.id)
    BY <1>1 DEF CallTypesOK, KnownOK, WorldOK, AnswersOK
<1>7. PICK e : e = Call!Requested(call, a)
    OBVIOUS
<1>8. /\ e \in Wide /\ e.type = "Outgoing" /\ e.id = a.id /\ e.power = c.power
      /\ e.again = c.again /\ e.aborted = c.aborted /\ e.posted = c.posted
      /\ e.answerAfterDh = c.answerAfterDh /\ e.controller \in {c.controller, "none"}
      /\ e.state \in {"Waiting", "HangingUp", "FailedHangingUp", "Ended"}
      /\ \A r \in e.out : Discard(e, r) /\ r.reason # "busy"
    BY <1>0, <1>3, <1>5, <1>6, <1>7, RequestedIs
<1>9. PICK d : d = [e EXCEPT !.out = {}, !.asks = FALSE]
    OBVIOUS
<1>10. /\ d \in Call!Calls /\ Alike(e, d) /\ d.state = e.state /\ d.controller = e.controller /\ d.posted = e.posted
    BY <1>8, <1>9, WideIsCall
<1>11. call' = (IF e.state \in Call!Final THEN None ELSE d) /\ callRequests' = callRequests \cup e.out
    BY <1>7, <1>9 DEF TakesStep, Call!After
<1>12. /\ d.type = "Outgoing" /\ d.id = a.id /\ d.power = c.power
       /\ d.again = c.again /\ d.aborted = c.aborted /\ d.posted = c.posted
       /\ d.answerAfterDh = c.answerAfterDh /\ d.controller \in {c.controller, "none"}
       /\ d.state \in {"Waiting", "HangingUp", "FailedHangingUp", "Ended"}
    BY <1>8, <1>10 DEF Alike
<1>13. \A r \in callRequests' : r \in callRequests \/
           (r \in Call!Requests /\ r.kind = "discard" /\ r.object = object /\ r.id = a.id
            /\ r.final \in Call!Outcomes /\ r.reason # "busy")
    BY <1>8, <1>11 DEF Discard
<1>14. ClientStep
    <2>1. \A r \in callRequests' : r \in callRequests \/ NewOK(r)
        BY <1>1, <1>3, <1>6, <1>13 DEF NewOK
    <2>2. SideOK'
        <3>1. ~Told("requested", a.id)'
            BY <1>2, <1>6 DEF WorldOK, UpdatesOK, Told
        <3>2. object >= 1
            BY <1>1 DEF KnownOK
        <3>3. /\ d \in Call!Calls /\ d.id <= made' /\ object' >= 1 /\ ~Told("requested", d.id)'
              /\ \A r \in Asked' : r.reason = "busy" /\ r.id = d.id => ~CanAccept(d)'
            BY <1>1, <1>2, <1>6, <1>10, <1>12, <3>1, <3>2 DEF CanAccept
        <3> QED
            BY <3>3, <1>11 DEF SideOK
    <2>3. \A r, s \in callRequests' : r \notin callRequests /\ s \notin callRequests /\ Keyed(r) => r = s
        BY <1>13 DEF Keyed
    <2>4. object' \in Nat /\ object <= object'
        BY <1>1, <1>3
    <2>5. dhAsked' \in Seq(Nat) /\ \A p \in DOMAIN dhAsked' : dhAsked'[p] <= object'
        BY <1>1 DEF CallTypesOK, KnownOK
    <2> QED
        BY <1>1, <1>2, <2>1, <2>2, <2>3, <2>4, <2>5 DEF ClientStep, Common
<1>15. CallTypesOK' /\ KnownOK' /\ WorldOK'
    BY <1>14, WorldStep
<1>16. ASSUME e.state \notin Call!Final
       PROVE  CallOK(d)' /\ ControllerOK(d)' /\ IncomingOK(d)' /\ OutgoingOK(d)'
    <2>0. d.state \notin Call!Final
        BY <1>10, <1>16
    <2>1. CallOK(d)'
        BY <2>0, <1>1, <1>4, <1>5, <1>12 DEF CallOK
    <2>2. ~c.again => c.id = 0 \/ (~Ours(c.id) /\ Refused(c.id))
        BY <1>1, <1>4, <1>5 DEF OutgoingOK
    <2>3. ControllerOK(d)'
        BY <2>2, <1>4, <1>12 DEF ControllerOK, Early
    <2>4. IncomingOK(d)'
        BY <1>12 DEF IncomingOK
    <2>5. ASSUME ~c.again PROVE OutgoingOK(d)'
        <3>1. /\ server[a.id].power = c.power
              /\ \A r \in callRequests : r.object = object => r.kind # "request"
              /\ \A b \in callAnswers : b.to.object = object /\ b.to.kind = "request" => a = b
            BY <1>1, <1>4, <1>5, <2>5 DEF OutgoingOK
        <3>2. \A r \in callRequests' : r.object = object => r.kind # "request"
            BY <3>1, <1>13
        <3>3. \A b \in callAnswers' : b.to.object = object => b.to.kind # "request"
            BY <3>1, <1>1
        <3>4. \A r \in Asked' : r.object = object => r.kind # "request"
            BY <3>2, <3>3 DEF Asked
        <3>5. \A r \in Asked : r.object = object => r.kind # "confirm"
            BY <2>2, <2>5, <1>4, <1>5 DEF OutgoingOK, WorldOK, AskedOK
        <3>6. \A r \in Asked' : r.object = object => r.kind # "confirm"
            BY <3>5, <1>2, <1>13 DEF Asked
        <3> QED
            BY <3>1, <3>3, <3>4, <3>6, <1>1, <1>2, <1>6, <1>12 DEF OutgoingOK
    <2>6. c.again => OutgoingOK(d)'
        BY <1>12 DEF OutgoingOK
    <2> QED
        BY <2>1, <2>3, <2>4, <2>5, <2>6
<1> QED
    BY <1>11, <1>15, <1>16 DEF OwnOK

\* An outgoing call was accepted.
ConfirmStep(u) ==
    /\ call # None /\ Common /\ UNCHANGED <<object, dhAsked>>
    /\ updates # <<>> /\ u = Head(updates) /\ updates' = Tail(updates)
    /\ u.kind = "accepted" /\ u.id = call.id /\ call.type = "Outgoing"
    /\ Call!After(Call!Accepted(call))

\* What the update of an accepted call does.
LEMMA AcceptedIs ==
    ASSUME NEW c \in Wide, c.out = {}, c.type = "Outgoing", object \in Nat
    PROVE  LET e == Call!Accepted(c) IN
           /\ e \in Wide /\ Alike(c, e) /\ Less(c, e)
           /\ e.state \in {c.state, "ExchangingKeys"}
           /\ \E r : /\ e.out = {r} /\ r \in Call!Requests /\ r.kind = "confirm" /\ r.object = object
                     /\ r.id = c.id /\ r.reason = "other"
<1> DEFINE b == Call!SetState(c, "ExchangingKeys")
           r == Call!Request("confirm", c)
           e == Call!Accepted(c)
<1>1. e = [b EXCEPT !.out = @ \cup {r}]
    BY DEF Call!Accepted
<1>2. /\ b \in Wide /\ Alike(c, b) /\ Less(c, b) /\ b.out = {} /\ b.state \in {c.state, "ExchangingKeys"}
    <2>1. "ExchangingKeys" \in Call!States
        BY DEF Call!States
    <2> QED
        BY <2>1, SetStateIs
<1>3. /\ r \in Call!Requests /\ r.kind = "confirm" /\ r.object = object /\ r.id = c.id /\ r.reason = "other"
    BY DEF Call!Request, Call!Requests, Wide, Call!Optional
<1> HIDE DEF b, r, e
<1>4. /\ e \in Wide /\ Alike(b, e) /\ Less(b, e) /\ e.state = b.state /\ e.out = {r}
    BY <1>1, <1>2, <1>3 DEF Wide, Alike, Less
<1>5. e \in Wide /\ Alike(c, e) /\ Less(c, e) /\ e.state \in {c.state, "ExchangingKeys"}
    BY <1>2, <1>4 DEF Alike, Less
<1>6. \E x : /\ e.out = {x} /\ x \in Call!Requests /\ x.kind = "confirm" /\ x.object = object
            /\ x.id = c.id /\ x.reason = "other"
    BY <1>3, <1>4
<1> QED
    BY <1>5, <1>6 DEF e

\* A call is confirmed once.
LEMMA ConfirmStepSafe ==
    ASSUME CallIInv, NEW u, ConfirmStep(u)
    PROVE  CallIInv'
<1> USE DEF CallIInv
<1>1. /\ call # None /\ Common /\ object' = object /\ dhAsked' = dhAsked
      /\ updates # <<>> /\ u = Head(updates) /\ updates' = Tail(updates)
      /\ u.kind = "accepted" /\ u.id = call.id /\ call.type = "Outgoing"
    BY DEF ConfirmStep
<1>2. /\ \A kind, i : Told(kind, i)' => Told(kind, i)
      /\ \A i : /\ Ours(i)' = Ours(i) /\ Kept(i)' = Kept(i) /\ Refused(i)' = Refused(i)
               /\ Early(i)' = Early(i)
      /\ server' = server /\ made' = made /\ callAnswers' \subseteq callAnswers
    BY <1>1, CommonFacts
<1>3. /\ object \in Nat /\ call \in Call!Calls /\ call \in Wide /\ call.out = {}
    BY <1>1, CallIsWide DEF CallTypesOK
<1>0. PICK c : c = call
    OBVIOUS
<1>4. /\ CallOK(c) /\ ControllerOK(c) /\ IncomingOK(c) /\ OutgoingOK(c)
    BY <1>1, <1>0 DEF OwnOK
<1>5. Told("accepted", c.id) /\ ~Told("accepted", c.id)'
    BY <1>0, <1>1, ToldOnce DEF WorldOK
<1>6. c.id \in 1..made /\ Ours(c.id) /\ ~Early(c.id) /\ object >= 1
    <2>1. PICK p \in DOMAIN updates : updates[p].kind = "accepted" /\ updates[p].id = c.id
        BY <1>5 DEF Told
    <2>2. updates[p] \in Updates
        BY DEF CallTypesOK
    <2>3. c.id \in 1..made /\ Ours(c.id) /\ object >= 1
        BY <1>1, <1>0, <2>1, <2>2
           DEF Updates, Call!Ids, KnownOK, CallTypesOK, WorldOK, UpdatesOK
    <2>4. ~Early(c.id)
        BY <2>3, <1>5 DEF WorldOK, ServerOK, Silent
    <2> QED
        BY <2>3, <2>4
<1>7. PICK e : e = Call!Accepted(call)
    OBVIOUS
<1>8. /\ e \in Wide /\ Alike(c, e) /\ Less(c, e)
      /\ e.state \in {c.state, "ExchangingKeys"}
      /\ \E r : /\ e.out = {r} /\ r \in Call!Requests /\ r.kind = "confirm" /\ r.object = object
                /\ r.id = c.id /\ r.reason = "other"
    BY <1>0, <1>1, <1>3, <1>7, AcceptedIs
<1>9. PICK d : d = [e EXCEPT !.out = {}, !.asks = FALSE]
    OBVIOUS
<1>10. /\ d \in Call!Calls /\ Alike(e, d) /\ d.state = e.state /\ d.controller = e.controller /\ d.posted = e.posted
    BY <1>8, <1>9, WideIsCall
<1>11. call' = d /\ callRequests' = callRequests \cup e.out
    <2>1. e.state \notin Call!Final
        BY <1>4, <1>8 DEF CallOK, Call!Final
    <2> QED
        BY <2>1, <1>7, <1>9 DEF ConfirmStep, Call!After
<1>12. /\ d.type = "Outgoing" /\ c.type = "Outgoing" /\ d.id = c.id /\ d.power = c.power
       /\ d.again = c.again /\ d.aborted = c.aborted /\ d.posted = c.posted
       /\ d.answerAfterDh = c.answerAfterDh /\ d.controller \in {c.controller, "none"}
       /\ d.state \in {c.state, "ExchangingKeys"}
    BY <1>0, <1>1, <1>8, <1>10 DEF Alike, Less
<1>13. PICK r : /\ callRequests' = callRequests \cup {r} /\ r \in Call!Requests /\ r.kind = "confirm"
                /\ r.object = object /\ r.id = c.id /\ r.reason = "other"
    BY <1>8, <1>11
<1>14. ClientStep
    <2>1. NewOK(r)
        <3>1. \A s \in Asked : s.kind = "confirm" => s.id # r.id
            BY <1>5, <1>13 DEF WorldOK, UpdatesOK
        <3> QED
            BY <3>1, <1>1, <1>3, <1>5, <1>6, <1>13 DEF NewOK
    <2>2. SideOK'
        <3>1. ~Told("requested", c.id)'
            BY <1>0, <1>1, <1>2 DEF WorldOK, UpdatesOK, Told
        <3>3. /\ d \in Call!Calls /\ d.id <= made' /\ object' >= 1 /\ ~Told("requested", d.id)'
              /\ \A s \in Asked' : s.reason = "busy" /\ s.id = d.id => ~CanAccept(d)'
            BY <1>1, <1>2, <1>6, <1>10, <1>12, <3>1 DEF CanAccept
        <3> QED
            BY <3>3, <1>11 DEF SideOK
    <2>3. \A s, t \in callRequests' : s \notin callRequests /\ t \notin callRequests /\ Keyed(s) => s = t
        BY <1>13
    <2>4. object' \in Nat /\ object <= object'
        BY <1>1, <1>3
    <2>5. dhAsked' \in Seq(Nat) /\ \A p \in DOMAIN dhAsked' : dhAsked'[p] <= object'
        BY <1>1 DEF CallTypesOK, KnownOK
    <2>6. \A s \in callRequests' : s \in callRequests \/ NewOK(s)
        BY <2>1, <1>13
    <2> QED
        BY <1>1, <1>2, <2>6, <2>2, <2>3, <2>4, <2>5 DEF ClientStep, Common
<1>15. CallTypesOK' /\ KnownOK' /\ WorldOK'
    BY <1>14, WorldStep
<1>16. ~c.again => c.controller = "none"
    BY <1>4, <1>5 DEF ControllerOK
<1>17. CallOK(d)'
    BY <1>1, <1>2, <1>4, <1>12 DEF CallOK, Call!Final
<1>18. ControllerOK(d)'
    BY <1>12, <1>16 DEF ControllerOK
<1>19. IncomingOK(d)'
    BY <1>12 DEF IncomingOK
<1>20. OutgoingOK(d)'
    <2> SUFFICES ASSUME ~c.again PROVE OutgoingOK(d)'
        BY <1>12 DEF OutgoingOK
    <2>1. d.controller = "none"
        BY <1>12, <1>16
    <2>2. \A s \in Asked' : s \in Asked \/ s = r
        BY <1>2, <1>13 DEF Asked
    <2>3. \A s \in Asked' : s.object = object' /\ s.kind = "request" =>
             s.power = d.power /\ s.id = d.id /\ (d.id # 0 => ~Ours(d.id)')
        BY <2>2, <1>1, <1>2, <1>4, <1>12, <1>13 DEF OutgoingOK
    <2>4. \A s \in Asked' : s.object = object' /\ s.kind = "confirm" => s.id = d.id
        BY <2>2, <1>1, <1>4, <1>12, <1>13 DEF OutgoingOK
    <2> QED
        BY <2>1, <2>3, <2>4, <1>1, <1>2, <1>4, <1>12, <1>13 DEF OutgoingOK
<1> QED
    BY <1>11, <1>15, <1>17, <1>18, <1>19, <1>20 DEF OwnOK

\* The keys are there.
ControllerStep ==
    /\ call # None /\ Common /\ UNCHANGED <<object, dhAsked>>
    /\ Call!After(Call!CreateController(call))
    /\ \/ \E a \in callAnswers : /\ a.to.kind = "confirm" /\ a.to.object = object
                              /\ callAnswers' = callAnswers \ {a}
       \/ /\ call.type = "Incoming" /\ updates # <<>> /\ updates' = Tail(updates)
          /\ Head(updates).kind = "confirmed" /\ Head(updates).id = call.id

\* A controller is created once, with the keys of the call.
LEMMA ControllerStepSafe ==
    ASSUME CallIInv, ControllerStep
    PROVE  CallIInv'
<1> USE DEF CallIInv
<1>1. /\ call # None /\ Common /\ object' = object /\ dhAsked' = dhAsked
    BY DEF ControllerStep
<1>2. /\ \A kind, i : Told(kind, i)' => Told(kind, i)
      /\ \A i : /\ Ours(i)' = Ours(i) /\ Kept(i)' = Kept(i) /\ Refused(i)' = Refused(i)
               /\ Early(i)' = Early(i)
      /\ server' = server /\ made' = made /\ callAnswers' \subseteq callAnswers
    BY <1>1, CommonFacts
<1>3. /\ object \in Nat /\ call \in Call!Calls /\ call \in Wide /\ call.out = {}
    BY <1>1, CallIsWide DEF CallTypesOK
<1>0. PICK c : c = call
    OBVIOUS
<1>4. /\ CallOK(c) /\ ControllerOK(c) /\ IncomingOK(c) /\ OutgoingOK(c)
    BY <1>1, <1>0 DEF OwnOK
<1>5. PICK b \in BOOLEAN : b <=> (c.aborted \/ c.controller # "none")
    OBVIOUS
<1>6. PICK e : e = Call!CreateController(call)
    OBVIOUS
<1>7. /\ e \in Wide /\ e.type = c.type /\ e.id = c.id /\ e.power = c.power /\ e.again = c.again
      /\ e.answerAfterDh = c.answerAfterDh /\ e.state = c.state /\ e.posted = c.posted
      /\ e.aborted = b /\ e.controller = "started" /\ e.out = {}
    <2>1. c \in Wide /\ c.out = {}
        BY <1>0, <1>3
    <2>2. e = [c EXCEPT !.discardTimer = FALSE, !.controller = "started", !.aborted = b]
        BY <1>0, <1>5, <1>6 DEF Call!CreateController
    <2> QED
        BY <2>1, <2>2 DEF Wide
<1>8. PICK d : d = [e EXCEPT !.out = {}, !.asks = FALSE]
    OBVIOUS
<1>9. /\ d \in Call!Calls /\ Alike(e, d) /\ d.state = e.state /\ d.controller = e.controller /\ d.posted = e.posted
    BY <1>7, <1>8, WideIsCall
<1>10. call' = d /\ callRequests' = callRequests
    <2>1. e.state \notin Call!Final
        BY <1>4, <1>7 DEF CallOK
    <2> QED
        BY <2>1, <1>6, <1>7, <1>8 DEF ControllerStep, Call!After
<1>11. /\ d.type = c.type /\ d.id = c.id /\ d.power = c.power /\ d.again = c.again
       /\ d.answerAfterDh = c.answerAfterDh /\ d.state = c.state /\ d.posted = c.posted
       /\ d.aborted = b /\ d.controller = "started"
    BY <1>7, <1>9 DEF Alike
<1>12. Asked' \subseteq Asked /\ c.id <= made /\ object >= 1
    BY <1>0, <1>1, <1>2, <1>10 DEF Asked, KnownOK
<1>13. c.type \in {"Incoming", "Outgoing"} /\ c.id \in 0..MaxCalls
    BY <1>0, <1>3 DEF Call!Calls
<1>14. CanAccept(d) = CanAccept(c)
    BY <1>11 DEF CanAccept
<1>15. ClientStep
    <2>2. SideOK'
        <3>1. ~Told("requested", c.id)'
            BY <1>0, <1>1, <1>2 DEF WorldOK, UpdatesOK, Told
        <3>2. \A r \in Asked' : r.reason = "busy" /\ r.id = c.id => ~CanAccept(d)
            BY <1>1, <1>0, <1>14, <1>12 DEF WorldOK, AskedOK
        <3>3. /\ d \in Call!Calls /\ d.id <= made' /\ object' >= 1 /\ ~Told("requested", d.id)'
              /\ \A r \in Asked' : r.reason = "busy" /\ r.id = d.id => ~CanAccept(d)'
            BY <1>1, <1>2, <1>9, <1>11, <1>12, <3>1, <3>2 DEF CanAccept
        <3> QED
            BY <3>3, <1>10 DEF SideOK
    <2>4. object' \in Nat /\ object <= object'
        BY <1>1, <1>3
    <2>5. dhAsked' \in Seq(Nat) /\ \A p \in DOMAIN dhAsked' : dhAsked'[p] <= object'
        BY <1>1 DEF CallTypesOK, KnownOK
    <2> QED
        BY <1>1, <1>2, <1>10, <2>2, <2>4, <2>5 DEF ClientStep, Common
<1>16. CallTypesOK' /\ KnownOK' /\ WorldOK'
    BY <1>15, WorldStep
<1>17. /\ ~c.again =>
              /\ c.controller = "none" /\ c.id # 0 /\ ~Early(c.id)
              /\ ~Told("accepted", c.id)' /\ ~Told("confirmed", c.id)'
       /\ c.type = "Incoming" => server[c.id].status \in {"confirmed", "discarded"}
       /\ c.type = "Outgoing" /\ ~c.again => \A r \in Asked' : r.object = object => r.kind # "confirm"
    <2>1. ASSUME NEW a \in callAnswers, a.to.kind = "confirm", a.to.object = object, callAnswers' = callAnswers \ {a}
          PROVE  <1>17!1 /\ <1>17!2 /\ <1>17!3
        <3>1. a.to \in Asked /\ c.type = "Outgoing"
            BY <2>1, <1>4, <1>13 DEF Asked, IncomingOK
        <3>2. ASSUME ~c.again
              PROVE  <1>17!1 /\ <1>17!3
            <4>1. a.to.id = c.id /\ c.controller = "none"
                BY <2>1, <3>1, <3>2, <1>4 DEF OutgoingOK
            <4>2. c.id >= 1 /\ Ours(c.id) /\ ~Told("accepted", c.id)
                BY <2>1, <3>1, <4>1 DEF WorldOK, AskedOK, UpdatesOK
            <4>3. ~Early(c.id)
                <5>1. c.id \in 1..made
                    BY <4>2, <1>12, <1>13
                <5> QED
                    BY <5>1, <2>1, <3>1, <4>1 DEF WorldOK, ServerOK, Silent
            <4>4. ~Told("confirmed", c.id)
                BY <4>2 DEF WorldOK, UpdatesOK, Told
            <4>5. ASSUME NEW r \in Asked', r.object = object, r.kind = "confirm" PROVE FALSE
                <5>1. r.id = c.id
                    BY <4>5, <3>1, <3>2, <1>4, <1>12 DEF OutgoingOK
                <5>2. r \notin callRequests'
                    BY <5>1, <4>1, <4>5, <2>1, <1>10 DEF WorldOK, OnceOK, Keyed, Same
                <5>3. PICK x \in callAnswers' : x.to = r
                    BY <5>2 DEF Asked
                <5>4. x \in callAnswers /\ Same(a.to, x.to) /\ Keyed(a.to)
                    BY <5>1, <5>3, <4>1, <4>5, <2>1 DEF Same, Keyed
                <5>5. a = x
                    BY <5>4, <2>1 DEF WorldOK, OnceOK
                <5> QED
                    BY <5>5, <2>1
            <4> QED
                BY <4>1, <4>2, <4>3, <4>4, <4>5, <1>2
        <3> QED
            BY <3>1, <3>2
    <2>2. ASSUME c.type = "Incoming", updates # <<>>, updates' = Tail(updates),
                 Head(updates).kind = "confirmed", Head(updates).id = c.id
          PROVE  <1>17!1 /\ <1>17!2 /\ <1>17!3
        <3>1. PICK u : u = Head(updates)
            OBVIOUS
        <3>2. Told("confirmed", c.id) /\ ~Told("confirmed", c.id)'
            BY <2>2, <3>1, ToldOnce DEF WorldOK
        <3>3. ~Ours(c.id) /\ server[c.id].status \in {"confirmed", "discarded"} /\ c.id >= 1
            BY <3>2, <2>2, <1>4 DEF WorldOK, UpdatesOK, Told, IncomingOK
        <3>4. ~Told("accepted", c.id)
            BY <3>3 DEF WorldOK, UpdatesOK, Told
        <3>5. ~Early(c.id)
            <4>1. c.id \in 1..made
                BY <3>3, <1>12, <1>13
            <4> QED
                BY <4>1, <3>2 DEF WorldOK, ServerOK, Silent
        <3>6. ~c.again => c.controller = "none"
            BY <3>2, <1>4 DEF ControllerOK
        <3> QED
            BY <2>2, <3>2, <3>3, <3>4, <3>5, <3>6, <1>2
    <2> QED
        BY <2>1, <2>2, <1>0 DEF ControllerStep
<1>18. CallOK(d)'
    BY <1>1, <1>2, <1>4, <1>5, <1>11, <1>17 DEF CallOK
<1>19. ControllerOK(d)'
    BY <1>2, <1>11, <1>17 DEF ControllerOK
<1>20. IncomingOK(d)'
    <2> SUFFICES ASSUME d.type = "Incoming"
                 PROVE  /\ d.id >= 1 /\ ~Ours(d.id)'
                        /\ \A r \in Asked' : r.object = object' => r.kind \notin {"request", "confirm"}
                        /\ CanAccept(d) \/ d.power = 0 => Unaccepted(d.id)' /\ ~Kept(d.id)'
                        /\ d.power # 0 => \A p \in DOMAIN dhAsked' : dhAsked'[p] # object'
                        /\ \A p, q \in DOMAIN dhAsked' : dhAsked'[p] = object' /\ dhAsked'[q] = object' => p = q
                        /\ \A r \in Asked' : r.kind = "accept" /\ r.id = d.id => r.power = d.power
                        /\ Kept(d.id)' => server'[d.id].power = d.power
                        /\ d.controller # "none" => server'[d.id].status \in {"confirmed", "discarded"}
        BY DEF IncomingOK, CanAccept
    <2> QED
        BY <1>1, <1>2, <1>4, <1>11, <1>12, <1>14, <1>17 DEF IncomingOK, Unaccepted
<1>21. OutgoingOK(d)'
    BY <1>1, <1>2, <1>4, <1>10, <1>11, <1>12, <1>17 DEF OutgoingOK
<1> QED
    BY <1>10, <1>16, <1>18, <1>19, <1>20, <1>21 DEF OwnOK

\* Another call comes, and is discarded as busy.
SecondStep(u) ==
    /\ Common /\ UNCHANGED <<call, object, dhAsked>>
    /\ updates # <<>> /\ u = Head(updates) /\ updates' = Tail(updates)
    /\ u.kind = "requested"
    /\ callRequests' = callRequests \cup {[kind |-> "discard", object |-> 0, id |-> u.id, power |-> 0,
                                   final |-> None, reason |-> "busy"]}

\* The call that is discarded as busy was answered by nobody.
LEMMA SecondStepSafe ==
    ASSUME CallBounds, CallIInv, NEW u, SecondStep(u)
    PROVE  CallIInv'
<1> USE DEF CallIInv
<1>1. /\ Common /\ call' = call /\ object' = object /\ dhAsked' = dhAsked /\ object \in Nat
      /\ updates # <<>> /\ u = Head(updates) /\ updates' = Tail(updates) /\ u.kind = "requested"
    BY DEF SecondStep, CallTypesOK
<1>2. /\ \A kind, i : Told(kind, i)' => Told(kind, i)
      /\ \A i : /\ Ours(i)' = Ours(i) /\ Kept(i)' = Kept(i) /\ Refused(i)' = Refused(i)
               /\ Early(i)' = Early(i)
      /\ server' = server /\ made' = made /\ callAnswers' \subseteq callAnswers
    BY <1>1, CommonFacts
<1>3. Told("requested", u.id) /\ ~Told("requested", u.id)'
    BY <1>1, ToldOnce DEF WorldOK
<1>4. /\ u.id \in Call!Ids /\ u.id \in 1..made /\ ~Ours(u.id) /\ Unaccepted(u.id) /\ ~Kept(u.id)
      /\ call # None => call.id # u.id
    <2>1. PICK p \in DOMAIN updates : updates[p].kind = "requested" /\ updates[p].id = u.id
        BY <1>3 DEF Told
    <2>2. updates[p] \in Updates
        BY DEF CallTypesOK
    <2>3. u.id \in Call!Ids /\ u.id \in Nat /\ u.id >= 1
        BY <2>1, <2>2 DEF Updates, Call!Ids
    <2>4. u.id <= made /\ made \in Nat
        BY <2>1 DEF KnownOK, CallTypesOK
    <2>5. /\ ~Ours(u.id) /\ Unaccepted(u.id) /\ ~Kept(u.id)
          /\ call # None => call.id # u.id
        BY <2>1 DEF WorldOK, UpdatesOK
    <2> QED
        BY <2>3, <2>4, <2>5
<1>5. PICK r : r = [kind |-> "discard", object |-> 0, id |-> u.id, power |-> 0,
                    final |-> None, reason |-> "busy"]
    OBVIOUS
<1>6. /\ callRequests' = callRequests \cup {r} /\ r \in Call!Requests /\ r.kind = "discard" /\ r.object = 0
      /\ r.id = u.id /\ r.reason = "busy"
    <2>1. r \in Call!Requests /\ r.kind = "discard" /\ r.object = 0 /\ r.id = u.id /\ r.reason = "busy"
        BY <1>4, <1>5 DEF CallBounds, Call!Requests, Call!Optional, Call!Ids
    <2> QED
        BY <2>1, <1>5 DEF SecondStep
<1>7. \A s \in Asked' : s \in Asked \/ s = r
    BY <1>2, <1>6 DEF Asked
<1>8. ClientStep
    <2>1. NewOK(r)
        BY <1>1, <1>3, <1>4, <1>6 DEF NewOK, CallTypesOK
    <2>2. SideOK'
        <3> SUFFICES ASSUME call # None
                     PROVE  /\ call \in Call!Calls /\ call.id <= made /\ object >= 1
                            /\ ~Told("requested", call.id)'
                            /\ \A s \in Asked' : s.reason = "busy" /\ s.id = call.id => ~CanAccept(call)'
            BY <1>1, <1>2 DEF SideOK
        <3>0. ~Told("requested", call.id)
            BY DEF WorldOK, UpdatesOK, Told
        <3>1. ~Told("requested", call.id)'
            <4>1. PICK i : i = call.id
                OBVIOUS
            <4>2. ~Told("requested", i)'
                BY <3>0, <4>1, <1>2
            <4> QED
                BY <4>1, <4>2, <1>1
        <3>2. CanAccept(call)' = CanAccept(call)
            BY <1>1 DEF CanAccept
        <3> QED
            BY <3>1, <3>2, <1>4, <1>6, <1>7 DEF CallTypesOK, KnownOK, WorldOK, AskedOK
    <2>3. \A s \in callRequests' : s \in callRequests \/ NewOK(s)
        BY <2>1, <1>6
    <2>4. \A s, t \in callRequests' : s \notin callRequests /\ t \notin callRequests /\ Keyed(s) => s = t
        BY <1>6
    <2>5. dhAsked' \in Seq(Nat) /\ \A p \in DOMAIN dhAsked' : dhAsked'[p] <= object'
        BY <1>1 DEF CallTypesOK, KnownOK
    <2> QED
        BY <1>1, <1>2, <2>2, <2>3, <2>4, <2>5 DEF ClientStep, Common
<1>9. CallTypesOK' /\ KnownOK' /\ WorldOK'
    BY <1>8, WorldStep
<1>10. ASSUME call # None
       PROVE  CallOK(call)' /\ ControllerOK(call)' /\ IncomingOK(call)' /\ OutgoingOK(call)'
    <2>1. PICK d : d = call
        OBVIOUS
    <2>2. /\ CallOK(d) /\ ControllerOK(d) /\ IncomingOK(d) /\ OutgoingOK(d)
        BY <1>10, <2>1 DEF OwnOK
    <2>3. CallOK(d)'
        BY <2>2, <1>1, <1>2 DEF CallOK
    <2>4. ControllerOK(d)'
        BY <2>2, <1>2 DEF ControllerOK
    <2>5. IncomingOK(d)'
        <3> SUFFICES ASSUME d.type = "Incoming"
                     PROVE  /\ d.id >= 1 /\ ~Ours(d.id)'
                            /\ \A s \in Asked' : s.object = object' => s.kind \notin {"request", "confirm"}
                            /\ CanAccept(d) \/ d.power = 0 => Unaccepted(d.id)' /\ ~Kept(d.id)'
                            /\ d.power # 0 => \A p \in DOMAIN dhAsked' : dhAsked'[p] # object'
                            /\ \A p, q \in DOMAIN dhAsked' : dhAsked'[p] = object' /\ dhAsked'[q] = object' => p = q
                            /\ \A s \in Asked' : s.kind = "accept" /\ s.id = d.id => s.power = d.power
                            /\ Kept(d.id)' => server'[d.id].power = d.power
                            /\ d.controller # "none" => server'[d.id].status \in {"confirmed", "discarded"}
            BY DEF IncomingOK, CanAccept
        <3> QED
            BY <2>2, <1>1, <1>2, <1>6, <1>7 DEF IncomingOK, Unaccepted
    <2>6. OutgoingOK(d)'
        BY <2>2, <1>1, <1>2, <1>6, <1>7 DEF OutgoingOK
    <2>7. call' = d
        BY <1>1, <2>1
    <2> QED
        BY <2>3, <2>4, <2>5, <2>6, <2>7
<1> QED
    BY <1>1, <1>9, <1>10 DEF OwnOK

\* What the server may do with a call.
Moves(i) ==
    /\ Ours(i)' = Ours(i) /\ (Ours(i) => server'[i].power = server[i].power)
    /\ Refused(i) => server'[i] = server[i]
    /\ Early(i)' => Early(i)
    /\ Refused(i)' => server'[i].status = "discarded"
    /\ Kept(i)' => \/ server'[i].power = server[i].power /\ (Kept(i) \/ Ours(i))
                   \/ \E r \in callRequests : r.kind = "accept" /\ r.id = i /\ server'[i].power = r.power
    /\ server[i].status \in {"confirmed", "discarded"} => server'[i].status \in {"confirmed", "discarded"}

\* An answer that the server may give now.
NewAnswer(a) ==
    /\ a \in [to : Call!Requests, ok : BOOLEAN, id : 0..MaxCalls, reason : Reasons] /\ a.id <= made'
    /\ a.to \in callRequests /\ a.to \notin callRequests'
    /\ a.reason = "busy" => a.id # 0 /\ Refused(a.id)'
    /\ a.to.kind # "request" => a.id \in {0, a.to.id}
    /\ a.to.kind = "request" /\ a.ok =>
           a.id = made + 1 /\ made' = made + 1 /\ Ours(a.id)' /\ server'[a.id].power = a.to.power

\* An update that it may push now.
NewUpdate(u) ==
    /\ u \in Updates /\ u.id <= made'
    /\ u.reason = "busy" => Refused(u.id)'
    /\ u.kind = "accepted" =>
           u.id <= made /\ Ours(u.id) /\ Early(u.id) /\ ~Early(u.id)'
    /\ u.kind = "confirmed" =>
           u.id <= made /\ ~Ours(u.id) /\ server[u.id].status = "accepted" /\ server'[u.id].status = "confirmed"
    /\ u.kind = "requested" => u.id = made + 1 /\ ~Ours(u.id)'

\* A step of the server or of the other party.
ServerStep ==
    /\ UNCHANGED <<call, object, dhAsked>>
    /\ made' \in {made, made + 1} /\ made' <= MaxCalls /\ server' \in [Call!Ids -> Server]
    /\ callRequests' \subseteq callRequests
    /\ \A i \in Call!Ids : i <= made => Moves(i)
    /\ \A i \in Call!Ids : i > made' => server'[i] = server[i]
    /\ \A i \in Call!Ids : i > made /\ i <= made' =>
           server'[i].status = "requested" /\ server'[i].reason = "other" /\ (Ours(i)' => server'[i].power # 0)
    /\ \A a \in callAnswers' : a \in callAnswers \/ NewAnswer(a)
    /\ \A a, b \in callAnswers' : a \notin callAnswers /\ b \notin callAnswers => a = b
    /\ updates' = updates \/ \E u : NewUpdate(u) /\ updates' = Append(updates, u)

\* What is pushed is at the end.
LEMMA Appended ==
    ASSUME NEW S, NEW s \in Seq(S), NEW u \in S, NEW t, t = s \/ t = Append(s, u)
    PROVE  /\ t \in Seq(S)
           /\ \A p \in DOMAIN t : (p \in DOMAIN s /\ t[p] = s[p]) \/ (p = Len(s) + 1 /\ t[p] = u)
  OBVIOUS

\* What is told after a step of the server was told before, or is new.
LEMMA ServerStepTold ==
    ASSUME CallTypesOK, ServerStep
    PROVE  /\ updates' \in Seq(Updates)
           /\ \A p \in DOMAIN updates' :
                 \/ p \in DOMAIN updates /\ updates'[p] = updates[p]
                 \/ p = Len(updates) + 1 /\ \E u : NewUpdate(u) /\ updates'[p] = u
<1>1. updates \in Seq(Updates)
    BY DEF CallTypesOK
<1>2. CASE updates' = updates
    BY <1>1, <1>2
<1>3. CASE \E u : NewUpdate(u) /\ updates' = Append(updates, u)
    <2>1. PICK u : NewUpdate(u) /\ updates' = Append(updates, u)
        BY <1>3
    <2>2. u \in Updates
        BY <2>1 DEF NewUpdate
    <2>3. /\ updates' \in Seq(Updates)
          /\ \A p \in DOMAIN updates' :
                (p \in DOMAIN updates /\ updates'[p] = updates[p]) \/ (p = Len(updates) + 1 /\ updates'[p] = u)
        BY <1>1, <2>1, <2>2, Appended
    <2> QED
        BY <2>1, <2>3
<1> QED
    BY <1>2, <1>3 DEF ServerStep

\* Steps of the server and of the other party keep the invariant.
LEMMA ServerStepSafe ==
    ASSUME CallBounds, CallIInv, ServerStep
    PROVE  CallIInv'
<1> USE DEF CallIInv
<1>1. /\ call' = call /\ object' = object /\ dhAsked' = dhAsked
      /\ made \in Nat /\ made' \in Nat /\ made' \in {made, made + 1} /\ made' <= MaxCalls
      /\ made <= made' /\ MaxCalls \in Nat /\ made' \in 0..MaxCalls
      /\ callRequests' \subseteq callRequests /\ server' \in [Call!Ids -> Server]
    BY DEF CallBounds, ServerStep, CallTypesOK
<1>2. /\ \A a \in callAnswers' : a \in callAnswers \/ NewAnswer(a)
      /\ \A a, b \in callAnswers' : a \notin callAnswers /\ b \notin callAnswers => a = b
    BY DEF ServerStep
<1>3. /\ updates' \in Seq(Updates)
      /\ \A p \in DOMAIN updates' :
            \/ p \in DOMAIN updates /\ updates'[p] = updates[p]
            \/ p = Len(updates) + 1 /\ \E u : NewUpdate(u) /\ updates'[p] = u
    BY ServerStepTold
<1>4. Asked' \subseteq Asked
    BY <1>1, <1>2 DEF Asked, NewAnswer
<1>5. \A i \in 1..made : i \in Call!Ids /\ i <= made /\ Moves(i)
    <2>1. \A i \in 1..made : i \in Call!Ids /\ i <= made
        BY <1>1 DEF Call!Ids, CallTypesOK
    <2> QED
        BY <2>1 DEF ServerStep
<1>6. ASSUME NEW i \in 1..made
      PROVE  /\ Ours(i)' = Ours(i) /\ (Ours(i) => server'[i].power = server[i].power)
             /\ (Refused(i) => Refused(i)') /\ (Early(i)' => Early(i))
             /\ (server[i].status \in {"confirmed", "discarded"} => server'[i].status \in {"confirmed", "discarded"})
             /\ (Unaccepted(i) /\ ~Ours(i) /\ ~Kept(i) => ~Kept(i)')
    <2>1. Moves(i)
        BY <1>5
    <2>2. Refused(i) => Refused(i)'
        BY <2>1 DEF Moves, Refused
    <2>3. Unaccepted(i) /\ ~Ours(i) /\ ~Kept(i) => ~Kept(i)'
        BY <2>1 DEF Moves, Unaccepted, Asked
    <2> QED
        BY <2>1, <2>2, <2>3 DEF Moves
<1>7. \A r \in Asked : r.id \in 0..made /\ r.id \in Nat
    BY <1>1 DEF KnownOK
<1>8. \A p \in DOMAIN updates : updates[p].id \in 1..made
    <2>1. \A p \in DOMAIN updates : updates[p] \in Updates /\ updates[p].id <= made
        BY DEF CallTypesOK, KnownOK
    <2>2. \A x \in Updates : x.id \in Nat /\ x.id >= 1
        BY <1>1 DEF Updates, Call!Ids
    <2> QED
        BY <2>1, <2>2, <1>1
<1>9. CallTypesOK'
    <2>1. callAnswers' \subseteq [to : Call!Requests, ok : BOOLEAN, id : 0..MaxCalls, reason : Reasons]
        BY <1>2 DEF CallTypesOK, NewAnswer
    <2>2. /\ callRequests' \subseteq Call!Requests /\ (call' # None => call' \in Call!Calls) /\ object' \in Nat
          /\ dhAsked' \in Seq(Nat)
        BY <1>1 DEF CallTypesOK
    <2> QED
        BY <2>1, <2>2, <1>1, <1>3
           DEF CallTypesOK, Call!Calls, Updates, Server, Call!Requests, Call!Ids, Reasons
<1>10. \A a \in callAnswers' : a.id \in 0..made'
    <2> SUFFICES ASSUME NEW a \in callAnswers' PROVE a.id \in 0..made'
        OBVIOUS
    <2>1. CASE a \in callAnswers
        BY <2>1, <1>1 DEF KnownOK
    <2>2. CASE NewAnswer(a)
        BY <2>2, <1>1 DEF NewAnswer
    <2> QED
        BY <2>1, <2>2, <1>2
<1>11. \A p \in DOMAIN updates' : updates'[p].id <= made'
    <2> SUFFICES ASSUME NEW p \in DOMAIN updates' PROVE updates'[p].id <= made'
        OBVIOUS
    <2>1. CASE p \in DOMAIN updates /\ updates'[p] = updates[p]
        BY <2>1, <1>1, <1>8
    <2>2. CASE \E u : NewUpdate(u) /\ updates'[p] = u
        BY <2>2 DEF NewUpdate
    <2> QED
        BY <2>1, <2>2, <1>3
<1>12. KnownOK'
    <2>1. \A r \in Asked' : r.id \in 0..made' /\ r.object <= object'
        BY <1>1, <1>4, <1>7 DEF KnownOK
    <2>2. \A i \in Call!Ids : i > made' => server'[i].status = "none" /\ server'[i].reason = "other" /\ ~Ours(i)'
        <3> SUFFICES ASSUME NEW i \in Call!Ids, i > made'
                     PROVE  server'[i].status = "none" /\ server'[i].reason = "other" /\ ~Ours(i)'
            OBVIOUS
        <3>1. i \in Nat /\ i > made /\ server'[i] = server[i]
            BY <1>1 DEF Call!Ids, ServerStep
        <3> QED
            BY <3>1 DEF KnownOK, Ours
    <2>3. /\ (call' # None => call'.id <= made' /\ object' >= 1)
          /\ \A p \in DOMAIN dhAsked' : dhAsked'[p] <= object'
        <3>1. call # None => call.id \in Nat
            BY DEF CallTypesOK, Call!Calls
        <3> QED
            BY <3>1, <1>1 DEF KnownOK
    <2> QED
        BY <2>1, <2>2, <2>3, <1>10, <1>11 DEF KnownOK
<1>13. ASSUME NEW u, NewUpdate(u)
       PROVE  /\ u.kind = "accepted" => u.id \in 1..made /\ Silent(u.id)
              /\ u.kind = "confirmed" => u.id \in 1..made /\ ~Told("confirmed", u.id)
              /\ u.kind \in {"accepted", "confirmed"} => ~Early(u.id)'
              /\ u.kind = "requested" => /\ \A r \in Asked : r.id # u.id
                                         /\ \A p \in DOMAIN updates : updates[p].id # u.id
                                         /\ u.id = made + 1 /\ ~Kept(u.id)' /\ ~Ours(u.id)'
    <2>1. u.id \in Call!Ids /\ u.id \in Nat /\ u.id >= 1
        BY <1>1, <1>13 DEF NewUpdate, Updates, Call!Ids
    <2>2. u.kind = "accepted" => u.id \in 1..made /\ Silent(u.id)
        BY <2>1, <1>1, <1>13 DEF NewUpdate, WorldOK, ServerOK
    <2>3. u.kind = "confirmed" => u.id \in 1..made /\ ~Told("confirmed", u.id)
        BY <2>1, <1>1, <1>13 DEF NewUpdate, WorldOK, UpdatesOK, Told
    <2>4. u.kind = "confirmed" => ~Early(u.id)'
        BY <2>1, <2>3, <1>5, <1>13 DEF NewUpdate, Early, Moves
    <2>5. ASSUME u.kind = "requested"
          PROVE  /\ \A r \in Asked : r.id # u.id
                 /\ \A p \in DOMAIN updates : updates[p].id # u.id
                 /\ u.id = made + 1 /\ ~Kept(u.id)' /\ ~Ours(u.id)'
        <3>1. u.id = made + 1 /\ ~Ours(u.id)' /\ u.id <= made'
            BY <2>5, <1>13 DEF NewUpdate
        <3>2. server'[u.id].status = "requested"
            BY <3>1, <2>1, <1>1 DEF ServerStep
        <3> QED
            BY <3>1, <3>2, <1>1, <1>7, <1>8 DEF Kept
    <2> QED
        BY <2>2, <2>3, <2>4, <2>5, <1>13 DEF NewUpdate
<1>14. ASSUME NEW kind, NEW i, Told(kind, i)', ~Told(kind, i)
       PROVE  \E u : NewUpdate(u) /\ u.kind = kind /\ u.id = i
    <2>1. PICK p \in DOMAIN updates' : updates'[p].kind = kind /\ updates'[p].id = i
        BY <1>14 DEF Told
    <2>2. ~(p \in DOMAIN updates /\ updates'[p] = updates[p])
        BY <2>1, <1>14 DEF Told
    <2> QED
        BY <2>1, <2>2, <1>3
<1>15. UpdatesOK'
    <2>1. ASSUME NEW p \in DOMAIN updates', NEW u, u = updates'[p]
          PROVE  /\ u.reason = "busy" => Refused(u.id)'
                 /\ u.kind = "accepted" => Ours(u.id)'
                 /\ u.kind = "confirmed" => ~Ours(u.id)' /\ server'[u.id].status \in {"confirmed", "discarded"}
                 /\ u.kind = "requested" => ~Ours(u.id)' /\ Unaccepted(u.id)' /\ ~Kept(u.id)'
                 /\ u.kind = "requested" /\ call' # None => call'.id # u.id
        <3>1. CASE p \in DOMAIN updates /\ u = updates[p]
            <4>1. /\ u.id \in 1..made
                  /\ u.reason = "busy" => Refused(u.id)
                  /\ u.kind = "accepted" => Ours(u.id)
                  /\ u.kind = "confirmed" => ~Ours(u.id) /\ server[u.id].status \in {"confirmed", "discarded"}
                  /\ u.kind = "requested" => ~Ours(u.id) /\ Unaccepted(u.id) /\ ~Kept(u.id)
                  /\ u.kind = "requested" /\ call # None => call.id # u.id
                BY <3>1, <1>8 DEF WorldOK, UpdatesOK
            <4>2. Unaccepted(u.id) => Unaccepted(u.id)'
                BY <1>4 DEF Unaccepted
            <4> QED
                BY <4>1, <4>2, <1>1, <1>6
        <3>2. CASE NewUpdate(u)
            <4>1. u.kind = "accepted" => Ours(u.id)'
                BY <3>2, <1>6, <1>13 DEF NewUpdate
            <4>2. u.kind = "confirmed" => ~Ours(u.id)' /\ server'[u.id].status = "confirmed"
                BY <3>2, <1>6, <1>13 DEF NewUpdate
            <4>0. u.kind = "requested" => /\ \A r \in Asked : r.id # u.id
                                          /\ u.id = made + 1 /\ ~Kept(u.id)' /\ ~Ours(u.id)'
                BY <3>2, <1>13
            <4>3. u.kind = "requested" => ~Ours(u.id)' /\ Unaccepted(u.id)' /\ ~Kept(u.id)'
                BY <4>0, <1>4 DEF Unaccepted
            <4>4. u.kind = "requested" /\ call' # None => call'.id # u.id
                <5>1. call # None => call.id \in Nat /\ call.id <= made
                    BY DEF CallTypesOK, Call!Calls, KnownOK
                <5> QED
                    BY <5>1, <4>0, <1>1
            <4> QED
                BY <3>2, <4>1, <4>2, <4>3, <4>4 DEF NewUpdate
        <3> QED
            BY <2>1, <3>1, <3>2, <1>3
    <2>2. \A p, q \in DOMAIN updates' :
              updates'[p].id = updates'[q].id /\ updates'[p].kind = updates'[q].kind
                  /\ updates'[p].kind \in {"requested", "accepted", "confirmed"} => p = q
        <3>1. ASSUME NEW p \in DOMAIN updates, NEW u, NewUpdate(u),
                     updates[p].id = u.id, updates[p].kind = u.kind,
                     u.kind \in {"requested", "accepted", "confirmed"}
              PROVE  FALSE
            <4>1. Told(u.kind, u.id)
                BY <3>1 DEF Told
            <4> QED
                BY <4>1, <3>1, <1>13 DEF Silent
        <3> SUFFICES ASSUME NEW p \in DOMAIN updates', NEW q \in DOMAIN updates',
                            updates'[p].id = updates'[q].id, updates'[p].kind = updates'[q].kind,
                            updates'[p].kind \in {"requested", "accepted", "confirmed"}
                     PROVE  p = q
            OBVIOUS
        <3>2. /\ \/ p \in DOMAIN updates /\ updates'[p] = updates[p]
                 \/ p = Len(updates) + 1 /\ \E u : NewUpdate(u) /\ updates'[p] = u
              /\ \/ q \in DOMAIN updates /\ updates'[q] = updates[q]
                 \/ q = Len(updates) + 1 /\ \E u : NewUpdate(u) /\ updates'[q] = u
            BY <1>3
        <3>3. CASE p \in DOMAIN updates /\ updates'[p] = updates[p] /\ q \in DOMAIN updates /\ updates'[q] = updates[q]
            BY <3>3 DEF WorldOK, UpdatesOK
        <3> QED
            BY <3>1, <3>2, <3>3
    <2>3. \A r \in Asked' : r.kind = "confirm" => ~Told("accepted", r.id)'
        <3> SUFFICES ASSUME NEW r \in Asked', r.kind = "confirm", Told("accepted", r.id)' PROVE FALSE
            OBVIOUS
        <3>1. r \in Asked /\ ~Told("accepted", r.id)
            BY <1>4 DEF WorldOK, UpdatesOK
        <3>2. PICK u : NewUpdate(u) /\ u.kind = "accepted" /\ u.id = r.id
            BY <3>1, <1>14
        <3> QED
            BY <3>1, <3>2, <1>13 DEF Silent
    <2> QED
        BY <2>1, <2>2, <2>3 DEF UpdatesOK
<1>16. ServerOK'
    <2> SUFFICES ASSUME NEW i \in 1..made'
                 PROVE  /\ Early(i)' => Silent(i)'
                        /\ Refused(i)' => server'[i].status = "discarded"
                        /\ Ours(i)' => server'[i].power # 0
        BY DEF ServerOK
    <2>1. Early(i)' => (Told("accepted", i)' => Told("accepted", i)) /\ (Told("confirmed", i)' => Told("confirmed", i))
        BY <1>13, <1>14
    <2>2. CASE i \in 1..made
        <3>1. Moves(i)
            BY <2>2, <1>5
        <3>2. Early(i) => Silent(i)
            BY <2>2 DEF WorldOK, ServerOK
        <3>3. Early(i)' => Silent(i)'
            BY <3>1, <3>2, <2>1, <1>4 DEF Moves, Silent
        <3>4. Ours(i)' => server'[i].power # 0
            BY <2>2, <3>1 DEF Moves, WorldOK, ServerOK
        <3> QED
            BY <3>1, <3>3, <3>4 DEF Moves
    <2>3. CASE i \notin 1..made
        <3>1. i \in Call!Ids /\ i > made /\ i <= made'
            BY <2>3, <1>1 DEF Call!Ids
        <3>2. server'[i].status = "requested" /\ server'[i].reason = "other" /\ (Ours(i)' => server'[i].power # 0)
            BY <3>1 DEF ServerStep
        <3>3. ~Told("accepted", i) /\ ~Told("confirmed", i)
            BY <2>3, <1>8 DEF Told
        <3>4. Early(i)' => Silent(i)'
            BY <2>1, <2>3, <3>1, <3>3, <1>1, <1>4, <1>7 DEF Silent
        <3> QED
            BY <3>2, <3>4 DEF Refused
    <2> QED
        BY <2>2, <2>3
<1>17. ASSUME NEW r \in Asked' PROVE AskedOK(r)'
    <2>1. r \in Asked /\ AskedOK(r) /\ r.id \in 0..made
        BY <1>4, <1>7 DEF WorldOK
    <2>2. r.id >= 1 => r.id \in 1..made
        BY <2>1, <1>1
    <2>3. r.reason = "busy" => ~Told("requested", r.id)'
        BY <2>1, <1>13, <1>14 DEF AskedOK
    <2>4. r.reason = "busy" => Unaccepted(r.id)'
        BY <2>1, <1>4 DEF AskedOK, Unaccepted
    <2>5. r.reason = "busy" => ~Kept(r.id)'
        BY <2>1, <2>2, <1>6 DEF AskedOK
    <2>6. CanAccept(call)' = CanAccept(call)
        BY <1>1 DEF CanAccept
    <2> QED
        BY <2>1, <2>2, <2>3, <2>4, <2>5, <2>6, <1>1, <1>6 DEF AskedOK
<1>18. AnswersOK'
    <2> SUFFICES ASSUME NEW a \in callAnswers'
                 PROVE  /\ a.reason = "busy" => a.id # 0 /\ Refused(a.id)'
                        /\ a.to.kind = "request" /\ a.ok => a.id >= 1 /\ Ours(a.id)'
                        /\ a.to.kind # "request" => a.id \in {0, a.to.id}
        BY DEF AnswersOK
    <2>1. CASE a \in callAnswers
        <3>1. a.id \in 0..made /\ (a.id # 0 => a.id \in 1..made)
            BY <2>1, <1>1 DEF KnownOK
        <3> QED
            BY <2>1, <3>1, <1>6 DEF WorldOK, AnswersOK
    <2>2. CASE NewAnswer(a)
        BY <2>2, <1>1 DEF NewAnswer
    <2> QED
        BY <2>1, <2>2, <1>2
<1>19. OnceOK'
    <2>1. \A a \in callAnswers' : a \in callAnswers \/ (a.to \in callRequests /\ a.to \notin callRequests')
        BY <1>2 DEF NewAnswer
    <2>2. \A r, s \in callRequests : Keyed(r) /\ Same(r, s) => r = s
        BY DEF WorldOK, OnceOK
    <2>3. \A a, b \in callAnswers : Keyed(a.to) /\ Same(a.to, b.to) => a = b
        BY DEF WorldOK, OnceOK
    <2>4. \A r \in callRequests, a \in callAnswers : Keyed(r) => ~Same(r, a.to)
        BY DEF WorldOK, OnceOK
    <2>5. \A r, s : Same(r, s) => Same(s, r) /\ (Keyed(r) <=> Keyed(s))
        BY DEF Same, Keyed
    <2>6. \A a, b \in callAnswers' : Keyed(a.to) /\ Same(a.to, b.to) => a = b
        BY <2>1, <2>3, <2>4, <2>5, <1>2
    <2>7. \A r \in callRequests', a \in callAnswers' : Keyed(r) => ~Same(r, a.to)
        BY <2>1, <2>2, <2>4, <1>1
    <2> QED
        BY <2>2, <2>6, <2>7, <1>1 DEF OnceOK
<1>20. ASSUME call # None
       PROVE  CallOK(call)' /\ ControllerOK(call)' /\ IncomingOK(call)' /\ OutgoingOK(call)'
    <2>1. PICK c : c = call
        OBVIOUS
    <2>2. /\ CallOK(c) /\ ControllerOK(c) /\ IncomingOK(c) /\ OutgoingOK(c)
        BY <1>20, <2>1 DEF OwnOK
    <2>3. c.id \in Nat /\ c.type \in {"Incoming", "Outgoing"} /\ (c.id # 0 => c.id \in 1..made)
        <3>1. c.id \in Nat /\ c.type \in {"Incoming", "Outgoing"} /\ c.id <= made
            BY <1>20, <2>1 DEF CallTypesOK, Call!Calls, KnownOK
        <3> QED
            BY <3>1, <1>1
    <2>4. CallOK(c)'
        BY <2>2, <2>3, <1>1, <1>6 DEF CallOK
    <2>5. ControllerOK(c)'
        <3> SUFFICES ASSUME ~c.again, c.controller # "none"
                     PROVE  c.id # 0 /\ ~Early(c.id)' /\ ~Told("accepted", c.id)' /\ ~Told("confirmed", c.id)'
            BY DEF ControllerOK
        <3>1. c.id # 0 /\ c.id \in 1..made /\ ~Early(c.id) /\ ~Told("accepted", c.id) /\ ~Told("confirmed", c.id)
            BY <2>2, <2>3 DEF ControllerOK
        <3>2. ~Early(c.id)'
            BY <3>1, <1>6
        <3>3. ~Told("accepted", c.id)'
            BY <3>1, <1>14 DEF NewUpdate
        <3>4. ~Ours(c.id) => server[c.id].status \in {"confirmed", "discarded"}
            BY <3>1, <2>2, <2>3 DEF IncomingOK, OutgoingOK, Early
        <3>5. ~Told("confirmed", c.id)'
            BY <3>1, <3>4, <1>14 DEF NewUpdate
        <3> QED
            BY <3>1, <3>2, <3>3, <3>5
    <2>6. IncomingOK(c)'
        <3> SUFFICES ASSUME c.type = "Incoming"
                     PROVE  /\ c.id >= 1 /\ ~Ours(c.id)'
                            /\ \A s \in Asked' : s.object = object' => s.kind \notin {"request", "confirm"}
                            /\ CanAccept(c) \/ c.power = 0 => Unaccepted(c.id)' /\ ~Kept(c.id)'
                            /\ c.power # 0 => \A p \in DOMAIN dhAsked' : dhAsked'[p] # object'
                            /\ \A p, q \in DOMAIN dhAsked' : dhAsked'[p] = object' /\ dhAsked'[q] = object' => p = q
                            /\ \A s \in Asked' : s.kind = "accept" /\ s.id = c.id => s.power = c.power
                            /\ Kept(c.id)' => server'[c.id].power = c.power
                            /\ c.controller # "none" => server'[c.id].status \in {"confirmed", "discarded"}
            BY DEF IncomingOK, CanAccept
        <3>1. c.id \in 1..made /\ ~Ours(c.id) /\ Moves(c.id)
            BY <2>2, <2>3, <1>5 DEF IncomingOK
        <3>2. CanAccept(c) \/ c.power = 0 => Unaccepted(c.id)' /\ ~Kept(c.id)'
            BY <2>2, <3>1, <1>4, <1>6 DEF IncomingOK, Unaccepted
        <3>3. Kept(c.id)' => server'[c.id].power = c.power
            <4>1. \A s \in callRequests : s.kind = "accept" /\ s.id = c.id => s.power = c.power
                BY <2>2 DEF IncomingOK, Asked
            <4>2. Kept(c.id) => server[c.id].power = c.power
                BY <2>2 DEF IncomingOK
            <4> QED
                BY <3>1, <4>1, <4>2 DEF Moves
        <3>4. c.controller # "none" => server'[c.id].status \in {"confirmed", "discarded"}
            BY <2>2, <3>1, <1>6 DEF IncomingOK
        <3> QED
            BY <2>2, <3>1, <3>2, <3>3, <3>4, <1>1, <1>4, <1>6 DEF IncomingOK
    <2>7. OutgoingOK(c)'
        <3> SUFFICES ASSUME c.type = "Outgoing", ~c.again PROVE OutgoingOK(c)'
            BY DEF OutgoingOK
        <3>1. /\ c.id # 0 /\ ~Ours(c.id)' => Refused(c.id)'
              /\ c.id # 0 /\ Ours(c.id)' => server'[c.id].power = c.power
            BY <2>2, <2>3, <1>6 DEF OutgoingOK
        <3>2. \A r \in Asked' : r.object = object' /\ r.kind = "request" =>
                 r.power = c.power /\ r.id = c.id /\ (c.id # 0 => ~Ours(c.id)')
            BY <2>2, <2>3, <1>1, <1>4, <1>6 DEF OutgoingOK
        <3>3. \A r \in Asked' : r.object = object' /\ r.kind = "confirm" => r.id = c.id /\ c.controller = "none"
            BY <2>2, <1>1, <1>4 DEF OutgoingOK
        <3>4. ASSUME NEW a \in callAnswers', a.to.object = object', a.to.kind = "request"
              PROVE  /\ a.ok => server'[a.id].power = c.power
                     /\ \A r \in callRequests' : r.object = object' => r.kind # "request"
                     /\ \A b \in callAnswers' : b.to.object = object' /\ b.to.kind = "request" => a = b
            <4>1. CASE a \in callAnswers
                <5>1. /\ a.ok => server[a.id].power = c.power
                      /\ \A r \in callRequests : r.object = object => r.kind # "request"
                      /\ \A b \in callAnswers : b.to.object = object /\ b.to.kind = "request" => a = b
                    BY <4>1, <3>4, <2>2, <1>1 DEF OutgoingOK
                <5>2. a.ok => a.id \in 1..made /\ Ours(a.id)
                    BY <4>1, <3>4, <1>1 DEF WorldOK, AnswersOK, KnownOK
                <5>3. \A b \in callAnswers' : b.to.object = object' /\ b.to.kind = "request" => b \in callAnswers
                    BY <5>1, <1>1, <1>2 DEF NewAnswer
                <5> QED
                    BY <5>1, <5>2, <5>3, <1>1, <1>6
            <4>2. CASE a \notin callAnswers
                <5>1. NewAnswer(a)
                    BY <4>2, <1>2
                <5>2. a.to \in callRequests /\ a.to \notin callRequests' /\ a.to \in Asked /\ a.to \in Call!Requests
                    BY <5>1 DEF NewAnswer, Asked, CallTypesOK
                <5>3. a.ok => server'[a.id].power = c.power
                    BY <5>1, <5>2, <3>4, <2>2, <1>1 DEF NewAnswer, OutgoingOK
                <5>4. ASSUME NEW r \in callRequests', r.object = object', r.kind = "request" PROVE FALSE
                    <6>1. r \in callRequests /\ r \in Asked /\ r \in Call!Requests
                        BY <5>4, <1>1 DEF Asked, CallTypesOK
                    <6>2. r.power = a.to.power /\ r.id = a.to.id /\ r.kind = a.to.kind /\ r.object = a.to.object
                        BY <5>2, <5>4, <6>1, <3>4, <2>2, <1>1 DEF OutgoingOK
                    <6>3. r.final = a.to.final /\ r.reason = a.to.reason
                        BY <5>2, <5>4, <6>1, <3>4 DEF WorldOK, AskedOK
                    <6>4. r = a.to
                        BY <5>2, <6>1, <6>2, <6>3 DEF Call!Requests
                    <6> QED
                        BY <5>2, <6>4
                <5>5. ASSUME NEW b \in callAnswers', b.to.object = object', b.to.kind = "request" PROVE a = b
                    <6>1. b \notin callAnswers
                        BY <5>2, <5>5, <3>4, <2>2, <1>1 DEF OutgoingOK
                    <6> QED
                        BY <6>1, <4>2, <1>2
                <5> QED
                    BY <5>3, <5>4, <5>5
            <4> QED
                BY <4>1, <4>2
        <3> QED
            BY <3>1, <3>2, <3>3, <3>4 DEF OutgoingOK
    <2>8. call' = c
        BY <1>1, <2>1
    <2> QED
        BY <2>4, <2>5, <2>6, <2>7, <2>8
<1> QED
    BY <1>1, <1>9, <1>12, <1>15, <1>16, <1>17, <1>18, <1>19, <1>20 DEF OwnOK, WorldOK

\* What the server does to one call, to the others and in its answers.
LEMMA StaysPut ==
    ASSUME ServerOK, NEW i \in 1..made, server'[i] = server[i]
    PROVE  Moves(i)
  BY DEF ServerOK, Moves, Ours, Refused, Early, Kept

\* The server edits nothing but the call j.
Edited(j) ==
    /\ made' = made /\ server' \in [Call!Ids -> Server]
    /\ \A i \in Call!Ids : i # j => server'[i] = server[i]
    /\ j \in 1..made => Moves(j)

LEMMA EditedMoves ==
    ASSUME CallBounds, CallIInv, NEW j \in Nat, j <= made, Edited(j)
    PROVE  /\ made' \in {made, made + 1} /\ made' <= MaxCalls /\ server' \in [Call!Ids -> Server]
           /\ \A i \in Call!Ids : i <= made => Moves(i)
           /\ \A i \in Call!Ids : i > made' => server'[i] = server[i]
           /\ \A i \in Call!Ids : ~(i > made /\ i <= made')
<1>1. made \in Nat /\ made <= MaxCalls /\ ServerOK /\ made' = made
    BY DEF CallBounds, CallIInv, CallTypesOK, WorldOK, Edited
<1>2. \A i \in Call!Ids : i \in Nat /\ i >= 1
    BY DEF CallBounds, Call!Ids
<1>3. ASSUME NEW i \in Call!Ids, i <= made PROVE Moves(i)
    <2>1. i \in 1..made
        BY <1>1, <1>2, <1>3
    <2>2. CASE i = j
        BY <2>1, <2>2 DEF Edited
    <2>3. CASE i # j
        BY <2>1, <2>3, <1>1, StaysPut DEF Edited
    <2> QED
        BY <2>2, <2>3
<1>4. \A i \in Call!Ids : i > made' => server'[i] = server[i]
    BY <1>1, <1>2 DEF Edited
<1> QED
    BY <1>1, <1>2, <1>3, <1>4 DEF Edited

LEMMA UneditedIs ==
    ASSUME CallIInv, server' = server, made' = made
    PROVE  Edited(0)
  BY DEF CallIInv, CallTypesOK, Edited

LEMMA ReplyIs ==
    ASSUME CallBounds, CallIInv, NEW r \in callRequests, callRequests' = callRequests \ {r}, NEW ok \in BOOLEAN, NEW id \in 0..MaxCalls,
           id <= made', server' \in [Call!Ids -> Server], Call!Reply(r, ok, id),
           r.kind # "request" => id \in {0, r.id},
           r.kind = "request" /\ ok =>
               id = made + 1 /\ made' = made + 1 /\ Ours(id)' /\ server'[id].power = r.power
    PROVE  /\ \A a \in callAnswers' : a \in callAnswers \/ NewAnswer(a)
           /\ \A a, b \in callAnswers' : a \notin callAnswers /\ b \notin callAnswers => a = b
<1>1. CASE callAnswers' = callAnswers
    BY <1>1
<1>2. CASE callAnswers' # callAnswers
    <2>1. PICK reason : reason = IF id = 0 THEN "other" ELSE server'[id].reason
        OBVIOUS
    <2>2. reason \in Reasons /\ (reason = "busy" => id # 0 /\ Refused(id)')
        <3>1. id # 0 => id \in Call!Ids
            BY DEF CallBounds, Call!Ids
        <3>2. id # 0 => server'[id] \in Server
            BY <3>1
        <3> QED
            BY <2>1, <3>2 DEF Reasons, Server, Refused
    <2>3. PICK a : a = [to |-> r, ok |-> ok, id |-> id, reason |-> reason]
        OBVIOUS
    <2>4. callAnswers' = callAnswers \cup {a}
        BY <1>2, <2>1, <2>3 DEF Call!Reply
    <2>5. r \in Call!Requests
        BY DEF CallIInv, CallTypesOK
    <2>6. a \in [to : Call!Requests, ok : BOOLEAN, id : 0..MaxCalls, reason : Reasons]
        BY <2>2, <2>3, <2>5
    <2>7. a.to = r /\ a.ok = ok /\ a.id = id /\ a.reason = reason
        BY <2>3
    <2>8. NewAnswer(a)
        BY <2>2, <2>6, <2>7 DEF NewAnswer
    <2> QED
        BY <2>4, <2>8
<1> QED
    BY <1>1, <1>2

\* Serving, refusing, and what others do are steps of the server.
LEMMA ServeIs ==
    ASSUME CallBounds, CallIInv, NEW r \in callRequests, Call!Serve(r)
    PROVE  ServerStep
<1> USE DEF CallIInv
<1>1. /\ callRequests' = callRequests \ {r} /\ updates' = updates /\ call' = call /\ object' = object /\ dhAsked' = dhAsked
    BY DEF Call!Serve, Call!Client
<1>2. /\ made \in Nat /\ MaxCalls \in Nat /\ made <= MaxCalls /\ server \in [Call!Ids -> Server]
      /\ r \in Call!Requests /\ r \in Asked /\ AskedOK(r)
    BY DEF CallBounds, CallTypesOK, Asked, WorldOK
<1>3. /\ r.id \in 0..MaxCalls /\ r.id \in Nat /\ r.id <= made /\ r.power \in Nat
      /\ (r.id # 0 => r.id \in Call!Ids /\ r.id \in 1..made /\ server[r.id] \in Server)
    BY <1>2 DEF Call!Requests, KnownOK, Call!Ids
<1>4. ASSUME NEW ok \in BOOLEAN, NEW id \in {0, r.id}, NEW j \in Nat, j <= made, Edited(j), Call!Reply(r, ok, id),
             r.kind = "request" => ~ok
      PROVE  ServerStep
    <2>1. made' = made /\ server' \in [Call!Ids -> Server] /\ id \in 0..MaxCalls /\ id <= made'
        BY <1>2, <1>3, <1>4 DEF Edited
    <2>2. /\ \A a \in callAnswers' : a \in callAnswers \/ NewAnswer(a)
          /\ \A a, b \in callAnswers' : a \notin callAnswers /\ b \notin callAnswers => a = b
        BY <2>1, <1>1, <1>4, ReplyIs
    <2>3. /\ made' \in {made, made + 1} /\ made' <= MaxCalls /\ server' \in [Call!Ids -> Server]
          /\ \A i \in Call!Ids : i <= made => Moves(i)
          /\ \A i \in Call!Ids : i > made' => server'[i] = server[i]
          /\ \A i \in Call!Ids : ~(i > made /\ i <= made')
        BY <1>4, EditedMoves
    <2> QED
        BY <2>2, <2>3, <1>1 DEF ServerStep
<1>5. CASE r.kind = "request" /\ made < MaxCalls
    <2>1. PICK n \in Call!Ids : n = made + 1
        BY <1>2, <1>5 DEF Call!Ids
    <2>2. PICK s : s = [status |-> "requested", ours |-> TRUE, power |-> r.power, reason |-> "other"]
        OBVIOUS
    <2>3. made' = n /\ server' = [server EXCEPT ![n] = s] /\ Call!Reply(r, TRUE, n)
        <3>1. /\ made' = made + 1 /\ Call!Reply(r, TRUE, made + 1)
              /\ server' = [server EXCEPT ![made + 1] = [status |-> "requested", ours |-> TRUE,
                                                        power |-> r.power, reason |-> "other"]]
            <4>0. r.kind = "request" /\ made < MaxCalls /\ made # MaxCalls
                BY <1>2, <1>5
            <4>1. made' = made + 1
                BY <4>0, Zenon DEF Call!Serve
            <4>2. server' = [server EXCEPT ![made + 1] = [status |-> "requested", ours |-> TRUE,
                                                          power |-> r.power, reason |-> "other"]]
                BY <4>0, Zenon DEF Call!Serve
            <4>3. Call!Reply(r, TRUE, made + 1)
                BY <4>0, Zenon DEF Call!Serve
            <4> QED
                BY <4>1, <4>2, <4>3
        <3> QED
            BY <3>1, <2>1, <2>2 DEF Call!Reply
    <2>4. s \in Server /\ s.status = "requested" /\ s.ours = TRUE /\ s.power = r.power /\ s.reason = "other" /\ r.power # 0
        BY <2>2, <1>2, <1>3, <1>5 DEF Server, Reasons, AskedOK
    <2>5. /\ server' \in [Call!Ids -> Server] /\ server'[n] = s /\ \A i \in Call!Ids : i # n => server'[i] = server[i]
        BY <2>1, <2>3, <2>4, <1>2
    <2>6. n \in 0..MaxCalls /\ n \in Nat /\ made' = made + 1 /\ made' <= MaxCalls
        BY <2>1, <2>3, <1>2, <1>5 DEF Call!Ids
    <2>7. Ours(n)' /\ server'[n].power = r.power
        BY <2>4, <2>5 DEF Ours
    <2>8. /\ \A a \in callAnswers' : a \in callAnswers \/ NewAnswer(a)
          /\ \A a, b \in callAnswers' : a \notin callAnswers /\ b \notin callAnswers => a = b
        <3>1. n <= made' /\ n = made + 1 /\ TRUE \in BOOLEAN
            BY <2>1, <2>3, <2>6
        <3> QED
            BY <3>1, <2>3, <2>5, <2>6, <2>7, <1>1, <1>5, ReplyIs
    <2>9. ASSUME NEW i \in Call!Ids, i <= made PROVE Moves(i)
        <3>1. i \in 1..made /\ i # n
            BY <2>1, <2>9, <1>2 DEF Call!Ids
        <3> QED
            BY <3>1, <2>5, StaysPut DEF WorldOK
    <2>10. \A i \in Call!Ids : i > made /\ i <= made' => i = n
        BY <2>1, <2>6, <1>2 DEF Call!Ids
    <2>11. \A i \in Call!Ids : i > made' => i # n
        BY <2>1, <2>6, <1>2 DEF Call!Ids
    <2> QED
        BY <2>4, <2>5, <2>6, <2>8, <2>9, <2>10, <2>11, <1>1 DEF ServerStep
<1>6. CASE r.kind = "request" /\ made = MaxCalls
    <2>1. server' = server /\ made' = made /\ Call!Reply(r, FALSE, 0)
        BY <1>2, <1>6 DEF Call!Serve, Call!Reply
    <2>2. PICK ok \in BOOLEAN : ok = FALSE
        OBVIOUS
    <2>3. Edited(0) /\ 0 <= made /\ Call!Reply(r, ok, 0)
        <3>1. Edited(0)
            BY <2>1, UneditedIs
        <3>2. Call!Reply(r, ok, 0)
            BY <2>1, <2>2, Zenon
        <3> QED
            BY <3>1, <3>2, <1>2
    <2> QED
        BY <2>2, <2>3, <1>4
<1>7. ASSUME NEW ok \in BOOLEAN, Call!Reply(r, ok, r.id), made' = made, NEW s \in Server,
             server' = server \/ ((r.id # 0 => Moves(r.id)) /\ server' = [server EXCEPT ![r.id] = s]),
             r.kind # "request"
      PROVE  ServerStep
    <2>1. CASE server' = server
        <3>1. Edited(0) /\ 0 <= made
            BY <2>1, <1>2, <1>7, UneditedIs
        <3> QED
            BY <3>1, <1>3, <1>4, <1>7
    <2>2. CASE (r.id # 0 => Moves(r.id)) /\ server' = [server EXCEPT ![r.id] = s]
        <3>1. server' \in [Call!Ids -> Server] /\ \A i \in Call!Ids : i # r.id => server'[i] = server[i]
            BY <2>2, <1>2, <1>7
        <3>2. Edited(r.id)
            BY <3>1, <2>2, <1>3, <1>7 DEF Edited
        <3> QED
            BY <3>2, <1>3, <1>4, <1>7
    <2> QED
        BY <2>1, <2>2, <1>7
<1>8. ASSUME NEW s, r.id # 0, server' = [server EXCEPT ![r.id] = s]
      PROVE  server'[r.id] = s
    BY <1>2, <1>3, <1>8
<1>9. ASSUME r.id # 0
      PROVE  /\ Refused(r.id) => server[r.id].status = "discarded"
             /\ server[r.id].status \in {"none", "requested", "received", "accepted", "confirmed", "discarded"}
    BY <1>3, <1>9 DEF WorldOK, ServerOK, Server
<1>10. ASSUME NEW ok \in BOOLEAN, Call!Reply(r, ok, r.id), made' = made, r.kind # "request",
              server' = server
       PROVE  ServerStep
    <2>1. Edited(0) /\ 0 <= made
        BY <1>2, <1>10, UneditedIs
    <2> QED
        BY <2>1, <1>3, <1>4, <1>10
<1>11. ASSUME NEW ok \in BOOLEAN, Call!Reply(r, ok, r.id), made' = made, r.kind # "request",
              NEW s, server' = [server EXCEPT ![r.id] = s],
              r.id # 0 =>
                 /\ s \in Server /\ s.ours = server[r.id].ours /\ (Ours(r.id) => s.power = server[r.id].power)
                 /\ ~Refused(r.id)
                 /\ s.status = "received" \/ s.reason = "busy" => Early(r.id)
                 /\ s.reason = "busy" => s.status = "discarded"
                 /\ s.status \in {"received", "accepted", "confirmed", "discarded"}
                 /\ s.status \in {"accepted", "confirmed"} =>
                       \/ s.power = server[r.id].power /\ (Kept(r.id) \/ Ours(r.id))
                       \/ r.kind = "accept" /\ s.power = r.power
                 /\ server[r.id].status \in {"confirmed", "discarded"} => s.status \in {"confirmed", "discarded"}
       PROVE  ServerStep
    <2>1. CASE r.id = 0
        <3>1. server' = server
            BY <1>2, <1>11, <2>1 DEF Call!Ids
        <3> QED
            BY <3>1, <1>10, <1>11
    <2>2. CASE r.id # 0
        <3>4. server'[r.id] = s
            BY <2>2, <1>8, <1>11
        <3>5. Moves(r.id)
            BY <3>4, <2>2, <1>11 DEF Moves, Ours, Refused, Early, Kept
        <3> QED
            BY <3>5, <2>2, <1>7, <1>11
    <2> QED
        BY <2>1, <2>2
<1>12. CASE r.kind = "received"
    <2>1. PICK s : s = [server[r.id] EXCEPT !.status = "received"]
        OBVIOUS
    <2>2. PICK ok \in BOOLEAN : ok = Call!Live(r.id)
        BY DEF Call!Live
    <2>3. /\ server' = (IF server[r.id].status = "requested" THEN [server EXCEPT ![r.id] = s] ELSE server)
          /\ made' = made
        BY <1>12, <2>1 DEF Call!Serve
    <2>4. Call!Reply(r, ok, r.id)
        <3>1. Call!Reply(r, Call!Live(r.id), r.id)
            BY <1>12, Zenon DEF Call!Serve
        <3> QED
            BY <3>1, <2>2, Zenon
    <2>5. CASE server[r.id].status # "requested"
        BY <2>3, <2>4, <2>5, <1>10, <1>12
    <2>6. CASE server[r.id].status = "requested"
        <3>1. server' = [server EXCEPT ![r.id] = s]
            BY <2>3, <2>6
        <3>2. r.id # 0 =>
                 /\ s \in Server /\ s.ours = server[r.id].ours /\ s.power = server[r.id].power
                 /\ s.status = "received" /\ s.reason = server[r.id].reason
            BY <2>1, <1>3 DEF Server
        <3>3. r.id # 0 => ~Refused(r.id) /\ Early(r.id) /\ s.reason # "busy"
            BY <3>2, <2>6, <1>9 DEF Refused, Early
        <3> QED
            BY <3>1, <3>2, <3>3, <2>3, <2>4, <2>6, <1>11, <1>12
    <2> QED
        BY <2>5, <2>6
<1>13. CASE r.kind = "accept"
    <2>1. PICK s : s = [server[r.id] EXCEPT !.status = "accepted", !.power = r.power]
        OBVIOUS
    <2>2. PICK ok \in BOOLEAN : ok = (server[r.id].status \in {"requested", "received"})
        <3>1. (server[r.id].status \in {"requested", "received"}) \in BOOLEAN
            OBVIOUS
        <3> QED
            BY <3>1, Zenon
    <2>3. /\ server' = (IF server[r.id].status \in {"requested", "received"} THEN [server EXCEPT ![r.id] = s] ELSE server)
          /\ made' = made
        BY <1>13, <2>1 DEF Call!Serve
    <2>4. Call!Reply(r, ok, r.id)
        <3>1. Call!Reply(r, server[r.id].status \in {"requested", "received"}, r.id)
            BY <1>13, Zenon DEF Call!Serve
        <3> QED
            BY <3>1, <2>2, Zenon
    <2>5. CASE server[r.id].status \notin {"requested", "received"}
        BY <2>3, <2>4, <2>5, <1>10, <1>13
    <2>6. CASE server[r.id].status \in {"requested", "received"}
        <3>1. server' = [server EXCEPT ![r.id] = s]
            BY <2>3, <2>6
        <3>2. r.id # 0 =>
                 /\ s \in Server /\ s.ours = server[r.id].ours /\ s.power = r.power
                 /\ s.status = "accepted" /\ s.reason = server[r.id].reason
            BY <2>1, <1>3 DEF Server
        <3>3. r.id # 0 => ~Refused(r.id) /\ Early(r.id) /\ s.reason # "busy" /\ ~Ours(r.id)
            BY <3>2, <2>6, <1>2, <1>9, <1>13 DEF Refused, Early, AskedOK
        <3> QED
            BY <3>1, <3>2, <3>3, <2>3, <2>4, <2>6, <1>11, <1>13
    <2> QED
        BY <2>5, <2>6
<1>14. CASE r.kind = "confirm"
    <2>1. PICK s : s = [server[r.id] EXCEPT !.status = "confirmed"]
        OBVIOUS
    <2>2. PICK ok \in BOOLEAN : ok = (server[r.id].status = "accepted")
        OBVIOUS
    <2>3. /\ server' = (IF server[r.id].status = "accepted" THEN [server EXCEPT ![r.id] = s] ELSE server)
          /\ made' = made
        BY <1>14, <2>1 DEF Call!Serve
    <2>4. Call!Reply(r, ok, r.id)
        <3>1. Call!Reply(r, server[r.id].status = "accepted", r.id)
            BY <1>14, Zenon DEF Call!Serve
        <3> QED
            BY <3>1, <2>2, Zenon
    <2>5. CASE server[r.id].status # "accepted"
        BY <2>3, <2>4, <2>5, <1>10, <1>14
    <2>6. CASE server[r.id].status = "accepted"
        <3>1. server' = [server EXCEPT ![r.id] = s]
            BY <2>3, <2>6
        <3>2. r.id # 0 =>
                 /\ s \in Server /\ s.ours = server[r.id].ours /\ s.power = server[r.id].power
                 /\ s.status = "confirmed" /\ s.reason = server[r.id].reason
            BY <2>1, <1>3 DEF Server
        <3>3. r.id # 0 => ~Refused(r.id) /\ s.reason # "busy" /\ Kept(r.id)
            BY <3>2, <2>6, <1>9 DEF Refused, Kept
        <3> QED
            BY <3>1, <3>2, <3>3, <2>3, <2>4, <2>6, <1>11, <1>14
    <2> QED
        BY <2>5, <2>6
<1>15. CASE r.kind = "discard"
    <2>1. PICK s : s = [server[r.id] EXCEPT !.status = "discarded", !.reason = r.reason]
        OBVIOUS
    <2>2. PICK ok \in BOOLEAN : ok = TRUE
        OBVIOUS
    <2>3. /\ server' = (IF Call!Live(r.id) THEN [server EXCEPT ![r.id] = s] ELSE server)
          /\ made' = made
        BY <1>15, <2>1 DEF Call!Serve
    <2>4. Call!Reply(r, ok, r.id)
        <3>1. Call!Reply(r, TRUE, r.id)
            BY <1>15, Zenon DEF Call!Serve
        <3> QED
            BY <3>1, <2>2, Zenon
    <2>5. CASE ~Call!Live(r.id)
        BY <2>3, <2>4, <2>5, <1>10, <1>15
    <2>6. CASE Call!Live(r.id)
        <3>1. server' = [server EXCEPT ![r.id] = s]
            BY <2>3, <2>6
        <3>2. r.id # 0 =>
                 /\ s \in Server /\ s.ours = server[r.id].ours /\ s.power = server[r.id].power
                 /\ s.status = "discarded" /\ s.reason = r.reason
            BY <2>1, <1>2, <1>3 DEF Server, Call!Requests, Reasons
        <3>3. r.id # 0 => ~Refused(r.id) /\ (s.reason = "busy" => Early(r.id))
            BY <3>2, <2>6, <1>2, <1>9 DEF Refused, Early, Call!Live, AskedOK, Kept
        <3> QED
            BY <3>1, <3>2, <3>3, <2>3, <2>4, <2>6, <1>11, <1>15
    <2> QED
        BY <2>5, <2>6
<1> QED
    <2>1. r.kind \in {"request", "received", "accept", "confirm", "discard"} /\ (made < MaxCalls \/ made = MaxCalls)
        BY <1>2 DEF Call!Requests
    <2> QED
        BY <2>1, <1>5, <1>6, <1>12, <1>13, <1>14, <1>15

LEMMA RefuseIs ==
    ASSUME CallBounds, CallIInv, NEW r \in callRequests, Call!Refuse(r)
    PROVE  ServerStep
<1>1. /\ callRequests' = callRequests \ {r} /\ updates' = updates /\ call' = call /\ object' = object /\ dhAsked' = dhAsked
      /\ server' = server /\ made' = made
    BY DEF Call!Refuse, Call!Client
<1>2. PICK ok \in BOOLEAN : ok = FALSE
    OBVIOUS
<1>3. Call!Reply(r, ok, 0)
    <2>1. Call!Reply(r, FALSE, 0)
        BY Zenon DEF Call!Refuse
    <2> QED
        BY <2>1, <1>2, Zenon
<1>4. server' \in [Call!Ids -> Server] /\ 0 \in 0..MaxCalls /\ 0 <= made' /\ 0 <= made
    BY <1>1 DEF CallBounds, CallIInv, CallTypesOK
<1>5. /\ \A a \in callAnswers' : a \in callAnswers \/ NewAnswer(a)
      /\ \A a, b \in callAnswers' : a \notin callAnswers /\ b \notin callAnswers => a = b
    BY <1>1, <1>2, <1>3, <1>4, ReplyIs
<1>6. Edited(0)
    BY <1>1, UneditedIs
<1>7. /\ made' \in {made, made + 1} /\ made' <= MaxCalls /\ server' \in [Call!Ids -> Server]
      /\ \A i \in Call!Ids : i <= made => Moves(i)
      /\ \A i \in Call!Ids : i > made' => server'[i] = server[i]
      /\ \A i \in Call!Ids : ~(i > made /\ i <= made')
    BY <1>4, <1>6, EditedMoves
<1> QED
    BY <1>1, <1>5, <1>7 DEF ServerStep

\* The kinds of updates.
PushKinds == {"requested", "received", "accepted", "confirmed", "discarded"}

\* What is pushed.
LEMMA PushIs ==
    ASSUME NEW kind \in PushKinds, NEW id \in Call!Ids, id <= made', server' \in [Call!Ids -> Server], Call!Push(kind, id),
           kind = "accepted" => id <= made /\ Ours(id) /\ Early(id) /\ ~Early(id)',
           kind = "confirmed" =>
              id <= made /\ ~Ours(id) /\ server[id].status = "accepted" /\ server'[id].status = "confirmed",
           kind = "requested" => id = made + 1 /\ ~Ours(id)'
    PROVE  \E u : NewUpdate(u) /\ updates' = Append(updates, u)
<1>1. PICK reason : reason = server'[id].reason
    OBVIOUS
<1>2. reason \in Reasons /\ (reason = "busy" => Refused(id)')
    BY <1>1 DEF Server, Refused
<1>3. PICK u : u = [kind |-> kind, id |-> id, reason |-> reason]
    OBVIOUS
<1>4. updates' = Append(updates, u)
    BY <1>1, <1>3 DEF Call!Push
<1>5. u \in Updates /\ u.kind = kind /\ u.id = id /\ u.reason = reason
    BY <1>2, <1>3 DEF Updates, PushKinds
<1>6. NewUpdate(u)
    BY <1>2, <1>5 DEF NewUpdate
<1> QED
    BY <1>4, <1>6

LEMMA OtherCallsIs ==
    ASSUME CallBounds, CallIInv, Call!OtherCalls
    PROVE  ServerStep
<1> USE DEF CallIInv
<1>1. /\ callRequests' = callRequests /\ callAnswers' = callAnswers /\ call' = call /\ object' = object /\ dhAsked' = dhAsked
      /\ made < MaxCalls /\ made' = made + 1 /\ server' = [server EXCEPT ![made + 1].status = "requested"]
    BY DEF Call!OtherCalls, Call!Client
<1>2. made \in Nat /\ MaxCalls \in Nat /\ server \in [Call!Ids -> Server]
    BY DEF CallBounds, CallTypesOK
<1>3. PICK n \in Call!Ids : n = made + 1
    BY <1>1, <1>2 DEF Call!Ids
<1>4. n > made /\ n <= made' /\ made' <= MaxCalls /\ \A i \in Call!Ids : i > made => i = n \/ i > made'
    BY <1>1, <1>2, <1>3 DEF Call!Ids
<1>5. server[n].reason = "other" /\ ~Ours(n)
    BY <1>4 DEF KnownOK
<1>6. PICK s : s = [server[n] EXCEPT !.status = "requested"]
    OBVIOUS
<1>7. s \in Server /\ s.status = "requested" /\ s.reason = "other" /\ s.ours = server[n].ours
    BY <1>2, <1>5, <1>6 DEF Server
<1>8. /\ server' = [server EXCEPT ![n] = s] /\ server' \in [Call!Ids -> Server] /\ server'[n] = s
      /\ \A i \in Call!Ids : i # n => server'[i] = server[i]
    <2>1. server' = [server EXCEPT ![n] = s]
        BY <1>1, <1>3, <1>6
    <2> QED
        BY <2>1, <1>2, <1>7
<1>9. ~Ours(n)'
    BY <1>5, <1>7, <1>8 DEF Ours
<1>10. \A i \in Call!Ids : i <= made => Moves(i)
    <2> SUFFICES ASSUME NEW i \in Call!Ids, i <= made PROVE Moves(i)
        OBVIOUS
    <2>1. i \in 1..made /\ i # n
        BY <1>2, <1>3 DEF Call!Ids
    <2> QED
        BY <2>1, <1>8, StaysPut DEF WorldOK
<1>11. \E u : NewUpdate(u) /\ updates' = Append(updates, u)
    <2>1. Call!Push("requested", n)
        BY <1>3 DEF Call!OtherCalls
    <2>2. "requested" \in PushKinds
        BY DEF PushKinds
    <2> QED
        BY <2>1, <2>2, <1>3, <1>4, <1>8, <1>9, PushIs
<1>12. \A i \in Call!Ids : i > made' => i # n
    BY <1>1, <1>2, <1>3 DEF Call!Ids
<1>13. \A i \in Call!Ids : i > made /\ i <= made' => i = n
    BY <1>1, <1>2, <1>3 DEF Call!Ids
<1> QED
    BY <1>1, <1>4, <1>7, <1>8, <1>9, <1>10, <1>11, <1>12, <1>13 DEF ServerStep

LEMMA OtherEdits ==
    ASSUME CallBounds, CallIInv, NEW i \in Call!Ids, NEW s \in Server, NEW kind \in PushKinds,
           server' = [server EXCEPT ![i] = s], made' = made, Call!Push(kind, i), Call!Client,
           UNCHANGED <<callRequests, callAnswers>>, server[i].status # "none",
           s.ours = server[i].ours, s.power = server[i].power, ~Refused(i),
           s.status \in {"received", "discarded"} /\ s.reason = "busy" => Early(i),
           s.status = "received" => Early(i),
           s.reason = "busy" => s.status = "discarded",
           s.status \in {"received", "accepted", "confirmed", "discarded"},
           s.status \in {"accepted", "confirmed"} => Kept(i) \/ Ours(i),
           server[i].status \in {"confirmed", "discarded"} => s.status \in {"confirmed", "discarded"},
           kind = "accepted" => Ours(i) /\ Early(i) /\ s.status = "accepted",
           kind = "confirmed" => ~Ours(i) /\ server[i].status = "accepted" /\ s.status = "confirmed",
           kind # "requested"
    PROVE  ServerStep
<1> USE DEF CallIInv
<1>1. made \in Nat /\ MaxCalls \in Nat /\ server \in [Call!Ids -> Server] /\ i \in Nat
    BY DEF CallBounds, CallTypesOK, Call!Ids
<1>2. i <= made
    BY <1>1 DEF KnownOK
<1>3. server' \in [Call!Ids -> Server] /\ server'[i] = s /\ \A j \in Call!Ids : j # i => server'[j] = server[j]
    BY <1>1
<1>4. Moves(i)
    BY <1>3 DEF Moves, Ours, Refused, Early, Kept
<1>5. Edited(i)
    BY <1>3, <1>4 DEF Edited
<1>6. /\ made' \in {made, made + 1} /\ made' <= MaxCalls /\ server' \in [Call!Ids -> Server]
      /\ \A j \in Call!Ids : j <= made => Moves(j)
      /\ \A j \in Call!Ids : j > made' => server'[j] = server[j]
      /\ \A j \in Call!Ids : ~(j > made /\ j <= made')
    BY <1>1, <1>2, <1>5, EditedMoves
<1>7. \E u : NewUpdate(u) /\ updates' = Append(updates, u)
    <2>1. kind = "accepted" => ~Early(i)'
        BY <1>3 DEF Early, Refused
    <2>2. i <= made'
        BY <1>2
    <2> QED
        BY <2>1, <2>2, <1>2, <1>3, PushIs
<1> QED
    BY <1>6, <1>7 DEF ServerStep, Call!Client

LEMMA OtherIs ==
    ASSUME CallBounds, CallIInv, NEW i \in Call!Ids, Call!Other(i)
    PROVE  ServerStep
<1> USE DEF CallIInv
<1>1. server \in [Call!Ids -> Server] /\ made \in Nat /\ i \in Nat
    BY DEF CallTypesOK, Call!Ids
<1>2. server[i] \in Server /\ (server[i].status # "none" => (Refused(i) => server[i].status = "discarded"))
    <2>1. server[i].status # "none" => i \in 1..made
        BY <1>1 DEF KnownOK, Call!Ids
    <2> QED
        BY <2>1, <1>1 DEF WorldOK, ServerOK
<1>3. ASSUME NEW kind \in {"received", "accepted", "confirmed"}, NEW from, Call!OtherDoes(i, kind, from),
             \/ kind = "received" /\ from = {"requested"} /\ Ours(i)
             \/ kind = "accepted" /\ from = {"received"} /\ Ours(i)
             \/ kind = "confirmed" /\ from = {"accepted"} /\ ~Ours(i)
      PROVE  ServerStep
    <2>1. /\ server[i].status \in from /\ server' = [server EXCEPT ![i].status = kind] /\ Call!Push(kind, i)
          /\ Call!Client /\ UNCHANGED <<callRequests, callAnswers>> /\ made' = made
        BY <1>3 DEF Call!OtherDoes
    <2>2. PICK s : s = [server[i] EXCEPT !.status = kind]
        OBVIOUS
    <2>3. /\ s \in Server /\ s.status = kind /\ s.ours = server[i].ours /\ s.power = server[i].power
          /\ s.reason = server[i].reason
        BY <2>2, <1>2, <1>3 DEF Server
    <2>4. server' = [server EXCEPT ![i] = s]
        BY <2>1, <2>2
    <2>5. ~Refused(i) /\ s.reason # "busy" /\ server[i].status \notin {"none", "confirmed", "discarded"}
          /\ (kind # "confirmed" => Early(i)) /\ (kind = "confirmed" => Kept(i)) /\ kind \in PushKinds
        BY <2>1, <2>3, <1>2, <1>3 DEF Refused, Early, Kept, PushKinds
    <2> QED
        BY <2>1, <2>3, <2>4, <2>5, <1>3, OtherEdits
<1>4. ASSUME NEW reason \in Reasons, Call!OtherDiscards(i, reason) PROVE ServerStep
    <2>1. /\ Call!Live(i) /\ server' = [server EXCEPT ![i].status = "discarded", ![i].reason = reason] /\ Call!Push("discarded", i)
          /\ Call!Client /\ UNCHANGED <<callRequests, callAnswers>> /\ made' = made
          /\ (reason = "busy" => server[i].status \in {"requested", "received"})
        BY <1>4 DEF Call!OtherDiscards
    <2>2. PICK s : s = [server[i] EXCEPT !.status = "discarded", !.reason = reason]
        OBVIOUS
    <2>3. /\ s \in Server /\ s.status = "discarded" /\ s.ours = server[i].ours /\ s.power = server[i].power
          /\ s.reason = reason
        BY <2>2, <1>2, <1>4 DEF Server
    <2>4. server' = [server EXCEPT ![i] = s]
        BY <2>1, <2>2
    <2>5. ~Refused(i) /\ server[i].status # "none" /\ (s.reason = "busy" => Early(i)) /\ "discarded" \in PushKinds
        BY <2>1, <2>3, <1>2 DEF Refused, Early, PushKinds, Call!Live
    <2> QED
        BY <2>1, <2>3, <2>4, <2>5, <1>4, OtherEdits
<1> QED
    BY <1>3, <1>4 DEF Call!Other, Ours, Reasons

\* The call b comes from c within a handler, calmly.
Near(c, b) ==
    /\ b \in Wide /\ Alike(c, b) /\ b.state = c.state /\ b.out = {}
    /\ c.controller = "none" => b.controller = "none"
    /\ \A p \in DOMAIN b.posted : b.posted[p] \in {"Established", "Error"} \cup Call!Outcomes

\* What setState(), finish() and hangup() do is calm.
LEMMA NearIsCalm ==
    ASSUME NEW c, NEW b, Near(c, b)
    PROVE  Calmed(c, b)
  BY DEF Near, Calmed, Quiet

LEMMA NearSet ==
    ASSUME NEW c, NEW b, Near(c, b), NEW s \in Call!States, s \notin {"Starting", "ExchangingKeys"},
           s = "WaitingIncoming" => c.state = "Starting",
           s = "Busy" => c.id # 0 /\ Refused(c.id)
    PROVE  Calmed(c, Call!SetState(b, s))
<1>1. PICK d : d = Call!SetState(b, s)
    OBVIOUS
<1>2. /\ d \in Wide /\ Alike(b, d) /\ Less(b, d) /\ d.out = b.out /\ d.state \in {b.state, s}
    BY <1>1, SetStateIs DEF Near
<1>3. Quiet(c, d)
    BY <1>2 DEF Near, Quiet, Alike, Less
<1> QED
    BY <1>1, <1>2, <1>3 DEF Near, Calmed

LEMMA NearFinish ==
    ASSUME NEW c, NEW b, Near(c, b), object \in Nat, NEW final \in Call!Outcomes
    PROVE  Calmed(c, Call!Finish(b, final, "other"))
<1>1. PICK d : d = Call!Finish(b, final, "other")
    OBVIOUS
<1>2. /\ d \in Wide /\ Alike(b, d) /\ Less(b, d)
      /\ d.state \in {b.state, "HangingUp", "FailedHangingUp"}
      /\ \A r \in d.out : r \in b.out \/ (Discard(b, r) /\ r.reason = "other")
    BY <1>1, FinishIs DEF Near, Reasons
<1>3. Quiet(c, d)
    BY <1>2 DEF Near, Quiet, Alike, Less
<1>4. \A r \in d.out : Parting(c, d, r)
    BY <1>2 DEF Near, Parting, Discard, Alike
<1> QED
    BY <1>1, <1>2, <1>3, <1>4 DEF Calmed

LEMMA NearHangup ==
    ASSUME NEW c, NEW b, Near(c, b), object \in Nat
    PROVE  Calmed(c, Call!Hangup(b))
<1>1. PICK d : d = Call!Hangup(b)
    OBVIOUS
<1>2. /\ d \in Wide /\ Alike(b, d) /\ Less(b, d)
      /\ d.state \in {b.state, "HangingUp", "FailedHangingUp", "Ended"}
      /\ \A r \in d.out : r \in b.out \/ /\ Discard(b, r) /\ (r.reason = "busy" => Call!Declined(b))
                                         /\ d.state \in {"HangingUp", "FailedHangingUp"}
    BY <1>1, HangupIs DEF Near
<1>3. Quiet(c, d)
    BY <1>2 DEF Near, Quiet, Alike, Less
<1>4. \A r \in d.out : Parting(c, d, r)
    BY <1>2 DEF Near, Parting, Discard, Alike, Call!Declined
<1> QED
    BY <1>1, <1>2, <1>3, <1>4 DEF Calmed

LEMMA CallIsNear ==
    ASSUME CallIInv, call # None
    PROVE  /\ call \in Call!Calls /\ Near(call, call) /\ object \in Nat /\ object >= 1 /\ call.state \notin Call!Final
           /\ call.posted \in Seq(Call!States \cup {"Error"})
<1>1. call \in Call!Calls /\ call \in Wide /\ call.out = {} /\ CallOK(call) /\ object \in Nat /\ object >= 1
    BY CallIsWide DEF CallIInv, CallTypesOK, OwnOK, KnownOK
<1>2. call.posted \in Seq(Call!States \cup {"Error"})
    BY <1>1 DEF Call!Calls
<1> QED
    BY <1>1, <1>2 DEF Near, Alike, CallOK

\* A step of the call alone.
Still == UNCHANGED <<callAnswers, updates, server, made, object, dhAsked>>

\* Clicks, timers, the controller and cancelled requests are calm steps.
LEMMA StillCalm ==
    ASSUME call # None, Still, NEW d, Calmed(call, d), Call!After(d)
    PROVE  CalmStep
  BY DEF Still, CalmStep, Shrinks

LEMMA UserSteps ==
    ASSUME CallIInv, Call!Dial \/ Call!Answer \/ Call!UserHangsUp \/ Call!NoDhConfig \/ Call!DiscardTimeout \/ Call!Connected \/ Call!ControllerFails
                 \/ Call!Posted \/ (\E subject \in 0..MaxObjects : Call!Denied(subject))
                 \/ (\E final \in Call!Outcomes : Call!FinishTimeout(final))
                 \/ (\E r \in callRequests : Call!Cancelled(r))
    PROVE  CalmStep
<1>1. CASE Call!Dial
    BY <1>1 DEF Call!Dial, Call!Environment, CalmStep, Shrinks
<1>2. CASE Call!Answer
    <2>1. call # None /\ Still /\ Call!After([call EXCEPT !.asks = TRUE])
        BY <1>2 DEF Call!Answer, Call!Becomes, Still, Call!Environment
    <2>2. PICK b : b = [call EXCEPT !.asks = TRUE]
        OBVIOUS
    <2>3. Near(call, b)
        BY <2>1, <2>2, CallIsNear DEF Near, Wide, Alike
    <2> QED
        BY <2>1, <2>2, <2>3, NearIsCalm, StillCalm
<1>3. CASE Call!UserHangsUp
    <2>1. call # None /\ Still /\ Call!After(Call!Hangup(call))
        BY <1>3 DEF Call!UserHangsUp, Call!Becomes, Still, Call!Environment
    <2> QED
        BY <2>1, CallIsNear, NearHangup, StillCalm
<1>4. CASE Call!NoDhConfig
    <2>1. /\ call # None /\ UNCHANGED <<callAnswers, updates, server, made, object>>
          /\ dhAsked # <<>> /\ dhAsked' = Tail(dhAsked) /\ Call!After([call EXCEPT !.state = "Failed"])
        BY <1>4 DEF Call!NoDhConfig, Call!Becomes, Call!Environment
    <2>2. PICK b : b = [call EXCEPT !.state = "Failed"]
        OBVIOUS
    <2>3. Calmed(call, b)
        BY <2>1, <2>2, CallIsNear DEF Near, Wide, Alike, Calmed, Quiet, Call!States, Call!Ending
    <2> QED
        BY <2>1, <2>2, <2>3 DEF CalmStep, Shrinks
<1>5. CASE Call!DiscardTimeout
    <2>1. call # None /\ Still /\ Call!After(Call!Hangup([call EXCEPT !.discardTimer = FALSE]))
        BY <1>5 DEF Call!DiscardTimeout, Call!Becomes, Still, Call!Environment
    <2>2. PICK b : b = [call EXCEPT !.discardTimer = FALSE]
        OBVIOUS
    <2>3. Near(call, b)
        BY <2>1, <2>2, CallIsNear DEF Near, Wide, Alike
    <2> QED
        BY <2>1, <2>2, <2>3, CallIsNear, NearHangup, StillCalm
<1>6. CASE Call!Connected \/ Call!ControllerFails
    <2>1. PICK what \in {"Established", "Error"} : Call!Post(what)
        BY <1>6 DEF Call!Connected, Call!ControllerFails
    <2>2. call # None /\ call.controller # "none"
        BY <1>6 DEF Call!Connected, Call!ControllerFails
    <2>3. PICK b : b = [call EXCEPT !.posted = Append(@, what), !.controller = "connected"]
        OBVIOUS
    <2>4. Still /\ call' = b /\ callRequests' = callRequests
        BY <2>1, <2>3 DEF Call!Post, Still, Call!Environment
    <2>5. call \in Call!Calls /\ call.state \notin Call!Final /\ Near(call, call) /\ call.posted \in Seq(Call!States \cup {"Error"})
        BY <2>2, CallIsNear
    <2>6. PICK tasks : tasks = Append(call.posted, what)
        OBVIOUS
    <2>7. /\ tasks \in Seq(Call!States \cup {"Error"})
          /\ \A p \in DOMAIN tasks : tasks[p] \in {"Established", "Error"} \cup Call!Outcomes
        BY <2>5, <2>6 DEF Near, Call!States
    <2>8. b = [call EXCEPT !.posted = tasks, !.controller = "connected"]
        BY <2>3, <2>6
    <2>9. b \in Call!Calls /\ b.out = {} /\ b.asks = FALSE /\ b.posted = tasks /\ Alike(call, b) /\ b.state = call.state
        BY <2>5, <2>7, <2>8 DEF Call!Calls, Alike
    <2>10. Calmed(call, b)
        <3>1. b \in Wide
            BY <2>9, CallIsWide
        <3> QED
            BY <3>1, <2>2, <2>7, <2>9 DEF Calmed, Quiet
    <2>11. Call!After(b)
        <3>1. b = [b EXCEPT !.out = {}, !.asks = FALSE]
            BY <2>9 DEF Call!Calls
        <3> QED
            BY <3>1, <2>4, <2>5, <2>9 DEF Call!After
    <2> QED
        BY <2>2, <2>4, <2>10, <2>11, StillCalm
<1>7. CASE Call!Posted
    <2> DEFINE b == [call EXCEPT !.posted = Tail(@)]
               what == Head(call.posted)
    <2>1. /\ call # None /\ call.posted # <<>> /\ Still
          /\ Call!After(IF what = "Error" THEN Call!Fail(b) ELSE Call!SetState(b, what))
        BY <1>7 DEF Call!Posted, Call!Becomes, Still, Call!Environment
    <2>2. /\ call \in Call!Calls /\ call.state \notin Call!Final /\ Near(call, call) /\ call.posted \in Seq(Call!States \cup {"Error"})
          /\ object \in Nat
        BY <2>1, CallIsNear
    <2>3. PICK tasks : tasks = Tail(call.posted)
        OBVIOUS
    <2>4. /\ tasks \in Seq(Call!States \cup {"Error"})
          /\ \A p \in DOMAIN tasks : tasks[p] \in {"Established", "Error"} \cup Call!Outcomes
          /\ what \in {"Established", "Error"} \cup Call!Outcomes
        BY <2>1, <2>2, <2>3 DEF Near
    <2>5. Near(call, b)
        <3>1. b = [call EXCEPT !.posted = tasks]
            BY <2>3
        <3> HIDE DEF b
        <3> QED
            BY <3>1, <2>2, <2>4 DEF Near, Wide, Alike
    <2>6. PICK d : d = IF what = "Error" THEN Call!Fail(b) ELSE Call!SetState(b, what)
        OBVIOUS
    <2> HIDE DEF b
    <2>7. CASE what = "Error"
        <3>1. d = Call!Finish(b, "Failed", "other")
            BY <2>6, <2>7 DEF Call!Fail
        <3>2. Calmed(call, d)
            BY <3>1, <2>2, <2>5, NearFinish DEF Call!Outcomes
        <3> QED
            BY <3>2, <2>1, <2>6, StillCalm
    <2>8. CASE what # "Error"
        <3>1. d = Call!SetState(b, what)
            BY <2>6, <2>8
        <3>2. what \in Call!States /\ what \notin {"Starting", "ExchangingKeys", "WaitingIncoming", "Busy"}
            BY <2>4, <2>8 DEF Call!States, Call!Ending, Call!Outcomes
        <3> HIDE DEF what
        <3>3. Calmed(call, d)
            BY <3>1, <3>2, <2>5, NearSet
        <3> QED
            BY <3>3, <2>1, <2>6, StillCalm
    <2> QED
        BY <2>7, <2>8
<1>8. CASE \E subject \in 0..MaxObjects : Call!Denied(subject)
    <2>1. Still /\ IF call = None THEN UNCHANGED <<call, callRequests>> ELSE Call!After(Call!Hangup(call))
        BY <1>8 DEF Call!Denied, Still, Call!Environment
    <2>2. CASE call = None
        BY <2>1, <2>2 DEF Still, CalmStep, Shrinks
    <2>3. CASE call # None
        BY <2>1, <2>3, CallIsNear, NearHangup, StillCalm
    <2> QED
        BY <2>2, <2>3
<1>9. CASE \E final \in Call!Outcomes : Call!FinishTimeout(final)
    <2>1. PICK final \in Call!Outcomes : Call!FinishTimeout(final)
        BY <1>9
    <2>2. call # None /\ Still /\ Call!After(Call!SetState([call EXCEPT !.finishTimers = @ \ {final}], final))
        BY <2>1 DEF Call!FinishTimeout, Call!Becomes, Still, Call!Environment
    <2>3. PICK b : b = [call EXCEPT !.finishTimers = @ \ {final}]
        OBVIOUS
    <2>4. Near(call, b)
        BY <2>2, <2>3, CallIsNear DEF Near, Wide, Alike
    <2>5. final \in Call!States /\ final \notin {"Starting", "ExchangingKeys", "WaitingIncoming", "Busy"}
        BY DEF Call!States, Call!Ending, Call!Outcomes
    <2>6. Calmed(call, Call!SetState(b, final))
        BY <2>4, <2>5, NearSet
    <2> QED
        BY <2>2, <2>3, <2>6, StillCalm
<1>10. CASE \E r \in callRequests : Call!Cancelled(r)
    BY <1>10 DEF Call!Cancelled, Call!Client, CalmStep, Shrinks
<1> QED
    BY <1>1, <1>2, <1>3, <1>4, <1>5, <1>6, <1>7, <1>8, <1>9, <1>10

\* A permission creates a call, answers one, or nothing.
LEMMA GrantedSafe ==
    ASSUME CallBounds, CallIInv, NEW subject, Call!Granted(subject)
    PROVE  CallIInv'
<1>1. /\ UNCHANGED <<callAnswers, updates, server, made>>
      /\ IF subject = 0 THEN Call!CreateCall("Outgoing", 0)
         ELSE IF call # None /\ subject = object
              THEN Call!After(Call!ActuallyAnswer(call)) /\ UNCHANGED <<object, dhAsked>>
              ELSE UNCHANGED <<call, object, dhAsked, callRequests>>
    BY DEF Call!Granted, Call!Environment
<1>2. Common
    BY <1>1 DEF Common, Shrinks
<1>3. CASE subject = 0
    <2>1. NewCallStep("Outgoing", 0)
        BY <1>1, <1>2, <1>3 DEF NewCallStep
    <2> QED
        BY <2>1, NewCallStepSafe
<1>4. CASE subject # 0 /\ call # None /\ subject = object
    <2>1. Call!After(Call!ActuallyAnswer(call)) /\ Still
        BY <1>1, <1>4 DEF Still
    <2>2. CASE CanAccept(call)
        <3>1. AcceptStep
            BY <2>1, <2>2, <1>2, <1>4 DEF AcceptStep, Still
        <3> QED
            BY <3>1, AcceptStepSafe
    <2>3. CASE ~CanAccept(call)
        <3>1. call \in Call!Calls /\ CallOK(call)
            BY <1>4 DEF CallIInv, CallTypesOK, OwnOK
        <3>2. Call!ActuallyAnswer(call) = call
            BY <3>1, <2>3 DEF Call!ActuallyAnswer, CanAccept, CallOK, Call!Calls
        <3>3. Calmed(call, call)
            BY <1>4, CallIsNear, NearIsCalm
        <3>4. CalmStep
            BY <3>2, <3>3, <2>1, <1>4, StillCalm
        <3> QED
            BY <3>4, CalmStepSafe
    <2> QED
        BY <2>2, <2>3
<1>5. CASE subject # 0 /\ ~(call # None /\ subject = object)
    <2>1. CalmStep
        BY <1>1, <1>5 DEF CalmStep, Shrinks
    <2> QED
        BY <2>1, CalmStepSafe
<1> QED
    BY <1>3, <1>4, <1>5

\* The configuration starts the call, unless it is gone.
LEMMA DhConfigSafe ==
    ASSUME CallBounds, CallIInv, Call!DhConfig
    PROVE  CallIInv'
<1>1. /\ dhAsked # <<>> /\ dhAsked' = Tail(dhAsked) /\ UNCHANGED <<object, callAnswers, updates, server, made>>
      /\ IF call # None /\ Head(dhAsked) = object THEN Call!After(Call!Start(call)) ELSE UNCHANGED <<call, callRequests>>
    BY DEF Call!DhConfig, Call!Becomes, Call!Environment
<1>2. CASE call # None /\ Head(dhAsked) = object
    <2>1. StartStep
        BY <1>1, <1>2 DEF StartStep, Common, Shrinks
    <2> QED
        BY <2>1, StartStepSafe
<1>3. CASE ~(call # None /\ Head(dhAsked) = object)
    <2>1. CalmStep
        BY <1>1, <1>3 DEF CalmStep, Shrinks
    <2> QED
        BY <2>1, CalmStepSafe
<1> QED
    BY <1>2, <1>3

\* A call is discarded calmly.
LEMMA NearDiscarded ==
    ASSUME NEW c, NEW b, Near(c, b), NEW reason, reason = "busy" => c.id # 0 /\ Refused(c.id)
    PROVE  Calmed(c, Call!Discarded(b, reason))
<1>1. PICK s : s = IF reason = "busy" THEN "Busy"
                   ELSE IF b.type = "Outgoing" \/ b.state = "HangingUp" THEN "Ended"
                   ELSE "EndedByOtherDevice"
    OBVIOUS
<1>2. /\ s \in Call!States /\ s \notin {"Starting", "ExchangingKeys", "WaitingIncoming"}
      /\ (s = "Busy" => c.id # 0 /\ Refused(c.id))
    BY <1>1 DEF Call!States, Call!Ending
<1>3. Calmed(c, Call!SetState(b, s))
    BY <1>2, NearSet
<1> QED
    BY <1>1, <1>3 DEF Call!Discarded

\* Each answer is handled calmly, or gives the call its number or its controller.
LEMMA HandleAnswerSafe ==
    ASSUME CallIInv, NEW a \in callAnswers, Call!HandleAnswer(a)
    PROVE  CallIInv'
<1>1. /\ callAnswers' = callAnswers \ {a} /\ UNCHANGED <<object, dhAsked, updates, server, made>>
      /\ IF call # None /\ a.to.object = object THEN Call!After(Call!Answered(call, a)) ELSE UNCHANGED <<call, callRequests>>
    BY DEF Call!HandleAnswer, Call!Becomes, Call!Environment
<1>2. Common /\ callAnswers' \subseteq callAnswers /\ Shrinks(updates, updates') /\ Shrinks(dhAsked, dhAsked')
    BY <1>1 DEF Common, Shrinks
<1>3. CASE ~(call # None /\ a.to.object = object)
    <2>1. CalmStep
        BY <1>1, <1>2, <1>3 DEF CalmStep
    <2> QED
        BY <2>1, CalmStepSafe
<1>4. CASE call # None /\ a.to.object = object
    <2>1. /\ call \in Call!Calls /\ Near(call, call) /\ object \in Nat /\ object >= 1
          /\ call.posted \in Seq(Call!States \cup {"Error"})
        BY <1>4, CallIsNear
    <2>2. /\ a.to \in Asked /\ AskedOK(a.to) /\ a.to \in Call!Requests /\ a.ok \in BOOLEAN
        BY DEF CallIInv, CallTypesOK, WorldOK, Asked
    <2>3. /\ a.reason = "busy" => a.id # 0 /\ Refused(a.id)
          /\ a.to.kind # "request" => a.id \in {0, a.to.id}
        BY DEF CallIInv, WorldOK, AnswersOK
    <2>4. Call!After(Call!Answered(call, a))
        BY <1>1, <1>4
    <2>5. ASSUME NEW d, Calmed(call, d), d = Call!Answered(call, a) PROVE CallIInv'
        <3>1. CalmStep
            BY <2>4, <2>5, <1>1, <1>2, <1>4 DEF CalmStep
        <3> QED
            BY <3>1, CalmStepSafe
    <2>6. CASE ~a.ok /\ a.to.kind = "discard"
        <3>1. Call!Answered(call, a) = Call!SetState(call, a.to.final)
            BY <2>6, Zenon DEF Call!Answered
        <3>2. a.to.final \in Call!Outcomes
            BY <2>1, <2>2, <2>6, <1>4 DEF AskedOK
        <3>3. a.to.final \in Call!States /\ a.to.final \notin {"Starting", "ExchangingKeys", "WaitingIncoming", "Busy"}
            BY <3>2 DEF Call!States, Call!Ending, Call!Outcomes
        <3>4. Calmed(call, Call!SetState(call, a.to.final))
            BY <3>3, <2>1, NearSet
        <3> QED
            BY <3>1, <3>4, <2>5
    <2>7. CASE ~a.ok /\ a.to.kind # "discard"
        <3>1. Call!Answered(call, a) = Call!Finish(call, "Failed", "other")
            BY <2>7, Zenon DEF Call!Answered, Call!Fail
        <3>2. Calmed(call, Call!Finish(call, "Failed", "other"))
            BY <2>1, NearFinish DEF Call!Outcomes
        <3> QED
            BY <3>1, <3>2, <2>5
    <2>8. CASE a.ok /\ a.to.kind = "request"
        <3>1. Call!Answered(call, a) = Call!Requested(call, a)
            BY <2>8, Zenon DEF Call!Answered
        <3>2. TakesStep(a)
            BY <3>1, <2>4, <2>8, <1>1, <1>2, <1>4 DEF TakesStep
        <3> QED
            BY <3>2, TakesStepSafe
    <2>9. CASE a.ok /\ a.to.kind = "received"
        <3>1. Call!Answered(call, a) = IF call.state = "Starting" THEN Call!SetState(call, "WaitingIncoming") ELSE call
            BY <2>9, Zenon DEF Call!Answered
        <3>2. CASE call.state = "Starting"
            <4>1. "WaitingIncoming" \in Call!States
                BY DEF Call!States
            <4>2. Calmed(call, Call!SetState(call, "WaitingIncoming"))
                BY <4>1, <3>2, <2>1, NearSet
            <4> QED
                BY <4>2, <3>1, <3>2, <2>5
        <3>3. CASE call.state # "Starting"
            BY <3>1, <3>3, <2>1, <2>5, NearIsCalm
        <3> QED
            BY <3>2, <3>3
    <2>10. CASE a.ok /\ a.to.kind = "accept"
        <3>1. Call!Answered(call, a) = call
            BY <2>10, Zenon DEF Call!Answered
        <3> QED
            BY <3>1, <2>1, <2>5, NearIsCalm
    <2>11. CASE a.ok /\ a.to.kind = "confirm"
        <3>1. Call!Answered(call, a) = Call!CreateController(call)
            BY <2>11, Zenon DEF Call!Answered
        <3>2. ControllerStep
            BY <3>1, <2>4, <2>11, <1>1, <1>2, <1>4 DEF ControllerStep
        <3> QED
            BY <3>2, ControllerStepSafe
    <2>12. CASE a.ok /\ a.to.kind = "discard"
        <3>1. PICK b : b = [call EXCEPT !.posted = Append(@, a.to.final)]
            OBVIOUS
        <3>2. Call!Answered(call, a) = IF a.to.id = call.id THEN Call!Discarded(b, a.reason) ELSE b
            BY <2>12, <3>1, Zenon DEF Call!Answered
        <3>3. a.to.final \in Call!Outcomes
            BY <2>1, <2>2, <2>12, <1>4 DEF AskedOK
        <3>4. Near(call, b)
            <4>1. PICK tasks : tasks = Append(call.posted, a.to.final)
                OBVIOUS
            <4>2. /\ tasks \in Seq(Call!States \cup {"Error"})
                  /\ \A p \in DOMAIN tasks : tasks[p] \in {"Established", "Error"} \cup Call!Outcomes
                <5>1. a.to.final \in Call!States \cup {"Error"}
                    BY <3>3 DEF Call!States, Call!Ending, Call!Outcomes
                <5> QED
                    BY <5>1, <4>1, <3>3, <2>1 DEF Near
            <4>3. b = [call EXCEPT !.posted = tasks]
                BY <4>1, <3>1
            <4> QED
                BY <4>2, <4>3, <2>1 DEF Near, Wide, Alike
        <3>5. CASE a.to.id = call.id
            <4>1. a.reason = "busy" => call.id # 0 /\ Refused(call.id)
                BY <2>3, <2>12, <3>5
            <4>2. Calmed(call, Call!Discarded(b, a.reason))
                BY <4>1, <3>4, NearDiscarded
            <4> QED
                BY <4>2, <3>2, <3>5, <2>5
        <3>6. CASE a.to.id # call.id
            BY <3>2, <3>4, <3>6, <2>5, NearIsCalm
        <3> QED
            BY <3>5, <3>6
    <2> QED
        BY <2>2, <2>6, <2>7, <2>8, <2>9, <2>10, <2>11, <2>12 DEF Call!Requests
<1> QED
    BY <1>3, <1>4

\* Each update is handled calmly, confirms the call, gives it its controller, or begins another.
LEMMA HandleUpdateSafe ==
    ASSUME CallBounds, CallIInv, Call!HandleUpdate
    PROVE  CallIInv'
<1>1. PICK u : u = Head(updates)
    OBVIOUS
<1>2. /\ updates # <<>> /\ updates' = Tail(updates) /\ UNCHANGED <<callAnswers, server, made>>
    BY DEF Call!HandleUpdate
<1>3. Common /\ Shrinks(updates, updates') /\ callAnswers' \subseteq callAnswers
    BY <1>2 DEF Common, Shrinks
<1>4. /\ u \in Updates /\ u.id # 0 /\ (u.reason = "busy" => Refused(u.id))
    <2>1. updates \in Seq(Updates) /\ 1 \in DOMAIN updates /\ u = updates[1]
        BY <1>1, <1>2 DEF CallIInv, CallTypesOK
    <2>2. u \in Updates
        BY <2>1
    <2> QED
        BY <2>1, <2>2 DEF Updates, Call!Ids, CallIInv, WorldOK, UpdatesOK
<1>5. CASE u.kind = "requested" /\ Call!AlreadyInCall
    <2>1. SecondStep(u)
        BY <1>1, <1>3, <1>5, Zenon DEF Call!HandleUpdate, SecondStep
    <2> QED
        BY <2>1, SecondStepSafe
<1>6. CASE u.kind = "requested" /\ ~Call!AlreadyInCall
    <2>1. Call!CreateCall("Incoming", u.id) \/ UNCHANGED <<call, object, dhAsked, callRequests>>
        BY <1>1, <1>6, Zenon DEF Call!HandleUpdate
    <2>2. CASE Call!CreateCall("Incoming", u.id)
        <3>1. NewCallStep("Incoming", u.id)
            BY <1>1, <1>2, <1>3, <1>6, <2>2 DEF NewCallStep, Call!AlreadyInCall
        <3> QED
            BY <3>1, NewCallStepSafe
    <2>3. CASE UNCHANGED <<call, object, dhAsked, callRequests>>
        <3>1. CalmStep
            BY <1>2, <1>3, <2>3 DEF CalmStep, Shrinks
        <3> QED
            BY <3>1, CalmStepSafe
    <2> QED
        BY <2>1, <2>2, <2>3
<1>7. CASE u.kind # "requested" /\ call # None /\ call.id = u.id
    <2>1. Call!After(Call!Updated(call, u)) /\ object' = object /\ dhAsked' = dhAsked
        <3>1. Call!Becomes(Call!Updated(call, u)) /\ UNCHANGED <<object, dhAsked>>
            BY <1>1, <1>7, Zenon DEF Call!HandleUpdate
        <3> QED
            BY <3>1 DEF Call!Becomes
    <2>2. ASSUME NEW d, Calmed(call, d), d = Call!Updated(call, u) PROVE CallIInv'
        <3>1. CalmStep
            BY <2>1, <2>2, <1>2, <1>3, <1>7 DEF CalmStep, Shrinks
        <3> QED
            BY <3>1, CalmStepSafe
    <2>3. /\ call \in Call!Calls /\ Near(call, call) /\ object \in Nat
        BY <1>7, CallIsNear
    <2>4. CASE u.kind = "received"
        <3>1. Call!Updated(call, u) = Call!Waits(call, TRUE)
            BY <2>4, Zenon DEF Call!Updated
        <3>2. CASE call.type = "Outgoing" /\ call.state = "Waiting"
            <4>1. PICK b : b = Call!SetState(call, "Ringing")
                OBVIOUS
            <4>2. PICK d : d = [b EXCEPT !.discardTimer = TRUE]
                OBVIOUS
            <4>3. Call!Updated(call, u) = d
                BY <3>1, <3>2, <4>1, <4>2 DEF Call!Waits
            <4>4. Calmed(call, b)
                <5>1. "Ringing" \in Call!States
                    BY DEF Call!States
                <5> QED
                    BY <5>1, <4>1, <2>3, NearSet
            <4>5. /\ d \in Wide /\ Alike(b, d) /\ d.state = b.state /\ d.out = b.out /\ d.controller = b.controller
                  /\ d.posted = b.posted
                BY <4>2, <4>4 DEF Calmed, Wide, Alike
            <4>6. Calmed(call, d)
                BY <4>4, <4>5 DEF Calmed, Quiet, Alike, Parting
            <4> QED
                BY <4>3, <4>6, <2>2
        <3>3. CASE ~(call.type = "Outgoing" /\ call.state = "Waiting")
            <4>1. Call!Updated(call, u) = call
                BY <3>1, <3>3 DEF Call!Waits
            <4> QED
                BY <4>1, <2>2, <2>3, NearIsCalm
        <3> QED
            BY <3>2, <3>3
    <2>5. CASE u.kind = "accepted"
        <3>1. Call!Updated(call, u) = Call!Accepted(call)
            BY <2>5, Zenon DEF Call!Updated
        <3>2. CASE call.type = "Outgoing"
            <4>1. ConfirmStep(u)
                BY <3>1, <3>2, <2>1, <2>5, <1>1, <1>2, <1>3, <1>7 DEF ConfirmStep
            <4> QED
                BY <4>1, ConfirmStepSafe
        <3>3. CASE call.type # "Outgoing"
            <4>1. Call!Updated(call, u) = Call!Finish(call, "Failed", "other")
                BY <3>1, <3>3 DEF Call!Accepted, Call!Fail
            <4>2. Calmed(call, Call!Finish(call, "Failed", "other"))
                BY <2>3, NearFinish DEF Call!Outcomes
            <4> QED
                BY <4>1, <4>2, <2>2
        <3> QED
            BY <3>2, <3>3
    <2>6. CASE u.kind = "confirmed"
        <3>1. Call!Updated(call, u) = IF call.type = "Incoming" /\ call.state = "ExchangingKeys"
                                 THEN Call!CreateController(call) ELSE call
            BY <2>6, Zenon DEF Call!Updated
        <3>2. CASE call.type = "Incoming" /\ call.state = "ExchangingKeys"
            <4>1. ControllerStep
                BY <3>1, <3>2, <2>1, <2>6, <1>1, <1>2, <1>3, <1>7 DEF ControllerStep
            <4> QED
                BY <4>1, ControllerStepSafe
        <3>3. CASE ~(call.type = "Incoming" /\ call.state = "ExchangingKeys")
            BY <3>1, <3>3, <2>2, <2>3, NearIsCalm
        <3> QED
            BY <3>2, <3>3
    <2>7. CASE u.kind = "discarded"
        <3>1. Call!Updated(call, u) = Call!Discarded(call, u.reason)
            BY <2>7, Zenon DEF Call!Updated
        <3>2. Calmed(call, Call!Discarded(call, u.reason))
            BY <1>4, <1>7, <2>3, NearDiscarded
        <3> QED
            BY <3>1, <3>2, <2>2
    <2> QED
        BY <2>4, <2>5, <2>6, <2>7, <1>4, <1>7 DEF Updates
<1>8. CASE u.kind # "requested" /\ ~(call # None /\ call.id = u.id)
    <2>1. UNCHANGED <<call, object, dhAsked, callRequests>>
        BY <1>1, <1>8, Zenon DEF Call!HandleUpdate
    <2>2. CalmStep
        BY <2>1, <1>2, <1>3 DEF CalmStep, Shrinks
    <2> QED
        BY <2>2, CalmStepSafe
<1> QED
    BY <1>5, <1>6, <1>7, <1>8

\* Before there is any call all of it holds.
LEMMA CallInit ==
    ASSUME CallBounds, Call!Init
    PROVE  CallIInv
<1> USE DEF Call!Init
<1>1. CallTypesOK
    <2>1. server \in [Call!Ids -> Server]
        BY DEF Server, Reasons
    <2>2. made \in 0..MaxCalls
        BY DEF CallBounds
    <2> QED
        BY <2>1, <2>2 DEF CallTypesOK
<1>2. Asked = {} /\ \A kind, i : ~Told(kind, i)
    BY DEF Asked, Told
<1>3. KnownOK
    BY <1>2 DEF KnownOK, Ours
<1>4. WorldOK
    BY <1>2 DEF WorldOK, UpdatesOK, ServerOK, AnswersOK, OnceOK
<1>5. OwnOK
    BY DEF OwnOK
<1> QED
    BY <1>1, <1>3, <1>4, <1>5 DEF CallIInv

\* Every step keeps the invariant.
LEMMA CallStep ==
    ASSUME CallBounds, CallIInv, [Call!Next]_(Call!vars)
    PROVE  CallIInv'
<1>1. CASE Call!Dial \/ Call!Answer \/ Call!UserHangsUp \/ Call!NoDhConfig \/ Call!ControllerFails \/ Call!DiscardTimeout \/ Call!Connected \/ Call!Posted
    BY <1>1, UserSteps, CalmStepSafe
<1>2. CASE \E subject \in 0..MaxObjects : Call!Denied(subject)
    BY <1>2, UserSteps, CalmStepSafe
<1>3. CASE \E final \in Call!Outcomes : Call!FinishTimeout(final)
    BY <1>3, UserSteps, CalmStepSafe
<1>4. CASE \E r \in callRequests : Call!Cancelled(r)
    BY <1>4, UserSteps, CalmStepSafe
<1>5. CASE Call!Redial
    BY <1>5, RedialSafe
<1>6. CASE Call!DhConfig
    BY <1>6, DhConfigSafe
<1>7. CASE Call!HandleUpdate
    BY <1>7, HandleUpdateSafe
<1>8. CASE \E subject \in 0..MaxObjects : Call!Granted(subject)
    BY <1>8, GrantedSafe
<1>9. CASE \E a \in callAnswers : Call!HandleAnswer(a)
    BY <1>9, HandleAnswerSafe
<1>10. CASE \E r \in callRequests : Call!Serve(r)
    BY <1>10, ServeIs, ServerStepSafe
<1>11. CASE \E r \in callRequests : Call!Refuse(r)
    BY <1>11, RefuseIs, ServerStepSafe
<1>12. CASE Call!OtherCalls \/ \E i \in Call!Ids : Call!Other(i)
    BY <1>12, OtherCallsIs, OtherIs, ServerStepSafe
<1>13. CASE UNCHANGED Call!vars
    BY <1>13, CalmStepSafe DEF Call!vars, CalmStep, Shrinks
<1>14. ASSUME NEW subject \in 0..MaxObjects, Call!AnswerAborts(subject) PROVE CallIInv'
    <2>1. CalmStep
        BY <1>14 DEF Call!AnswerAborts, Call!Environment, CalmStep, Shrinks
    <2> QED
        BY <2>1, CalmStepSafe
<1> QED
    BY <1>1, <1>2, <1>3, <1>4, <1>5, <1>6, <1>7, <1>8, <1>9, <1>10, <1>11, <1>12, <1>13, <1>14
       DEF Call!Next, Call!Progress


\* Whoever talks has the key of the other party.
LEMMA KeyOfTheCall ==
    ASSUME CallBounds, CallIInv
    PROVE  Call!KeyIsShared
<1> SUFFICES ASSUME call # None, call.controller # "none", ~call.again
             PROVE  call.id # 0 /\ (Call!Live(call.id) => server[call.id].power = call.power)
    BY DEF Call!KeyIsShared
<1>1. PICK c : c = call
    OBVIOUS
<1>2. ControllerOK(c) /\ IncomingOK(c) /\ OutgoingOK(c) /\ c \in Call!Calls
    BY <1>1 DEF CallIInv, OwnOK, CallTypesOK
<1>3. c.id # 0 /\ ~Early(c.id)
    BY <1>1, <1>2 DEF ControllerOK
<1>4. server[c.id] \in Server
    <2>1. c.id \in Call!Ids
        BY <1>2, <1>3 DEF CallBounds, Call!Calls, Call!Ids
    <2> QED
        BY <2>1 DEF CallIInv, CallTypesOK
<1>5. Call!Live(c.id) => Kept(c.id)
    BY <1>3, <1>4 DEF Call!Live, Kept, Early, Server
<1>6. CASE c.type = "Incoming"
    BY <1>1, <1>2, <1>3, <1>5, <1>6 DEF IncomingOK
<1>7. CASE c.type = "Outgoing"
    BY <1>1, <1>2, <1>3, <1>7 DEF OutgoingOK, Early
<1> QED
    BY <1>2, <1>6, <1>7 DEF Call!Calls

\* The keys are exchanged once.
LEMMA KeysOnce ==
    ASSUME CallIInv
    PROVE  Call!ExchangedOnce
<1>1. call # None /\ ~call.again => ~call.aborted
    BY DEF CallIInv, OwnOK, CallOK
<1>2. ASSUME NEW i \in Call!Ids, NEW kind \in {"accept", "confirm"}
      PROVE  \A x, y \in {r \in callRequests : r.kind = kind /\ r.id = i}
                    \cup {a \in callAnswers : a.to.kind = kind /\ a.to.id = i} : x = y
    <2> DEFINE R == {r \in callRequests : r.kind = kind /\ r.id = i}
               A == {a \in callAnswers : a.to.kind = kind /\ a.to.id = i}
    <2>1. \A x, y \in R : x = y
        BY DEF CallIInv, WorldOK, OnceOK, Keyed, Same
    <2>2. \A x, y \in A : x = y
        BY DEF CallIInv, WorldOK, OnceOK, Keyed, Same
    <2>3. \A x \in R, y \in A : FALSE
        BY DEF CallIInv, WorldOK, OnceOK, Keyed, Same
    <2> QED
        BY <2>1, <2>2, <2>3
<1> QED
    BY <1>1, <1>2 DEF Call!ExchangedOnce

\* For any number of calls, objects, faults and permissions asked, the calls, what is asked of
\* them and what is told of them agree with what the server knows: the inductive invariant.
THEOREM CallsInductive == CallBounds => (Call!Spec => []CallIInv)
<1> SUFFICES ASSUME CallBounds PROVE Call!Spec => []CallIInv
  OBVIOUS
<1>1. Call!Init => CallIInv
  BY CallInit
<1>2. CallIInv /\ [Call!Next]_(Call!vars) => CallIInv'
  BY CallStep
<1> QED BY <1>1, <1>2, PTL DEF Call!Spec
=============================================================================
