-------------------------- MODULE Components_proofs --------------------------
(***************************************************************************)
(* The components that share no state keep their promises side by side,    *)
(* for every value of their constants: what Parts_proofs and               *)
(* Transfers_proofs prove of each holds of the composition.                *)
(***************************************************************************)
EXTENDS Components, Parts_proofs, Transfers_proofs

-----------------------------------------------------------------------------
(***************************************************************************)
(* All of them side by side: each behaves as it does alone.                *)
(***************************************************************************)
\* The variables of a component change only by steps of its own.
LEMMA KeysOnly == [Next]_vars => [Key!Next]_(Key!vars)
<1>1. [Next]_vars => Key!Next \/ UNCHANGED keyVars
  BY DEF Next, vars, IdsNext, LoaderNext, SendingNext, TasksNext, CallsNext, KeysNext,
         ConnectingNext, StreamNext, FileNext
<1>2. UNCHANGED keyVars => UNCHANGED Key!vars
  BY DEF keyVars, Key!vars, Key!links, Key!key, Key!cdn, Key!signals, Key!history
<1> QED BY <1>1, <1>2
LEMMA LoadersOnly == [Next]_vars => [Loader!Next]_(Loader!vars)
<1>1. [Next]_vars => Loader!Next \/ UNCHANGED loaderVars
  BY DEF Next, vars, IdsNext, LoaderNext, SendingNext, TasksNext, CallsNext, KeysNext,
         ConnectingNext, StreamNext, FileNext
<1>2. UNCHANGED loaderVars => UNCHANGED Loader!vars
  BY DEF loaderVars, Loader!vars
<1> QED BY <1>1, <1>2
LEMMA SendingOnly == [Next]_vars => [Sending!Next]_(Sending!vars)
<1>1. [Next]_vars => Sending!Next \/ UNCHANGED sendingVars
  BY DEF Next, vars, IdsNext, LoaderNext, SendingNext, TasksNext, CallsNext, KeysNext,
         ConnectingNext, StreamNext, FileNext
<1>2. UNCHANGED sendingVars => UNCHANGED Sending!vars
  BY DEF sendingVars, Sending!vars
<1> QED BY <1>1, <1>2
LEMMA CallsOnly == [Next]_vars => [Call!Next]_(Call!vars)
<1>1. [Next]_vars => Call!Next \/ UNCHANGED callVars
  BY DEF Next, vars, IdsNext, LoaderNext, SendingNext, TasksNext, CallsNext, KeysNext,
         ConnectingNext, StreamNext, FileNext
<1>2. UNCHANGED callVars => UNCHANGED Call!vars
  BY DEF callVars, Call!vars
<1> QED BY <1>1, <1>2
LEMMA ConnectingOnly == [Next]_vars => [Net!Next]_(Net!vars)
<1>1. [Next]_vars => Net!Next \/ UNCHANGED netVars
  BY DEF Next, vars, IdsNext, LoaderNext, SendingNext, TasksNext, CallsNext, KeysNext,
         ConnectingNext, StreamNext, FileNext
<1>2. UNCHANGED netVars => UNCHANGED Net!vars
  BY DEF netVars, Net!vars, Net!config
<1> QED BY <1>1, <1>2
LEMMA StreamOnly == [Next]_vars => [Stream!Next]_(Stream!vars)
<1>1. [Next]_vars => Stream!Next \/ UNCHANGED streamVars
  BY DEF Next, vars, calmVars, IdsNext, LoaderNext, SendingNext, TasksNext, CallsNext, KeysNext,
         ConnectingNext, StreamNext, FileNext
<1>2. UNCHANGED streamVars => UNCHANGED Stream!vars
  BY DEF streamVars, Stream!vars, Stream!history
<1> QED BY <1>1, <1>2
LEMMA FileOnly == [Next]_vars => [File!Next]_(File!vars)
<1>1. [Next]_vars => File!Next \/ UNCHANGED fileVars
  BY DEF Next, vars, calmVars, IdsNext, LoaderNext, SendingNext, TasksNext, CallsNext, KeysNext,
         ConnectingNext, StreamNext, FileNext
<1>2. UNCHANGED fileVars => UNCHANGED File!vars
  BY DEF fileVars, File!vars
<1> QED BY <1>1, <1>2

\* Whatever the endpoints are and however they fail, a connection knows what it lost and what
\* comes next: ConnectingIsRight.
THEOREM ConnectingStaysRight == Endpoints => (Spec => []ConnectingIsRight)
<1> SUFFICES ASSUME Endpoints PROVE Spec => []ConnectingIsRight
  OBVIOUS
<1>1. Init => Net!Init
  BY DEF Init
<1>2. [Next]_vars => [Net!Next]_(Net!vars)
  BY ConnectingOnly
<1>3. Net!Spec => []NetIInv
  BY ConnectingInductive
<1>4. NetIInv => ConnectingIsRight
  BY DEF NetIInv, ConnectingIsRight
<1> QED BY <1>1, <1>2, <1>3, <1>4, PTL DEF Spec, Net!Spec

\* For any number of sessions, handshakes, lost connections and stopped sessions, the sessions
\* share the key of the data centre: the key lock is held by the one session in a handshake
\* and nobody else, a session or connection with an old key is told or counted, no key is
\* created over one that the session knows of, and none is forgotten by a session that uses
\* another: the safety of KeyIsShared.
THEOREM KeyStaysShared == KeySetting => (Spec => KeyIsShared)
<1> SUFFICES ASSUME KeySetting PROVE Spec => KeyIsShared
  OBVIOUS
<1>1. Init => Key!Init
  BY DEF Init
<1>2. [Next]_vars => [Key!Next]_(Key!vars)
  BY KeysOnly
<1>3. Key!Spec => []KeyIInv
  BY KeyInductive
<1>4. KeyIInv => Key!LockedByHandshake /\ Key!CopiesAreTold /\ Key!ConnectionsAreTold
  BY DEF KeyIInv, StartersAreTold, Key!CopiesAreTold, Key!Listening
<1>5. KeyIInv /\ [Key!Next]_(Key!vars) => [Key!KeyIsKept]_(Key!vars)
  BY KeptStep
<1> QED BY <1>1, <1>2, <1>3, <1>4, <1>5, PTL DEF Spec, Key!Spec, KeyIsShared, Key!KeyIsShared

\* For any number of downloads and parts, with one place for requests, redirects to a CDN, failed
\* requests, lost references and calls of start(), a finished file is whole, no part is forgotten,
\* parts that wait for a hash have a request for it, the queue has those that load and no other,
\* and the urgent ones come first: LoadersAreRight.
THEOREM LoadersStayRight == LoaderSetting => (Spec => []LoadersAreRight)
<1> SUFFICES ASSUME LoaderSetting PROVE Spec => []LoadersAreRight
  OBVIOUS
<1>1. Init => Loader!Init
  BY DEF Init
<1>2. [Next]_vars => [Loader!Next]_(Loader!vars)
  BY LoadersOnly
<1>3. Loader!Spec => []LoaderIInv
  BY LoadersInductive
<1>4. LoaderIInv => LoadersAreRight
  BY LoadersRight DEF LoadersAreRight
<1> QED BY <1>1, <1>2, <1>3, <1>4, PTL DEF Spec, Loader!Spec

\* For any number of files, parts, requests at once, failed parts, deleted messages and pauses,
\* what is sent was uploaded, requests are those of the current file, and the album goes whole,
\* and once unless an item is deleted while it is being sent.
THEOREM AlbumsStillGoOnce == AlbumSetting => (Spec => []AlbumGoesOnce)
<1> SUFFICES ASSUME AlbumSetting PROVE Spec => []AlbumGoesOnce
  OBVIOUS
<1>1. Init => Sending!Init
  BY DEF Init
<1>2. [Next]_vars => [Sending!Next]_(Sending!vars)
  BY SendingOnly
<1>3. Sending!Spec => []Sending!AlbumGoesOnce
  BY AlbumsGoOnce
<1>4. Sending!AlbumGoesOnce => AlbumGoesOnce
  BY DEF AlbumGoesOnce
<1> QED BY <1>1, <1>2, <1>3, <1>4, PTL DEF Spec, Sending!Spec

\* For any number of calls and of Call objects, whoever talks has the key that the other party
\* has, and the keys of a call are exchanged once, however answers, updates, timers and clicks
\* follow each other: KeyExchangeIsRight.
THEOREM KeysAreExchangedRight == CallBounds => (Spec => []KeyExchangeIsRight)
<1> SUFFICES ASSUME CallBounds PROVE Spec => []KeyExchangeIsRight
  OBVIOUS
<1>1. Init => Call!Init
  BY DEF Init
<1>2. [Next]_vars => [Call!Next]_(Call!vars)
  BY CallsOnly
<1>3. Call!Spec => []CallIInv
  BY CallsInductive
<1>4. CallIInv => KeyExchangeIsRight
  BY KeyOfTheCall, KeysOnce DEF KeyExchangeIsRight, Call!KeyExchangeIsRight
<1> QED BY <1>1, <1>2, <1>3, <1>4, PTL DEF Spec, Call!Spec

\* For any number of consumers, values and calls of fire() within handlers, every consumer gets
\* every value once and stays subscribed until its subscription ends, as long as no fire()
\* within another moves the consumers.
THEOREM ValuesReachEveryone == StreamBounds => (Spec => []EveryoneGetsValues)
<1> SUFFICES ASSUME StreamBounds PROVE Spec => []EveryoneGetsValues
  OBVIOUS
<1>1. Init => Stream!Init
  BY DEF Init
<1>2. [Next]_vars => [Stream!Next]_(Stream!vars)
  BY StreamOnly
<1>3. Stream!Spec => []StreamIInv
  BY StreamInductive
<1>4. StreamIInv => EveryoneGetsValues
  BY CompleteList
     DEF StreamIInv, LoopsOK, EveryoneGetsValues, Stream!EveryoneGetsValues
<1> QED BY <1>1, <1>2, <1>3, <1>4, PTL DEF Spec, Stream!Spec

\* For any number of writes, reads, ends of the process, full disks and failed removals, a read
\* finds what was read or written last or what was being written since, unless the disk was full,
\* a removal failed, or something was written after a write was cut and before anything was read.
THEOREM FileStaysOldOrNew == FileBounds => (Spec => []OldOrNew)
<1> SUFFICES ASSUME FileBounds PROVE Spec => []OldOrNew
  OBVIOUS
<1>1. Init => File!Init
  BY DEF Init
<1>2. [Next]_vars => [File!Next]_(File!vars)
  BY FileOnly
<1>3. File!Spec => []FileIInv
  BY FileInductive
<1>4. FileIInv => OldOrNew
  BY FilesAreRead DEF OldOrNew
<1> QED BY <1>1, <1>2, <1>3, <1>4, PTL DEF Spec, File!Spec
=============================================================================
