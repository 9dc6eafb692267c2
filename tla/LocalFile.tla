------------------------------ MODULE LocalFile ------------------------------
(***************************************************************************)
(* A file of the local storage (storage/localstorage.cpp): two names, of   *)
(* which a write takes the one that is free, or was written earlier, and   *)
(* removes the other when it is done; a read takes the one written last    *)
(* whose signature is right.  The process may end between any two of the   *)
(* calls, the disk may be full, and a file may resist its removal.         *)
(*                                                                         *)
(* What is written is a number.  Left out: encryption, versions of the     *)
(* program, files that cannot be opened for reading, options other than    *)
(* Safe, and the order in which an operating system that fails itself      *)
(* brings data to the disk.                                                *)
(***************************************************************************)
EXTENDS Integers

CONSTANTS
    MaxWrites, MaxTime,      \* bounds: writes, and ticks of the clock of the file system
    MaxFaults                \* bound: ends of the process, full disks, failed removals

VARIABLES
    file,            \* what each of the two files has, Missing or Torn or a value
    time,            \* when they were modified
    clock,
    writing,         \* FileWriteDescriptor: the file it writes, Missing when there is none
    toDelete,        \* the file to remove at the end, or Missing
    place,           \* how far the descriptor is
    written,         \* the number of writes, the last value
    faults,          \* bound counter
    last,            \* history: what was read or written last
    cut,             \* history: values whose write did not come to its end since
    unread,          \* history: nothing was read since a write was cut
    spoiled          \* history: a disk was full, a removal failed, or a write came unread

vars == <<file, time, clock, writing, toDelete, place, written, faults, last, cut, unread,
          spoiled>>

Names == {0, 1}
Missing == -1
Torn == -2
Exists(n) == file[n] # Missing

TypeOK ==
    /\ file \in [Names -> {Missing, Torn} \cup 1..MaxWrites]
    /\ time \in [Names -> 0..MaxTime] /\ clock \in 0..MaxTime
    /\ writing \in Names \cup {Missing} /\ toDelete \in Names \cup {Missing}
    /\ place \in {"closed", "open", "finished"}
    /\ written \in 0..MaxWrites /\ faults \in 0..MaxFaults
    /\ last \in {Missing} \cup 1..MaxWrites /\ cut \subseteq 1..MaxWrites
    /\ unread \in BOOLEAN /\ spoiled \in BOOLEAN

Init ==
    /\ file = [n \in Names |-> Missing] /\ time = [n \in Names |-> 0] /\ clock = 0
    /\ writing = Missing /\ toDelete = Missing /\ place = "closed"
    /\ written = 0 /\ faults = 0
    /\ last = Missing /\ cut = {} /\ unread = FALSE /\ spoiled = FALSE

-----------------------------------------------------------------------------
\* The order of attempts in FileWriteDescriptor::init() and in readFile().
\* Mutant: the names are swapped only when there are both files.
ToWriteFirst ==
    IF Exists(0) /\ Exists(1) /\ time[0] > time[1] THEN 1 ELSE 0
ToWrite ==
    IF Exists(0) /\ (Exists(1) => time[0] > time[1]) THEN 1 ELSE 0
ToRead ==
    IF ~Exists(0) \/ (Exists(1) /\ time[0] < time[1]) THEN <<1, 0>> ELSE <<0, 1>>

\* What readFile() would find.
Readable ==
    LET tries == {i \in {1, 2} : file[ToRead[i]] > 0}
    IN IF tries = {} THEN Missing
       ELSE IF 1 \in tries THEN file[ToRead[1]] ELSE file[ToRead[2]]

\* FileWriteDescriptor::init()
BeginWrite ==
    /\ place = "closed" /\ written < MaxWrites
    /\ written' = written + 1
    /\ writing' = ToWrite
    /\ toDelete' = IF Exists(1 - ToWrite) THEN 1 - ToWrite ELSE Missing
    /\ file' = [file EXCEPT ![ToWrite] = Torn] /\ time' = [time EXCEPT ![ToWrite] = clock]
    /\ place' = "open"
    /\ spoiled' = (spoiled \/ unread)
    /\ UNCHANGED <<clock, faults, last, cut, unread>>

\* finish(): the signature is written and the file closed.  Nobody looks whether the disk
\* had room for it.
FinishWrite(full) ==
    /\ place = "open" /\ (full => faults < MaxFaults)
    /\ file' = IF full THEN file ELSE [file EXCEPT ![writing] = written]
    /\ time' = [time EXCEPT ![writing] = clock]
    /\ place' = "finished"
    /\ faults' = IF full THEN faults + 1 ELSE faults
    /\ spoiled' = (spoiled \/ full)
    /\ UNCHANGED <<clock, writing, toDelete, written, last, cut, unread>>

\* The other one is removed, if the file system lets it.
RemoveOther(fails) ==
    /\ place = "finished" /\ (fails => faults < MaxFaults /\ toDelete # Missing)
    /\ file' = IF toDelete = Missing \/ fails THEN file ELSE [file EXCEPT ![toDelete] = Missing]
    /\ faults' = IF fails THEN faults + 1 ELSE faults
    /\ spoiled' = (spoiled \/ fails)
    /\ place' = "closed" /\ writing' = Missing /\ toDelete' = Missing
    /\ last' = written /\ cut' = {} /\ unread' = FALSE
    /\ UNCHANGED <<time, clock, written>>

\* readFile(): it removes the file that it does not take.
ReadFile ==
    /\ place = "closed"
    /\ file' = IF Readable = Missing THEN file
               ELSE [n \in Names |-> IF file[n] = Readable THEN file[n] ELSE Missing]
    /\ last' = Readable /\ cut' = {} /\ unread' = FALSE
    /\ UNCHANGED <<time, clock, writing, toDelete, place, written, faults, spoiled>>

\* The process ends, and begins again.
Crash ==
    /\ faults < MaxFaults /\ place # "closed"
    /\ faults' = faults + 1
    /\ place' = "closed" /\ writing' = Missing /\ toDelete' = Missing
    /\ cut' = cut \cup {written} /\ unread' = TRUE
    /\ UNCHANGED <<file, time, clock, written, last, spoiled>>

\* Time passes, or not: two writes may have the same time.
Tick ==
    /\ clock < MaxTime /\ clock' = clock + 1
    /\ UNCHANGED <<file, time, writing, toDelete, place, written, faults, last, cut, unread,
                   spoiled>>

Next ==
    \/ BeginWrite \/ ReadFile \/ Crash \/ Tick
    \/ \E fault \in BOOLEAN : FinishWrite(fault) \/ RemoveOther(fault)

Spec == Init /\ [][Next]_vars

-----------------------------------------------------------------------------
(***************************************************************************)
(* Properties.                                                             *)
(***************************************************************************)

\* Whenever the process ends, the next read finds what was read or written last, or what was
\* being written since; unless the disk was full, a removal failed, or something was written
\* after a write was cut and before anything was read.
OldOrNew ==
    ~spoiled =>
        Readable \in {last} \cup cut \cup (IF place = "closed" THEN {} ELSE {written})
=============================================================================
