----------------------------- MODULE EventStream -----------------------------
(***************************************************************************)
(* rpl::event_stream (rpl/event_stream.h): a list of consumers that get    *)
(* every value fired, while their handlers, called from the loop over the  *)
(* list, subscribe others, end subscriptions, fire again, or destroy the   *)
(* stream.  The loop is a std::remove_if() that drops the consumers that   *)
(* have ended; the outermost fire() then shortens the list.                *)
(*                                                                         *)
(* The program has one thread: an action is a stretch between two calls of *)
(* handlers, or what a handler does.  Left out: values that are moved, and *)
(* handlers of the end of a stream that subscribe to it again (they would  *)
(* change the list under a plain loop).                                    *)
(***************************************************************************)
EXTENDS Integers, Sequences, FiniteSets

CONSTANTS
    MaxConsumers, MaxFires,  \* bounds: subscriptions, values fired
    MaxDepth                 \* bound: fire() within fire()

VARIABLES
    consumers,       \* Data::consumers: the handlers in each cell, 0 is none
    made,            \* how many subscriptions there were: they are numbers
    terminated,      \* type_erased_handlers::_terminated of each
    fires,           \* the calls of fire() on the stack, the innermost first
    fired,           \* how many values there were
    gone,            \* the stream is destroyed
    wanted,          \* history: by value, the consumers there were when it was fired
    got,             \* history: by value, the consumers that were called
    twice,           \* history: one was called twice with a value
    disturbed        \* history: a fire() within another moved the consumers

history == <<wanted, got, twice, disturbed>>
vars == <<consumers, made, terminated, fires, fired, gone, history>>

Consumers == 1..MaxConsumers
Alive == 1..made \ terminated
Fires == [value : 1..MaxFires, it : Nat, removeFrom : Nat, end : Nat, running : BOOLEAN]

TypeOK ==
    /\ made \in 0..MaxConsumers /\ terminated \subseteq 1..made
    /\ consumers \in Seq(0..made)
    /\ fires \in Seq(Fires) /\ Len(fires) <= MaxDepth
    /\ \A i \in 1..Len(fires) : fires[i].end <= Len(consumers) + 1
    /\ fired \in 0..MaxFires /\ gone \in BOOLEAN
    /\ wanted \in [1..MaxFires -> SUBSET Consumers] /\ got \in [1..MaxFires -> SUBSET Consumers]
    /\ twice \in BOOLEAN /\ disturbed \in BOOLEAN

Init ==
    /\ consumers = <<>> /\ made = 0 /\ terminated = {}
    /\ fires = <<>> /\ fired = 0 /\ gone = FALSE
    /\ wanted = [v \in 1..MaxFires |-> {}] /\ got = [v \in 1..MaxFires |-> {}]
    /\ twice = FALSE /\ disturbed = FALSE

-----------------------------------------------------------------------------
Fire == Head(fires)
Becomes(fire) == fires' = <<fire>> \o Tail(fires)
\* The code outside the loop: the program, or a handler that was called.
HandlersTurn == fires # <<>> => Fire.running
LoopsTurn == fires # <<>> /\ ~Fire.running
Nested == Len(fires) > 1

\* events(), and then start().
Subscribe ==
    /\ HandlersTurn /\ made < MaxConsumers /\ (gone => fires # <<>>)
    /\ made' = made + 1 /\ consumers' = Append(consumers, made')
    /\ UNCHANGED <<terminated, fires, fired, gone, history>>

\* The end of the lifetime of a subscription, which looks for its cell.
Terminate(c) ==
    /\ HandlersTurn /\ c \in Alive
    /\ terminated' = terminated \cup {c}
    /\ LET cells == {i \in 1..Len(consumers) : consumers[i] = c}
       IN consumers' = [i \in 1..Len(consumers) |->
                           IF i \in cells /\ \A j \in cells : i <= j THEN 0 ELSE consumers[i]]
    /\ UNCHANGED <<made, fires, fired, gone, history>>

\* ~event_stream(): the loops that are under way keep the list.
Destroy ==
    /\ HandlersTurn /\ ~gone
    /\ gone' = TRUE
    /\ terminated' = terminated \cup
            {c \in Alive : \E i \in 1..Len(consumers) : consumers[i] = c}
    /\ consumers' = [i \in 1..Len(consumers) |-> 0]
    /\ UNCHANGED <<made, fires, fired, history>>

\* fire()
FireForward ==
    /\ HandlersTurn /\ ~gone /\ consumers # <<>> /\ Len(fires) < MaxDepth /\ fired < MaxFires
    /\ fired' = fired + 1
    /\ fires' = <<[value |-> fired', it |-> 1, removeFrom |-> 0, end |-> Len(consumers) + 1,
                   running |-> FALSE]>> \o fires
    /\ wanted' = [wanted EXCEPT ![fired'] = Alive]
    /\ UNCHANGED <<consumers, made, terminated, gone, got, twice, disturbed>>

\* put_next_copy() and put_next_forward() of a consumer that goes on: its handler is called.
PutNext ==
    /\ LoopsTurn /\ Fire.it < Fire.end
    /\ consumers[Fire.it] \in Alive
    /\ Becomes([Fire EXCEPT !.running = TRUE])
    /\ got' = [got EXCEPT ![Fire.value] = @ \cup {consumers[Fire.it]}]
    /\ twice' = (twice \/ consumers[Fire.it] \in got[Fire.value])
    /\ UNCHANGED <<consumers, made, terminated, fired, gone, wanted, disturbed>>

\* The same of one that has ended: std::remove_if() begins to remove here.
PutNextEnded ==
    /\ LoopsTurn /\ Fire.it < Fire.end
    /\ consumers[Fire.it] \notin Alive
    /\ consumers' = [consumers EXCEPT ![Fire.it] = 0]
    /\ Becomes([Fire EXCEPT !.it = @ + 1, !.removeFrom = IF @ = 0 THEN Fire.it ELSE @])
    /\ UNCHANGED <<made, terminated, fired, gone, history>>

\* The handler returns: what is in the cell now, whatever it is, is moved over the removed.
HandlerReturns ==
    /\ fires # <<>> /\ Fire.running
    /\ IF Fire.removeFrom = 0
       THEN /\ Becomes([Fire EXCEPT !.it = @ + 1, !.running = FALSE])
            /\ UNCHANGED <<consumers, disturbed>>
       ELSE /\ consumers' = [consumers EXCEPT ![Fire.removeFrom] = consumers[Fire.it],
                                              ![Fire.it] = 0]
            /\ Becomes([Fire EXCEPT !.it = @ + 1, !.removeFrom = @ + 1, !.running = FALSE])
            /\ disturbed' = (disturbed \/ Nested)
    /\ UNCHANGED <<made, terminated, fired, gone, wanted, got, twice>>

\* Mutant: the consumers that came meanwhile are erased with the others.
FinishWithoutNew ==
    /\ LoopsTurn /\ Fire.it = Fire.end
    /\ IF Fire.removeFrom = 0 THEN UNCHANGED <<consumers, disturbed>>
       ELSE /\ consumers' = IF Nested THEN consumers
                            ELSE SubSeq(consumers, 1, Fire.removeFrom - 1)
            /\ UNCHANGED disturbed
    /\ fires' = Tail(fires)
    /\ UNCHANGED <<made, terminated, fired, gone, wanted, got, twice>>
\* The end of fire(): new consumers are copied over the removed, then the list is shortened.
Finish ==
    /\ LoopsTurn /\ Fire.it = Fire.end
    /\ IF Fire.removeFrom = 0 THEN UNCHANGED <<consumers, disturbed>>
       ELSE LET new == SubSeq(consumers, Fire.end, Len(consumers))
                kept == SubSeq(consumers, 1, Fire.removeFrom - 1) \o new
            IN /\ consumers' = IF Nested
                               THEN kept \o SubSeq(consumers, Len(kept) + 1, Len(consumers))
                               ELSE kept
               /\ disturbed' = (disturbed \/ (Nested /\ new # <<>>))
    /\ fires' = Tail(fires)
    /\ UNCHANGED <<made, terminated, fired, gone, wanted, got, twice>>

Next ==
    \/ Subscribe \/ (\E c \in Consumers : Terminate(c)) \/ Destroy
    \/ FireForward \/ PutNext \/ PutNextEnded \/ HandlerReturns \/ Finish

Spec == Init /\ [][Next]_vars

-----------------------------------------------------------------------------
(***************************************************************************)
(* Properties.                                                             *)
(***************************************************************************)

\* A value that is not being fired any more was given to all who were there and still are.
GivenToAll ==
    \A v \in 1..fired :
        (\A i \in 1..Len(fires) : fires[i].value # v) => wanted[v] \ terminated \subseteq got[v]

\* Between two values the list has each consumer that has not ended once.
ListIsComplete ==
    fires = <<>> /\ ~gone =>
        \A c \in Alive : Cardinality({i \in 1..Len(consumers) : consumers[i] = c}) = 1

\* Whatever the handlers do, every consumer gets every value once and stays subscribed until
\* its subscription ends.  Not so when a fire() in a handler finds consumers that have ended
\* and moves the others, while the outer loop remembers its place by an index.
EveryoneGetsValues == ~disturbed => ~twice /\ GivenToAll /\ ListIsComplete
=============================================================================
