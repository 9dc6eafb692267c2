----------------------------- MODULE CacheStore -----------------------------
(***************************************************************************)
(* What the cache of storage/cache promises to those who use Database: a   *)
(* map from keys to values that may lose a value at any time, but never    *)
(* returns one that was overwritten, removed or moved away.  Only while an *)
(* operation on a key is in progress, the end of the process leaves open   *)
(* whether the key has what the operation takes or gives.                  *)
(***************************************************************************)
CONSTANTS Keys, Values, NoKey, NoValue

VARIABLES
    store,           \* what a get() of every key returns
    busy,            \* the key that an operation takes a value from or gives one to
    given            \* the value that it takes or gives

vars == <<store, busy, given>>

Init ==
    /\ store = [k \in Keys |-> NoValue]
    /\ busy = NoKey /\ given = NoValue

Without(S) == [k \in Keys |-> IF k \in S THEN NoValue ELSE store[k]]
Is(k, v) == busy' = k /\ given' = v

\* A new value, at once or when the operation ends; the old one is gone.
Put(k, v) ==
    /\ busy = NoKey
    /\ \/ store' = [store EXCEPT ![k] = v] /\ (Is(NoKey, NoValue) \/ Is(k, v))
       \/ store' = Without({k}) /\ Is(k, v)

Remove(k) == busy = NoKey /\ store' = Without({k}) /\ Is(k, store[k])

Move(from, to) ==
    /\ busy = NoKey
    /\ store[to] = NoValue
    /\ store' = Without({from}) /\ Is(to, store[from])

\* The operation, or the process, ends.
End ==
    /\ busy # NoKey
    /\ \/ store' = [store EXCEPT ![busy] = given]
       \/ store' = Without({busy})
    /\ Is(NoKey, NoValue)

\* The operation cannot be done after all: the value is taken back.
GiveUp == busy # NoKey /\ store' = Without({busy}) /\ (Is(busy, NoValue) \/ UNCHANGED <<busy, given>>)

\* A value is lost.
Lose(k) == store' = Without({k}) /\ UNCHANGED <<busy, given>>

Next ==
    \/ \E k \in Keys : Remove(k) \/ Lose(k)
    \/ \E k \in Keys, v \in Values : Put(k, v)
    \/ \E from, to \in Keys : Move(from, to)
    \/ End \/ GiveUp

Spec == Init /\ [][Next]_vars
=============================================================================
