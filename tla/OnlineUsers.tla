---------------------------- MODULE OnlineUsers ----------------------------
(***************************************************************************)
(* What the server asks of its cache of online users (readme.md, "LRUCache *)
(* management"): a map from accounts to connections in which a user stays  *)
(* as long as some request names it at least every LiveTime seconds, and   *)
(* from which every request removes the users that have been silent for    *)
(* longer.  No order of nodes, no list.                                    *)
(***************************************************************************)
EXTENDS CacheParameters, Functions

VARIABLES
    value,          \* the connection of each user that is online
    lastUse,        \* the second of the last request that named it
    clock,          \* the current second
    result          \* what the last get returned

vars == <<value, lastUse, clock, result>>

Online == DOMAIN value

Init ==
    /\ value = [k \in {} |-> NULL]
    /\ lastUse = [k \in {} |-> 0]
    /\ clock = 0
    /\ result = NULL

\* The users that are not silent for too long at the current second.
Fresh(use) == {k \in DOMAIN use : clock - use[k] <= LiveTime}

\* v and use, with the users that have been silent for too long removed.
Keep(v, use) ==
    /\ value' = Restrict(v, Fresh(use))
    /\ lastUse' = Restrict(use, Fresh(use))

\* A request that names k and finds it keeps it online.
Hit(k) ==
    /\ k \in Online
    /\ Keep(value, [lastUse EXCEPT ![k] = clock])
    /\ result' = value[k]
    /\ UNCHANGED clock

Miss(k) ==
    /\ k \notin Online
    /\ Keep(value, lastUse)
    /\ result' = NULL
    /\ UNCHANGED clock

Put(k, c) ==
    /\ Keep([j \in Online \union {k} |-> IF j = k THEN c ELSE value[j]],
            [j \in Online \union {k} |-> IF j = k THEN clock ELSE lastUse[j]])
    /\ UNCHANGED <<clock, result>>

Remove(k) ==
    /\ value' = Restrict(value, Online \ {k})
    /\ lastUse' = Restrict(lastUse, Online \ {k})
    /\ UNCHANGED <<clock, result>>

Tick ==
    /\ clock < MaxClock
    /\ clock' = clock + 1
    /\ UNCHANGED <<value, lastUse, result>>

Next ==
    \/ \E k \in Keys : Hit(k) \/ Miss(k) \/ Remove(k)
    \/ \E k \in Keys, c \in Conns : Put(k, c)
    \/ Tick

Spec == Init /\ [][Next]_vars
=============================================================================
