-------------------------- MODULE CacheParameters --------------------------
(***************************************************************************)
(* The parameters that the three models of the cache of online users       *)
(* share: OnlineUsers, LRUCache and LRUList.                               *)
(***************************************************************************)
EXTENDS Integers

CONSTANTS
    Keys,           \* accounts
    Conns,          \* connections
    NULL,           \* the null pointer
    LiveTime,       \* live_Time, in seconds
    MaxClock        \* bound on the clock

ASSUME LRUAssumption ==
    /\ NULL \notin Conns
    /\ LiveTime \in Nat
    /\ MaxClock \in Nat
=============================================================================
