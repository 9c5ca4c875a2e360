------------------------------ MODULE Throttle ------------------------------
(***************************************************************************)
(* The request limit of one client over all API replicas.  A replica whose *)
(* Redis client is ready counts in a fixed window that Redis keeps for all *)
(* of them; the others count in memory, each for itself.  Time passes in   *)
(* ticks; everything older than the window is forgotten.                   *)
(***************************************************************************)
EXTENDS Integers, FiniteSets, Functions

CONSTANTS
    Replicas,   \* API replicas
    Limit,      \* requests a window admits
    Ttl         \* ticks a window lasts

ASSUME ThrottleAssumption ==
    /\ IsFiniteSet(Replicas)
    /\ Limit \in Nat \ {0}
    /\ Ttl \in Nat \ {0}

Ages == 0..Ttl - 1

VARIABLES
    ready,      \* replicas whose Redis client is ready
    hits,       \* the counter in Redis; 0: no key
    left,       \* ticks until that key expires
    memory,     \* requests each replica counted in memory, by age
    admitted,   \* history: requests that were let in, by age
    counted     \* history: whether Redis counted all that were let in

vars == <<ready, hits, left, memory, admitted, counted>>

Nobody == [age \in Ages |-> 0]

Total(log) == FoldFunction(+, 0, log)

Init ==
    /\ ready \in SUBSET Replicas
    /\ hits = 0
    /\ left = 0
    /\ memory = [n \in Replicas |-> Nobody]
    /\ admitted = Nobody
    /\ counted = TRUE

\* Mutant: the window starts again with every hit
CountSliding ==
    /\ hits' = IF hits > Limit THEN hits ELSE hits + 1
    /\ left' = Ttl

\* Mutant: the key is made without a time to live
CountForGood ==
    /\ hits' = IF hits > Limit THEN hits ELSE hits + 1
    /\ left' = left

\* FIXED_WINDOW_SCRIPT, which Redis runs as one step; what is above the limit
\* need not be told apart
Count ==
    /\ hits' = IF hits > Limit THEN hits ELSE hits + 1
    /\ left' = IF hits = 0 THEN Ttl ELSE left

LetIn == admitted' = [admitted EXCEPT ![0] = @ + 1]

\* Mutant: the limit is compared with the hits before this one
HitRedisLate(n) ==
    /\ n \in ready
    /\ Count
    /\ IF hits > Limit THEN UNCHANGED admitted ELSE LetIn
    /\ UNCHANGED <<ready, memory, counted>>

HitRedis(n) ==
    /\ n \in ready
    /\ Count
    /\ IF hits' > Limit THEN UNCHANGED admitted ELSE LetIn
    /\ UNCHANGED <<ready, memory, counted>>

\* ThrottlerStorageService: a request is let in while fewer than Limit are in memory
CountInMemory(n) ==
    IF Total(memory[n]) < Limit
    THEN /\ memory' = [memory EXCEPT ![n][0] = @ + 1]
         /\ counted' = FALSE
         /\ LetIn
    ELSE UNCHANGED <<memory, counted, admitted>>

\* No ready client; or the script threw, before or after Redis ran it
HitMemory(n) ==
    /\ CountInMemory(n)
    /\ \/ UNCHANGED <<hits, left>>
       \/ n \in ready /\ Count
    /\ UNCHANGED ready

\* The client connects and drops; it gives up after 15 retries
Connection(n) ==
    /\ ready' = IF n \in ready THEN ready \ {n} ELSE ready \cup {n}
    /\ UNCHANGED <<hits, left, memory, admitted, counted>>

Older(log) == [age \in Ages |-> IF age = 0 THEN 0 ELSE log[age - 1]]

Tick ==
    /\ left' = IF left = 0 THEN 0 ELSE left - 1
    /\ hits' = IF left = 1 THEN 0 ELSE hits
    /\ memory' = [n \in Replicas |-> Older(memory[n])]
    /\ admitted' = Older(admitted)
    /\ counted' = (counted \/ Total(admitted') = 0)
    /\ UNCHANGED ready

Hit(n) == HitRedis(n) \/ HitMemory(n)

Next ==
    \/ \E n \in Replicas : Hit(n) \/ Connection(n)
    \/ Tick

Spec == Init /\ [][Next]_vars

\* Time passes, and the client goes on asking
FairSpec == Spec /\ WF_vars(Tick) /\ WF_vars(\E n \in Replicas : Hit(n))

-----------------------------------------------------------------------------
(* Properties *)

\* A key in Redis always has a time to live, so that no client is locked out.
TypeOK ==
    /\ ready \subseteq Replicas
    /\ hits \in 0..Limit + 1
    /\ left \in 0..Ttl
    /\ hits > 0 <=> left > 0
    /\ memory \in [Replicas -> [Ages -> 0..Limit]]
    /\ admitted \in [Ages -> Nat]
    /\ counted \in BOOLEAN

(***************************************************************************)
(* However the requests of a client are spread over the replicas, any Ttl  *)
(* ticks in a row let in less than two windows' worth of them while Redis  *)
(* counts: what is left of one window, which its first request is no part  *)
(* of, and the start of the next.  When replicas change between Redis and  *)
(* their memory, each adds one window's worth at most.                     *)
(***************************************************************************)
WindowBound ==
    Total(admitted) <=
        2 * Limit - 1 + (IF counted THEN 0 ELSE Cardinality(Replicas) * Limit)

(***************************************************************************)
(* A client that goes on asking is let in again and again: a refused       *)
(* request does not put off the end of the window.                         *)
(***************************************************************************)
LetInAgain == []<>(Total(admitted) > 0)
=============================================================================
