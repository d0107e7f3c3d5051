------------------------------ MODULE RateLimit ------------------------------
(***************************************************************************)
(* The rate limiter of the digest verify path (server.js:100-118): fixed   *)
(* windows per client, kept in a map that is swept once it has grown.      *)
(*                                                                         *)
(* The model follows one life of the process, over a clock that does not   *)
(* run backwards.                                                          *)
(***************************************************************************)
EXTENDS Integers, Sequences, FiniteSets

CONSTANTS
    Client,
    Window, RateMax,    \* RL_WINDOW_MS and RL_MAX
    SweepAbove,         \* the size above which the map is swept, 10000 in the code
    MaxTime, MaxRequests    \* bounds

ASSUME RateAssumption ==
    /\ Window \in Nat \ {0}
    /\ RateMax \in Nat \ {0}
    /\ SweepAbove \in Nat
    /\ MaxTime \in Nat /\ MaxRequests \in Nat

VARIABLES
    ticks,      \* Date.now()
    rlBuckets,  \* count and reset of every client; a client without a bucket has count 0
    admitted    \* for every client, when its requests were let in and the reset of the
                \* bucket they were counted in

rateVars == <<ticks, rlBuckets, admitted>>

RateInit ==
    /\ ticks = 0
    /\ rlBuckets = [c \in Client |-> [count |-> 0, reset |-> 0]]
    /\ admitted = [c \in Client |-> <<>>]

--------------------------------------------------------------------------------

NoBucket == [count |-> 0, reset |-> 0]

Kept(buckets) == {c \in Client : buckets[c].count > 0}

\* (Slip: the sweep empties the map.)
SweepAll(buckets) ==
    IF Cardinality(Kept(buckets)) > SweepAbove THEN [c \in Client |-> NoBucket] ELSE buckets

\* The sweep: buckets that have ended go.
Sweep(buckets) ==
    IF Cardinality(Kept(buckets)) > SweepAbove
    THEN [c \in Client |-> IF ticks >= buckets[c].reset THEN NoBucket ELSE buckets[c]]
    ELSE buckets

\* The bucket a request is counted in.
Bucket(swept, client) ==
    IF swept[client].count = 0 \/ ticks >= swept[client].reset
    THEN [count |-> 0, reset |-> ticks + Window]
    ELSE swept[client]

\* rateLimited: a refused request is counted as well.
RateLimited(client) ==
    LET swept == Sweep(rlBuckets)
        bucket == [Bucket(swept, client) EXCEPT !.count = @ + 1]
    IN  /\ rlBuckets' = [swept EXCEPT ![client] = bucket]
        /\ admitted' =
              IF bucket.count > RateMax THEN admitted
              ELSE [admitted EXCEPT ![client] =
                       Append(@, [at |-> ticks, reset |-> bucket.reset])]
        /\ UNCHANGED ticks

Advance ==
    /\ ticks < MaxTime
    /\ ticks' = ticks + 1
    /\ UNCHANGED <<rlBuckets, admitted>>

RateNext ==
    \/ Advance
    \/ \E c \in Client :
          /\ rlBuckets[c].count <= MaxRequests
          /\ RateLimited(c)

RateSpec == RateInit /\ [][RateNext]_rateVars

--------------------------------------------------------------------------------

\* A client that times its requests around the end of a window gets at most twice the
\* rate through: of any 2 * RateMax + 1 admitted requests the last comes at least a
\* whole window after the first, sweeps included.
NoMoreThanTwiceTheRate ==
    \A c \in Client : \A i \in DOMAIN admitted[c] :
        i + 2 * RateMax \in DOMAIN admitted[c] =>
            admitted[c][i + 2 * RateMax].at >= admitted[c][i].at + Window
================================================================================
