----------------------------- MODULE RateLimiter ------------------------------
(***************************************************************************)
(* One key of the rate limiter (common/security.ts): how often an address, *)
(* an account or an API key is served.  All instances of the API count in  *)
(* Redis while it answers, each in a window of its own while it does not.  *)
(*                                                                         *)
(* The pipeline is two commands, and the connection may go before, between *)
(* and after them.  Time is counted down: what is left of a window, and    *)
(* how much a counter granted within the last ticks.                        *)
(***************************************************************************)
EXTENDS Integers

CONSTANTS
    Instances,
    Requests,
    InstanceOf,     \* [Requests -> Instances]
    Limit,          \* max
    Window          \* windowMs

ASSUME LimiterAssumption ==
    /\ "redis" \notin Instances
    /\ InstanceOf \in [Requests -> Instances]
    /\ Limit \in Nat \ {0} /\ Window \in Nat \ {0}

VARIABLES
    up,             \* Redis answers
    counter,        \* the key in Redis: its value, and what is left of its TTL
    bucket,         \* each instance's own: n, and what is left until reset
    heard,          \* what each request's INCR returned, while it waits for it
    granted         \* history: how many requests each counter granted within the last
                    \* tick, the last two and so on up to a window; one whose answer
                    \* was lost and that asked again is among them

limiterVars == <<up, counter, bucket, heard, granted>>

Counters == Instances \cup {"redis"}
-------------------------------------------------------------------------------
Unasked == 0
NoTtl == 0
Absent == [n |-> 0, left |-> NoTtl]
NoBucket == [n |-> 0, left |-> -1]

(* What exceeds the limit exceeds it by one: nothing tells more apart. *)
Bump(n) == IF n > Limit THEN n ELSE n + 1

(* A counter that stands at n grants the request that put it there. *)
Grant(c, n) ==
    granted' = IF n > Limit THEN granted
               ELSE [granted EXCEPT ![c] = [k \in 1 .. Window |-> granted[c][k] + 1]]

(* Mutation: the window is over when a request finds it full. *)
ExpiredOrFull(b) == b.left < 0 \/ b.n >= Limit

(* b.reset < now *)
Expired(b) == b.left < 0

(* localRateLimited *)
CountLocally(i) ==
    LET b == bucket[i]
        next == IF Expired(b) THEN [n |-> 1, left |-> Window] ELSE [b EXCEPT !.n = Bump(@)]
    IN  /\ bucket' = [bucket EXCEPT ![i] = next]
        /\ Grant(i, next.n)

(* INCR *)
Incr(r) ==
    /\ up /\ heard[r] = Unasked
    /\ counter' = [counter EXCEPT !.n = Bump(@)]
    /\ heard' = [heard EXCEPT ![r] = counter'.n]
    /\ Grant("redis", counter'.n)
    /\ UNCHANGED <<up, bucket>>

(* Mutation: PEXPIRE without NX. *)
Renewed == IF counter.n = 0 THEN counter ELSE [counter EXCEPT !.left = Window]

(* Mutation: EXPIRE as SET EX, which brings back a key that ran out. *)
ArmedAnyway == IF counter.left # NoTtl THEN counter ELSE [counter EXCEPT !.left = Window]

(* PEXPIRE ... NX: a TTL that is there stays, and so does a key that is not. *)
Armed ==
    IF counter.n = 0 \/ counter.left # NoTtl THEN counter
    ELSE [counter EXCEPT !.left = Window]

(* PEXPIRE, and the replies to both. *)
Reply(r) ==
    /\ up /\ heard[r] # Unasked
    /\ counter' = Armed
    /\ heard' = [heard EXCEPT ![r] = Unasked]
    /\ UNCHANGED <<up, bucket, granted>>

(* The request counts locally: Redis could not be asked, or asked and not    *)
(* heard, with and without its PEXPIRE.                                     *)
Fallback(r) ==
    /\ ~up \/ heard[r] # Unasked
    /\ counter' \in IF up THEN {counter, Armed} ELSE {counter}
    /\ CountLocally(InstanceOf[r])
    /\ heard' = [heard EXCEPT ![r] = Unasked]
    /\ UNCHANGED up

(* The sweep of the minute. *)
Sweep(i) ==
    /\ Expired(bucket[i])
    /\ bucket' = [bucket EXCEPT ![i] = NoBucket]
    /\ UNCHANGED <<up, counter, heard, granted>>

(* Redis is lost, and found again with what it had. *)
Redis(there) ==
    /\ up' = there
    /\ UNCHANGED <<counter, bucket, heard, granted>>

(* What is a window ago is forgotten. *)
Aged(counts) == [k \in 1 .. Window |-> IF k = 1 THEN 0 ELSE counts[k - 1]]

Tick ==
    /\ counter' = IF counter.left = 1 THEN Absent
                  ELSE IF counter.left = NoTtl THEN counter
                  ELSE [counter EXCEPT !.left = @ - 1]
    /\ bucket' = [i \in Instances |->
            IF Expired(bucket[i]) THEN bucket[i] ELSE [bucket[i] EXCEPT !.left = @ - 1]]
    /\ granted' = [c \in Counters |-> Aged(granted[c])]
    /\ UNCHANGED <<up, heard>>
-------------------------------------------------------------------------------
LimiterInit ==
    /\ up \in BOOLEAN
    /\ counter = Absent
    /\ bucket = [i \in Instances |-> NoBucket]
    /\ heard = [r \in Requests |-> Unasked]
    /\ granted = [c \in Counters |-> [k \in 1 .. Window |-> 0]]

LimiterNext ==
    \/ \E r \in Requests : Incr(r) \/ Reply(r) \/ Fallback(r)
    \/ \E i \in Instances : Sweep(i)
    \/ \E there \in BOOLEAN : Redis(there)
    \/ Tick

LimiterSpec == LimiterInit /\ [][LimiterNext]_limiterVars

(* Time passes. *)
FairSpec == LimiterSpec /\ WF_limiterVars(Tick)
-------------------------------------------------------------------------------
(* Properties.                                                             *)

(* Every variable holds what it may hold; a key in Redis that counts         *)
(* nothing is not there.                                                    *)
LimiterTypeOK ==
    /\ up \in BOOLEAN
    /\ counter \in [n : 0 .. Limit + 1, left : 0 .. Window]
    /\ counter.n = 0 => counter = Absent
    /\ bucket \in [Instances -> [n : 0 .. Limit + 1, left : -1 .. Window]]
    /\ heard \in [Requests -> 0 .. Limit + 1]
    /\ granted \in [Counters -> [1 .. Window -> Nat]]

(* Redis failing, however often and at whichever command, leaves a limit: no *)
(* counter grants more than two full windows, back to back, in the time of  *)
(* one, so that an address is served (1 + instances) times that at worst    *)
(* (security.ts 20-28, 44-57).                                              *)
DegradesToInstances == \A c \in Counters : granted[c][Window] <= 2 * Limit

Served(r) == (Reply(r) /\ heard[r] <= Limit) \/ (Fallback(r) /\ granted' # granted)
Refused(r) == (Reply(r) /\ heard[r] > Limit) \/ (Fallback(r) /\ granted' = granted)

(* Who is refused again and again is served again and again: no counter is   *)
(* stuck above its limit, neither by the requests it refuses nor by an INCR *)
(* whose PEXPIRE was lost (security.ts 39).                                 *)
RefusalsEnd ==
    []<><<\E r \in Requests : Refused(r)>>_limiterVars => []<><<\E r \in Requests : Served(r)>>_limiterVars
===============================================================================
