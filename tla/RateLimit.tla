------------------------------ MODULE RateLimit ------------------------------
(***************************************************************************)
(* Fixed-window rate limiting (common/guards/rate-limit.guard.ts) of one   *)
(* caller on one route: a counter in Redis that every instance of the      *)
(* server increments, and that goes when its window does.  The expiry is   *)
(* set by a second command, by the request that found the counter at one.  *)
(***************************************************************************)
EXTENDS Naturals, FiniteSets

CONSTANTS
    Hits,               \* requests, each served once
    LIMIT               \* RateLimitOptions.limit

ASSUME RateLimitAssumption == LIMIT \in Nat \ {0} /\ IsFiniteSet(Hits)

VARIABLES
    counter,            \* the key in Redis, 0 when there is none
    expires,            \* whether the key has an expiry
    hit,                \* where each request is
    admittedHere,       \* ghost: requests admitted by the counter in this window
    unlimited           \* ghost: the counter and its expiry may disagree with what
                        \*        the requests heard: Redis failed or the process died
                        \*        between the commands, or an answer was lost

limitVars == <<counter, expires, hit, admittedHere, unlimited>>

HitPhases == {"new", "first", "admitted", "refused", "died"}

RateLimitTypeOK ==
    /\ counter \in 0 .. Cardinality(Hits)
    /\ expires \in BOOLEAN
    /\ hit \in [Hits -> HitPhases]
    /\ admittedHere \subseteq Hits
    /\ unlimited \in BOOLEAN

RateLimitInit ==
    /\ counter = 0
    /\ expires = FALSE
    /\ hit = [h \in Hits |-> "new"]
    /\ admittedHere = {}
    /\ unlimited = FALSE

-----------------------------------------------------------------------------
\* Fault: the request that reaches the limit is refused with the others.
OverAt(count) == count >= LIMIT

Over(count) == count > LIMIT

Ends(h, count) ==
    /\ hit' = [hit EXCEPT ![h] = IF Over(count) THEN "refused" ELSE "admitted"]
    /\ admittedHere' = IF Over(count) THEN admittedHere ELSE admittedHere \cup {h}

\* INCR: the first of a window goes on to set the expiry.
Increment(h) ==
    /\ hit[h] = "new"
    /\ counter' = counter + 1
    /\ IF counter' = 1 THEN hit' = [hit EXCEPT ![h] = "first"] /\ UNCHANGED admittedHere
       ELSE Ends(h, counter')
    /\ UNCHANGED <<expires, unlimited>>

SetExpiry(h) ==
    /\ hit[h] = "first"
    /\ expires' = TRUE
    /\ Ends(h, 1)
    /\ UNCHANGED <<counter, unlimited>>

\* Redis cannot be reached, at either command: the request is let through.
FailOpen(h) ==
    /\ hit[h] \in {"new", "first"}
    /\ unlimited' = (unlimited \/ hit[h] = "first")
    /\ hit' = [hit EXCEPT ![h] = "admitted"]
    /\ UNCHANGED <<counter, expires, admittedHere>>

\* Redis carries out the command, INCR or EXPIRE, and its answer is lost: the
\* catch lets the request through, counted but not by what it knows.
AnswerLost(h) ==
    /\ hit[h] \in {"new", "first"}
    /\ counter' = IF hit[h] = "new" THEN counter + 1 ELSE counter
    /\ expires' = (expires \/ hit[h] = "first")
    /\ hit' = [hit EXCEPT ![h] = "admitted"]
    /\ unlimited' = TRUE
    /\ UNCHANGED admittedHere

HitDies(h) ==
    /\ hit[h] = "first"
    /\ unlimited' = TRUE
    /\ hit' = [hit EXCEPT ![h] = "died"]
    /\ UNCHANGED <<counter, expires, admittedHere>>

WindowEnds ==
    /\ counter > 0 /\ expires
    /\ counter' = 0
    /\ expires' = FALSE
    /\ admittedHere' = {}
    /\ UNCHANGED <<hit, unlimited>>

RateLimitNext ==
    \/ \E h \in Hits : Increment(h) \/ SetExpiry(h) \/ FailOpen(h) \/ AnswerLost(h) \/ HitDies(h)
    \/ WindowEnds

RateLimitSpec == RateLimitInit /\ [][RateLimitNext]_limitVars

-----------------------------------------------------------------------------
(* Properties.                                                             *)

\* A window admits exactly the first LIMIT of the requests it counts, whichever
\* instances serve them, and always ends: a counter without an expiry belongs to
\* a request about to set it, unless a request failed between the commands or
\* never heard what Redis did; even then no more than LIMIT are admitted by count.
WindowsHold ==
    LET opening == Cardinality({h \in Hits : hit[h] = "first"})
    IN  /\ Cardinality(admittedHere) <= LIMIT
        /\ ~unlimited =>
              /\ Cardinality(admittedHere) + opening = IF counter < LIMIT THEN counter ELSE LIMIT
              /\ counter > 0 /\ ~expires => opening = 1

=============================================================================
