---------------------------- MODULE RateLimiter ----------------------------
(***************************************************************************)
(* RateLimiter of app/core/limiter.py for the requests of one client       *)
(* address: a sorted set of time stamps under one Redis key, which every   *)
(* limited route of every API process shares (jobs, batch and ingest use   *)
(* the same key and the same limit).                                       *)
(*                                                                         *)
(* A time stamp is both member and score.  time.time() is fine enough for  *)
(* no two requests of a client to read the same value, so taking a stamp   *)
(* advances the clock; processes and Redis are taken to agree on it.       *)
(***************************************************************************)
EXTENDS Naturals, FiniteSets

CONSTANTS
    Callers,      \* requests of the client that can be under way at a time
    Rpm,          \* requests_per_minute
    Window,       \* window: 60 s
    MaxTime       \* bound: last value of the clock

ASSUME LimiterAssumption ==
    /\ IsFiniteSet(Callers)
    /\ Rpm \in Nat \ {0}
    /\ Window \in Nat \ {0}
    /\ MaxTime \in Nat

VARIABLES
    clock,
    hits,         \* stamps under rate_limit:{client_ip}; no key when empty
    deadline,     \* when the key expires; 0 if it has no TTL
    caller,       \* step and stamp of each request
    counted       \* history: stamps that passed the count while Redis worked

limiterVars == <<clock, hits, deadline, caller, counted>>

LimiterTypeOK ==
    /\ clock \in Nat
    /\ hits \in SUBSET Nat
    /\ deadline \in Nat
    /\ caller \in [Callers -> [pc: {"idle", "count", "add"}, stamp: Nat]]
    /\ counted \in SUBSET Nat

LimiterInit ==
    /\ clock = 1
    /\ hits = {}
    /\ deadline = 0
    /\ caller = [c \in Callers |-> [pc |-> "idle", stamp |-> 0]]
    /\ counted = {}

\* The clock advances, and the key expires when its time has come.
Advance ==
    /\ clock < MaxTime
    /\ clock' = clock + 1
    /\ IF deadline # 0 /\ deadline <= clock'
       THEN hits' = {} /\ deadline' = 0
       ELSE UNCHANGED <<hits, deadline>>

\* The answer is out: the caller's slot is free for the next request.
Leave(c) == caller' = [caller EXCEPT ![c].pc = "idle"]

-----------------------------------------------------------------------------
(* __call__                                                                *)

TakeStamp(c) ==
    /\ caller[c].pc = "idle"
    /\ Advance
    /\ caller' = [caller EXCEPT ![c] = [pc |-> "count", stamp |-> clock]]
    /\ UNCHANGED counted

\* The stamps that ZREMRANGEBYSCORE 0 (stamp - window) leaves
Recent(c) == {s \in hits : s + Window > caller[c].stamp}

\* Mutant: the TTL is shorter than the window
SweepShort(c) ==
    /\ hits' = Recent(c)
    /\ deadline' = IF Recent(c) = {} THEN 0 ELSE clock + Window - 2

\* The pipeline, one transaction: ZREMRANGEBYSCORE, ZCARD, EXPIRE.  An
\* emptied key is gone with its TTL, and EXPIRE finds nothing to refresh.
Sweep(c) ==
    /\ hits' = Recent(c)
    /\ deadline' = IF Recent(c) = {} THEN 0 ELSE clock + Window

\* Mutant: the request is recorded before it is judged
BlockRecorded(c) ==
    /\ caller[c].pc = "count"
    /\ Cardinality(Recent(c)) >= Rpm
    /\ hits' = Recent(c) \cup {caller[c].stamp}
    /\ deadline' = clock + Window
    /\ Leave(c)
    /\ UNCHANGED <<clock, counted>>

\* 429, and no stamp is added
Block(c) ==
    /\ caller[c].pc = "count"
    /\ Cardinality(Recent(c)) >= Rpm
    /\ Sweep(c)
    /\ Leave(c)
    /\ UNCHANGED <<clock, counted>>

Pass(c) ==
    /\ caller[c].pc = "count"
    /\ Cardinality(Recent(c)) < Rpm
    /\ Sweep(c)
    /\ caller' = [caller EXCEPT ![c].pc = "add"]
    /\ counted' = counted \cup {caller[c].stamp}
    /\ UNCHANGED clock

\* ZADD: a call of its own.  A key it creates has no TTL.
AddStamp(c) ==
    /\ caller[c].pc = "add"
    /\ hits' = hits \cup {caller[c].stamp}
    /\ Leave(c)
    /\ UNCHANGED <<clock, deadline, counted>>

\* Redis fails, before the pipeline is executed or after: fail open.
SweepFails(c) ==
    /\ caller[c].pc = "count"
    /\ UNCHANGED <<hits, deadline>> \/ Sweep(c)
    /\ Leave(c)
    /\ UNCHANGED <<clock, counted>>

\* The same of ZADD; a stamp that was not added counts no more.
AddFails(c) ==
    /\ caller[c].pc = "add"
    /\ Leave(c)
    /\ counted' = counted \ {caller[c].stamp}
    /\ UNCHANGED <<clock, hits, deadline>>

Tick == Advance /\ UNCHANGED <<caller, counted>>

LimiterNext ==
    \/ \E c \in Callers :
          \/ TakeStamp(c) \/ Block(c) \/ Pass(c) \/ AddStamp(c)
          \/ SweepFails(c) \/ AddFails(c)
    \/ Tick

LimiterSpec == LimiterInit /\ [][LimiterNext]_limiterVars

-----------------------------------------------------------------------------
(* Properties.                                                             *)

\* Stamps of the requests that have passed and are being added
Adding == {caller[c].stamp : c \in {d \in Callers : caller[d].pc = "add"}}

\* Expiry and sweeps by other requests forget nothing that is still in the
\* window, although the TTL is refreshed before the stamp is added, by
\* another call, and not at all if the key is new.
WindowRemembered ==
    \A s \in counted : s + Window > clock => s \in hits \cup Adding

\* The docstring of POST /market-prices and the refusal the limiter sends
\* promise a strict limit: no more requests than it allows pass in a window.
\* The count and the ZADD are two calls, and requests that overlap all count
\* before any of them adds its stamp.
StrictLimit == Cardinality({s \in counted : s + Window > clock}) <= Rpm

\* Only requests that passed count against the client: being blocked does
\* not put off the time at which it is let in again.
OnlyPassedCount == hits \subseteq counted
=============================================================================
