----------------------------- MODULE TokenBucket -----------------------------
(***************************************************************************)
(* The rate limiter of the live clients: tasks of one event loop acquire a *)
(* token each before every request; the bucket refills with time and a     *)
(* task that finds too little sleeps outside the lock and tries again,     *)
(* while others may take what was refilled.  Tokens and time are counted   *)
(* in small units, a whole token being Cost of them, as the code's floats  *)
(* do.  The block under the asyncio lock has no await: one step.           *)
(***************************************************************************)
EXTENDS Clock

CONSTANTS
  Caller,   \* tasks that call acquire()
  Cost,     \* units in one token
  Rate,     \* rate_per_sec: units refilled per unit of time
  Burst     \* capacity, in units

ASSUME CostAssumption == Cost \in Nat \ {0}
ASSUME RateAssumption == Rate \in Nat \ {0}
ASSUME BurstAssumption == Burst \in Nat /\ Burst >= Cost

VARIABLES
  tokens,    \* _tokens
  last,      \* _last_refill
  at,        \* each task: "idle", "ready" to take the lock, or "asleep"
  wake,      \* when its sleep ends
  since,     \* history: the start of a window of time, or -1
  granted    \* history: units granted in the window

bucket == <<tokens, last>>
window == <<since, granted>>
vars == <<now, bucket, at, wake, window>>

Smaller(a, b) == IF a < b THEN a ELSE b

(* _refill: what the bucket holds once brought up to date.                 *)
Refilled == Smaller(Burst, tokens + Rate * (now - last))

TypeOK ==
  /\ now \in Time
  /\ tokens \in 0 .. Burst
  /\ last \in 0 .. now
  /\ at \in [Caller -> {"idle", "ready", "asleep"}]
  /\ wake \in [Caller -> Nat]
  /\ since \in -1 .. now
  /\ granted \in Nat

Init ==
  /\ ClockInit
  /\ tokens = Burst /\ last = 0
  /\ at = [c \in Caller |-> "idle"]
  /\ wake = [c \in Caller |-> 0]
  /\ since = -1 /\ granted = 0

Tick ==
  /\ Passes
  /\ UNCHANGED <<bucket, at, wake, window>>

Ask(c) ==
  /\ at[c] = "idle"
  /\ at' = [at EXCEPT ![c] = "ready"]
  /\ UNCHANGED <<now, bucket, wake, window>>

(* Mutant: the time of the refill is not noted.                            *)
TakeForgetsRefill(c) ==
  /\ at[c] = "ready"
  /\ Refilled >= Cost
  /\ tokens' = Refilled - Cost
  /\ at' = [at EXCEPT ![c] = "idle"]
  /\ granted' = granted + Cost
  /\ UNCHANGED <<now, last, wake, since>>

(* Mutant: the token is taken off what there was before the refill.        *)
TakeUnrefilled(c) ==
  /\ at[c] = "ready"
  /\ Refilled >= Cost
  /\ tokens' = tokens - Cost
  /\ last' = now
  /\ at' = [at EXCEPT ![c] = "idle"]
  /\ granted' = granted + Cost
  /\ UNCHANGED <<now, wake, since>>

(* acquire, under the lock, with enough tokens.                            *)
Take(c) ==
  /\ at[c] = "ready"
  /\ Refilled >= Cost
  /\ tokens' = Refilled - Cost
  /\ last' = now
  /\ at' = [at EXCEPT ![c] = "idle"]
  /\ granted' = granted + Cost
  /\ UNCHANGED <<now, wake, since>>

Wait(deficit) == (deficit + Rate - 1) \div Rate

(* acquire, under the lock, with too few: it sleeps out the deficit.       *)
Sleep(c) ==
  /\ at[c] = "ready"
  /\ Refilled < Cost
  /\ tokens' = Refilled
  /\ last' = now
  /\ at' = [at EXCEPT ![c] = "asleep"]
  /\ wake' = [wake EXCEPT ![c] = now + Wait(Cost - Refilled)]
  /\ UNCHANGED <<now, window>>

Wake(c) ==
  /\ at[c] = "asleep"
  /\ wake[c] <= now
  /\ at' = [at EXCEPT ![c] = "ready"]
  /\ UNCHANGED <<now, bucket, wake, window>>

(* available_tokens refills too, without the lock.                         *)
Observe ==
  /\ tokens' = Refilled
  /\ last' = now
  /\ UNCHANGED <<now, at, wake, window>>

(* History only: from here on, grants are counted.                         *)
OpenWindow ==
  /\ since = -1
  /\ since' = now
  /\ granted' = 0
  /\ UNCHANGED <<now, bucket, at, wake>>

Next ==
  \/ Tick
  \/ \E c \in Caller : Ask(c) \/ Take(c) \/ Sleep(c) \/ Wake(c)
  \/ Observe
  \/ OpenWindow

Spec == Init /\ [][Next]_vars

-----------------------------------------------------------------------------
(* Properties.                                                             *)

(* In any window of time the tasks together are granted at most the burst  *)
(* and what the rate refills meanwhile: the limit the exchanges enforce.   *)
RateRespected == since >= 0 => granted <= Burst + Rate * (now - since)

=============================================================================
