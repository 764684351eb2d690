---------------------------- MODULE LoginLimiter ------------------------------
(* The limit on failed logins of one client address (internal/web/handler/
   ratelimit.go) and the requests of internal/web/handler/login.go that go through
   it: Allow, the slow check of the password and RecordFailure are three steps, and
   every request runs in a goroutine of its own.  Addresses share nothing. *)
EXTENDS Integers, Sequences, FiniteSets

CONSTANTS
  Requests,      \* the requests that can be under way at a time
  MaxAttempts,   \* NewLoginRateLimiter's maxAttempts
  Window,        \* and its window, in ticks
  MaxTime        \* bound on the clock

LoginAssumption ==
  IsFiniteSet(Requests) /\ MaxAttempts \in Nat /\ Window \in Nat \ {0} /\ MaxTime \in Nat

VARIABLES
  now,
  failures,      \* the time of every login that failed so far
  attempts,      \* those that the limiter remembers: positions in failures
  request        \* what each request does: "none", "checking"
vars == <<now, attempts, request, failures>>

Init == now = 0 /\ attempts = {} /\ request = [r \in Requests |-> "none"] /\ failures = <<>>

\* The failures of the window that ends now, and those of them that are remembered.
Recent == {i \in DOMAIN failures : failures[i] > now - Window}
Valid(times) == times \cap Recent

AllowStale(times) == Cardinality(times) <= MaxAttempts \* mutant: off by one
Allow(times)      == Cardinality(times) < MaxAttempts

\* A request is let through, or is answered 429.
Arrive(r) ==
  /\ request[r] = "none"
  /\ attempts' = Valid(attempts)
  /\ request' = [request EXCEPT ![r] = IF Allow(Valid(attempts)) THEN "checking" ELSE "none"]
  /\ UNCHANGED <<now, failures>>

\* The body is unusable (400), or the password is right: nothing is recorded.
Accept(r) ==
  /\ request[r] = "checking"
  /\ request' = [request EXCEPT ![r] = "none"]
  /\ UNCHANGED <<now, attempts, failures>>

RecordFailure(r) ==
  /\ request[r] = "checking"
  /\ failures' = Append(failures, now) /\ attempts' = attempts \cup {Len(failures')}
  /\ request' = [request EXCEPT ![r] = "none"]
  /\ UNCHANGED now

Cleanup == attempts' = Valid(attempts) /\ UNCHANGED <<now, request, failures>>

Tick == now < MaxTime /\ now' = now + 1 /\ UNCHANGED <<attempts, request, failures>>

Next ==
  \/ \E r \in Requests : Arrive(r) \/ Accept(r) \/ RecordFailure(r)
  \/ Cleanup \/ Tick
Spec == Init /\ [][Next]_vars

----------------------------------------------------------------------------
\* However requests and cleanups interleave, no window holds more failures than
\* the limit, less one, and one for each request that was let through before the
\* failure that reached it; and the limiter forgets none of them.
FailuresBounded ==
  /\ Valid(attempts) = Recent
  /\ Cardinality(Recent) + Cardinality({r \in Requests : request[r] = "checking"})
       <= (IF MaxAttempts = 0 THEN 0 ELSE MaxAttempts - 1 + Cardinality(Requests))
==============================================================================
