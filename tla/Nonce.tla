------------------------------- MODULE Nonce -------------------------------
(***************************************************************************)
(* nextNonce() of src/signing/Signing.cpp: threads that sign requests take  *)
(* their nonces from one std::atomic with a compare_exchange_weak loop.     *)
(*                                                                         *)
(* All accesses are memory_order_relaxed: the load may return any earlier   *)
(* value of lastNonce that the thread has not already seen overwritten; the *)
(* compare-exchange always works on the newest value and may fail           *)
(* spuriously.  The system clock may stand still, jump ahead or go back.    *)
(* Nonces are milliseconds since 1970 in 64 bits; they cannot overflow.     *)
(***************************************************************************)
EXTENDS Naturals, FiniteSets

CONSTANTS
    Threads,
    MaxClock,    \* bound: greatest reading of the system clock
    MaxCalls     \* bound: number of calls of nextNonce()

ASSUME NonceAssumption == MaxClock \in Nat /\ MaxCalls \in Nat

VARIABLES
    clock,       \* what system_clock::now() returns
    lastNonce,   \* the atomic
    pc,          \* per thread: "idle", "load", "cas", "done"
    now, prev,   \* per thread: the locals of nextNonce()
    nonce,       \* per thread: the result
    \* Memory model and history:
    stored,      \* every value lastNonce has had
    seen,        \* per thread: a value of lastNonce it has seen; no older one follows
    calls,       \* number of calls so far
    highest,     \* the greatest reading of the clock so far
    floor        \* per thread: greatest nonce returned before its call began

locals == <<now, prev, nonce, seen, floor>>
vars == <<clock, lastNonce, pc, locals, stored, calls, highest>>

Init ==
    /\ clock = 0 /\ highest = 0
    /\ lastNonce = 0 /\ stored = {0}
    /\ pc = [t \in Threads |-> "idle"]
    /\ now = [t \in Threads |-> 0] /\ prev = [t \in Threads |-> 0]
    /\ nonce = [t \in Threads |-> 0]
    /\ seen = [t \in Threads |-> 0] /\ floor = [t \in Threads |-> 0]
    /\ calls = 0

\* The clock is adjusted, in either direction, or simply runs.
ClockChanges ==
    /\ clock' \in 0 .. MaxClock
    /\ highest' = IF clock' > highest THEN clock' ELSE highest
    /\ UNCHANGED <<lastNonce, pc, locals, stored, calls>>

\* The nonces that calls have already returned: those nobody holds.
Returned == stored \ {nonce[t] : t \in {u \in Threads : pc[u] = "done"}}

ReadClock(t) ==
    /\ pc[t] = "idle" /\ calls < MaxCalls
    /\ pc' = [pc EXCEPT ![t] = "load"]
    /\ now' = [now EXCEPT ![t] = clock]
    /\ calls' = calls + 1
    /\ \E f \in Returned : /\ \A v \in Returned : v <= f
                           /\ floor' = [floor EXCEPT ![t] = f]
    /\ UNCHANGED <<clock, lastNonce, prev, nonce, seen, stored, highest>>

Load(t) ==
    /\ pc[t] = "load"
    /\ pc' = [pc EXCEPT ![t] = "cas"]
    /\ \E v \in stored : /\ v >= seen[t]
                         /\ prev' = [prev EXCEPT ![t] = v]
                         /\ seen' = [seen EXCEPT ![t] = v]
    /\ UNCHANGED <<clock, lastNonce, now, nonce, floor, stored, calls, highest>>

\* Wrong variant: a clock that stands still yields the last nonce again.
CandidateRepeats(t) == IF now[t] >= prev[t] THEN now[t] ELSE prev[t] + 1

\* Wrong variant: always one past the last nonce, whatever the clock says.
CandidateIgnoresClock(t) == prev[t] + 1

Candidate(t) == IF now[t] > prev[t] THEN now[t] ELSE prev[t] + 1

\* Wrong variant: a store in place of the compare-exchange.
CasSucceedsUnchecked(t) ==
    /\ pc[t] = "cas"
    /\ pc' = [pc EXCEPT ![t] = "done"]
    /\ lastNonce' = Candidate(t)
    /\ nonce' = [nonce EXCEPT ![t] = Candidate(t)]
    /\ seen' = [seen EXCEPT ![t] = Candidate(t)]
    /\ stored' = stored \cup {Candidate(t)}
    /\ UNCHANGED <<clock, now, prev, floor, calls, highest>>

CasSucceeds(t) ==
    /\ pc[t] = "cas"
    /\ lastNonce = prev[t]
    /\ pc' = [pc EXCEPT ![t] = "done"]
    /\ lastNonce' = Candidate(t)
    /\ nonce' = [nonce EXCEPT ![t] = Candidate(t)]
    /\ seen' = [seen EXCEPT ![t] = Candidate(t)]
    /\ stored' = stored \cup {Candidate(t)}
    /\ UNCHANGED <<clock, now, prev, floor, calls, highest>>

\* Wrong variant: the loop goes on with the old expected value.
CasFailsKeepsPrev(t) ==
    /\ pc[t] = "cas"
    /\ seen' = [seen EXCEPT ![t] = lastNonce]
    /\ UNCHANGED <<clock, lastNonce, pc, now, prev, nonce, floor, stored, calls, highest>>

\* Also spuriously, when lastNonce = prev.  The loop goes on with the value
\* found, and with the old reading of the clock.
CasFails(t) ==
    /\ pc[t] = "cas"
    /\ prev' = [prev EXCEPT ![t] = lastNonce]
    /\ seen' = [seen EXCEPT ![t] = lastNonce]
    /\ UNCHANGED <<clock, lastNonce, pc, now, nonce, floor, stored, calls, highest>>

Return(t) ==
    /\ pc[t] = "done"
    /\ pc' = [pc EXCEPT ![t] = "idle"]
    /\ UNCHANGED <<clock, lastNonce, locals, stored, calls, highest>>

Next ==
    \/ ClockChanges
    \/ \E t \in Threads : ReadClock(t) \/ Load(t) \/ CasSucceeds(t) \/ CasFails(t) \/ Return(t)

Spec == Init /\ [][Next]_vars

\* A running thread goes on.  A compare-exchange that could succeed is not
\* failed for ever.
FairSpec ==
    /\ Spec
    /\ \A t \in Threads : /\ WF_vars(Load(t)) /\ WF_vars(CasFails(t))
                          /\ WF_vars(CasSucceeds(t)) /\ WF_vars(Return(t))

-----------------------------------------------------------------------------
(* Properties. *)

\* Every variable keeps its type.
TypeOK ==
    /\ clock \in 0 .. MaxClock /\ highest \in 0 .. MaxClock
    /\ lastNonce \in Nat /\ stored \subseteq Nat
    /\ pc \in [Threads -> {"idle", "load", "cas", "done"}]
    /\ now \in [Threads -> 0 .. MaxClock]
    /\ prev \in [Threads -> Nat] /\ nonce \in [Threads -> Nat]
    /\ seen \in [Threads -> Nat] /\ floor \in [Threads -> Nat]
    /\ calls \in 0 .. MaxCalls

\* nextNonce() is an atomic dispenser of ever greater nonces: the successful
\* compare-exchange is its Issue step, everything else is invisible.
Dispenser == INSTANCE NonceDispenser WITH
    last <- lastNonce,
    held <- [t \in Threads |-> IF pc[t] = "done" THEN nonce[t] ELSE 0]

RefinesDispenser == Dispenser!Spec

\* A call that begins after other calls returned, in whichever threads, gets a
\* greater nonce than theirs, although its load may see an old value.
RealTimeOrder == \A t \in Threads : pc[t] = "done" => nonce[t] > floor[t]

\* The exchange refuses nonces far from the current time.  A nonce is never
\* older than the clock its call read, and ahead of the clock by at most the
\* number of nonces issued, even after the clock was set back.
NearClock ==
    \A t \in Threads : pc[t] = "done" =>
        /\ nonce[t] >= now[t]
        /\ nonce[t] <= highest + Cardinality(stored) - 1

\* No call loops for ever while the other threads make finitely many calls.
CallsReturn == \A t \in Threads : pc[t] = "load" ~> pc[t] = "idle"
=============================================================================
