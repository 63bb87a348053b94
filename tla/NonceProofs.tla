---------------------------- MODULE NonceProofs ----------------------------
(***************************************************************************)
(* nextNonce() for any set of threads, any clock and any number of calls:   *)
(* it implements NonceDispenser, and its nonces respect real-time order.    *)
(***************************************************************************)
EXTENDS Nonce, FiniteSetTheorems, TLAPS

USE NonceAssumption

\* Everything ever stored is at most lastNonce; what a finished call took has
\* been stored; what a call must exceed is at most what it compares with.
NonceInv ==
    /\ TypeOK
    /\ lastNonce \in stored /\ 0 \in stored
    /\ \A v \in stored : v <= lastNonce
    /\ \A t \in Threads : floor[t] <= lastNonce
    /\ \A t \in Threads : pc[t] = "done" => nonce[t] > floor[t] /\ nonce[t] > 0

\* The candidate is greater than the value it replaces.
LEMMA CandidateGreater ==
  ASSUME TypeOK, NEW t \in Threads
  PROVE  Candidate(t) \in Nat /\ Candidate(t) > prev[t]
  BY DEF TypeOK, Candidate

\* NonceInv holds before the first call.
LEMMA NonceInit == Init => NonceInv
  BY DEF Init, NonceInv, TypeOK

\* Every step of a thread or of the clock keeps NonceInv.
LEMMA NonceStep == NonceInv /\ [Next]_vars => NonceInv'
  <1> SUFFICES ASSUME NonceInv, [Next]_vars PROVE NonceInv'
    OBVIOUS
  <1>0. TypeOK
    BY DEF NonceInv
  <1>1. CASE ClockChanges
    BY <1>1 DEF NonceInv, TypeOK, ClockChanges, locals
  <1>2. ASSUME NEW t \in Threads, ReadClock(t) PROVE NonceInv'
    <2>1. PICK f \in Returned : floor' = [floor EXCEPT ![t] = f]
      BY <1>2 DEF ReadClock
    <2>2. f \in stored
      BY DEF Returned
    <2> QED BY <1>2, <2>1, <2>2 DEF NonceInv, TypeOK, ReadClock
  <1>3. ASSUME NEW t \in Threads, Load(t) PROVE NonceInv'
    BY <1>3 DEF NonceInv, TypeOK, Load
  <1>4. ASSUME NEW t \in Threads, CasSucceeds(t) PROVE NonceInv'
    <2> DEFINE c == Candidate(t)
    <2>1. c \in Nat /\ c > lastNonce
      BY <1>0, <1>4, CandidateGreater DEF CasSucceeds
    <2>2. /\ lastNonce' = c /\ stored' = stored \cup {c}
          /\ nonce' = [nonce EXCEPT ![t] = c] /\ seen' = [seen EXCEPT ![t] = c]
          /\ pc' = [pc EXCEPT ![t] = "done"]
          /\ UNCHANGED <<clock, now, prev, floor, calls, highest>>
      BY <1>4 DEF CasSucceeds
    <2> HIDE DEF c
    <2>3. TypeOK'
      BY <1>0, <2>1, <2>2 DEF TypeOK
    <2>4. lastNonce' \in stored' /\ 0 \in stored' /\ \A v \in stored' : v <= lastNonce'
      BY <1>0, <2>1, <2>2 DEF NonceInv, TypeOK
    <2>5. \A u \in Threads : floor'[u] <= lastNonce'
      BY <1>0, <2>1, <2>2 DEF NonceInv, TypeOK
    <2>6. \A u \in Threads : pc'[u] = "done" => nonce'[u] > floor'[u] /\ nonce'[u] > 0
      BY <1>0, <2>1, <2>2 DEF NonceInv, TypeOK
    <2> QED BY <2>3, <2>4, <2>5, <2>6 DEF NonceInv
  <1>5. ASSUME NEW t \in Threads, CasFails(t) PROVE NonceInv'
    BY <1>5 DEF NonceInv, TypeOK, CasFails
  <1>6. ASSUME NEW t \in Threads, Return(t) PROVE NonceInv'
    BY <1>6 DEF NonceInv, TypeOK, Return, locals
  <1>7. CASE UNCHANGED vars
    BY <1>7 DEF NonceInv, TypeOK, vars, locals
  <1> QED BY <1>1, <1>2, <1>3, <1>4, <1>5, <1>6, <1>7 DEF Next

\* Hence NonceInv holds always.
LEMMA NonceInvariant == Spec => []NonceInv
  BY NonceInit, NonceStep, PTL DEF Spec

-----------------------------------------------------------------------------
\* Each nonce is a reading of the clock or one more than its predecessor, so
\* lastNonce cannot be ahead of the clock by more than the nonces issued.
ClockInv ==
    /\ IsFiniteSet(stored)
    /\ clock <= highest
    /\ lastNonce + 1 <= highest + Cardinality(stored)
    /\ \A t \in Threads :
         /\ now[t] <= highest
         /\ pc[t] = "done" => now[t] <= nonce[t] /\ nonce[t] <= lastNonce

\* ClockInv holds before the first call.
LEMMA ClockInit == Init => ClockInv
  <1> SUFFICES ASSUME Init PROVE ClockInv
    OBVIOUS
  <1>1. IsFiniteSet({0}) /\ Cardinality({0}) = 1
    BY FS_Singleton
  <1> QED BY <1>1 DEF Init, ClockInv

\* Every step keeps ClockInv: a successful compare-exchange adds one nonce to
\* stored and raises lastNonce by one, or to a reading of the clock.
LEMMA ClockStep == NonceInv /\ ClockInv /\ [Next]_vars => ClockInv'
  <1> SUFFICES ASSUME NonceInv, ClockInv, [Next]_vars PROVE ClockInv'
    OBVIOUS
  <1>0. TypeOK /\ IsFiniteSet(stored) /\ Cardinality(stored) \in Nat
    BY FS_CardinalityType DEF NonceInv, ClockInv
  <1>1. CASE ClockChanges
    <2>1. /\ clock' \in Nat /\ highest' \in Nat /\ highest' >= highest /\ clock' <= highest'
          /\ UNCHANGED <<lastNonce, stored, now, nonce, pc>>
      BY <1>0, <1>1 DEF ClockChanges, TypeOK, locals
    <2> QED BY <1>0, <2>1 DEF ClockInv, TypeOK
  <1>2. ASSUME NEW t \in Threads, ReadClock(t) PROVE ClockInv'
    BY <1>0, <1>2 DEF ReadClock, ClockInv, TypeOK
  <1>3. ASSUME NEW t \in Threads, Load(t) PROVE ClockInv'
    BY <1>0, <1>3 DEF Load, ClockInv, TypeOK
  <1>4. ASSUME NEW t \in Threads, CasSucceeds(t) PROVE ClockInv'
    <2> DEFINE c == Candidate(t)
    <2>1. c \in Nat /\ c > lastNonce /\ c >= now[t]
      BY <1>0, <1>4, CandidateGreater DEF CasSucceeds, Candidate, TypeOK
    <2>2. c <= highest \/ c = lastNonce + 1
      BY <1>4 DEF CasSucceeds, Candidate, ClockInv
    <2>3. /\ lastNonce' = c /\ stored' = stored \cup {c}
          /\ nonce' = [nonce EXCEPT ![t] = c] /\ pc' = [pc EXCEPT ![t] = "done"]
          /\ UNCHANGED <<clock, now, highest>>
      BY <1>4 DEF CasSucceeds
    <2> HIDE DEF c
    <2>4. c \notin stored
      BY <1>0, <2>1 DEF NonceInv, TypeOK
    <2>5. IsFiniteSet(stored') /\ Cardinality(stored') = Cardinality(stored) + 1
      BY <1>0, <2>3, <2>4, FS_AddElement
    <2>6. lastNonce' + 1 <= highest' + Cardinality(stored')
      BY <1>0, <2>1, <2>2, <2>3, <2>5 DEF ClockInv, TypeOK
    <2>7. \A u \in Threads : pc'[u] = "done" => now'[u] <= nonce'[u] /\ nonce'[u] <= lastNonce'
      BY <1>0, <2>1, <2>3 DEF ClockInv, TypeOK
    <2> QED BY <2>3, <2>5, <2>6, <2>7 DEF ClockInv
  <1>5. ASSUME NEW t \in Threads, CasFails(t) PROVE ClockInv'
    BY <1>5 DEF CasFails, ClockInv
  <1>6. ASSUME NEW t \in Threads, Return(t) PROVE ClockInv'
    BY <1>0, <1>6 DEF Return, ClockInv, TypeOK, locals
  <1>7. CASE UNCHANGED vars
    BY <1>7 DEF ClockInv, vars, locals
  <1> QED BY <1>1, <1>2, <1>3, <1>4, <1>5, <1>6, <1>7 DEF Next

\* A nonce is as recent as the clock its call read, and ahead of every reading
\* by at most the number of nonces issued.
THEOREM NearClockHolds == Spec => []NearClock
  <1>1. NonceInv /\ ClockInv => NearClock
    <2> SUFFICES ASSUME NonceInv, ClockInv, NEW t \in Threads, pc[t] = "done"
                 PROVE  nonce[t] >= now[t] /\ nonce[t] <= highest + Cardinality(stored) - 1
      BY DEF NearClock
    <2>1. Cardinality(stored) \in Nat
      BY FS_CardinalityType DEF ClockInv
    <2> QED BY <2>1 DEF NonceInv, ClockInv, TypeOK
  <1>2. Spec => []ClockInv
    BY ClockInit, ClockStep, NonceInvariant, PTL DEF Spec
  <1> QED BY <1>1, <1>2, NonceInvariant, PTL

\* A call that begins after other calls have returned gets a greater nonce,
\* whatever the clock does and however old the value its load sees.
THEOREM RealTimeOrderHolds == Spec => []RealTimeOrder
  <1>1. NonceInv => RealTimeOrder
    BY DEF NonceInv, RealTimeOrder
  <1> QED BY <1>1, NonceInvariant, PTL

\* The compare-exchange loop implements the atomic dispenser: every step is an
\* Issue, a Return, or invisible.
THEOREM ImplementsDispenser == Spec => RefinesDispenser
  <1> DEFINE held == [t \in Threads |-> IF pc[t] = "done" THEN nonce[t] ELSE 0]
  <1>1. Init => Dispenser!Init
    BY DEF Init, Dispenser!Init
  <1>2. NonceInv /\ [Next]_vars => [Dispenser!Next]_<<lastNonce, held>>
    <2> SUFFICES ASSUME NonceInv, [Next]_vars
                 PROVE  Dispenser!Next \/ UNCHANGED <<lastNonce, held>>
      OBVIOUS
    <2>0. TypeOK
      BY DEF NonceInv
    <2>1. CASE ClockChanges
      BY <2>1 DEF ClockChanges, locals
    <2>2. ASSUME NEW t \in Threads, ReadClock(t) \/ Load(t)
          PROVE  UNCHANGED <<lastNonce, held>>
      BY <2>0, <2>2 DEF ReadClock, Load, TypeOK
    <2>3. ASSUME NEW t \in Threads, CasSucceeds(t) PROVE Dispenser!Issue(t)
      <3>1. lastNonce' > lastNonce
        BY <2>0, <2>3, CandidateGreater DEF CasSucceeds
      <3>2. held[t] = 0
        BY <2>3 DEF CasSucceeds
      <3>3. held' = [held EXCEPT ![t] = lastNonce']
        BY <2>0, <2>3 DEF CasSucceeds, TypeOK
      <3> QED BY <3>1, <3>2, <3>3 DEF Dispenser!Issue
    <2>4. ASSUME NEW t \in Threads, CasFails(t) PROVE UNCHANGED <<lastNonce, held>>
      BY <2>4 DEF CasFails
    <2>5. ASSUME NEW t \in Threads, Return(t) PROVE Dispenser!Return(t)
      <3>1. held[t] # 0
        BY <2>0, <2>5 DEF Return, NonceInv, TypeOK
      <3>2. held' = [held EXCEPT ![t] = 0] /\ UNCHANGED lastNonce
        BY <2>0, <2>5 DEF Return, TypeOK, locals
      <3> QED BY <3>1, <3>2 DEF Dispenser!Return
    <2>6. CASE UNCHANGED vars
      BY <2>6 DEF vars, locals
    <2> QED BY <2>1, <2>2, <2>3, <2>4, <2>5, <2>6 DEF Next, Dispenser!Next
  <1> QED BY <1>1, <1>2, NonceInvariant, PTL DEF Spec, RefinesDispenser, Dispenser!Spec
=============================================================================
