--------------------------- MODULE NonceDispenser ---------------------------
(***************************************************************************)
(* What nextNonce() (src/signing/Signing.cpp) promises to its callers: a    *)
(* call takes, in one step, a nonce greater than every nonce taken before,  *)
(* and returns it later.                                                   *)
(***************************************************************************)
EXTENDS Naturals

CONSTANT Threads

VARIABLES
    last,    \* the greatest nonce taken so far
    held     \* per thread: the nonce its call has taken and will return, or 0

Init == last = 0 /\ held = [t \in Threads |-> 0]

Issue(t) ==
    /\ held[t] = 0
    /\ last' > last
    /\ held' = [held EXCEPT ![t] = last']

Return(t) ==
    /\ held[t] # 0
    /\ held' = [held EXCEPT ![t] = 0]
    /\ UNCHANGED last

Next == \E t \in Threads : Issue(t) \/ Return(t)

Spec == Init /\ [][Next]_<<last, held>>
=============================================================================
