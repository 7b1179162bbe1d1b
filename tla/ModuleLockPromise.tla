--------------------------- MODULE ModuleLockPromise ---------------------------
(* What LockModule of a store promises (src/internal/store/sqlite.go): at  *)
(* most one caller has the module at a time, and only the caller that has it    *)
(* can give it back, or see it passed on to one that waits.                     *)
CONSTANT Callers
VARIABLE holders

Init == holders = {}
Acquire(c) == holders = {} /\ holders' = {c}
Release(c) == holders = {c} /\ holders' = {}
Pass(c, d) == holders = {c} /\ d # c /\ holders' = {d}
Next == \E c, d \in Callers : Acquire(c) \/ Release(c) \/ Pass(c, d)
Spec == Init /\ [][Next]_holders
===============================================================================
