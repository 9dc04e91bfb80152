------------------------------ MODULE LeaseLock ------------------------------
(***************************************************************************)
(* What crates/server/src/lockfile.rs promises its callers: a lock whose   *)
(* file may be declared abandoned after a while.  Until some lock file has *)
(* gone stale, at most one contender holds the lock; afterwards a takeover *)
(* may let a second one in.  AccountRefresh uses the lock through this     *)
(* abstraction; FileLock is shown to implement it.                         *)
(***************************************************************************)

CONSTANT Contenders

VARIABLES holding,   \* the contenders inside an acquired lock
          suspect    \* some lock file has been older than stale_after

vars == <<holding, suspect>>

Init == holding = {} /\ suspect = FALSE

Acquire(c) ==
  /\ c \notin holding
  /\ holding = {} \/ suspect
  /\ holding' = holding \cup {c}
  /\ UNCHANGED suspect

Release(c) ==
  /\ c \in holding
  /\ holding' = holding \ {c}
  /\ UNCHANGED suspect

BecomeSuspect == suspect' = TRUE /\ UNCHANGED holding

Next == \/ \E c \in Contenders : Acquire(c) \/ Release(c)
        \/ BecomeSuspect

Spec == Init /\ [][Next]_vars
==============================================================================
