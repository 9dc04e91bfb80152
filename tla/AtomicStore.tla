----------------------------- MODULE AtomicStore ------------------------------
(***************************************************************************)
(* What the SecretStore trait (crates/server/src/credentials/store.rs)     *)
(* promises: a map from account ids to credentials, in which a put or a    *)
(* delete changes one account in one step and nothing else ever changes.   *)
(***************************************************************************)
CONSTANTS Accounts, Creds, None

VARIABLE kv

Init == kv = [a \in Accounts |-> None]

Put(a, v) == kv' = [kv EXCEPT ![a] = v]
Delete(a) == kv' = [kv EXCEPT ![a] = None]

Next == \E a \in Accounts : Delete(a) \/ \E v \in Creds : Put(a, v)

Spec == Init /\ [][Next]_kv
==============================================================================
