---------------------------- MODULE MCSecretStore -----------------------------
(***************************************************************************)
(* SecretStore for TLC: the server has two stores on the path (router.rs   *)
(* 143 and 156), the CLI one; any one of them or any two are open.         *)
(***************************************************************************)
EXTENDS SecretStore, TLC

CONSTANTS s1, s2, s3, p1, p2

ServerAndCli == s1 :> p1 @@ s2 :> p1 @@ s3 :> p2
OneOrTwo == {{s, t} : s, t \in Stores}

Symmetry == Permutations({s1, s2})
==============================================================================
