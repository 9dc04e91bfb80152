------------------------- MODULE AccountRefreshProofs -------------------------
(***************************************************************************)
(* Proofs about the refresh protocol for any number of tasks, processes    *)
(* and tokens.                                                             *)
(***************************************************************************)
EXTENDS AccountRefresh, TLAPS

\* A task past its re-read has a refresh token in hand, and one the vendor
\* has answered has a new token.
InHand ==
  \A t \in Tasks :
    /\ pc[t] \in {"lock"} \cup Critical => seen[t] \in Tokens
    /\ pc[t] = "reply" => got[t] \in Tokens

TypeInv == TypeOK /\ InHand

LEMMA TypeInductive == TypeInv /\ [Next]_vars => TypeInv'
<1> SUFFICES ASSUME TypeInv, [Next]_vars PROVE TypeInv'
  OBVIOUS
<1>a. Readable => stored.rt \in Tokens /\ stored.at \in Tokens
  BY DEF TypeInv, TypeOK, Readable, Creds
<1>b. issued < MaxIssued => issued + 1 \in Tokens
  BY RefreshAssumption DEF TypeInv, TypeOK, Tokens
<1>c. ASSUME NEW rt \in Tokens, NEW at \in Tokens, NEW f \in Forms
      PROVE  [rt |-> rt, at |-> at, form |-> f] \in Creds
  BY DEF Creds
<1> USE RefreshAssumption
    DEF TypeInv, TypeOK, InHand, PCs, Rest, Critical, session, locks, vendor, foreign
<1>1. ASSUME NEW t \in Tasks, Resolve(t) PROVE TypeInv'
  <2>1. CASE Readable
    <3>1. cache' = cache \/ \E p : cache' = [cache EXCEPT ![p] = stored.at]
      BY <1>1, <2>1 DEF Resolve, CachePut
    <3>2. cache' \in [Procs -> Tokens \cup {None}]
      BY <1>a, <2>1, <3>1
    <3> QED
      BY <1>a, <1>1, <2>1, <3>2 DEF Resolve, Goto
  <2>2. CASE ~Readable
    BY <1>1, <2>2 DEF Resolve, Goto, CachePut, ReadFailure, Failure, Unrenewable
  <2> QED
    BY <2>1, <2>2
<1>2. ASSUME NEW t \in Tasks, ForceRefresh(t) PROVE TypeInv'
  BY <1>2 DEF ForceRefresh, Goto
<1>3. ASSUME NEW t \in Tasks, TakeFlight(t) PROVE TypeInv'
  <2>1. CASE Readable
    BY <1>a, <1>3, <2>1 DEF TakeFlight, End, Goto, CachePut
  <2>2. CASE ~Readable
    BY <1>3, <2>2 DEF TakeFlight, End, Goto, CachePut, ReadFailure, Failure, Unrenewable
  <2> QED
    BY <2>1, <2>2
<1>4. ASSUME NEW t \in Tasks, TakeLock(t) PROVE TypeInv'
  BY <1>4 DEF TakeLock, Goto
<1>5. ASSUME NEW t \in Tasks, LockTimeout(t) PROVE TypeInv'
  BY <1>5 DEF LockTimeout, Return, End, Release, Goto, Failure
<1>6. ASSUME NEW t \in Tasks, Recheck(t) PROVE TypeInv'
  <2>1. CASE Readable
    BY <1>a, <1>6, <2>1 DEF Recheck, Return, End, Release, Goto, CachePut, Unrenewable
  <2>2. CASE ~Readable
    BY <1>6, <2>2 DEF Recheck, Return, End, Release, Goto, CachePut, ReadFailure, Failure, Unrenewable
  <2> QED
    BY <2>1, <2>2
<1>7. ASSUME NEW t \in Tasks, VendorRefreshes(t) PROVE TypeInv'
  BY <1>b, <1>7 DEF VendorRefreshes, Goto
<1>8. ASSUME NEW t \in Tasks, VendorRefuses(t) PROVE TypeInv'
  BY <1>8 DEF VendorRefuses, Goto
<1>9. ASSUME NEW t \in Tasks, SendFails(t) PROVE TypeInv'
  BY <1>9 DEF SendFails, NoAnswer, Return, End, Release, Goto, Failure
<1>10. ASSUME NEW t \in Tasks, Refused(t) PROVE TypeInv'
  BY <1>10 DEF Refused, mark_revoked, Return, End, Release, Goto, Failure
<1>11. ASSUME NEW t \in Tasks, Persist(t) PROVE TypeInv'
  <2>1. stored' \in Creds
    <3>1. got[t] \in Tokens /\ seen[t] \in Tokens
      BY <1>11 DEF Persist
    <3> QED
      BY <3>1, <1>c, <1>11 DEF Persist, NewCred, Forms
  <2> QED
    BY <2>1, <1>11 DEF Persist, Return, End, Release, Goto, CachePut
<1>12. ASSUME NEW t \in Tasks, LoseReply(t) PROVE TypeInv'
  BY <1>12 DEF LoseReply, NoAnswer, Return, End, Release, Goto, Failure
<1>13. ASSUME NEW t \in Tasks, Judge(t) PROVE TypeInv'
  <2>1. revoked' \in BOOLEAN /\ pc' = [pc EXCEPT ![t] = "failed"]
    BY <1>13 DEF Judge, mark_revoked, End, Goto
  <2>2. /\ op' = [op EXCEPT ![t] = "resolve"] /\ seen' = [seen EXCEPT ![t] = None]
        /\ got' = [got EXCEPT ![t] = None]
        /\ UNCHANGED <<stored, cache, fresh, locks, vendor, foreign, torn>>
    BY <1>13 DEF Judge, End
  <2> QED
    BY <2>1, <2>2
<1>14. ASSUME NEW t \in Tasks, SignIn(t) PROVE TypeInv'
  <2>1. issued' \in Tokens
    BY <1>b, <1>14 DEF SignIn
  <2>2. stored' \in Creds
    <3>1. PICK f \in Forms : stored' = [rt |-> issued', at |-> issued', form |-> f]
      BY <1>14 DEF SignIn, Forms
    <3> QED
      BY <2>1, <3>1, <1>c
  <2>3. /\ cache' = [cache EXCEPT ![ProcOf[kind][t]] = issued'] /\ fresh' = fresh \cup {issued'}
        /\ pc' = [pc EXCEPT ![t] = "clear"]
        /\ UNCHANGED <<revoked, locks, kind, rotated, reused, foreign, torn, op, seen, got>>
    BY <1>14 DEF SignIn, Goto, CachePut
  <2> QED
    BY <2>1, <2>2, <2>3
<1>15. ASSUME NEW t \in Tasks, ClearRevoked(t) PROVE TypeInv'
  BY <1>15 DEF ClearRevoked, Goto
<1>16. ASSUME NEW t \in Tasks, SignOut(t) PROVE TypeInv'
  BY <1>16 DEF SignOut, Goto
<1>17. ASSUME NEW t \in Tasks, DeleteStored(t) PROVE TypeInv'
  BY <1>17 DEF DeleteStored, Goto, CachePut
<1>18. ASSUME NEW t \in Tasks, Cancel(t) PROVE TypeInv'
  BY <1>18 DEF Cancel, Return, End, Release, Goto
<1>19. CASE Expire
  BY <1>19 DEF Expire
<1>20. CASE LockGrowsStale
  BY <1>20 DEF LockGrowsStale
<1>21. CASE ForeignLoad
  BY <1>21 DEF ForeignLoad
<1>22. CASE ForeignCommit
  BY <1>22 DEF ForeignCommit
<1>23. ASSUME NEW p \in Procs, Crash(p) PROVE TypeInv'
  BY <1>23 DEF Crash
<1>24. ASSUME NEW t \in Tasks, RenewKeeps(t) PROVE TypeInv'
  <2>1. stored' \in Creds
    BY <1>a, <1>c, <1>24 DEF RenewKeeps, Forms
  <2> QED
    BY <2>1, <1>a, <1>24 DEF RenewKeeps, Return, End, Release, Goto, CachePut
<1>25. CASE UNCHANGED vars
  BY <1>25 DEF vars
<1> QED
  BY <1>1, <1>2, <1>3, <1>4, <1>5, <1>6, <1>7, <1>8, <1>9, <1>10, <1>11, <1>12, <1>13, <1>14, <1>15, <1>16, <1>17, <1>18, <1>19, <1>20, <1>21, <1>22, <1>23, <1>24, <1>25
     DEF Next, RefreshStep

LEMMA TypeInitially == Init => TypeInv
<1> SUFFICES ASSUME Init PROVE TypeInv
  OBVIOUS
<1>1. 0 \in Tokens
  BY RefreshAssumption DEF Tokens
<1>2. stored \in Creds
  BY <1>1 DEF Init, Creds, Forms
<1> QED
  BY <1>1, <1>2, RefreshAssumption
     DEF Init, TypeInv, TypeOK, InHand, PCs, Rest, Critical

\* The credential, the caches, the locks and every task's place in its
\* operation stay well formed, for any number of tasks and tokens.
THEOREM RefreshTypeCorrect == Spec => []TypeOK
<1>1. TypeInv => TypeOK
  BY DEF TypeInv
<1> QED
  BY <1>1, TypeInitially, TypeInductive, PTL DEF Spec

-----------------------------------------------------------------------------

\* Nothing carries a token that was not issued yet.
Issued ==
  /\ \A n \in rotated : n <= issued
  /\ stored # None => stored.rt <= issued
  /\ snap # None => snap.rt <= issued
  /\ \A t \in Tasks : seen[t] # None => seen[t] <= issued
  /\ \A t \in Tasks : got[t] # None => got[t] <= issued

\* The lock is held exactly from its acquisition to the end of the refresh,
\* and by one task as long as no lock file grew stale.
LockInv ==
  /\ \A t \in Tasks : pc[t] \in Critical <=> t \in holding
  /\ ~suspect => \A t, u \in holding : t = u

\* What the holder of the lock may rely on: the token it is about to spend is
\* unspent, and a spent token is in the store only while the answer to its
\* rotation is on the way there.
Unspent ==
  /\ ~reused
  /\ \A t \in Tasks : pc[t] = "send" => seen[t] \notin rotated
  /\ \A t \in Tasks : pc[t] = "reply" => got[t] \notin rotated
  /\ stored # None /\ stored.rt \in rotated => \E t \in Tasks : pc[t] = "reply"

Serialized ==
  /\ ~Rotates => rotated = {}
  /\ ~torn /\ ~suspect => Unspent

SpendInv == TypeInv /\ Issued /\ LockInv /\ Serialized

\* The lock is taken when it is free and given up on every way out.
LEMMA LockInductive == TypeInv /\ LockInv /\ [Next]_vars => LockInv'
<1> SUFFICES ASSUME TypeInv, LockInv, [Next]_vars PROVE LockInv'
  OBVIOUS
<1> USE DEF LockInv, TypeInv, TypeOK, PCs, Rest, Critical, session, locks
<1>1. ASSUME NEW t \in Tasks, Resolve(t) PROVE LockInv'
  BY <1>1 DEF Resolve, ReadFailure, Failure, Unrenewable, Goto
<1>2. ASSUME NEW t \in Tasks, ForceRefresh(t) PROVE LockInv'
  BY <1>2 DEF ForceRefresh, Goto
<1>3. ASSUME NEW t \in Tasks, TakeFlight(t) PROVE LockInv'
  BY <1>3 DEF TakeFlight, ReadFailure, Failure, Unrenewable, End, Goto
<1>4. ASSUME NEW t \in Tasks, TakeLock(t) PROVE LockInv'
  BY <1>4 DEF TakeLock, Goto
<1>5. ASSUME NEW t \in Tasks, LockTimeout(t) PROVE LockInv'
  BY <1>5 DEF LockTimeout, Failure, Return, End, Release, Goto
<1>6. ASSUME NEW t \in Tasks, Recheck(t) PROVE LockInv'
  BY <1>6 DEF Recheck, ReadFailure, Failure, Unrenewable, Return, End, Release, Goto
<1>7. ASSUME NEW t \in Tasks, VendorRefreshes(t) PROVE LockInv'
  BY <1>7 DEF VendorRefreshes, Goto
<1>8. ASSUME NEW t \in Tasks, VendorRefuses(t) PROVE LockInv'
  BY <1>8 DEF VendorRefuses, Goto
<1>9. ASSUME NEW t \in Tasks, SendFails(t) PROVE LockInv'
  BY <1>9 DEF SendFails, NoAnswer, Failure, Return, End, Release, Goto
<1>10. ASSUME NEW t \in Tasks, Refused(t) PROVE LockInv'
  BY <1>10 DEF Refused, Failure, Return, End, Release, Goto
<1>11. ASSUME NEW t \in Tasks, Persist(t) PROVE LockInv'
  BY <1>11 DEF Persist, Return, End, Release, Goto
<1>12. ASSUME NEW t \in Tasks, LoseReply(t) PROVE LockInv'
  BY <1>12 DEF LoseReply, NoAnswer, Failure, Return, End, Release, Goto
<1>13. ASSUME NEW t \in Tasks, Judge(t) PROVE LockInv'
  BY <1>13 DEF Judge, End, Goto
<1>14. ASSUME NEW t \in Tasks, SignIn(t) PROVE LockInv'
  BY <1>14 DEF SignIn, Goto
<1>15. ASSUME NEW t \in Tasks, ClearRevoked(t) PROVE LockInv'
  BY <1>15 DEF ClearRevoked, Goto
<1>16. ASSUME NEW t \in Tasks, SignOut(t) PROVE LockInv'
  BY <1>16 DEF SignOut, Goto
<1>17. ASSUME NEW t \in Tasks, DeleteStored(t) PROVE LockInv'
  BY <1>17 DEF DeleteStored, Goto
<1>18. ASSUME NEW t \in Tasks, Cancel(t) PROVE LockInv'
  BY <1>18 DEF Cancel, Return, End, Release, Goto
<1>19. CASE Expire
  BY <1>19 DEF Expire
<1>20. CASE LockGrowsStale
  BY <1>20 DEF LockGrowsStale
<1>21. CASE ForeignLoad
  BY <1>21 DEF ForeignLoad
<1>22. CASE ForeignCommit
  BY <1>22 DEF ForeignCommit
<1>23. ASSUME NEW p \in Procs, Crash(p) PROVE LockInv'
  BY <1>23 DEF Crash
<1>24. ASSUME NEW t \in Tasks, RenewKeeps(t) PROVE LockInv'
  BY <1>24 DEF RenewKeeps, Return, End, Release, Goto
<1>25. CASE UNCHANGED vars
  BY <1>25 DEF vars
<1> QED
  BY <1>1, <1>2, <1>3, <1>4, <1>5, <1>6, <1>7, <1>8, <1>9, <1>10, <1>11, <1>12, <1>13,
     <1>14, <1>15, <1>16, <1>17, <1>18, <1>19, <1>20, <1>21, <1>22, <1>23, <1>24, <1>25
     DEF Next, RefreshStep

\* Tokens reach the store and the tasks only from the vendor.
LEMMA IssuedInductive == TypeInv /\ Issued /\ [Next]_vars => Issued'
<1> SUFFICES ASSUME TypeInv, Issued, [Next]_vars PROVE Issued'
  OBVIOUS
<1>0. issued \in Nat /\ \A n \in Tokens : n \in Nat
  BY RefreshAssumption DEF TypeInv, TypeOK, Tokens
<1>a. \A n \in Nat : n <= issued => n <= issued + 1
  BY <1>0
<1>b. /\ stored # None => stored.rt \in Nat
      /\ snap # None => snap.rt \in Nat
      /\ \A n \in rotated : n \in Nat
      /\ \A u \in Tasks : /\ seen[u] # None => seen[u] \in Nat
                          /\ got[u] # None => got[u] \in Nat
  BY <1>0 DEF TypeInv, TypeOK, Creds
<1> USE <1>0 DEF Issued, TypeInv, TypeOK, session, vendor, foreign
<1>1. ASSUME NEW t \in Tasks, Resolve(t) PROVE Issued'
  BY <1>1 DEF Resolve, Readable, Goto
<1>2. ASSUME NEW t \in Tasks, ForceRefresh(t) PROVE Issued'
  BY <1>2 DEF ForceRefresh, Goto
<1>3. ASSUME NEW t \in Tasks, TakeFlight(t) PROVE Issued'
  <2>1. CASE Readable
    BY <1>3, <2>1 DEF TakeFlight, Readable, End, Goto
  <2>2. CASE ~Readable
    BY <1>3, <2>2 DEF TakeFlight, End, Goto
  <2> QED
    BY <2>1, <2>2
<1>4. ASSUME NEW t \in Tasks, TakeLock(t) PROVE Issued'
  BY <1>4 DEF TakeLock, Goto
<1>5. ASSUME NEW t \in Tasks, LockTimeout(t) PROVE Issued'
  BY <1>5 DEF LockTimeout, Failure, Return, End, Goto
<1>6. ASSUME NEW t \in Tasks, Recheck(t) PROVE Issued'
  BY <1>6 DEF Recheck, ReadFailure, Failure, Unrenewable, Return, End, Goto
<1>7. ASSUME NEW t \in Tasks, VendorRefreshes(t) PROVE Issued'
  <2>1. seen[t] \in Tokens /\ None \notin Tokens
    BY <1>7, RefreshAssumption DEF VendorRefreshes, InHand, Critical
  <2>2. issued' = issued + 1 /\ got' = [got EXCEPT ![t] = issued'] /\ UNCHANGED <<stored, snap, seen>>
    BY <1>7 DEF VendorRefreshes
  <2>3. \A n \in rotated' : n <= issued'
    BY <1>7, <2>1, <2>2 DEF VendorRefreshes
  <2>4. \A u \in Tasks : got'[u] # None => got'[u] <= issued'
    <3> SUFFICES ASSUME NEW u \in Tasks, got'[u] # None PROVE got'[u] <= issued'
      OBVIOUS
    <3>1. CASE u = t
      BY <2>2, <3>1
    <3>2. CASE u # t
      <4>1. got'[u] = got[u]
        BY <2>2, <3>2
      <4> QED
        BY <1>a, <1>b, <2>2, <4>1
    <3> QED
      BY <3>1, <3>2
  <2> QED
    BY <1>a, <1>b, <2>2, <2>3, <2>4
<1>8. ASSUME NEW t \in Tasks, VendorRefuses(t) PROVE Issued'
  BY <1>8 DEF VendorRefuses, Goto
<1>9. ASSUME NEW t \in Tasks, SendFails(t) PROVE Issued'
  BY <1>9 DEF SendFails, NoAnswer, Failure, Return, End, Goto
<1>10. ASSUME NEW t \in Tasks, Refused(t) PROVE Issued'
  BY <1>10 DEF Refused, Failure, Return, End, Goto
<1>11. ASSUME NEW t \in Tasks, Persist(t) PROVE Issued'
  <2>1. got[t] \in Tokens /\ seen[t] \in Tokens /\ None \notin Tokens
    BY <1>11, RefreshAssumption DEF Persist, InHand, Critical
  <2>2. stored'.rt \in {got[t], seen[t]}
    BY <1>11 DEF Persist, NewCred
  <2> QED
    BY <1>11, <2>1, <2>2 DEF Persist, Return, End, Goto
<1>12. ASSUME NEW t \in Tasks, LoseReply(t) PROVE Issued'
  BY <1>12 DEF LoseReply, NoAnswer, Failure, Return, End, Goto
<1>13. ASSUME NEW t \in Tasks, Judge(t) PROVE Issued'
  BY <1>13 DEF Judge, End, Goto
<1>14. ASSUME NEW t \in Tasks, SignIn(t) PROVE Issued'
  <2>1. stored'.rt = issued' /\ issued' = issued + 1
    BY <1>14 DEF SignIn
  <2>2. UNCHANGED <<rotated, snap, seen, got>>
    BY <1>14 DEF SignIn
  <2>3. stored'.rt <= issued'
    BY <2>1
  <2>4. \A n \in rotated' : n <= issued'
    BY <1>a, <1>b, <2>1, <2>2
  <2>5. snap' # None => snap'.rt <= issued'
    BY <1>a, <1>b, <2>1, <2>2
  <2>6. \A u \in Tasks : /\ seen'[u] # None => seen'[u] <= issued'
                         /\ got'[u] # None => got'[u] <= issued'
    BY <1>a, <1>b, <2>1, <2>2
  <2> QED
    BY <2>3, <2>4, <2>5, <2>6
<1>15. ASSUME NEW t \in Tasks, ClearRevoked(t) PROVE Issued'
  BY <1>15 DEF ClearRevoked, Goto
<1>16. ASSUME NEW t \in Tasks, SignOut(t) PROVE Issued'
  BY <1>16 DEF SignOut, Goto
<1>17. ASSUME NEW t \in Tasks, DeleteStored(t) PROVE Issued'
  BY <1>17 DEF DeleteStored, Goto
<1>18. ASSUME NEW t \in Tasks, Cancel(t) PROVE Issued'
  BY <1>18 DEF Cancel, Return, End, Goto
<1>19. CASE Expire
  BY <1>19 DEF Expire
<1>20. CASE LockGrowsStale
  BY <1>20 DEF LockGrowsStale
<1>21. CASE ForeignLoad
  BY <1>21 DEF ForeignLoad
<1>22. CASE ForeignCommit
  BY <1>22 DEF ForeignCommit
<1>23. ASSUME NEW p \in Procs, Crash(p) PROVE Issued'
  BY <1>23 DEF Crash
<1>24. ASSUME NEW t \in Tasks, RenewKeeps(t) PROVE Issued'
  BY <1>24 DEF RenewKeeps, Readable, Return, End, Goto
<1>25. CASE UNCHANGED vars
  BY <1>25 DEF vars
<1> QED
  BY <1>1, <1>2, <1>3, <1>4, <1>5, <1>6, <1>7, <1>8, <1>9, <1>10, <1>11, <1>12, <1>13,
     <1>14, <1>15, <1>16, <1>17, <1>18, <1>19, <1>20, <1>21, <1>22, <1>23, <1>24, <1>25
     DEF Next, RefreshStep

\* One holder at a time, and a store that is read again under the lock, keep
\* a spent token from being sent.
LEMMA SerializedInductive == SpendInv /\ [Next]_vars => Serialized'
<1> SUFFICES ASSUME SpendInv, [Next]_vars PROVE Serialized'
  OBVIOUS
<1>a. ASSUME ~suspect, NEW t \in Tasks, NEW u \in Tasks, pc[t] \in Critical, pc[u] \in Critical
      PROVE  t = u
  BY <1>a DEF SpendInv, LockInv
<1>b. issued \in Nat /\ \A n \in Tokens : n \in Nat
  BY RefreshAssumption DEF SpendInv, TypeInv, TypeOK, Tokens
<1> USE DEF SpendInv, TypeInv, TypeOK, Serialized, Unspent, Rotates,
            session, locks, vendor, foreign, Rest
<1>1. ASSUME NEW t \in Tasks, Resolve(t) PROVE Serialized'
  BY <1>1 DEF Resolve, ReadFailure, Failure, Unrenewable, Goto
<1>2. ASSUME NEW t \in Tasks, ForceRefresh(t) PROVE Serialized'
  BY <1>2 DEF ForceRefresh, Goto
<1>3. ASSUME NEW t \in Tasks, TakeFlight(t) PROVE Serialized'
  BY <1>3 DEF TakeFlight, ReadFailure, Failure, Unrenewable, End, Goto
<1>4. ASSUME NEW t \in Tasks, TakeLock(t) PROVE Serialized'
  BY <1>4 DEF TakeLock, Goto
<1>5. ASSUME NEW t \in Tasks, LockTimeout(t) PROVE Serialized'
  BY <1>5 DEF LockTimeout, Failure, Return, End, Release, Goto
<1>6. ASSUME NEW t \in Tasks, Recheck(t) PROVE Serialized'
  <2>1. ~torn /\ ~suspect /\ pc'[t] = "send" => seen'[t] \notin rotated
    BY <1>a, <1>6 DEF Recheck, Return, End, Goto, MovedOn, Readable, Critical, ReadFailure, Failure, Unrenewable
  <2> QED
    BY <2>1, <1>6 DEF Recheck, Return, End, Release, Goto, ReadFailure, Failure, Unrenewable
<1>7. ASSUME NEW t \in Tasks, VendorRefreshes(t) PROVE Serialized'
  <2>1. issued + 1 \notin rotated /\ issued + 1 # seen[t]
    BY <1>b, <1>7, RefreshAssumption DEF VendorRefreshes, InHand, Critical, Issued
  <2>2. rotated' \subseteq rotated \cup {seen[t]} /\ kind' = kind
    BY <1>7 DEF VendorRefreshes
  <2>3. ASSUME ~torn, ~suspect, NEW u \in Tasks, u # t
        PROVE  pc'[u] \notin {"send", "reply"}
    BY <1>a, <2>3, <1>7 DEF VendorRefreshes, Goto, Critical
  <2>4. pc'[t] = "reply" /\ got'[t] \notin rotated'
    BY <2>1, <2>2, <1>7 DEF VendorRefreshes, Goto
  <2>5. ~torn' /\ ~suspect' => Unspent'
    BY <2>3, <2>4, <1>7 DEF VendorRefreshes, Goto
  <2> QED
    BY <2>2, <2>5, <1>7 DEF VendorRefreshes
<1>8. ASSUME NEW t \in Tasks, VendorRefuses(t) PROVE Serialized'
  BY <1>8 DEF VendorRefuses, Goto
<1>9. ASSUME NEW t \in Tasks, SendFails(t) PROVE Serialized'
  BY <1>9 DEF SendFails, NoAnswer, Failure, Return, End, Release, Goto
<1>10. ASSUME NEW t \in Tasks, Refused(t) PROVE Serialized'
  BY <1>10 DEF Refused, Failure, Return, End, Release, Goto
<1>11. ASSUME NEW t \in Tasks, Persist(t) PROVE Serialized'
  <2>1. ~torn /\ ~suspect => stored'.rt \notin rotated
    BY <1>11 DEF Persist, NewCred
  <2> QED
    BY <2>1, <1>11 DEF Persist, Return, End, Release, Goto
<1>12. ASSUME NEW t \in Tasks, LoseReply(t) PROVE Serialized'
  <2>1. CASE Rotates
    BY <1>12, <2>1 DEF LoseReply, NoAnswer, Return, Release
  <2>2. CASE ~Rotates
    BY <1>12, <2>2 DEF LoseReply, NoAnswer, Failure, Return, End, Release, Goto
  <2> QED
    BY <2>1, <2>2
<1>13. ASSUME NEW t \in Tasks, Judge(t) PROVE Serialized'
  BY <1>13 DEF Judge, End, Goto
<1>14. ASSUME NEW t \in Tasks, SignIn(t) PROVE Serialized'
  <2>1. stored'.rt \notin rotated
    BY <1>b, <1>14 DEF SignIn, Issued
  <2> QED
    BY <2>1, <1>14 DEF SignIn, Goto
<1>15. ASSUME NEW t \in Tasks, ClearRevoked(t) PROVE Serialized'
  BY <1>15 DEF ClearRevoked, Goto
<1>16. ASSUME NEW t \in Tasks, SignOut(t) PROVE Serialized'
  BY <1>16 DEF SignOut, Goto
<1>17. ASSUME NEW t \in Tasks, DeleteStored(t) PROVE Serialized'
  BY <1>17 DEF DeleteStored, Goto
<1>18. ASSUME NEW t \in Tasks, Cancel(t) PROVE Serialized'
  BY <1>18 DEF Cancel, Return, End, Release, Goto
<1>19. CASE Expire
  BY <1>19 DEF Expire
<1>20. CASE LockGrowsStale
  BY <1>20 DEF LockGrowsStale
<1>21. CASE ForeignLoad
  BY <1>21 DEF ForeignLoad
<1>22. CASE ForeignCommit
  BY <1>22 DEF ForeignCommit
<1>23. ASSUME NEW p \in Procs, Crash(p) PROVE Serialized'
  BY <1>23 DEF Crash
<1>24. ASSUME NEW t \in Tasks, RenewKeeps(t) PROVE Serialized'
  <2>1. stored # None /\ stored'.rt = stored.rt
    BY <1>24 DEF RenewKeeps, Readable
  <2>2. \A u \in Tasks : pc'[u] \in {"send", "reply"} => pc'[u] = pc[u] /\ UNCHANGED <<seen[u], got[u]>>
    BY <1>24 DEF RenewKeeps, Return, End, Goto
  <2>3. UNCHANGED <<kind, rotated, reused, torn, suspect>>
    BY <1>24 DEF RenewKeeps, Return, Release
  <2>4. ASSUME NEW u \in Tasks, pc[u] = "reply" PROVE pc'[u] = "reply"
    BY <1>24, <2>4 DEF RenewKeeps, Return, End, Goto
  <2> QED
    BY <2>1, <2>2, <2>3, <2>4
<1>25. CASE UNCHANGED vars
  BY <1>25 DEF vars
<1> QED
  BY <1>1, <1>2, <1>3, <1>4, <1>5, <1>6, <1>7, <1>8, <1>9, <1>10, <1>11, <1>12, <1>13,
     <1>14, <1>15, <1>16, <1>17, <1>18, <1>19, <1>20, <1>21, <1>22, <1>23, <1>24, <1>25
     DEF Next, RefreshStep

LEMMA SpendInductive == SpendInv /\ [Next]_vars => SpendInv'
  BY TypeInductive, IssuedInductive, LockInductive, SerializedInductive DEF SpendInv

LEMMA SpendInitially == Init => SpendInv
<1> SUFFICES ASSUME Init PROVE SpendInv
  OBVIOUS
<1>1. Issued
  <2>1. stored.rt = 0 /\ issued = 0 /\ rotated = {} /\ snap = None
    BY DEF Init
  <2>2. \A t \in Tasks : seen[t] = None /\ got[t] = None
    BY DEF Init
  <2> QED
    BY <2>1, <2>2 DEF Issued
<1>2. LockInv /\ Serialized
  BY DEF Init, LockInv, Serialized, Unspent, Critical
<1> QED
  BY <1>1, <1>2, TypeInitially DEF SpendInv

LEMMA SpendAlways == Spec => []SpendInv
  BY SpendInitially, SpendInductive, PTL DEF Spec

\* No refresh token is spent twice by refresh_stored, however many tasks of
\* however many processes resolve and force a refresh, unless a rotation's
\* answer was lost on its way to the store or a lock file grew stale.
THEOREM TokensSpentOnce == Spec => []SpentOnce
<1>1. SpendInv => SpentOnce
  BY DEF SpendInv, Serialized, Unspent, SpentOnce, TypeInv, TypeOK
<1> QED
  BY <1>1, SpendAlways, PTL

\* Under the same proviso, with no refresh under way, the credential in
\* secrets.json holds a refresh token the vendor still takes.
THEOREM StoreKeepsAUsableToken == Spec => []StoredTokenUsable
<1>1. SpendInv => StoredTokenUsable
  BY DEF SpendInv, Serialized, Unspent, StoredTokenUsable, Critical
<1> QED
  BY <1>1, SpendAlways, PTL

\* The three together, which the refresh run checks on a small instance.
THEOREM TokensAlwaysSafe == Spec => []TokensSafe
BY RefreshTypeCorrect, TokensSpentOnce, StoreKeepsAUsableToken, PTL DEF TokensSafe
-----------------------------------------------------------------------------

\* A credential carries tokens that were issued together, or, where refresh
\* tokens are kept, an access token issued since.
AtIssued ==
  /\ stored # None => stored.at <= issued /\ (Rotates => stored.rt = stored.at)
  /\ snap # None => snap.at <= issued /\ (Rotates => snap.rt = snap.at)

\* What the vendor has answered a task with is newer than what is stored.
AnswerNewer ==
  \A t \in Tasks :
    pc[t] = "reply" /\ stored # None /\ stored.rt = seen[t] => stored.at <= got[t]

Forward == AtIssued /\ (~torn /\ ~suspect => AnswerNewer)
ForwardInv == SpendInv /\ Forward

\* Every number that a state names is a natural number.
LEMMA Numbers ==
  ASSUME SpendInv
  PROVE  /\ issued \in Nat
         /\ stored # None => stored.rt \in Nat /\ stored.at \in Nat /\ stored.rt <= issued
         /\ snap # None => snap.rt \in Nat /\ snap.at \in Nat
         /\ \A t \in Tasks : pc[t] = "send" \/ pc[t] = "reply" => seen[t] \in Nat /\ seen[t] <= issued
         /\ \A t \in Tasks : pc[t] = "reply" => got[t] \in Nat /\ got[t] <= issued
<1>1. issued \in Nat /\ \A n \in Tokens : n \in Nat /\ n # None
  BY RefreshAssumption DEF SpendInv, TypeInv, TypeOK, Tokens
<1> QED BY <1>1 DEF SpendInv, TypeInv, TypeOK, InHand, Critical, Creds, Issued

\* A step that leaves the credentials alone and answers nobody.
LEMMA QuietForward ==
  ASSUME ForwardInv, UNCHANGED <<stored, kind>>, snap' \in {stored, snap, None}, issued' = issued,
         torn' = FALSE => torn = FALSE, suspect' = FALSE => suspect = FALSE,
         torn' \in BOOLEAN, suspect' \in BOOLEAN,
         \A t \in Tasks : pc'[t] = "reply" => pc[t] = "reply" /\ UNCHANGED <<seen[t], got[t]>>
  PROVE  Forward'
<1>1. AtIssued'
  BY DEF ForwardInv, Forward, AtIssued, Rotates
<1>2. ~torn' /\ ~suspect' => ~torn /\ ~suspect
  BY DEF ForwardInv, SpendInv, TypeInv, TypeOK
<1>3. AnswerNewer => AnswerNewer'
  BY DEF AnswerNewer
<1> QED BY <1>1, <1>2, <1>3 DEF ForwardInv, Forward

\* Whoever holds the lock stores what is newer than what it found there.
LEMMA ForwardInductive == ForwardInv /\ [Next]_vars => Forward'
<1> SUFFICES ASSUME ForwardInv, [Next]_vars PROVE Forward'
  OBVIOUS
<1>a. /\ SpendInv /\ Forward
      /\ torn \in BOOLEAN /\ suspect \in BOOLEAN /\ pc \in [Tasks -> PCs]
      /\ seen \in [Tasks -> Tokens \cup {None}] /\ got \in [Tasks -> Tokens \cup {None}]
  BY DEF ForwardInv, SpendInv, TypeInv, TypeOK
<1>b. ASSUME ~suspect, NEW t \in Tasks, NEW u \in Tasks, pc[t] = "reply", pc[u] = "reply"
      PROVE  t = u
  BY <1>a, <1>b DEF SpendInv, LockInv, Critical
<1>c. ASSUME NEW t \in Tasks, Return(t, "ok") \/ Return(t, Failure(t)) \/ Return(t, Unrenewable(t))
                              \/ Return(t, "idle") \/ Return(t, ReadFailure(t))
      PROVE  /\ suspect' = suspect
             /\ \A u \in Tasks : pc'[u] = "reply" => pc[u] = "reply" /\ u # t /\ UNCHANGED <<seen[u], got[u]>>
  BY <1>a, <1>c DEF Return, End, Release, Goto, Failure, Unrenewable, ReadFailure
<1> USE DEF session, locks, vendor, foreign
<1>1. ASSUME NEW t \in Tasks,
             \/ Resolve(t) \/ ForceRefresh(t) \/ TakeFlight(t) \/ TakeLock(t) \/ VendorRefuses(t) \/ Judge(t)
             \/ ClearRevoked(t) \/ SignOut(t)
      PROVE  Forward'
  <2>1. \A u \in Tasks : pc'[u] = "reply" => pc[u] = "reply" /\ UNCHANGED <<seen[u], got[u]>>
    BY <1>1, <1>a DEF Resolve, ForceRefresh, TakeFlight, TakeLock, VendorRefuses, Judge, ClearRevoked, SignOut,
                      End, Goto, ReadFailure, Failure, Unrenewable, Rest
  <2>2. UNCHANGED <<stored, kind, snap, issued, torn, suspect>>
    BY <1>1 DEF Resolve, ForceRefresh, TakeFlight, TakeLock, VendorRefuses, Judge, ClearRevoked, SignOut
  <2> QED BY <1>a, <2>1, <2>2, QuietForward
<1>2. ASSUME NEW t \in Tasks, LockTimeout(t) \/ Recheck(t) \/ SendFails(t) \/ Refused(t) \/ LoseReply(t) \/ Cancel(t)
      PROVE  Forward'
  <2>1. /\ \A u \in Tasks : pc'[u] = "reply" => pc[u] = "reply" /\ UNCHANGED <<seen[u], got[u]>>
        /\ suspect' = suspect
    BY <1>2, <1>a, <1>c DEF LockTimeout, Recheck, SendFails, Refused, LoseReply, Cancel, NoAnswer, Goto
  <2>2. UNCHANGED <<stored, kind, snap, issued>>
    BY <1>2 DEF LockTimeout, Recheck, SendFails, Refused, LoseReply, Cancel
  <2>3. torn' \in BOOLEAN /\ (torn' = FALSE => torn = FALSE)
    BY <1>2, <1>a DEF LockTimeout, Recheck, SendFails, Refused, LoseReply, Cancel, Rotates
  <2> QED BY <1>a, <2>1, <2>2, <2>3, QuietForward
<1>3. ASSUME NEW t \in Tasks, VendorRefreshes(t) PROVE Forward'
  <2>1. /\ UNCHANGED <<stored, snap, kind, torn, suspect, seen>> /\ issued' = issued + 1
        /\ got' = [got EXCEPT ![t] = issued + 1]
        /\ \A u \in Tasks : u # t => pc'[u] = pc[u]
    BY <1>3, <1>a DEF VendorRefreshes, Goto
  <2>2. AtIssued'
    BY <2>1, <1>a, Numbers DEF Forward, AtIssued, Rotates
  <2>3. ASSUME AnswerNewer, NEW u \in Tasks, pc'[u] = "reply", stored' # None, stored'.rt = seen'[u]
        PROVE  stored'.at <= got'[u]
    <3>1. CASE u = t
      BY <2>1, <3>1, <1>a, <2>3, Numbers DEF Forward, AtIssued
    <3>2. CASE u # t
      BY <2>1, <2>3, <3>2, <1>a DEF AnswerNewer
    <3> QED BY <3>1, <3>2
  <2> QED BY <2>1, <2>2, <2>3, <1>a DEF Forward, AnswerNewer
<1>4. ASSUME NEW t \in Tasks, Persist(t) PROVE Forward'
  <2>1. /\ UNCHANGED <<snap, kind, issued, torn>> /\ suspect' = suspect
        /\ stored'.rt = (IF Rotates THEN got[t] ELSE seen[t]) /\ stored'.at = got[t]
        /\ pc[t] = "reply"
    BY <1>4, <1>c DEF Persist, NewCred
  <2>2. AtIssued'
    BY <2>1, <1>a, Numbers DEF Forward, AtIssued, Rotates
  <2>3. ASSUME ~suspect, NEW u \in Tasks PROVE pc'[u] # "reply"
    BY <2>3, <2>1, <1>b, <1>c, <1>4 DEF Persist
  <2> QED BY <2>1, <2>2, <2>3 DEF Forward, AnswerNewer
<1>5. ASSUME NEW t \in Tasks, SignIn(t) PROVE Forward'
  <2>1. /\ UNCHANGED <<snap, kind, torn, suspect, seen, got>> /\ issued' = issued + 1
        /\ stored'.rt = issued + 1 /\ stored'.at = issued + 1
        /\ \A u \in Tasks : pc'[u] = "reply" => pc[u] = "reply"
    BY <1>5, <1>a DEF SignIn, Goto
  <2>2. AtIssued'
    BY <2>1, <1>a, Numbers DEF Forward, AtIssued, Rotates
  <2>3. AnswerNewer'
    BY <2>1, <1>a, Numbers DEF AnswerNewer
  <2> QED BY <2>2, <2>3 DEF Forward
<1>6. ASSUME NEW t \in Tasks, DeleteStored(t) PROVE Forward'
  BY <1>6, <1>a DEF DeleteStored, Forward, AtIssued, AnswerNewer, Rotates
<1>7. ASSUME NEW t \in Tasks, RenewKeeps(t) PROVE Forward'
  <2>1. /\ UNCHANGED <<snap, kind, issued, torn>> /\ suspect' = suspect /\ stored # None
        /\ stored'.rt = stored.rt /\ stored'.at = stored.at
        /\ \A u \in Tasks : pc'[u] = "reply" => pc[u] = "reply" /\ UNCHANGED <<seen[u], got[u]>>
    BY <1>7, <1>c DEF RenewKeeps, Readable
  <2> QED BY <2>1, <1>a DEF Forward, AtIssued, AnswerNewer, Rotates
<1>8. ASSUME NEW p \in Procs, Crash(p) PROVE Forward'
  <2>1. /\ UNCHANGED <<stored, snap, kind, issued, suspect>>
        /\ torn' \in BOOLEAN /\ (torn' = FALSE => torn = FALSE)
    BY <1>8, <1>a DEF Crash
  <2>2. \A u \in Tasks : pc'[u] = "reply" => pc[u] = "reply" /\ UNCHANGED <<seen[u], got[u]>>
    BY <1>8, <1>a DEF Crash
  <2> QED BY <2>1, <2>2, <1>a, QuietForward
<1>9. CASE Expire \/ LockGrowsStale \/ ForeignLoad \/ UNCHANGED vars
  <2>1. UNCHANGED <<stored, kind, issued, torn, pc, seen, got>> /\ snap' \in {stored, snap}
    BY <1>9 DEF Expire, LockGrowsStale, ForeignLoad, vars
  <2>2. suspect' \in {suspect, TRUE}
    BY <1>9 DEF Expire, LockGrowsStale, ForeignLoad, vars
  <2> QED BY <2>1, <2>2, <1>a, QuietForward
<1>10. CASE ForeignCommit
  <2>1. /\ UNCHANGED <<kind, issued, suspect, pc, seen, got>> /\ snap' = None /\ stored' = snap
        /\ ~torn' => ~torn /\ stored' = stored
    BY <1>10, <1>a DEF ForeignCommit
  <2> QED BY <2>1, <1>a DEF Forward, AtIssued, AnswerNewer, Rotates
<1> QED
  BY <1>1, <1>2, <1>3, <1>4, <1>5, <1>6, <1>7, <1>8, <1>9, <1>10 DEF Next, RefreshStep

LEMMA ForwardInitially == Init => Forward
<1> SUFFICES ASSUME Init PROVE Forward
  OBVIOUS
<1>1. stored.rt = 0 /\ stored.at = 0 /\ issued = 0 /\ snap = None /\ \A t \in Tasks : pc[t] = "idle"
  BY DEF Init
<1> QED BY <1>1 DEF Forward, AtIssued, AnswerNewer

\* Of two credentials of one grant the later stays: a refresh that answers
\* late never puts an older access token over a newer one.
THEOREM StoreAlwaysMovesForward == Spec => StoreMovesForward
<1>1. ForwardInv /\ [Next]_vars =>
        [stored # None /\ stored' # None /\ stored'.rt = stored.rt
           /\ ~torn' /\ ~suspect => stored'.at >= stored.at]_vars
  <2> SUFFICES ASSUME ForwardInv, Next, stored # None, stored' # None, stored'.rt = stored.rt, ~torn', ~suspect
               PROVE  stored'.at >= stored.at
    OBVIOUS
  <2>0. SpendInv /\ Forward /\ stored.at \in Nat /\ stored.rt \in Nat /\ issued \in Nat /\ stored.rt <= issued
    BY Numbers DEF ForwardInv
  <2> USE DEF locks, vendor, foreign
  <2>1. ASSUME NEW t \in Tasks, Persist(t) PROVE stored'.at >= stored.at
    <3>1. /\ pc[t] = "reply" /\ stored'.at = got[t] /\ torn' = torn /\ got[t] \in Nat
          /\ stored'.rt = (IF Rotates THEN got[t] ELSE seen[t])
      BY <2>1, <2>0, Numbers DEF Persist, NewCred
    <3>2. CASE Rotates
      BY <2>0, <3>1, <3>2 DEF Forward, AtIssued
    <3>3. CASE ~Rotates
      BY <2>0, <3>1, <3>3 DEF Forward, AnswerNewer
    <3> QED BY <3>2, <3>3
  <2>2. ASSUME NEW t \in Tasks, SignIn(t) PROVE FALSE
    BY <2>2, <2>0 DEF SignIn
  <2>3. ASSUME NEW t \in Tasks, RenewKeeps(t) PROVE stored'.at >= stored.at
    BY <2>3, <2>0 DEF RenewKeeps
  <2>4. ASSUME NEW t \in Tasks, DeleteStored(t) PROVE FALSE
    BY <2>4 DEF DeleteStored
  <2>5. CASE ForeignCommit
    <3>1. stored' = stored
      BY <2>5 DEF ForeignCommit
    <3> QED BY <2>0, <3>1
  <2>6. CASE UNCHANGED stored
    BY <2>6, <2>0
  <2> QED
    BY <2>1, <2>2, <2>3, <2>4, <2>5, <2>6
       DEF Next, RefreshStep, Resolve, ForceRefresh, TakeFlight, TakeLock, LockTimeout, Recheck, VendorRefreshes,
           VendorRefuses, SendFails, Refused, LoseReply, Judge, ClearRevoked, SignOut, Cancel, Crash, Expire,
           LockGrowsStale, ForeignLoad
<1> QED
  BY <1>1, ForwardInitially, ForwardInductive, SpendAlways, PTL DEF Spec, ForwardInv, StoreMovesForward
==============================================================================
