-------------------------- MODULE SecretStoreProofs ---------------------------
(***************************************************************************)
(* Proofs about secrets.json for any number of processes, stores, accounts *)
(* and credentials, and any number of crashes and failed calls; and, from  *)
(* NobodyReclaims on, about the lock file its writers take, for any set of *)
(* contenders, any bound on stale files and any combination of faults.     *)
(***************************************************************************)
EXTENDS FileLock, SecretStore, TLAPS

\* A lone store's handle and temp file follow its own steps alone.
OwnTemp(s) ==
  /\ fd[s] \in {"none", "tmp"}
  /\ fd[s] = "tmp" <=> at[s] = "write"
  /\ at[s] = "write" => tmp[ProcOf[s]] = Truncated
  /\ at[s] \in {"chmod", "rename"} => tmp[ProcOf[s]] = next[s]

LoneInv == \A s \in Stores : Lone(s) => OwnTemp(s)

(***************************************************************************)
(* Every reachable state of the save protocol is well typed.               *)
(***************************************************************************)
THEOREM StoreTypeCorrect == Spec => []TypeOK
<1>1. Init => TypeOK
  BY StoreAssumption DEF Init, TypeOK, Files, Maps, NoMap, Steps, Resting
<1>2. TypeOK /\ [Next]_vars => TypeOK'
  <2> SUFFICES ASSUME TypeOK, [Next]_vars PROVE TypeOK'
    OBVIOUS
  <2> USE StoreAssumption DEF TypeOK, Steps, Resting, Goto
  <2>0. ASSUME NEW T, Return(T)
        PROVE  /\ at' \in [Stores -> Steps]
               /\ acct' \in [Stores -> Accounts \cup {None}]
               /\ next' \in [Stores -> Maps]
               /\ fd' \in [Stores -> {"none", "tmp", "main", "gone"}]
               /\ src' \in [Stores -> Files]
    BY <2>0 DEF Return, Files, Maps, NoMap
  <2>1. ASSUME NEW s \in Stores, NEW a \in Accounts,
               NEW v \in Creds \cup {None}, BeginSave(s, a, v)
        PROVE  TypeOK'
    <3>1. Load \in Maps
      BY <2>1 DEF BeginSave, Readable
    <3>2. [Load EXCEPT ![a] = v] \in Maps
      BY <3>1 DEF Maps
    <3> QED BY <2>1, <3>2 DEF BeginSave
  <2>2. ASSUME NEW s \in Stores, OpenTmp(s) PROVE TypeOK'
    BY <2>2 DEF OpenTmp, Files, Bad
  <2>3. ASSUME NEW s \in Stores, WriteTmp(s) PROVE TypeOK'
    <3>1. \A f : Overlay(f, next[s]) \subseteq Files
      BY DEF Overlay, Files, Bad
    <3> QED BY <2>3, <3>1 DEF WriteTmp
  <2>4. ASSUME NEW s \in Stores, Chmod(s) PROVE TypeOK'
    BY <2>4 DEF Chmod
  <2>5. ASSUME NEW s \in Stores, Rename(s) PROVE TypeOK'
    <3>1. /\ main' \in Files
          /\ fd' \in [Stores -> {"none", "tmp", "main", "gone"}]
      BY <2>5 DEF Rename
    <3>2. tmp' \in [Procs -> Files]
      BY <2>5 DEF Rename, Files
    <3> QED BY <2>5, <3>1, <3>2 DEF Rename
  <2>6. ASSUME NEW s \in Stores, BackupOpen(s) PROVE TypeOK'
    BY <2>6 DEF BackupOpen, Files, Bad
  <2>7. ASSUME NEW s \in Stores, BackupCopy(s) PROVE TypeOK'
    <3>1. Overlay(bak, src[s]) \subseteq Files
      BY DEF Overlay, Files, Bad
    <3> QED BY <2>0, <2>7, <3>1 DEF BackupCopy
  <2>8. ASSUME NEW s \in Stores, Fail(s) PROVE TypeOK'
    BY <2>0, <2>8 DEF Fail
  <2>9. ASSUME NEW p \in Procs, Crash(p) PROVE TypeOK'
    BY <2>0, <2>9 DEF Crash
  <2>10. CASE Damage
    BY <2>10 DEF Damage, Files, Bad
  <2>11. CASE UNCHANGED vars
    BY <2>11 DEF vars
  <2> QED
    BY <2>1, <2>2, <2>3, <2>4, <2>5, <2>6, <2>7, <2>8, <2>9, <2>10, <2>11
       DEF Next, Put, Delete
<1> QED
  BY <1>1, <1>2, PTL DEF Spec

\* A behaviour opens its stores at the start and no store joins later.
LEMMA OpeningStable ==
  ASSUME TypeOK, [Next]_vars
  PROVE  \A s \in Stores : at'[s] = "unopened" <=> at[s] = "unopened"
<1> USE DEF TypeOK, Goto
<1>1. ASSUME NEW t \in Stores, NEW a \in Accounts,
             NEW v \in Creds \cup {None}, BeginSave(t, a, v)
      PROVE  \A s \in Stores : at'[s] = "unopened" <=> at[s] = "unopened"
  BY <1>1 DEF BeginSave
<1>2. ASSUME NEW t \in Stores,
             \/ OpenTmp(t) \/ WriteTmp(t) \/ Chmod(t) \/ Rename(t) \/ BackupOpen(t)
      PROVE  \A s \in Stores : at'[s] = "unopened" <=> at[s] = "unopened"
  BY <1>2 DEF OpenTmp, WriteTmp, Chmod, Rename, BackupOpen
<1>3. ASSUME NEW T, Return(T)
      PROVE  \A s \in Stores : at'[s] = "unopened" <=> at[s] = "unopened"
  BY <1>3 DEF Return
<1>4. ASSUME NEW t \in Stores, BackupCopy(t) \/ Fail(t)
      PROVE  \A s \in Stores : at'[s] = "unopened" <=> at[s] = "unopened"
  BY <1>3, <1>4 DEF BackupCopy, Fail
<1>5. ASSUME NEW p \in Procs, Crash(p)
      PROVE  \A s \in Stores : at'[s] = "unopened" <=> at[s] = "unopened"
  BY <1>3, <1>5 DEF Crash
<1>6. CASE Damage \/ UNCHANGED vars
  BY <1>6 DEF Damage, vars
<1> QED
  BY <1>1, <1>2, <1>4, <1>5, <1>6 DEF Next, Put, Delete

\* A lone store's temp file is written by nobody else, its handle is never
\* carried away by a rename, and so its rename installs the map it computed.
LEMMA LoneInductive == TypeOK /\ LoneInv /\ [Next]_vars => LoneInv'
<1> SUFFICES ASSUME TypeOK, LoneInv, [Next]_vars, NEW s \in Stores, Lone(s)
             PROVE  OwnTemp(s)'
  BY OpeningStable DEF LoneInv, Lone
<1>0. /\ OwnTemp(s)
      /\ next[s] \in Maps /\ ProcOf[s] \in Procs
      /\ \A t \in Stores \ {s} : /\ ProcOf[t] \in Procs
                                 /\ at[t] # "unopened" => ProcOf[t] # ProcOf[s]
  BY StoreAssumption DEF LoneInv, TypeOK, Lone
<1> USE <1>0 DEF TypeOK, Goto, OwnTemp
<1>1. ASSUME NEW t \in Stores, NEW a \in Accounts,
             NEW v \in Creds \cup {None}, BeginSave(t, a, v)
      PROVE  OwnTemp(s)'
  BY <1>1 DEF BeginSave
<1>2. ASSUME NEW t \in Stores, OpenTmp(t) PROVE OwnTemp(s)'
  BY <1>2 DEF OpenTmp
<1>3. ASSUME NEW t \in Stores, WriteTmp(t) PROVE OwnTemp(s)'
  <2>1. CASE t = s
    <3>1. Overlay(tmp[ProcOf[s]], next[s]) = {next[s]}
      BY <1>3, <2>1 DEF WriteTmp, Overlay
    <3> QED BY <1>3, <2>1, <3>1 DEF WriteTmp
  <2>2. CASE t # s
    BY <1>3, <2>2 DEF WriteTmp
  <2> QED BY <2>1, <2>2
<1>4. ASSUME NEW t \in Stores, Chmod(t) PROVE OwnTemp(s)'
  BY <1>4 DEF Chmod
<1>5. ASSUME NEW t \in Stores, Rename(t) PROVE OwnTemp(s)'
  <2>1. CASE t = s
    BY <1>5, <2>1 DEF Rename
  <2>2. CASE t # s
    BY <1>5, <2>2 DEF Rename
  <2> QED BY <2>1, <2>2
<1>6. ASSUME NEW t \in Stores, BackupOpen(t) PROVE OwnTemp(s)'
  BY <1>6 DEF BackupOpen
<1>7. ASSUME NEW t \in Stores, BackupCopy(t) PROVE OwnTemp(s)'
  BY <1>7 DEF BackupCopy, Return
<1>8. ASSUME NEW t \in Stores, Fail(t) PROVE OwnTemp(s)'
  BY <1>8 DEF Fail, Return
<1>9. ASSUME NEW p \in Procs, Crash(p) PROVE OwnTemp(s)'
  BY <1>9 DEF Crash, Return
<1>10. CASE Damage
  BY <1>10 DEF Damage
<1>11. CASE UNCHANGED vars
  BY <1>11 DEF vars
<1> QED
  BY <1>1, <1>2, <1>3, <1>4, <1>5, <1>6, <1>7, <1>8, <1>9, <1>10, <1>11
     DEF Next, Put, Delete

LEMMA LoneAlways == Spec => []LoneInv
<1>1. Init => LoneInv
  BY DEF Init, LoneInv, OwnTemp
<1> QED
  BY <1>1, LoneInductive, StoreTypeCorrect, PTL DEF Spec

(***************************************************************************)
(* The temp file of a process's only store holds what that store saves,    *)
(* for every layout of stores over processes.                              *)
(***************************************************************************)
THEOREM PidSuffixSeparates == Spec => []TempIsPrivate
<1>1. LoneInv => TempIsPrivate
  BY DEF LoneInv, Lone, OwnTemp, TempIsPrivate
<1> QED
  BY <1>1, LoneAlways, PTL

(***************************************************************************)
(* A process's only store never tears secrets.json: its only writes to it  *)
(* are renames of whole temp files.                                        *)
(***************************************************************************)
THEOREM MainIsNeverTorn == Spec => MainNeverTorn
<1>1. TypeOK /\ LoneInv /\ [Next]_vars =>
        [\A s \in Stores :
           Lone(s) /\ at'[s] # at[s] /\ main' \in Bad => main \in Bad]_vars
  <2> SUFFICES ASSUME TypeOK, LoneInv, Next, NEW s \in Stores, Lone(s),
                      at'[s] # at[s], main' # main
               PROVE  main' \notin Bad
    OBVIOUS
  <2>0. OwnTemp(s) /\ next[s] \in Maps
    BY DEF LoneInv, TypeOK
  <2>1. ASSUME NEW t \in Stores, WriteTmp(t) PROVE main' \notin Bad
    <3>1. t = s
      BY <2>1 DEF WriteTmp, Goto, TypeOK
    <3> QED BY <2>0, <2>1, <3>1 DEF WriteTmp, Goto, OwnTemp
  <2>2. ASSUME NEW t \in Stores, Rename(t) PROVE main' \notin Bad
    <3>1. t = s
      BY <2>2 DEF Rename, Goto, TypeOK
    <3> QED BY <2>0, <2>2, <3>1, StoreAssumption DEF Rename, Goto, OwnTemp
  <2>3. ~Damage
    BY DEF Damage
  <2> QED
    BY <2>1, <2>2, <2>3
       DEF Next, Put, Delete, BeginSave, OpenTmp, Chmod, BackupOpen,
           BackupCopy, Fail, Crash
<1> QED
  BY <1>1, StoreTypeCorrect, LoneAlways, PTL DEF Spec, MainNeverTorn

-----------------------------------------------------------------------------

Whole == main \notin Bad

\* With a single store nothing moves between a load and its commit.
Pending ==
  \A s \in Stores : at[s] \in {"open", "write", "chmod", "rename"} =>
    \E v \in Creds \cup {None} :
      /\ acct[s] \in Accounts
      /\ next[s] = [Load EXCEPT ![acct[s]] = v]

SoleInv ==
  /\ TypeOK /\ LoneInv
  /\ damage = 0
  /\ Sole => Whole /\ Pending

\* The store that acts while at most one is open is the one that is.
LEMMA SoleActs ==
  ASSUME Sole, NEW s \in Stores, at[s] # "unopened"
  PROVE  Lone(s) /\ \A t \in Stores \ {s} : at[t] = "unopened"
BY DEF Sole, Lone

LEMMA SoleStable ==
  ASSUME TypeOK, [Next]_vars
  PROVE  Sole' => Sole
<1>1. \A s \in Stores : at'[s] = "unopened" <=> at[s] = "unopened"
  BY OpeningStable
<1> QED BY <1>1 DEF Sole

LEMMA PendingInductive ==
  ASSUME Sole, MaxDamage = 0, SoleInv, [Next]_vars
  PROVE  Pending'
<1>0. ASSUME NEW s \in Stores, at[s] # "unopened",
             at'[s] \in {"open", "write", "chmod", "rename"} =>
               \E v \in Creds \cup {None} :
                 /\ acct'[s] \in Accounts
                 /\ next'[s] = [Load' EXCEPT ![acct'[s]] = v]
      PROVE  Pending'
  <2>1. \A t \in Stores \ {s} : at'[t] = "unopened"
    BY <1>0, SoleActs, OpeningStable DEF SoleInv
  <2> QED BY <1>0, <2>1 DEF Pending
<1>1. ASSUME NEW s \in Stores, NEW a \in Accounts,
             NEW v \in Creds \cup {None}, BeginSave(s, a, v)
      PROVE  Pending'
  <2>1. Load' = Load /\ acct'[s] = a /\ next'[s] = [Load EXCEPT ![a] = v]
    BY <1>1 DEF BeginSave, Load, SoleInv, TypeOK
  <2> QED BY <1>0, <1>1, <2>1 DEF BeginSave, Goto
<1>2. ASSUME NEW s \in Stores,
             at[s] \in {"open", "write", "chmod"},
             UNCHANGED <<main, bak, acct, next>>
      PROVE  Pending'
  <2>1. Load' = Load
    BY <1>2 DEF Load
  <2>2. PICK v \in Creds \cup {None} :
          acct[s] \in Accounts /\ next[s] = [Load EXCEPT ![acct[s]] = v]
    BY <1>2 DEF Pending, SoleInv
  <2> QED BY <1>0, <1>2, <2>1, <2>2
<1>3. ASSUME NEW s \in Stores, OpenTmp(s) PROVE Pending'
  BY <1>2, <1>3 DEF OpenTmp, Goto
<1>4. ASSUME NEW s \in Stores, WriteTmp(s) PROVE Pending'
  <2>1. fd[s] = "tmp"
    BY <1>4, SoleActs DEF SoleInv, LoneInv, OwnTemp, WriteTmp, Goto
  <2> QED BY <1>2, <1>4, <2>1 DEF WriteTmp, Goto
<1>5. ASSUME NEW s \in Stores, Chmod(s) PROVE Pending'
  BY <1>2, <1>5 DEF Chmod, Goto
<1>7. ASSUME NEW s \in Stores,
             Rename(s) \/ BackupOpen(s) \/ BackupCopy(s) \/ Fail(s)
      PROVE  Pending'
  <2>1. at[s] # "unopened" /\ at'[s] \in {"idle", "backup", "copy"}
    BY <1>7 DEF Rename, BackupOpen, BackupCopy, Fail, Return, Goto, Resting, SoleInv, TypeOK
  <2> QED BY <1>0, <2>1
<1>8. ASSUME NEW p \in Procs, Crash(p) PROVE Pending'
  <2>1. /\ Load' = Load
        /\ \A s \in Stores : at'[s] \in {"open", "write", "chmod", "rename"}
             => at'[s] = at[s] /\ acct'[s] = acct[s] /\ next'[s] = next[s]
    BY <1>8 DEF Crash, Return, Load
  <2>2. ASSUME NEW s \in Stores,
               at'[s] \in {"open", "write", "chmod", "rename"}
        PROVE  \E v \in Creds \cup {None} :
                 /\ acct'[s] \in Accounts
                 /\ next'[s] = [Load' EXCEPT ![acct'[s]] = v]
    <3>1. PICK v \in Creds \cup {None} :
            acct[s] \in Accounts /\ next[s] = [Load EXCEPT ![acct[s]] = v]
      BY <2>1, <2>2 DEF Pending, SoleInv
    <3> QED BY <2>1, <2>2, <3>1
  <2> QED BY <2>2 DEF Pending
<1>9. CASE Damage
  BY <1>9 DEF Damage, SoleInv, TypeOK
<1>10. CASE UNCHANGED vars
  <2>1. Load' = Load
    BY <1>10 DEF vars, Load
  <2> QED BY <1>10, <2>1 DEF vars, Pending, SoleInv
<1> QED
  BY <1>1, <1>3, <1>4, <1>5, <1>7, <1>8, <1>9, <1>10 DEF Next, Put, Delete

\* Nor does the only store's save ever tear the file.
LEMMA WholeInductive ==
  ASSUME Sole, MaxDamage = 0, SoleInv, [Next]_vars
  PROVE  Whole'
<1>0. \A s \in Stores : at[s] # "unopened" => OwnTemp(s) /\ next[s] \in Maps
  BY SoleActs DEF SoleInv, LoneInv, TypeOK
<1>1. ASSUME NEW s \in Stores, WriteTmp(s) PROVE Whole'
  BY <1>0, <1>1 DEF WriteTmp, Goto, OwnTemp, SoleInv, Whole
<1>2. ASSUME NEW s \in Stores, Rename(s) PROVE Whole'
  BY <1>0, <1>2, StoreAssumption DEF Rename, Goto, OwnTemp, Whole
<1>3. ~Damage
  BY MaxDamage = 0 DEF Damage, SoleInv
<1> QED
  BY <1>1, <1>2, <1>3
     DEF Next, vars, Put, Delete, BeginSave, OpenTmp, Chmod, BackupOpen,
         BackupCopy, Fail, Crash, SoleInv, Whole

LEMMA SoleAlways ==
  ASSUME MaxDamage = 0
  PROVE  Spec => []SoleInv
<1>1. TypeOK => damage = 0
  BY MaxDamage = 0 DEF TypeOK
<1>2. Init => Whole /\ Pending
  BY StoreAssumption DEF Init, Whole, Pending
<1>3. SoleInv /\ [Next]_vars => (Sole' => Whole' /\ Pending')
  BY MaxDamage = 0, WholeInductive, PendingInductive, SoleStable DEF SoleInv
<1> QED
  BY <1>1, <1>2, <1>3, StoreTypeCorrect, LoneAlways, PTL
     DEF Spec, SoleInv

\* A commit by the only store is a put or a delete of its account.
LEMMA CommitIsOneChange ==
  ASSUME Sole, SoleInv, NEW s \in Stores, Rename(s)
  PROVE  \E v \in Creds \cup {None} :
           /\ acct[s] \in Accounts
           /\ main' = [Load EXCEPT ![acct[s]] = v]
           /\ Load' = main'
<1>1. /\ at[s] = "rename" /\ tmp[ProcOf[s]] = next[s] /\ next[s] \in Maps
  BY SoleActs DEF SoleInv, LoneInv, OwnTemp, Rename, Goto, TypeOK
<1>2. main' = next[s] /\ main' # Missing /\ main' \notin Bad
  BY <1>1, StoreAssumption DEF Rename
<1>3. Load' = main'
  BY <1>2 DEF Load
<1> QED
  BY <1>1, <1>2, <1>3 DEF SoleInv, Pending

\* Every other step leaves what load() returns alone.
LEMMA OthersKeepLoad ==
  ASSUME Sole, MaxDamage = 0, SoleInv, [Next]_vars,
         \A s \in Stores : ~Rename(s)
  PROVE  Load' = Load
<1>1. main \notin Bad
  BY DEF SoleInv, Whole
<1>2. main' = main
  <2>1. ASSUME NEW s \in Stores, WriteTmp(s) PROVE main' = main
    BY <2>1, SoleActs DEF SoleInv, LoneInv, OwnTemp, WriteTmp, Goto
  <2>2. ~Damage
    BY DEF Damage, SoleInv
  <2> QED
    BY <2>1, <2>2
       DEF Next, vars, Put, Delete, BeginSave, OpenTmp, Chmod, BackupOpen,
           BackupCopy, Fail, Crash
<1> QED
  BY <1>1, <1>2 DEF Load

(***************************************************************************)
(* A single store loses no update: the rename that commits an operation    *)
(* changes that operation's account only.                                  *)
(***************************************************************************)
THEOREM SoleStoreLosesNothing ==
  ASSUME MaxDamage = 0
  PROVE  Spec => CommitTouchesOneAccount
<1>1. SoleInv /\ [Next]_vars =>
        [\A s \in Stores :
           Sole /\ Rename(s) /\ main' \in Maps /\ Readable =>
             \A a \in Accounts \ {acct[s]} : main'[a] = Load[a]]_vars
  <2> SUFFICES ASSUME SoleInv, NEW s \in Stores, Sole, Rename(s), Readable,
                      NEW a \in Accounts \ {acct[s]}
               PROVE  main'[a] = Load[a]
    OBVIOUS
  <2>1. PICK v \in Creds \cup {None} : main' = [Load EXCEPT ![acct[s]] = v]
    BY CommitIsOneChange
  <2> QED BY <2>1 DEF Readable, Maps
<1> QED
  BY <1>1, SoleAlways, PTL DEF Spec, CommitTouchesOneAccount

(***************************************************************************)
(* A single store, whatever crashes and failures it meets, implements the  *)
(* atomic map.                                                             *)
(***************************************************************************)
THEOREM SoleStoreIsAtomic ==
  ASSUME MaxDamage = 0
  PROVE  Spec => AtomicSpec
<1>1. Init => Atomic!Init
  BY DEF Init, Atomic!Init, Load, NoMap
<1>2. SoleInv /\ [Next]_vars =>
        [Sole /\ (damage' = 0 \/ faults' = 0) => [Atomic!Next]_Load]_vars
  <2> SUFFICES ASSUME SoleInv, [Next]_vars, Sole PROVE [Atomic!Next]_Load
    OBVIOUS
  <2>1. ASSUME NEW s \in Stores, Rename(s) PROVE Atomic!Next
    <3>1. PICK v \in Creds \cup {None} :
            acct[s] \in Accounts /\ Load' = [Load EXCEPT ![acct[s]] = v]
      BY <2>1, CommitIsOneChange
    <3> QED BY <3>1 DEF Atomic!Next, Atomic!Put, Atomic!Delete
  <2>2. CASE \A s \in Stores : ~Rename(s)
    BY <2>2, MaxDamage = 0, OthersKeepLoad
  <2> QED BY <2>1, <2>2
<1> QED
  BY <1>1, <1>2, SoleAlways, PTL DEF Spec, AtomicSpec
-----------------------------------------------------------------------------

\* While every save runs to its end, the backup is whole whenever no save is
\* between its rename and the end of its copy, and in between the main file is.
Backed ==
  /\ \A s \in Stores : at[s] = "backup" => main \in Maps
  /\ \A s \in Stores : at[s] = "copy" =>
       main \in Maps /\ src[s] = main /\ bak = Truncated
  /\ main # Missing /\ (\A s \in Stores : at[s] \notin {"backup", "copy"})
       => bak \in Maps

Unfailing == faults = 0

BackupInv == TypeOK /\ LoneInv /\ (Sole /\ Unfailing => Backed)

\* A store that is alone and meets no failure keeps the backup in step.
LEMMA BackedInductive ==
  ASSUME BackupInv, Sole, [Next]_vars, faults' = 0
  PROVE  Backed'
<1>0. /\ faults = 0 /\ Backed
      /\ \A s \in Stores : at[s] # "unopened" => OwnTemp(s) /\ next[s] \in Maps
      /\ \A s, t \in Stores : s # t /\ at[s] # "unopened" => at[t] = "unopened"
  <2>1. faults' = faults \/ faults' = faults + 1
    BY DEF Next, vars, Put, Delete, BeginSave, OpenTmp, WriteTmp, Chmod, Rename,
           BackupOpen, BackupCopy, Fail, Crash, Damage
  <2>2. faults \in Nat
    BY StoreAssumption DEF BackupInv, TypeOK
  <2>3. faults = 0
    BY <2>1, <2>2
  <2> QED BY <2>3, SoleActs DEF BackupInv, Unfailing, LoneInv, TypeOK
<1> USE StoreAssumption, <1>0 DEF BackupInv, Backed, TypeOK, Goto, Bad
<1>1. ASSUME NEW s \in Stores, NEW a \in Accounts,
             NEW v \in Creds \cup {None}, BeginSave(s, a, v)
      PROVE  Backed'
  BY <1>1 DEF BeginSave
<1>2. ASSUME NEW s \in Stores, OpenTmp(s) \/ Chmod(s) PROVE Backed'
  BY <1>2 DEF OpenTmp, Chmod
<1>3. ASSUME NEW s \in Stores, WriteTmp(s) PROVE Backed'
  <2>1. UNCHANGED main
    BY <1>3 DEF WriteTmp, OwnTemp
  <2> QED BY <1>3, <2>1 DEF WriteTmp
<1>4. ASSUME NEW s \in Stores, Rename(s) PROVE Backed'
  <2>1. main' \in Maps /\ at'[s] = "backup"
    BY <1>4 DEF Rename, OwnTemp
  <2>2. \A t \in Stores \ {s} : at'[t] = "unopened"
    BY <1>4 DEF Rename
  <2> QED BY <2>1, <2>2
<1>5. ASSUME NEW s \in Stores, BackupOpen(s) PROVE Backed'
  <2>1. /\ main' = main /\ main \in Maps /\ bak' = Truncated /\ src'[s] = main
        /\ at'[s] = "copy" /\ \A t \in Stores \ {s} : at'[t] = "unopened"
    BY <1>5 DEF BackupOpen
  <2> QED BY <2>1
<1>6. ASSUME NEW s \in Stores, BackupCopy(s) PROVE Backed'
  <2>1. main' = main /\ bak' = main /\ main \in Maps
    BY <1>6 DEF BackupCopy, Overlay
  <2>2. \A t \in Stores : at'[t] \notin {"backup", "copy"}
    BY <1>6 DEF BackupCopy, Return
  <2> QED BY <2>1, <2>2
<1>7. ASSUME NEW s \in Stores, Fail(s) PROVE FALSE
  BY <1>7 DEF Fail, OwnTemp, Resting
<1>8. ASSUME NEW p \in Procs, Crash(p) PROVE FALSE
  BY <1>8 DEF Crash
<1>9. CASE Damage
  BY <1>9 DEF Damage, Resting
<1>10. CASE UNCHANGED vars
  BY <1>10 DEF vars
<1> QED
  BY <1>1, <1>2, <1>3, <1>4, <1>5, <1>6, <1>7, <1>8, <1>9, <1>10
     DEF Next, Put, Delete

LEMMA BackupAlways == Spec => []BackupInv
<1>1. Init => Backed
  BY StoreAssumption DEF Init, Backed
<1>2. BackupInv /\ [Next]_vars => (Sole' /\ Unfailing' => Backed')
  BY BackedInductive, SoleStable DEF BackupInv, Unfailing
<1> QED
  BY <1>1, <1>2, StoreTypeCorrect, LoneAlways, PTL DEF Spec, BackupInv

(***************************************************************************)
(* When a store that is alone on its path comes back, its files suffice: a *)
(* temp file nobody else wrote, and a backup that reads whenever           *)
(* secrets.json was spoiled after saves that ran to their end, however     *)
(* often that happened.                                                    *)
(***************************************************************************)
THEOREM FilesAlwaysSuffice == Spec => []FilesSuffice
<1>1. BackupInv => Recoverable
  <2> SUFFICES ASSUME BackupInv, Sole, faults = 0, main \in Bad
               PROVE  bak \in Maps
    BY DEF Recoverable
  <2> QED BY StoreAssumption DEF BackupInv, Unfailing, Backed
<1> QED
  BY <1>1, BackupAlways, StoreTypeCorrect, PidSuffixSeparates, PTL DEF FilesSuffice

-----------------------------------------------------------------------------

\* Until a file is stale nobody is on the takeover path.
NobodyReclaims ==
  aged = 0 => /\ file # NoFile => ~file.stale
              /\ \A c \in Contenders : pc[c] # "remove"

Inv == LockTypeOK /\ OwnerHasItsFile /\ NobodyReclaims

(***************************************************************************)
(* Every reachable state of lockfile.rs's protocol is well typed.          *)
(***************************************************************************)
THEOREM TypeCorrect == LockSpec => []LockTypeOK
<1>1. LockInit => LockTypeOK
  <2> SUFFICES ASSUME LockInit PROVE LockTypeOK
    OBVIOUS
  <2>1. pc \in [Contenders -> PCs]
    BY DEF LockInit, PCs
  <2>2. due \in [Contenders -> BOOLEAN] /\ lapse \in BOOLEAN
    BY Zenon DEF LockInit
  <2>3. file \in LockFiles \cup {NoFile} /\ aged \in 0..MaxStale
    BY LockAssumption DEF LockInit
  <2> QED BY <2>1, <2>2, <2>3 DEF LockTypeOK
<1>2. LockTypeOK /\ [LockNext]_lockVars => LockTypeOK'
  <2> SUFFICES ASSUME LockTypeOK, [LockNext]_lockVars PROVE LockTypeOK'
    OBVIOUS
  <2> USE LockAssumption DEF LockTypeOK, PCs, LockFiles, Move
  <2>1. ASSUME NEW c \in Contenders, Begin(c) PROVE LockTypeOK'
    BY <2>1 DEF Begin
  <2>2. ASSUME NEW c \in Contenders, AcquireStep(c) PROVE LockTypeOK'
    <3>1. CASE OpenNew(c) BY <3>1 DEF OpenNew
    <3>2. CASE OpenExists(c) BY <3>2 DEF OpenExists
    <3>3. CASE OpenFails(c) BY <3>3 DEF OpenFails
    <3>4. CASE WritePayload(c) BY <3>4 DEF WritePayload
    <3>5. CASE WriteFails(c) BY <3>5 DEF WriteFails
    <3>6. CASE Unwrite(c) BY <3>6 DEF Unwrite, RemoveFile
    <3>7. CASE Stat(c) BY <3>7 DEF Stat
    <3>8. CASE RemoveStale(c) BY <3>8 DEF RemoveStale, RemoveFile
    <3>9. CASE Busy(c) BY <3>9 DEF Busy
    <3> QED
      BY <2>2, <3>1, <3>2, <3>3, <3>4, <3>5, <3>6, <3>7, <3>8, <3>9
         DEF AcquireStep
  <2>3. ASSUME NEW c \in Contenders, StartDrop(c) PROVE LockTypeOK'
    BY <2>3 DEF StartDrop
  <2>4. ASSUME NEW c \in Contenders, DropStep(c) PROVE LockTypeOK'
    <3>1. CASE DropRead(c) BY <3>1 DEF DropRead
    <3>2. CASE DropRemove(c) BY <3>2 DEF DropRemove, RemoveFile
    <3> QED BY <2>4, <3>1, <3>2 DEF DropStep
  <2>5. ASSUME NEW c \in Contenders, Die(c) PROVE LockTypeOK'
    BY <2>5 DEF Die
  <2>6. ASSUME NEW c \in Contenders, DeadlinePasses(c) PROVE LockTypeOK'
    BY <2>6 DEF DeadlinePasses
  <2>7. CASE GrowStale
    BY <2>7 DEF GrowStale
  <2>8. CASE UNCHANGED lockVars
    BY <2>8 DEF lockVars
  <2> QED
    BY <2>1, <2>2, <2>3, <2>4, <2>5, <2>6, <2>7, <2>8 DEF LockNext
<1> QED
  BY <1>1, <1>2, PTL DEF LockSpec

\* The strengthened invariant is inductive.  A step that only moves one
\* contender and leaves the file alone cannot disturb another owner; create_new
\* needs an absent file, which no owner has; a removal is made by the owner
\* itself, because without a stale file nobody is at "remove".
LEMMA InvInductive == Inv /\ [LockNext]_lockVars /\ LockTypeOK' => Inv'
<1> SUFFICES ASSUME Inv, [LockNext]_lockVars, LockTypeOK' PROVE Inv'
  OBVIOUS
<1> USE LockAssumption DEF Inv, LockTypeOK, PCs, Move,
        OwnerHasItsFile, NobodyReclaims, Holders, Owning
<1>1. ASSUME NEW c \in Contenders, Begin(c) PROVE Inv'
  BY <1>1 DEF Begin
<1>2. ASSUME NEW c \in Contenders, AcquireStep(c) PROVE Inv'
  <2>1. CASE OpenNew(c)
    <3>0. file' \in LockFiles
      BY <2>1 DEF OpenNew, LockFiles
    <3>1. /\ file = NoFile /\ file' # NoFile
          /\ file'.by = c /\ file'.stale = FALSE /\ aged' = aged
          /\ pc' = [pc EXCEPT ![c] = "write"]
      BY <2>1, <3>0 DEF OpenNew
    <3>2. aged = 0 => \A d \in Contenders : pc[d] \notin Owning
      BY <3>1
    <3>3. \A d \in Contenders : pc'[d] \in Owning => d = c \/ pc[d] \in Owning
      BY <3>1
    <3>4. OwnerHasItsFile'
      BY <3>1, <3>2, <3>3
    <3>5. NobodyReclaims'
      BY <3>1
    <3> QED BY <3>4, <3>5
  <2>2. CASE OpenExists(c) BY <2>2 DEF OpenExists
  <2>3. CASE OpenFails(c) BY <2>3 DEF OpenFails
  <2>4. CASE WritePayload(c)
    <3>1. /\ pc[c] = "write" /\ pc' = [pc EXCEPT ![c] = "held"]
          /\ aged' = aged
      BY <2>4 DEF WritePayload
    <3>2. CASE file # NoFile /\ file.by = c
      <4>0. file' \in LockFiles
        BY <2>4, <3>2 DEF WritePayload, LockFiles
      <4>1. /\ file' # NoFile /\ file'.by = c
            /\ file'.written = TRUE /\ file'.stale = FALSE
        BY <2>4, <3>2, <4>0 DEF WritePayload
      <4>2. OwnerHasItsFile'
        BY <3>1, <3>2, <4>1
      <4>3. NobodyReclaims'
        BY <3>1, <4>1
      <4> QED BY <4>2, <4>3
    <3>3. CASE ~(file # NoFile /\ file.by = c)
      BY <2>4, <3>1, <3>3 DEF WritePayload
    <3> QED BY <3>2, <3>3
  <2>5. CASE WriteFails(c) BY <2>5 DEF WriteFails
  <2>6. CASE Unwrite(c) BY <2>6 DEF Unwrite, RemoveFile
  <2>7. CASE Stat(c) BY <2>7 DEF Stat
  <2>8. CASE RemoveStale(c) BY <2>8 DEF RemoveStale, RemoveFile
  <2>9. CASE Busy(c) BY <2>9 DEF Busy
  <2> QED
    BY <1>2, <2>1, <2>2, <2>3, <2>4, <2>5, <2>6, <2>7, <2>8, <2>9
       DEF AcquireStep
<1>3. ASSUME NEW c \in Contenders, StartDrop(c) PROVE Inv'
  BY <1>3 DEF StartDrop
<1>4. ASSUME NEW c \in Contenders, DropStep(c) PROVE Inv'
  <2>1. CASE DropRead(c) BY <2>1 DEF DropRead
  <2>2. CASE DropRemove(c) BY <2>2 DEF DropRemove, RemoveFile
  <2> QED BY <1>4, <2>1, <2>2 DEF DropStep
<1>5. ASSUME NEW c \in Contenders, Die(c) PROVE Inv'
  BY <1>5 DEF Die
<1>6. ASSUME NEW c \in Contenders, DeadlinePasses(c) PROVE Inv'
  BY <1>6 DEF DeadlinePasses
<1>7. CASE GrowStale
  BY <1>7 DEF GrowStale
<1>8. CASE UNCHANGED lockVars
  BY <1>8 DEF lockVars
<1> QED
  BY <1>1, <1>2, <1>3, <1>4, <1>5, <1>6, <1>7, <1>8 DEF LockNext

LEMMA InvAlways == LockSpec => []Inv
<1>1. LockInit => OwnerHasItsFile /\ NobodyReclaims
  BY DEF LockInit, OwnerHasItsFile, NobodyReclaims, Holders, Owning
<1>2. LockTypeOK /\ OwnerHasItsFile /\ NobodyReclaims => Inv
  BY DEF Inv
<1> QED
  BY <1>1, <1>2, InvInductive, TypeCorrect, PTL DEF LockSpec

(***************************************************************************)
(* Until a lock file grows stale every owner's file is on disk under its   *)
(* own payload.                                                            *)
(***************************************************************************)
THEOREM OwnersKeepTheirFile == LockSpec => []OwnerHasItsFile
  BY InvAlways, PTL DEF Inv

(***************************************************************************)
(* Until a lock file grows stale at most one contender owns the lock: two  *)
(* owners would have to be the creators of the same file.                  *)
(***************************************************************************)
THEOREM ExclusiveUntilStale == LockSpec => []MutualExclusionUntilStale
<1>1. Inv => MutualExclusionUntilStale
  BY DEF Inv, OwnerHasItsFile, MutualExclusionUntilStale
<1> QED
  BY <1>1, InvAlways, PTL

(***************************************************************************)
(* Each step of the lock file is a step of the lease, or none.             *)
(***************************************************************************)
LEMMA StepRefines == Inv /\ [LockNext]_lockVars /\ LockTypeOK' => [Lease!Next]_Lease!vars
<1> SUFFICES ASSUME Inv, [LockNext]_lockVars, LockTypeOK' PROVE [Lease!Next]_Lease!vars
  OBVIOUS
<1> DEFINE H == Holders
           Quiet == Holders' = Holders /\ (aged > 0)' = (aged > 0)
<1>0. ASSUME Quiet PROVE [Lease!Next]_Lease!vars
  BY <1>0 DEF Lease!vars
<1> USE DEF Inv, LockTypeOK, PCs, Move, Holders, Owning
<1>1. ASSUME NEW c \in Contenders, OpenNew(c) PROVE Lease!Acquire(c)
  <2>1. aged' = aged /\ c \notin Holders /\ Holders' = Holders \cup {c}
    BY <1>1 DEF OpenNew
  <2>2. aged = 0 => Holders = {}
    BY <1>1 DEF OpenNew, OwnerHasItsFile
  <2>3. aged # 0 => aged > 0
    BY LockAssumption
  <2> QED BY <2>1, <2>2, <2>3 DEF Lease!Acquire
<1>2. ASSUME NEW c \in Contenders, c \in Holders, aged' = aged,
             pc' = [pc EXCEPT ![c] = "idle"]
      PROVE  Lease!Release(c)
  BY <1>2 DEF Lease!Release
<1>3. CASE GrowStale
  <2>1. Holders' = Holders /\ aged' > 0
    BY <1>3, LockAssumption DEF GrowStale
  <2> QED BY <2>1 DEF Lease!Next, Lease!BecomeSuspect
<1>4. ASSUME NEW c \in Contenders, Begin(c) PROVE Quiet
  BY <1>4 DEF Begin
<1>5. ASSUME NEW c \in Contenders, AcquireStep(c)
      PROVE  Quiet \/ Lease!Acquire(c) \/ Lease!Release(c)
  <2>1. CASE OpenNew(c) BY <1>1, <2>1
  <2>2. CASE OpenExists(c) BY <2>2 DEF OpenExists
  <2>3. CASE OpenFails(c) BY <2>3 DEF OpenFails
  <2>4. CASE WritePayload(c) BY <2>4 DEF WritePayload
  <2>5. CASE WriteFails(c) BY <2>5 DEF WriteFails
  <2>6. CASE Unwrite(c) BY <1>2, <2>6 DEF Unwrite
  <2>7. CASE Stat(c) BY <2>7 DEF Stat
  <2>8. CASE RemoveStale(c) BY <2>8 DEF RemoveStale
  <2>9. CASE Busy(c) BY <2>9 DEF Busy
  <2> QED
    BY <1>5, <2>1, <2>2, <2>3, <2>4, <2>5, <2>6, <2>7, <2>8, <2>9
       DEF AcquireStep
<1>6. ASSUME NEW c \in Contenders, StartDrop(c) PROVE Quiet
  BY <1>6 DEF StartDrop
<1>7. ASSUME NEW c \in Contenders, DropStep(c) PROVE Quiet \/ Lease!Release(c)
  <2>1. CASE DropRead(c)
    <3>1. CASE pc' = [pc EXCEPT ![c] = "idle"]
      BY <1>2, <2>1, <3>1 DEF DropRead
    <3>2. CASE pc' = [pc EXCEPT ![c] = "drop_remove"]
      BY <2>1, <3>2 DEF DropRead
    <3> QED BY <2>1, <3>1, <3>2 DEF DropRead
  <2>2. CASE DropRemove(c) BY <1>2, <2>2 DEF DropRemove
  <2> QED BY <1>7, <2>1, <2>2 DEF DropStep
<1>8. ASSUME NEW c \in Contenders, Die(c) PROVE Quiet \/ Lease!Release(c)
  <2>1. CASE c \in Holders BY <1>2, <1>8, <2>1 DEF Die
  <2>2. CASE c \notin Holders BY <1>8, <2>2 DEF Die
  <2> QED BY <2>1, <2>2
<1>9. ASSUME NEW c \in Contenders, DeadlinePasses(c) PROVE Quiet
  BY <1>9 DEF DeadlinePasses
<1>10. CASE UNCHANGED lockVars
  <2>1. Quiet BY <1>10 DEF lockVars
  <2> QED BY <2>1, <1>0
<1> QED
  <2>1. ASSUME NEW c \in Contenders,
               Begin(c) \/ AcquireStep(c) \/ StartDrop(c) \/ DropStep(c)
                 \/ Die(c) \/ DeadlinePasses(c)
        PROVE  Quiet \/ Lease!Acquire(c) \/ Lease!Release(c)
    BY <2>1, <1>4, <1>5, <1>6, <1>7, <1>8, <1>9
  <2>2. ASSUME NEW c \in Contenders, Lease!Acquire(c) \/ Lease!Release(c)
        PROVE  Lease!Next
    BY <2>2 DEF Lease!Next
  <2> QED BY <1>0, <1>3, <1>10, <2>1, <2>2 DEF LockNext

(***************************************************************************)
(* The lock file implements the lease lock.                                *)
(***************************************************************************)
THEOREM ImplementsLease == LockSpec => LeaseSpec
<1>1. LockInit => Lease!Init
  BY DEF LockInit, Lease!Init, Holders, Owning
<1> QED
  BY <1>1, StepRefines, InvAlways, TypeCorrect, PTL
     DEF LockSpec, LeaseSpec, Lease!Spec

\* Until a process dies or a removal fails, a file on disk has a creator that
\* still owns the lock, and a creator that is past its write has written it: so
\* its drop finds the file its own and removes it, whatever was taken over,
\* timed out or failed to be written meanwhile.
FileHasItsOwner ==
  ~lapse /\ file # NoFile =>
    /\ pc[file.by] \in Owning
    /\ pc[file.by] \in {"held", "drop_read", "drop_remove"} => file.written

\* A step of c that keeps the file on disk and leaves its creator owning it.
LEMMA FileStays ==
  ASSUME LockTypeOK, FileHasItsOwner, NEW c \in Contenders, NEW to \in PCs,
         pc' = [pc EXCEPT ![c] = to], file' = file, lapse' = lapse,
         (~lapse /\ file # NoFile /\ file.by = c) =>
            /\ to \in Owning
            /\ to \in {"held", "drop_read", "drop_remove"} => file.written
  PROVE  FileHasItsOwner'
  BY DEF LockTypeOK, FileHasItsOwner, LockFiles

LEMMA OwnerInductive == LockTypeOK /\ FileHasItsOwner /\ [LockNext]_lockVars => FileHasItsOwner'
<1> SUFFICES ASSUME LockTypeOK, FileHasItsOwner, [LockNext]_lockVars PROVE FileHasItsOwner'
  OBVIOUS
<1>1. ASSUME NEW c \in Contenders, Begin(c) PROVE FileHasItsOwner'
  BY <1>1, FileStays DEF Begin, Move, FileHasItsOwner, Owning, PCs
<1>2. ASSUME NEW c \in Contenders, RemoveFile PROVE FileHasItsOwner'
  BY <1>2 DEF RemoveFile, FileHasItsOwner
<1>3. ASSUME NEW c \in Contenders, AcquireStep(c) PROVE FileHasItsOwner'
  <2>1. CASE OpenNew(c)
    <3>1. file'.by = c /\ pc'[c] = "write"
      BY <2>1 DEF OpenNew, Move, LockTypeOK
    <3> QED BY <3>1 DEF FileHasItsOwner, Owning
  <2>2. CASE OpenExists(c)
    BY <2>2, FileStays DEF OpenExists, Move, FileHasItsOwner, Owning, PCs
  <2>3. CASE OpenFails(c)
    BY <2>3, FileStays DEF OpenFails, Move, FileHasItsOwner, Owning, PCs
  <2>4. CASE WritePayload(c)
    <3>1. CASE file # NoFile /\ file.by = c
      <4>1. file'.by = c /\ file'.written /\ pc'[c] = "held"
        BY <2>4, <3>1 DEF WritePayload, Move, LockTypeOK
      <4> QED BY <4>1 DEF FileHasItsOwner, Owning
    <3>2. CASE ~(file # NoFile /\ file.by = c)
      BY <2>4, <3>2, FileStays DEF WritePayload, Move, PCs
    <3> QED BY <3>1, <3>2
  <2>5. CASE WriteFails(c)
    BY <2>5, FileStays DEF WriteFails, Move, Owning, PCs
  <2>6. CASE Unwrite(c)
    BY <1>2, <2>6 DEF Unwrite
  <2>7. CASE Stat(c)
    BY <2>7, FileStays DEF Stat, Move, FileHasItsOwner, Owning, PCs
  <2>8. CASE RemoveStale(c)
    BY <1>2, <2>8 DEF RemoveStale
  <2>9. CASE Busy(c)
    BY <2>9, FileStays DEF Busy, Move, FileHasItsOwner, Owning, PCs
  <2> QED
    BY <1>3, <2>1, <2>2, <2>3, <2>4, <2>5, <2>6, <2>7, <2>8, <2>9 DEF AcquireStep
<1>4. ASSUME NEW c \in Contenders, StartDrop(c) PROVE FileHasItsOwner'
  BY <1>4, FileStays DEF StartDrop, Move, FileHasItsOwner, Owning, PCs
<1>5. ASSUME NEW c \in Contenders, DropStep(c) PROVE FileHasItsOwner'
  <2>1. CASE DropRead(c)
    <3>1. ~lapse /\ file # NoFile /\ file.by = c => file.written
      BY <2>1 DEF DropRead, Move, FileHasItsOwner
    <3> QED BY <2>1, <3>1, FileStays DEF DropRead, Move, Owning, PCs
  <2>2. CASE DropRemove(c)
    BY <1>2, <2>2 DEF DropRemove
  <2> QED BY <1>5, <2>1, <2>2 DEF DropStep
<1>6. ASSUME NEW c \in Contenders, Die(c) PROVE FileHasItsOwner'
  BY <1>6 DEF Die, FileHasItsOwner
<1>7. ASSUME NEW c \in Contenders, DeadlinePasses(c) PROVE FileHasItsOwner'
  BY <1>7 DEF DeadlinePasses, FileHasItsOwner
<1>8. CASE GrowStale
  <2>1. file'.by = file.by /\ file'.written = file.written
    BY <1>8 DEF GrowStale
  <2> QED BY <1>8, <2>1 DEF GrowStale, FileHasItsOwner
<1>9. CASE UNCHANGED lockVars
  BY <1>9 DEF lockVars, FileHasItsOwner
<1> QED
  BY <1>1, <1>3, <1>4, <1>5, <1>6, <1>7, <1>8, <1>9 DEF LockNext

(***************************************************************************)
(* The lock file stands for its holder, whatever is taken over, times out, *)
(* fails or crashes: the run's invariant, for any contenders and faults.   *)
(***************************************************************************)
THEOREM FileAlwaysStandsForHolder == LockSpec => []FileStandsForHolder
<1>1. LockInit => FileHasItsOwner
  BY DEF LockInit, FileHasItsOwner
<1>2. LockTypeOK /\ FileHasItsOwner => NoOrphanFile
  BY DEF LockTypeOK, FileHasItsOwner, NoOrphanFile, Holders, LockFiles
<1>3. LockSpec => []FileHasItsOwner
  BY <1>1, OwnerInductive, TypeCorrect, PTL DEF LockSpec
<1> QED
  BY <1>2, <1>3, TypeCorrect, OwnersKeepTheirFile, ExclusiveUntilStale, PTL DEF FileStandsForHolder
=============================================================================
