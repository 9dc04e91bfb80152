----------------------------- MODULE SecretStore ------------------------------
(***************************************************************************)
(* FileSecretStore (crates/server/src/credentials/store.rs): secrets.json, *)
(* its temp file and its .bak, one action per file-system call of a save.  *)
(*                                                                         *)
(* A store is one FileSecretStore value.  Its mutex serialises the calls   *)
(* on that value only, so each store runs one operation at a time, while   *)
(* stores on the same path, in one process or in several, interleave.  The *)
(* temp path is suffixed with the pid: the stores of one process share it. *)
(* A behaviour opens one of the sets of Openings; the other stores stay    *)
(* out of it.                                                              *)
(*                                                                         *)
(* A file holds a whole map, or was truncated by an open and not written   *)
(* yet, or is garbled, or is missing.                                      *)
(***************************************************************************)
EXTENDS Naturals

CONSTANTS Stores, Procs, ProcOf,  \* the process each store lives in
          Openings,               \* the sets of stores that may be open together
          Accounts, Creds, None,  \* None: no entry for the account
          Missing, Truncated, Garbled,
          MaxFaults,              \* bound: processes that die and calls that fail
          MaxDamage               \* bound: damage to secrets.json from outside

Maps == [Accounts -> Creds \cup {None}]
Bad == {Truncated, Garbled}
Files == Maps \cup Bad \cup {Missing}
NoMap == [a \in Accounts |-> None]

ASSUME StoreAssumption ==
  /\ ProcOf \in [Stores -> Procs]
  /\ Openings \subseteq SUBSET Stores
  /\ None \notin Creds
  /\ Missing \notin Maps \cup Bad /\ Bad \cap Maps = {}
  /\ Truncated # Garbled
  /\ MaxFaults \in Nat /\ MaxDamage \in Nat

VARIABLES main, bak,  \* secrets.json and secrets.json.bak
          tmp,        \* each process's temp file
          at,         \* the next call of each store's operation
          acct, next, \* the account it changes and the map it will write
          fd,         \* the file its open handle refers to
          src,        \* what fs::copy reads from the main file
          faults, damage

vars == <<main, bak, tmp, at, acct, next, fd, src, faults, damage>>

Resting == {"unopened", "idle"}
Steps == Resting \cup {"open", "write", "chmod", "rename", "backup", "copy"}

TypeOK ==
  /\ main \in Files /\ bak \in Files
  /\ tmp \in [Procs -> Files]
  /\ at \in [Stores -> Steps]
  /\ acct \in [Stores -> Accounts \cup {None}]
  /\ next \in [Stores -> Maps]
  /\ fd \in [Stores -> {"none", "tmp", "main", "gone"}]
  /\ src \in [Stores -> Files]
  /\ faults \in 0..MaxFaults /\ damage \in 0..MaxDamage

Init ==
  /\ main = Missing /\ bak = Missing
  /\ tmp = [p \in Procs |-> Missing]
  /\ \E open \in Openings :
       at = [s \in Stores |-> IF s \in open THEN "idle" ELSE "unopened"]
  /\ acct = [s \in Stores |-> None]
  /\ next = [s \in Stores |-> NoMap]
  /\ fd = [s \in Stores |-> "none"]
  /\ src = [s \in Stores |-> Missing]
  /\ faults = 0 /\ damage = 0

\* A load that treats a damaged file as a fresh store.
LoadForgetsBackup == IF main = Missing \/ main \in Bad THEN NoMap ELSE main

\* load(): the main file, the backup when the main file does not parse, the
\* empty map when there is no main file; unreadable otherwise.
Load == IF main = Missing THEN NoMap
        ELSE IF main \in Bad THEN bak ELSE main

Readable == Load \in Maps

\* Writing from offset 0 into an open file: an empty file receives the bytes;
\* over other bytes the longer tail of the old ones may remain.
Overlay(old, new) ==
  IF new \in Bad \/ old \in {Truncated, new} THEN {new} ELSE {new, Garbled}

Goto(s, from, to) == at[s] = from /\ at' = [at EXCEPT ![s] = to]

\* The operations of the stores in T are over, and their locals with them.
Return(T) ==
  /\ at' = [s \in Stores |-> IF s \in T /\ at[s] # "unopened" THEN "idle" ELSE at[s]]
  /\ acct' = [s \in Stores |-> IF s \in T THEN None ELSE acct[s]]
  /\ next' = [s \in Stores |-> IF s \in T THEN NoMap ELSE next[s]]
  /\ fd' = [s \in Stores |-> IF s \in T THEN "none" ELSE fd[s]]
  /\ src' = [s \in Stores |-> IF s \in T THEN Missing ELSE src[s]]

\* put and delete take the store's mutex and load the map.
BeginSave(s, a, v) ==
  /\ Goto(s, "idle", "open")
  /\ Readable
  /\ acct' = [acct EXCEPT ![s] = a]
  /\ next' = [next EXCEPT ![s] = [Load EXCEPT ![a] = v]]
  /\ UNCHANGED <<main, bak, tmp, fd, src, faults, damage>>

Put(s, a, v) == BeginSave(s, a, v)

\* delete saves only when there was an entry.
Delete(s, a) == Readable /\ Load[a] # None /\ BeginSave(s, a, None)

\* A save that writes the target itself when an old temp file is in its way.
OpenTmpAvoidsOld(s) ==
  /\ Goto(s, "open", "write")
  /\ IF tmp[ProcOf[s]] = Missing
     THEN /\ tmp' = [tmp EXCEPT ![ProcOf[s]] = Truncated]
          /\ fd' = [fd EXCEPT ![s] = "tmp"]
          /\ UNCHANGED main
     ELSE /\ main' = Truncated
          /\ fd' = [fd EXCEPT ![s] = "main"]
          /\ UNCHANGED tmp
  /\ UNCHANGED <<bak, acct, next, src, faults, damage>>

\* fs::write, first half: create or truncate the temp file.
OpenTmp(s) ==
  /\ Goto(s, "open", "write")
  /\ tmp' = [tmp EXCEPT ![ProcOf[s]] = Truncated]
  /\ fd' = [fd EXCEPT ![s] = "tmp"]
  /\ UNCHANGED <<main, bak, acct, next, src, faults, damage>>

\* fs::write, second half: the bytes go to the file the handle refers to,
\* wherever a rename has moved it since.
WriteTmp(s) ==
  /\ Goto(s, "write", "chmod")
  /\ \/ /\ fd[s] = "tmp"
        /\ \E f \in Overlay(tmp[ProcOf[s]], next[s]) :
             tmp' = [tmp EXCEPT ![ProcOf[s]] = f]
        /\ UNCHANGED main
     \/ /\ fd[s] = "main"
        /\ main' \in Overlay(main, next[s])
        /\ UNCHANGED tmp
     \/ fd[s] = "gone" /\ UNCHANGED <<main, tmp>>
  /\ fd' = [fd EXCEPT ![s] = "none"]
  /\ UNCHANGED <<bak, acct, next, src, faults, damage>>

\* set_permissions and rename work on the temp path; when a store of the same
\* process has renamed it away they fail (Fail below).
Chmod(s) ==
  /\ Goto(s, "chmod", "rename")
  /\ tmp[ProcOf[s]] # Missing
  /\ UNCHANGED <<main, bak, tmp, acct, next, fd, src, faults, damage>>

\* The commit.  Handles on the temp file now refer to the main file, handles
\* on the former main file to an unlinked one.
Rename(s) ==
  LET p == ProcOf[s] IN
  /\ Goto(s, "rename", "backup")
  /\ tmp[p] # Missing
  /\ main' = tmp[p]
  /\ tmp' = [tmp EXCEPT ![p] = Missing]
  /\ fd' = [t \in Stores |->
              IF fd[t] = "main" THEN "gone"
              ELSE IF fd[t] = "tmp" /\ ProcOf[t] = p THEN "main"
              ELSE fd[t]]
  /\ UNCHANGED <<bak, acct, next, src, faults, damage>>

\* fs::copy opens the main file and truncates the backup, then copies.
BackupOpen(s) ==
  /\ Goto(s, "backup", "copy")
  /\ src' = [src EXCEPT ![s] = main]
  /\ bak' = Truncated
  /\ UNCHANGED <<main, tmp, acct, next, fd, faults, damage>>

\* A backup that is opened and never filled.
BackupCopyNothing(s) ==
  /\ at[s] = "copy"
  /\ Return({s})
  /\ UNCHANGED <<main, bak, tmp, faults, damage>>

BackupCopy(s) ==
  /\ at[s] = "copy"
  /\ bak' \in Overlay(bak, src[s])
  /\ Return({s})
  /\ UNCHANGED <<main, tmp, faults, damage>>

\* A call fails: before the rename the operation returns the error, after it
\* the failed backup is ignored.
Fail(s) ==
  /\ at[s] \notin Resting
  /\ \/ faults < MaxFaults /\ faults' = faults + 1
     \/ /\ at[s] \in {"chmod", "rename"} /\ tmp[ProcOf[s]] = Missing
        /\ UNCHANGED faults
  /\ Return({s})
  /\ UNCHANGED <<main, bak, tmp, damage>>

\* A process dies in the middle of whatever its stores were doing.
Crash(p) ==
  /\ faults < MaxFaults
  /\ faults' = faults + 1
  /\ Return({s \in Stores : ProcOf[s] = p})
  /\ UNCHANGED <<main, bak, tmp, damage>>

\* Something outside the program spoils secrets.json between saves.
Damage ==
  /\ damage < MaxDamage
  /\ main \in Maps
  /\ \A s \in Stores : at[s] \in Resting
  /\ main' = Garbled
  /\ damage' = damage + 1
  /\ UNCHANGED <<bak, tmp, at, acct, next, fd, src, faults>>

Next ==
  \/ \E s \in Stores :
       \/ \E a \in Accounts : Delete(s, a) \/ \E v \in Creds : Put(s, a, v)
       \/ OpenTmp(s) \/ WriteTmp(s) \/ Chmod(s) \/ Rename(s)
       \/ BackupOpen(s) \/ BackupCopy(s) \/ Fail(s)
  \/ \E p \in Procs : Crash(p)
  \/ Damage

Spec == Init /\ [][Next]_vars

-----------------------------------------------------------------------------

\* The only opened store of its process: the case the pid suffix is made for.
Lone(s) ==
  /\ at[s] # "unopened"
  /\ \A t \in Stores \ {s} : ProcOf[t] # ProcOf[s] \/ at[t] = "unopened"

\* At most one store is open on the path.
Sole == \A s, t \in Stores : s = t \/ "unopened" \in {at[s], at[t]}

(***************************************************************************)
(* write_private is atomic: no step of a process's only store, a failed    *)
(* call and a crash included, ever leaves a torn secrets.json where there  *)
(* was none, whatever the stores of other processes do meanwhile (store.rs *)
(* 21-56).                                                                 *)
(***************************************************************************)
MainNeverTorn ==
  [][\A s \in Stores :
       Lone(s) /\ at'[s] # at[s] /\ main' \in Bad => main \in Bad]_vars

(***************************************************************************)
(* The pid suffix keeps processes apart: between its write and its rename, *)
(* the temp file of a process's only store holds exactly the map that      *)
(* store is saving, however many stores other processes run (store.rs      *)
(* 44-64: "so two processes writing the same target never collide").       *)
(***************************************************************************)
TempIsPrivate ==
  \A s \in Stores :
    Lone(s) /\ at[s] \in {"chmod", "rename"} => tmp[ProcOf[s]] = next[s]

(***************************************************************************)
(* The backup serves its purpose: when every save of a store that is alone *)
(* ran to its end, a damaged secrets.json can always be loaded from .bak   *)
(* (store.rs 3-8, 143-165).                                                *)
(***************************************************************************)
Recoverable ==
  Sole /\ faults = 0 /\ main \in Bad => bak \in Maps

(***************************************************************************)
(* No lost update: the rename that commits a put or a delete of a store    *)
(* that is alone on the path changes only that operation's account         *)
(* (store.rs 99-103: the read-modify-write cycle is serialized).           *)
(***************************************************************************)
CommitTouchesOneAccount ==
  [][\A s \in Stores :
       Sole /\ Rename(s) /\ main' \in Maps /\ Readable =>
         \A a \in Accounts \ {acct[s]} : main'[a] = Load[a]]_vars

(***************************************************************************)
(* The files of a store that is alone implement the atomic map: what       *)
(* load() returns changes only by a put or a delete of one account, in one *)
(* step, through crashes and failed calls, and through damage to           *)
(* secrets.json unless a crash or a failed call had cut a save short.      *)
(***************************************************************************)
Atomic == INSTANCE AtomicStore WITH kv <- Load
AtomicSpec ==
  /\ Atomic!Init
  /\ [][Sole /\ (damage' = 0 \/ faults' = 0)
           => [Atomic!Next]_Load]_vars

(***************************************************************************)
(* What a store needs when it comes back is on disk: a temp file of its    *)
(* own, and a main file or a backup that reads (store.rs 44-64, 128-165).  *)
(***************************************************************************)
FilesSuffice == TypeOK /\ TempIsPrivate /\ Recoverable
==============================================================================
