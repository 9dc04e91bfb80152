------------------------------- MODULE FileLock -------------------------------
(***************************************************************************)
(* The cross-process lock file of crates/server/src/lockfile.rs, one       *)
(* action per file-system call.  A contender is a thread of the server or  *)
(* of the CLI that runs acquire_timeout and later drops its guard.         *)
(*                                                                         *)
(* The file is a record of who created it (its payload is unique per       *)
(* acquisition: pid and nanosecond timestamp), whether the payload has     *)
(* been written, and whether its mtime is older than stale_after.          *)
(***************************************************************************)
EXTENDS Naturals

CONSTANTS Contenders,     \* threads that may want the lock
          NoFile,         \* the lock path does not exist
          MaxStale,       \* bound: how many lock files may grow stale
          CrashesAllowed, \* a process may die anywhere
          OutliveAllowed, \* a live holder may keep the lock past stale_after
          IoMayFail,      \* creating or writing the lock file may fail
          RemoveMayFail   \* remove_file may fail (its result is ignored)

LockFiles == [by : Contenders, written : BOOLEAN, stale : BOOLEAN]

ASSUME LockAssumption ==
  /\ NoFile \notin LockFiles
  /\ MaxStale \in Nat
  /\ CrashesAllowed \in BOOLEAN /\ OutliveAllowed \in BOOLEAN
  /\ IoMayFail \in BOOLEAN /\ RemoveMayFail \in BOOLEAN

VARIABLES pc,    \* where each contender is
          file,  \* the lock file on disk
          due,   \* has the contender's acquire deadline passed?
          aged,  \* how many lock files have grown stale so far
          lapse  \* history: a process died or a removal failed

lockVars == <<pc, file, due, aged, lapse>>

PCs == {"idle", "open", "write", "unwrite", "stat", "remove", "busy",
        "held", "drop_read", "drop_remove"}

\* Between a successful create_new and the end of the guard's drop.
Owning == {"write", "unwrite", "held", "drop_read", "drop_remove"}

\* Between the call of acquire_timeout and its return.
Acquiring == {"open", "write", "unwrite", "stat", "remove", "busy"}

LockTypeOK ==
  /\ pc \in [Contenders -> PCs]
  /\ file \in LockFiles \cup {NoFile}
  /\ due \in [Contenders -> BOOLEAN]
  /\ aged \in 0..MaxStale
  /\ lapse \in BOOLEAN

LockInit ==
  /\ pc = [c \in Contenders |-> "idle"]
  /\ file = NoFile
  /\ due = [c \in Contenders |-> FALSE]
  /\ aged = 0
  /\ lapse = FALSE

Move(c, from, to) == pc[c] = from /\ pc' = [pc EXCEPT ![c] = to]

\* fs::remove_file by path: whatever file is there now goes, or the call
\* fails and the code ignores it.
RemoveFile ==
  \/ file' = NoFile /\ UNCHANGED lapse
  \/ RemoveMayFail /\ file' = file /\ lapse' = TRUE

\* acquire_timeout fixes its deadline and enters the loop.
Begin(c) ==
  /\ Move(c, "idle", "open")
  /\ due' = [due EXCEPT ![c] = FALSE]
  /\ UNCHANGED <<file, aged, lapse>>

\* create_new succeeds only when no file is there.
OpenNew(c) ==
  /\ Move(c, "open", "write")
  /\ file = NoFile
  /\ file' = [by |-> c, written |-> FALSE, stale |-> FALSE]
  /\ UNCHANGED <<due, aged, lapse>>

OpenExists(c) ==
  /\ Move(c, "open", "stat")
  /\ file # NoFile
  /\ UNCHANGED <<file, due, aged, lapse>>

\* create_dir_all or the open fails for another reason: LockError::Io.
OpenFails(c) ==
  /\ IoMayFail
  /\ Move(c, "open", "idle")
  /\ UNCHANGED <<file, due, aged, lapse>>

\* The payload goes to the file this contender created; if that file was
\* taken over meanwhile the bytes go to an unlinked inode.
WritePayload(c) ==
  /\ Move(c, "write", "held")
  /\ file' = IF file # NoFile /\ file.by = c
             THEN [by |-> c, written |-> TRUE, stale |-> FALSE]
             ELSE file
  /\ UNCHANGED <<due, aged, lapse>>

WriteFails(c) ==
  /\ IoMayFail
  /\ Move(c, "write", "unwrite")
  /\ UNCHANGED <<file, due, aged, lapse>>

\* A failed write whose half-made file is left behind.
UnwriteKeepsFile(c) ==
  /\ Move(c, "unwrite", "idle")
  /\ UNCHANGED <<file, due, aged, lapse>>

\* After a failed write the path is removed and LockError::Io returned.
Unwrite(c) ==
  /\ Move(c, "unwrite", "idle")
  /\ RemoveFile
  /\ UNCHANGED <<due, aged>>

\* The age test forgotten: any existing file is taken over.
StatWithoutAge(c) ==
  /\ Move(c, "stat", IF file # NoFile THEN "remove" ELSE "busy")
  /\ UNCHANGED <<file, due, aged, lapse>>

\* metadata(): a file that vanished meanwhile counts as not abandoned.
Stat(c) ==
  /\ Move(c, "stat", IF file # NoFile /\ file.stale THEN "remove" ELSE "busy")
  /\ UNCHANGED <<file, due, aged, lapse>>

\* The takeover: remove whatever is at the path now, then retry at once
\* without looking at the deadline.
RemoveStale(c) ==
  /\ Move(c, "remove", "open")
  /\ RemoveFile
  /\ UNCHANGED <<due, aged>>

\* The deadline test forgotten.
BusyForever(c) ==
  /\ Move(c, "busy", "open")
  /\ UNCHANGED <<file, due, aged, lapse>>

\* Busy: give up at the deadline, else sleep and try again.
Busy(c) ==
  /\ Move(c, "busy", IF due[c] THEN "idle" ELSE "open")
  /\ UNCHANGED <<file, due, aged, lapse>>

StartDrop(c) ==
  /\ Move(c, "held", "drop_read")
  /\ UNCHANGED <<file, due, aged, lapse>>

\* Drop compares the file's bytes with its own payload ...
DropRead(c) ==
  /\ Move(c, "drop_read",
          IF file # NoFile /\ file.by = c /\ file.written
          THEN "drop_remove" ELSE "idle")
  /\ UNCHANGED <<file, due, aged, lapse>>

\* ... and then removes the path, in a second call.
DropRemove(c) ==
  /\ Move(c, "drop_remove", "idle")
  /\ RemoveFile
  /\ UNCHANGED <<due, aged>>

\* The process dies: its file stays.
Die(c) ==
  /\ CrashesAllowed
  /\ pc[c] # "idle"
  /\ pc' = [pc EXCEPT ![c] = "idle"]
  /\ lapse' = TRUE
  /\ UNCHANGED <<file, due, aged>>

DeadlinePasses(c) ==
  /\ pc[c] \in Acquiring
  /\ ~due[c]
  /\ due' = [due EXCEPT ![c] = TRUE]
  /\ UNCHANGED <<pc, file, aged, lapse>>

\* The file's mtime falls more than stale_after behind: its creator died,
\* failed to remove it, or simply held the lock that long.
GrowStale ==
  /\ aged < MaxStale
  /\ file # NoFile /\ ~file.stale
  /\ OutliveAllowed \/ pc[file.by] \notin Owning
  /\ file' = [by |-> file.by, written |-> file.written, stale |-> TRUE]
  /\ aged' = aged + 1
  /\ UNCHANGED <<pc, due, lapse>>

\* The steps of a running acquire, each one the code's own next call.
AcquireStep(c) ==
  \/ OpenNew(c) \/ OpenExists(c) \/ OpenFails(c)
  \/ WritePayload(c) \/ WriteFails(c) \/ Unwrite(c)
  \/ Stat(c) \/ RemoveStale(c) \/ Busy(c)

DropStep(c) == DropRead(c) \/ DropRemove(c)

LockNext ==
  \/ \E c \in Contenders :
       Begin(c) \/ AcquireStep(c) \/ StartDrop(c) \/ DropStep(c)
       \/ Die(c) \/ DeadlinePasses(c)
  \/ GrowStale

LockSpec == LockInit /\ [][LockNext]_lockVars

\* A thread inside acquire_timeout or drop keeps running and clocks advance;
\* nobody promises to ask for the lock, to drop it, or to let it go stale.
Fairness == \A c \in Contenders :
  /\ WF_lockVars(AcquireStep(c)) /\ WF_lockVars(DropStep(c))
  /\ WF_lockVars(DeadlinePasses(c))

FairSpec == LockSpec /\ Fairness

-----------------------------------------------------------------------------

Holders == {c \in Contenders : pc[c] \in Owning}

(***************************************************************************)
(* Until a lock file has grown stale, no two contenders are between a      *)
(* successful create_new and the end of their guard's drop, whatever       *)
(* crashes, failed writes and failed removals happen (lockfile.rs 106-173).*)
(***************************************************************************)
MutualExclusionUntilStale ==
  aged = 0 => \A c, d \in Holders : c = d

(***************************************************************************)
(* What keeps the lock exclusive until then: every owner's file is on disk *)
(* under its own payload, so the drop removes only its own file.           *)
(***************************************************************************)
OwnerHasItsFile ==
  aged = 0 => \A c \in Holders :
                /\ file # NoFile
                /\ file.by = c
                /\ pc[c] \in {"held", "drop_read", "drop_remove"} => file.written

(***************************************************************************)
(* Every call of acquire_timeout returns, with a guard, a timeout or an    *)
(* error, unless a stale file that cannot be removed stays in its way for  *)
(* ever: then the loop never looks at its deadline (lockfile.rs 86-103).   *)
(***************************************************************************)
AcquireReturns ==
  []<>(file # NoFile => ~file.stale) =>
    \A c \in Contenders : (pc[c] \in Acquiring) ~> (pc[c] \notin Acquiring)

(***************************************************************************)
(* A released lock does not stay locked: as long as every removal worked   *)
(* and nobody died, the path is free once no contender owns the lock,      *)
(* after takeovers, timeouts and failed writes too (lockfile.rs 129-148,   *)
(* 168).                                                                   *)
(***************************************************************************)
NoOrphanFile == ~lapse /\ Holders = {} => file = NoFile

(***************************************************************************)
(* The file lock implements the lease its callers rely on.                 *)
(***************************************************************************)
Lease == INSTANCE LeaseLock WITH holding <- Holders, suspect <- (aged > 0)
LeaseSpec == Lease!Spec

(***************************************************************************)
(* The lock file stands for its holder: there is one holder until a file   *)
(* grows stale, its file is there under its name, and no file is left that *)
(* nobody will remove (lockfile.rs 76-175).                                *)
(***************************************************************************)
FileStandsForHolder == LockTypeOK /\ OwnerHasItsFile /\ MutualExclusionUntilStale /\ NoOrphanFile
==============================================================================
