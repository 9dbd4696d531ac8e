------------------------------- MODULE Daemon -------------------------------
(***************************************************************************)
(* daemon.c: instances of the program that start at the same time, and the *)
(* pid file with its lock that is to keep all but one of them from         *)
(* running.                                                                *)
(***************************************************************************)
EXTENDS Integers, FiniteSets

CONSTANTS Instances     \* processes that call daemonize()

VARIABLES at,           \* where each instance is
          file,         \* the inode the pid file's path names, or 0
          opened,       \* the inode each instance has open, or 0
          lockedBy,     \* inode -> instance that holds its lock
          inodes,       \* inodes made so far
          orphaned      \* history: instances whose open file a refused one has removed

daemonVars == <<at, file, opened, lockedBy, inodes, orphaned>>

Inodes  == 1 .. 2 * Cardinality(Instances)
Nobody  == "nobody"

ASSUME DaemonAssumption == IsFiniteSet(Instances) /\ Nobody \notin Instances

DaemonStart ==
    /\ at = [i \in Instances |-> "start"]
    /\ file = 0 /\ inodes = 0 /\ orphaned = {}
    /\ opened = [i \in Instances |-> 0]
    /\ lockedBy = [n \in Inodes |-> Nobody]

\* stat(): an existing pid file ends the start.
DaemonStat(i) ==
    /\ at[i] = "start"
    /\ at' = [at EXCEPT ![i] = IF file = 0 THEN "checked" ELSE "exited"]
    /\ UNCHANGED <<file, opened, lockedBy, inodes, orphaned>>

\* open(O_CREAT) after the optional fork.
DaemonOpen(i) ==
    /\ at[i] = "checked"
    /\ at' = [at EXCEPT ![i] = "opened"]
    /\ IF file = 0
       THEN inodes' = inodes + 1 /\ file' = inodes + 1 /\ opened' = [opened EXCEPT ![i] = inodes + 1]
       ELSE opened' = [opened EXCEPT ![i] = file] /\ UNCHANGED <<inodes, file>>
    /\ UNCHANGED <<lockedBy, orphaned>>

\* Mutant: the lock is not asked for.
LockGrantedAlways(i) == TRUE

\* lockf(F_TLOCK)
LockGranted(i) == lockedBy[opened[i]] = Nobody

\* With the lock the instance writes its pid and runs.
DaemonLock(i) ==
    /\ at[i] = "opened" /\ LockGranted(i)
    /\ lockedBy' = [lockedBy EXCEPT ![opened[i]] = i]
    /\ at' = [at EXCEPT ![i] = "running"]
    /\ UNCHANGED <<file, opened, inodes, orphaned>>

\* Without it the instance is refused.
DaemonRefused(i) ==
    /\ at[i] = "opened" /\ ~LockGranted(i)
    /\ at' = [at EXCEPT ![i] = "refused"]
    /\ UNCHANGED <<file, opened, lockedBy, inodes, orphaned>>

\* A refused instance removes what the path names by then, and exits.
DaemonUnlink(i) ==
    /\ at[i] = "refused"
    /\ file' = 0
    /\ orphaned' = IF file = 0 THEN orphaned ELSE orphaned \cup {j \in Instances : opened[j] = file}
    /\ at' = [at EXCEPT ![i] = "exited"]
    /\ opened' = [opened EXCEPT ![i] = 0]
    /\ UNCHANGED <<lockedBy, inodes>>

\* An instance ends and its lock with it.
DaemonExit(i) ==
    /\ at[i] = "running"
    /\ at' = [at EXCEPT ![i] = "exited"]
    /\ lockedBy' = [lockedBy EXCEPT ![opened[i]] = Nobody]
    /\ opened' = [opened EXCEPT ![i] = 0]
    /\ UNCHANGED <<file, inodes, orphaned>>

DaemonNext ==
    \E i \in Instances :
        \/ DaemonStat(i) \/ DaemonOpen(i) \/ DaemonLock(i)
        \/ DaemonRefused(i) \/ DaemonUnlink(i) \/ DaemonExit(i)

DaemonSpec == DaemonStart /\ [][DaemonNext]_daemonVars

-----------------------------------------------------------------------------
\* Types of the instances and the pid file.
DaemonTypeOK ==
    /\ at \in [Instances -> {"start", "checked", "opened", "refused", "running", "exited"}]
    /\ file \in Inodes \cup {0} /\ opened \in [Instances -> Inodes \cup {0}]
    /\ lockedBy \in [Inodes -> Instances \cup {Nobody}]
    /\ inodes \in Nat /\ orphaned \subseteq Instances

Running == {i \in Instances : at[i] = "running"}

\* However starts race, stat, open, are refused and remove what they find, at most one
\* running instance has the file it opened still at the path; every other one that runs
\* had its file removed under it by a refused start (daemon.c:80).
OneInstance == Cardinality(Running \ orphaned) <= 1

\* daemon.c:77: "try to lock the pid file, so we can ensure only one instance runs".
OnlyOneRuns == Cardinality(Running) <= 1
=============================================================================
