------------------------------ MODULE Subproc ------------------------------
(***************************************************************************)
(* subproc.c: one child-process handle, its pipes and its pid, through     *)
(* spawn with its partial failures, reap, close and stop.  The child may   *)
(* exit between any two steps; a pid that has been reaped may be given to  *)
(* a process of somebody else.                                             *)
(***************************************************************************)
EXTENDS Integers, Sequences, FiniteSets, SequencesExt

CONSTANTS MaxSpawn,     \* bound: calls of subproc_spawn()
          ParentFds,    \* descriptors of the parent when it calls subproc_spawn_fds()
          Mappings,     \* descriptor mappings passed to it
          CloseLists    \* descriptors it is told to close in the child

ASSUME SubprocAssumption ==
    /\ MaxSpawn \in Nat \ {0}
    /\ ParentFds \subseteq Nat /\ IsFiniteSet(ParentFds)
    /\ \A maps \in Mappings : maps \in Seq([source : ParentFds, target : Nat])

VARIABLES pid, input, output, error_fd, running,    \* the fields of subproc_t
          spawned,      \* calls of spawn so far; a child gets that number as its pid
          proc,         \* the kernel's view of each pid
          fds,          \* descriptors of the parent that are open
          stopping,     \* where subproc_stop() is
          polls,        \* waits left before SIGKILL
          taken,        \* children that the program collected elsewhere, behind the handle's back
          stray,        \* pids that were signalled when they were no child of ours
          abandoned,    \* history: ends whose handle was given to another child
          inherited     \* the last subproc_spawn_fds(): its arguments and the child's descriptors

handle == <<pid, input, output, error_fd, running>>
subprocVars == <<handle, spawned, proc, fds, stopping, polls, stray, taken, abandoned, inherited>>

NoPid   == -1
NoFd    == <<0, "none">>
Waits   == 2                   \* bound: the 20 waits of 50 ms
Pids    == 1 .. MaxSpawn
Ends    == {"in.r", "in.w", "out.r", "out.w", "err.r", "err.w"}
Pipes(n, merge) == {n} \X (IF merge THEN Ends \ {"err.r", "err.w"} ELSE Ends)

\* The ends that exist when setting up the pipes fails: in one of the three pipe()
\* calls, or later, when descriptors are marked or duplicated or in fork().
Made(n, merge, where) ==
    CASE where = "first pipe"  -> {}
      [] where = "second pipe" -> {n} \X {"in.r", "in.w"}
      [] where = "third pipe"  -> {n} \X {"in.r", "in.w", "out.r", "out.w"}
      [] where = "later"       -> Pipes(n, merge)

SetupFailures(merge) == {"first pipe", "second pipe", "later"} \cup IF merge THEN {} ELSE {"third pipe"}

\* The descriptors the parent makes for dup2() in the child: one for each of the first
\* k mappings.  subproc_spawn() maps the three standard descriptors.
Duplicates(n, k) == {n} \X {"dup"} \X (1 .. k)
Standard == 3

\* Mutant: the duplicates are closed only when all of them were made.
ClosedDupsAll(n, k) == IF k = Standard THEN Duplicates(n, k) ELSE {}

\* The parent closes as many as it made, with a child or without.
ClosedDups(n, k) == Duplicates(n, k)
DupsLeft(n, k)   == Duplicates(n, k) \ ClosedDups(n, k)

\* Which fdopen() fails once the child exists.
StreamFailures == {"input", "output", "both"}

-----------------------------------------------------------------------------
SubprocStart ==
    /\ pid = NoPid /\ input = NoFd /\ output = NoFd /\ error_fd = NoFd /\ running = FALSE
    /\ spawned = 0 /\ proc = [p \in Pids |-> "unused"]
    /\ inherited = [maps |-> <<>>, closed |-> {}, table |-> <<>>]
    /\ fds = {} /\ abandoned = {} /\ stopping = "no" /\ polls = 0 /\ stray = {} /\ taken = {}

\* subproc_reset()
Reset ==
    pid' = NoPid /\ input' = NoFd /\ output' = NoFd /\ error_fd' = NoFd /\ running' = FALSE

\* A handle without a pid may be given to another child.
MaySpawn == stopping = "no" /\ pid = NoPid /\ spawned < MaxSpawn

\* subproc_reset() before a spawn drops the pipes of a child that was reaped and never
\* closed ("Stop an existing child before reusing its handle").
GiveUp == abandoned' = abandoned \cup ({input, output, error_fd} \ {NoFd})

\* The failure paths close every end that was made.
ClosedByFailure(ends) == ends

\* subproc_spawn() that fails before there is a child, with k duplicates made.
SpawnFails(merge, where, k) ==
    LET n    == spawned + 1
        made == Made(n, merge, where)
    IN
    /\ MaySpawn /\ GiveUp
    /\ where # "later" => k = 0
    /\ spawned' = n
    /\ Reset
    /\ fds' = fds \cup (made \ ClosedByFailure(made)) \cup DupsLeft(n, k)
    /\ UNCHANGED <<proc, stopping, polls, stray, taken, inherited>>

\* subproc_spawn(): the child has its ends and the parent keeps the others.
Spawn(merge) ==
    LET n == spawned + 1
        error == IF merge THEN NoFd ELSE <<n, "err.r">>
    IN
    /\ MaySpawn /\ GiveUp
    /\ spawned' = n
    /\ proc' = [proc EXCEPT ![n] = "running"]
    /\ pid' = n /\ running' = TRUE
    /\ input' = <<n, "in.w">> /\ output' = <<n, "out.r">> /\ error_fd' = error
    /\ fds' = fds \cup (Pipes(n, merge) \ ({n} \X {"in.r", "out.w", "err.w"})) \cup DupsLeft(n, Standard)
    /\ UNCHANGED <<stopping, polls, stray, taken, inherited>>

\* fdopen() fails after the fork: its descriptor is closed, and the child stopped.
SpawnStreamFails(merge, which) ==
    LET n == spawned + 1
        failed == CASE which = "input" -> {"in.w"} [] which = "output" -> {"out.r"} [] OTHER -> {"in.w", "out.r"}
    IN
    /\ MaySpawn /\ GiveUp
    /\ spawned' = n
    /\ proc' = [proc EXCEPT ![n] = "running"]
    /\ pid' = n /\ running' = FALSE
    /\ input' = IF "in.w" \in failed THEN NoFd ELSE <<n, "in.w">>
    /\ output' = IF "out.r" \in failed THEN NoFd ELSE <<n, "out.r">>
    /\ error_fd' = IF merge THEN NoFd ELSE <<n, "err.r">>
    /\ fds' = fds \cup (Pipes(n, merge) \ ({n} \X ({"in.r", "out.w", "err.w"} \cup failed))) \cup DupsLeft(n, Standard)
    /\ stopping' = "close"
    /\ UNCHANGED <<polls, stray, taken, inherited>>

(* subproc_spawn_fds(): the child's descriptors *)

\* The parent's descriptors: number -> file.
ParentTable == [d \in ParentFds |-> <<"file", d>>]

\* Mutant: duplicates are made above the standard descriptors only.
FirstFdLow(maps) == 3

\* Duplicates of the sources are numbered above every target.
FirstFd(maps) == Max({3} \cup {maps[i].target + 1 : i \in DOMAIN maps})

LowestFree(table, first) ==
    Min({d \in first .. first + Cardinality(DOMAIN table) : d \notin DOMAIN table})

\* Descriptor "to" made a duplicate of "from".
Dup2(table, from, to) ==
    [d \in DOMAIN table \cup {to} |-> IF d = to THEN table[from] ELSE table[d]]

\* fcntl(F_DUPFD) of every source, in order: the descriptors then, and the duplicates.
Duplicated(maps) ==
    LET made[n \in 0 .. Len(maps)] ==
            IF n = 0 THEN [table |-> ParentTable, dups |-> <<>>]
            ELSE LET last == made[n - 1]
                     free == LowestFree(last.table, FirstFd(maps))
                 IN  [table |-> Dup2(last.table, maps[n].source, free), dups |-> Append(last.dups, free)]
    IN  made[Len(maps)]

\* What the child holds at execv(): dup2() of each duplicate to its target, the
\* duplicates closed, then the descriptors it was told to close unless mapped.
ChildTable(maps, closed) ==
    LET made    == Duplicated(maps)
        targets == {maps[i].target : i \in DOMAIN maps}
        mapped[n \in 0 .. Len(maps)] ==
            IF n = 0 THEN made.table ELSE Dup2(mapped[n - 1], made.dups[n], maps[n].target)
        child   == mapped[Len(maps)]
        open    == (DOMAIN child \ ToSet(made.dups)) \ (closed \ targets)
    IN  [d \in open |-> child[d]]

\* Two mappings to one target are refused before anything is made.
Distinct(maps) == \A i, j \in DOMAIN maps : maps[i].target = maps[j].target => i = j

\* A child with the caller's descriptors and no pipes of its own.
SpawnFds(maps, closed) ==
    LET n == spawned + 1 IN
    /\ MaySpawn /\ GiveUp
    /\ Distinct(maps)
    /\ spawned' = n
    /\ proc' = [proc EXCEPT ![n] = "running"]
    /\ pid' = n /\ running' = TRUE /\ input' = NoFd /\ output' = NoFd /\ error_fd' = NoFd
    /\ inherited' = [maps |-> maps, closed |-> closed, table |-> ChildTable(maps, closed)]
    /\ fds' = fds \cup DupsLeft(n, Len(maps))
    /\ UNCHANGED <<stopping, polls, stray, taken>>

\* The same when a source cannot be duplicated after k others, or fork() fails: the
\* handle stays as it is.
SpawnFdsFails(maps, k) ==
    /\ MaySpawn
    /\ Distinct(maps)
    /\ spawned' = spawned + 1
    /\ fds' = fds \cup DupsLeft(spawned + 1, k)
    /\ UNCHANGED <<handle, proc, stopping, polls, stray, taken, abandoned, inherited>>

\* subproc_close(): the streams and the error pipe, whatever the child does.
Close ==
    /\ input' = NoFd /\ output' = NoFd /\ error_fd' = NoFd
    /\ fds' = fds \ {input, output, error_fd}

SubprocClose ==
    /\ stopping = "no"
    /\ {input, output, error_fd} # {NoFd}
    /\ Close
    /\ UNCHANGED <<pid, running, spawned, proc, stopping, polls, stray, taken, abandoned, inherited>>

-----------------------------------------------------------------------------
\* The child ends, of itself or by a signal it does not survive.
ChildExits(p) ==
    /\ proc[p] \in {"running", "signalled", "killed"}
    /\ proc' = [proc EXCEPT ![p] = "zombie"]
    /\ UNCHANGED <<handle, spawned, fds, stopping, polls, stray, taken, abandoned, inherited>>

\* The kernel gives a collected pid to an unrelated process.
PidReused(p) ==
    /\ proc[p] = "gone"
    /\ proc' = [proc EXCEPT ![p] = "stranger"]
    /\ UNCHANGED <<handle, spawned, fds, stopping, polls, stray, taken, abandoned, inherited>>

\* The program waits for any child (waitpid(-1), or a handler of SIGCHLD) and gets ours.
HostCollects(p) ==
    /\ proc[p] = "zombie"
    /\ proc' = [proc EXCEPT ![p] = "gone"]
    /\ taken' = taken \cup {p}
    /\ UNCHANGED <<handle, spawned, fds, stopping, polls, stray, abandoned, inherited>>

\* Mutant: the pid is kept although it has been collected.
ForgetNothing == pid' = pid /\ running' = FALSE

\* The handle after its child has been collected.
Forget == pid' = NoPid /\ running' = FALSE

\* Mutant: ECHILD is taken for a child that is still there.
EndedZombie == proc[pid] = "zombie"

\* waitpid() on the handle's pid: the child is collected, or it was before and
\* waitpid() says ECHILD.
Ended == proc[pid] \in {"zombie", "gone", "stranger"}
WaitPid == proc' = IF proc[pid] = "zombie" THEN [proc EXCEPT ![pid] = "gone"] ELSE proc

\* subproc_reap(): waitpid(WNOHANG) finds the child gone.
SubprocReap ==
    /\ stopping = "no" /\ pid # NoPid /\ Ended
    /\ WaitPid
    /\ Forget
    /\ UNCHANGED <<input, output, error_fd, spawned, fds, stopping, polls, stray, taken, abandoned, inherited>>

-----------------------------------------------------------------------------
\* subproc_stop()
SubprocStop ==
    /\ stopping = "no"
    /\ pid # NoPid \/ {input, output, error_fd} # {NoFd}
    /\ stopping' = "close"
    /\ UNCHANGED <<handle, spawned, proc, fds, polls, stray, taken, abandoned, inherited>>

\* Its subproc_close(), and the return for a handle without a child.
StopClose ==
    /\ stopping = "close"
    /\ Close
    /\ IF pid = NoPid
       THEN /\ pid' = NoPid /\ running' = FALSE /\ stopping' = "no"
       ELSE /\ stopping' = "signal" /\ UNCHANGED <<pid, running>>
    /\ UNCHANGED <<spawned, proc, polls, stray, taken, abandoned, inherited>>

Delivered(p, sig) ==
    CASE proc[p] = "running" -> sig
      [] proc[p] = "signalled" /\ sig = "killed" -> sig
      [] OTHER -> proc[p]

\* kill(pid, sig), which says ESRCH of a pid that is nobody's.
Kill(sig) ==
    /\ proc' = [proc EXCEPT ![pid] = Delivered(pid, sig)]
    /\ stray' = IF proc[pid] = "stranger" THEN stray \cup {pid} ELSE stray

\* kill(pid, signal_number), then up to 20 waits of 50 ms.
StopSignal ==
    /\ stopping = "signal"
    /\ Kill("signalled")
    /\ stopping' = "poll" /\ polls' = Waits
    /\ UNCHANGED <<handle, spawned, fds, taken, abandoned, inherited>>

\* The process may not be signalled (it changed its user), neither at first nor with
\* SIGKILL after the waits: the caller keeps the handle.
StopRefused ==
    /\ stopping = "signal" \/ (stopping = "poll" /\ polls = 0)
    /\ proc[pid] # "gone"
    /\ stopping' = "no"
    /\ UNCHANGED <<handle, spawned, proc, fds, polls, stray, taken, abandoned, inherited>>

\* waitpid() among the waits, or the one after SIGKILL, ends the child: the handle is
\* reset.
StopCollect ==
    /\ stopping = "wait" \/ (stopping = "poll" /\ polls > 0)
    /\ Ended
    /\ WaitPid
    /\ Reset
    /\ stopping' = "no"
    /\ UNCHANGED <<spawned, fds, polls, stray, taken, abandoned, inherited>>

\* The child is still there: wait once more.
StopPoll ==
    /\ stopping = "poll" /\ polls > 0 /\ ~Ended
    /\ polls' = polls - 1
    /\ UNCHANGED <<handle, spawned, proc, fds, stopping, stray, taken, abandoned, inherited>>

\* SIGKILL after the last wait, whatever became of the child meanwhile.
StopKill ==
    /\ stopping = "poll" /\ polls = 0
    /\ Kill("killed")
    /\ stopping' = "wait"
    /\ UNCHANGED <<handle, spawned, fds, polls, taken, abandoned, inherited>>

StopSteps == StopClose \/ StopSignal \/ StopRefused \/ StopCollect \/ StopPoll \/ StopKill

SubprocNext ==
    \/ \E merge \in BOOLEAN :
          \/ Spawn(merge)
          \/ \E where \in SetupFailures(merge), k \in 0 .. Standard : SpawnFails(merge, where, k)
          \/ \E which \in StreamFailures : SpawnStreamFails(merge, which)
    \/ \E maps \in Mappings, closed \in CloseLists : SpawnFds(maps, closed)
    \/ \E maps \in Mappings : \E k \in 0 .. Len(maps) : SpawnFdsFails(maps, k)
    \/ SubprocClose \/ SubprocReap \/ SubprocStop \/ StopSteps
    \/ \E p \in Pids : ChildExits(p) \/ PidReused(p) \/ HostCollects(p)

SubprocSpec == SubprocStart /\ [][SubprocNext]_subprocVars

\* A call of stop runs on, and a child that was killed with SIGKILL ends.
SubprocFairness ==
    /\ WF_subprocVars(StopSteps)
    /\ \A p \in Pids : WF_subprocVars(proc[p] = "killed" /\ ChildExits(p))

-----------------------------------------------------------------------------
\* A child that waitpid() has not collected.
Uncollected == {"running", "signalled", "killed", "zombie"}

\* Types of the handle and of the kernel's tables.
SubprocTypeOK ==
    /\ pid \in Pids \cup {NoPid} /\ running \in BOOLEAN
    /\ stray \subseteq Pids /\ taken \subseteq Pids
    /\ {input, output, error_fd} \subseteq fds \cup {NoFd}
    /\ proc \in [Pids -> Uncollected \cup {"unused", "gone", "stranger"}]
    /\ fds \subseteq (Pids \X Ends) \cup (Pids \X {"dup"} \X Nat) /\ spawned \in 0 .. MaxSpawn
    /\ stopping \in {"no", "close", "signal", "poll", "wait"} /\ polls \in 0 .. Waits

\* The handle accounts for everything spawn made, on every path out of spawn, reap,
\* close and stop: the open descriptors of the parent are the handle's, but for those
\* a caller gave up by spawning on a handle it had not closed, a child that
\* has not been collected is the handle's pid, and no signal went to anybody else
\* ("Clears pid after reaping so stop cannot signal a recycled PID"), unless the program
\* collected the child where the handle could not know of it.
HandleOwnsAll ==
    /\ fds \subseteq {input, output, error_fd} \cup abandoned
    /\ \A p \in Pids : proc[p] \in Uncollected => p = pid
    /\ stray \subseteq taken

\* The child finds each source at its target and none of the descriptors it was told
\* to close, however sources and targets overlap ("all mappings are applied without
\* clobbering sources").
MappingsHonoured ==
    LET maps == inherited.maps IN
    /\ \A i \in DOMAIN maps :
          /\ maps[i].target \in DOMAIN inherited.table
          /\ inherited.table[maps[i].target] = ParentTable[maps[i].source]
    /\ \A d \in inherited.closed :
          d \in DOMAIN inherited.table => \E i \in DOMAIN maps : maps[i].target = d

\* A stop returns, whatever the child makes of the first signal ("escalating to
\* SIGKILL after about one second").
StopReturns == stopping # "no" ~> stopping = "no"
=============================================================================
