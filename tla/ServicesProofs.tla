--------------------------- MODULE ServicesProofs ---------------------------
(***************************************************************************)
(* Proofs about the parts that face the operating system and the network:  *)
(* the child-process handle, for any number of spawns and any descriptors  *)
(* passed on; a transport, for any number of events and whatever its       *)
(* callback does; the SOCKS handshake, however its bytes are cut into      *)
(* reads; borrowed line settings and the links of any number of pseudo-    *)
(* terminals; the pid file of any number of instances.                     *)
(***************************************************************************)
EXTENDS Subproc, Transport, Socks, Serial, Daemon, FoldProofs, SequenceTheorems

-----------------------------------------------------------------------------
(* Child processes.                                                        *)

Held == {input, output, error_fd}

\* The pid of the handle is a child that has not been collected, which the kernel
\* cannot have given to anybody else, unless the program collected it elsewhere; pids
\* not handed out yet are unused.
PidIsOurs ==
    /\ pid # NoPid => proc[pid] \in Uncollected \/ (pid \in taken /\ proc[pid] \in {"gone", "stranger"})
    /\ \A p \in Pids : p > spawned => proc[p] = "unused"

\* A stop that signals has a child to signal and has closed its pipes.
StopHasChild == stopping \in {"signal", "poll", "wait"} => pid # NoPid /\ Held = {NoFd}

\* Only ends of pipes stay open in the parent.
NoDuplicates == fds \subseteq Pids \X Ends

SubprocInv == SubprocTypeOK /\ HandleOwnsAll /\ PidIsOurs /\ StopHasChild /\ NoDuplicates

-----------------------------------------------------------------------------
LEMMA Numbers ==
    /\ MaxSpawn \in Nat /\ NoPid \notin Pids /\ Waits = 2 /\ NoFd \notin Pids \X Ends
    /\ \A n \in 0 .. MaxSpawn : n < MaxSpawn => n + 1 \in Pids /\ n + 1 \in 0 .. MaxSpawn
BY SubprocAssumption DEF Pids, NoPid, NoFd, Waits

\* Every duplicate that was made is closed.
LEMMA NoneLeft == \A n, k : DupsLeft(n, k) = {}
BY DEF DupsLeft, ClosedDups

\* The ends the parent keeps are the handle's.
LEMMA EndsKept ==
    ASSUME NEW n \in Pids, NEW merge \in BOOLEAN
    PROVE  /\ Pipes(n, merge) \subseteq Pids \X Ends
           /\ \A gone : {"in.r", "out.w", "err.w"} \subseteq gone =>
                 Pipes(n, merge) \ ({n} \X gone)
                   \subseteq {<<n, e>> : e \in (IF merge THEN {"in.w", "out.r"} ELSE {"in.w", "out.r", "err.r"}) \ gone}
           /\ \A gone : {<<n, e>> : e \in (IF merge THEN {"in.w", "out.r"} ELSE {"in.w", "out.r", "err.r"}) \ gone}
                 \subseteq Pipes(n, merge) \ ({n} \X gone)
BY DEF Pipes, Ends

LEMMA SubprocInit == SubprocStart => SubprocInv
<1> SUFFICES ASSUME SubprocStart PROVE SubprocInv
  OBVIOUS
<1>1. SubprocTypeOK
  <2>1. spawned \in 0 .. MaxSpawn /\ polls \in 0 .. Waits
    BY Numbers DEF SubprocStart
  <2>2. proc \in [Pids -> Uncollected \cup {"unused", "gone", "stranger"}]
    BY DEF SubprocStart
  <2> QED  BY <2>1, <2>2 DEF SubprocStart, SubprocTypeOK
<1>2. HandleOwnsAll /\ PidIsOurs /\ StopHasChild /\ NoDuplicates
  BY DEF SubprocStart, HandleOwnsAll, PidIsOurs, StopHasChild, Uncollected, NoDuplicates
<1> QED  BY <1>1, <1>2 DEF SubprocInv

\* A spawn that made a child, with the ends in kept open.
LEMMA Spawned ==
    ASSUME SubprocInv, MaySpawn, GiveUp, NEW kept,
           spawned' = spawned + 1, pid' = spawned + 1, running' \in BOOLEAN,
           proc' = [proc EXCEPT ![spawned + 1] = "running"],
           fds' = fds \cup kept, kept \subseteq Pids \X Ends,
           Held' \subseteq kept \cup {NoFd}, kept \subseteq Held',
           stopping' \in {"no", "close"}, UNCHANGED <<polls, stray, taken>>
    PROVE  SubprocInv'
<1> USE DEF SubprocInv
<1> DEFINE n == spawned + 1
<1>1. n \in Pids /\ spawned' \in 0 .. MaxSpawn /\ n # NoPid
  BY Numbers DEF MaySpawn, SubprocTypeOK
<1>2. \A p \in Pids : proc[p] \notin Uncollected
  BY Numbers DEF MaySpawn, HandleOwnsAll
<1>3. proc'[n] = "running" /\ \A p \in Pids \ {n} : proc'[p] = proc[p]
  BY <1>1 DEF SubprocTypeOK
<1>4. SubprocTypeOK'
  <2>1. proc' \in [Pids -> Uncollected \cup {"unused", "gone", "stranger"}]
    BY <1>1 DEF SubprocTypeOK, Uncollected
  <2>2. fds' \subseteq Pids \X Ends /\ {input', output', error_fd'} \subseteq fds' \cup {NoFd}
    BY DEF SubprocTypeOK, NoDuplicates, Held
  <2> QED  BY <1>1, <2>1, <2>2 DEF SubprocTypeOK
<1>5. HandleOwnsAll'
  <2>1. fds' \subseteq Held' \cup abandoned'
    BY Numbers DEF HandleOwnsAll, GiveUp, Held, NoDuplicates
  <2>2. \A p \in Pids : proc'[p] \in Uncollected => p = pid'
    BY <1>2, <1>3
  <2> QED  BY <2>1, <2>2 DEF HandleOwnsAll, Held
<1>6. PidIsOurs'
  <2>1. \A p \in Pids : p > n => p > spawned /\ p # n
    BY DEF Pids, SubprocTypeOK
  <2> QED  BY <1>1, <1>3, <2>1 DEF PidIsOurs, Uncollected
<1>7. StopHasChild' /\ NoDuplicates'
  BY DEF StopHasChild, NoDuplicates
<1> QED  BY <1>4, <1>5, <1>6, <1>7

\* A step of the kernel or of stop that only moves one process on.
LEMMA ProcessMoves ==
    ASSUME SubprocInv, NEW p \in Pids, NEW s \in Uncollected \cup {"gone", "stranger"},
           proc' = [proc EXCEPT ![p] = s], proc[p] # "unused",
           s \in Uncollected <=> proc[p] \in Uncollected
    PROVE  /\ proc' \in [Pids -> Uncollected \cup {"unused", "gone", "stranger"}]
           /\ \A q \in Pids : proc'[q] \in Uncollected <=> proc[q] \in Uncollected
           /\ \A q \in Pids : proc'[q] = "unused" <=> proc[q] = "unused"
<1>1. proc'[p] = s /\ \A q \in Pids \ {p} : proc'[q] = proc[q]
  BY DEF SubprocInv, SubprocTypeOK
<1>2. s # "unused"
  BY DEF Uncollected
<1>3. proc' \in [Pids -> Uncollected \cup {"unused", "gone", "stranger"}]
  BY DEF SubprocInv, SubprocTypeOK
<1> QED  BY <1>1, <1>2, <1>3

\* waitpid() on a child that has ended, which the handle forgets.
LEMMA Collected ==
    ASSUME SubprocInv, pid # NoPid, Ended, WaitPid,
           pid' = NoPid, running' = FALSE, stopping' = "no",
           Held' \subseteq fds \cup {NoFd}, fds \subseteq Held' \cup abandoned,
           UNCHANGED <<spawned, fds, polls, stray, taken, abandoned>>
    PROVE  SubprocInv'
<1> USE DEF SubprocInv
<1>1. pid \in Pids /\ proc[pid] # "unused"
  BY DEF SubprocTypeOK, Ended
<1>2. proc'[pid] \in {"gone", "stranger"} /\ \A q \in Pids \ {pid} : proc'[q] = proc[q]
  BY <1>1 DEF SubprocTypeOK, Ended, WaitPid
<1>3. proc' \in [Pids -> Uncollected \cup {"unused", "gone", "stranger"}]
  BY DEF SubprocTypeOK, WaitPid
<1>4. SubprocTypeOK'
  BY <1>3 DEF SubprocTypeOK, Held
<1>5. HandleOwnsAll'
  BY <1>2 DEF HandleOwnsAll, Held, Uncollected
<1>6. PidIsOurs' /\ StopHasChild' /\ NoDuplicates'
  BY <1>1, <1>2 DEF PidIsOurs, StopHasChild, NoDuplicates
<1> QED  BY <1>4, <1>5, <1>6

LEMMA SubprocStep == SubprocInv /\ [SubprocNext]_subprocVars => SubprocInv'
<1> SUFFICES ASSUME SubprocInv, [SubprocNext]_subprocVars PROVE SubprocInv'
  OBVIOUS
<1> USE DEF SubprocInv
<1>1. ASSUME NEW merge \in BOOLEAN, Spawn(merge) PROVE SubprocInv'
  <2> DEFINE n == spawned + 1
             kept == Pipes(n, merge) \ ({n} \X {"in.r", "out.w", "err.w"})
  <2>1. n \in Pids
    BY <1>1, Numbers DEF Spawn, MaySpawn, SubprocTypeOK
  <2>2. kept = {<<n, e>> : e \in IF merge THEN {"in.w", "out.r"} ELSE {"in.w", "out.r", "err.r"}}
    BY <2>1 DEF Pipes, Ends
  <2>3. kept \subseteq Pids \X Ends
    BY <2>1, EndsKept
  <2>4. Held' = {<<n, "in.w">>, <<n, "out.r">>, IF merge THEN NoFd ELSE <<n, "err.r">>}
    BY <1>1 DEF Spawn, Held
  <2>5. Held' \subseteq kept \cup {NoFd} /\ kept \subseteq Held'
    BY <2>2, <2>4
  <2>6. fds' = fds \cup kept /\ running' \in BOOLEAN
    BY <1>1, NoneLeft DEF Spawn
  <2>7. /\ MaySpawn /\ GiveUp /\ spawned' = spawned + 1 /\ pid' = spawned + 1 /\ stopping' = "no"
        /\ proc' = [proc EXCEPT ![spawned + 1] = "running"] /\ UNCHANGED <<polls, stray, taken>>
    BY <1>1 DEF Spawn, MaySpawn, GiveUp
  <2> HIDE DEF kept
  <2> QED  BY <2>3, <2>5, <2>6, <2>7, Spawned
<1>2. ASSUME NEW merge \in BOOLEAN, NEW where, NEW k, SpawnFails(merge, where, k)
      PROVE  SubprocInv'
  <2>1. Held' = {NoFd} /\ pid' = NoPid /\ running' = FALSE /\ fds' \subseteq fds
    BY <1>2, NoneLeft DEF SpawnFails, Reset, Held, ClosedByFailure
  <2>2. spawned' \in 0 .. MaxSpawn
    BY <1>2, Numbers DEF SpawnFails, MaySpawn, SubprocTypeOK
  <2>3. SubprocTypeOK'
    BY <1>2, <2>1, <2>2 DEF SpawnFails, SubprocTypeOK, Held
  <2>4. fds' \subseteq abandoned'
    BY <1>2, <2>1, Numbers DEF SpawnFails, GiveUp, HandleOwnsAll, NoDuplicates
  <2>5. HandleOwnsAll'
    BY <1>2, <2>1, <2>4 DEF SpawnFails, MaySpawn, HandleOwnsAll
  <2>6. PidIsOurs'
    <3>1. \A p \in Pids : p > spawned' => p > spawned
      BY <1>2 DEF SpawnFails, SubprocTypeOK, Pids
    <3> QED  BY <1>2, <2>1, <3>1 DEF SpawnFails, PidIsOurs
  <2>7. StopHasChild' /\ NoDuplicates'
    BY <1>2, <2>1 DEF SpawnFails, MaySpawn, StopHasChild, NoDuplicates
  <2> QED  BY <2>3, <2>5, <2>6, <2>7
<1>3. ASSUME NEW merge \in BOOLEAN, NEW which \in StreamFailures, SpawnStreamFails(merge, which)
      PROVE  SubprocInv'
  <2> DEFINE n == spawned + 1
             failed == CASE which = "input" -> {"in.w"} [] which = "output" -> {"out.r"} [] OTHER -> {"in.w", "out.r"}
             kept == Pipes(n, merge) \ ({n} \X ({"in.r", "out.w", "err.w"} \cup failed))
  <2>1. n \in Pids
    BY <1>3, Numbers DEF SpawnStreamFails, MaySpawn, SubprocTypeOK
  <2>2. failed \subseteq {"in.w", "out.r"}
    OBVIOUS
  <2>3. /\ fds' = fds \cup kept /\ running' \in BOOLEAN
        /\ Held' = {IF "in.w" \in failed THEN NoFd ELSE <<n, "in.w">>,
                    IF "out.r" \in failed THEN NoFd ELSE <<n, "out.r">>,
                    IF merge THEN NoFd ELSE <<n, "err.r">>}
    BY <1>3, NoneLeft DEF SpawnStreamFails, Held
  <2> HIDE DEF failed
  <2>4. kept = {<<n, e>> : e \in (IF merge THEN {"in.w", "out.r"} ELSE {"in.w", "out.r", "err.r"}) \ failed}
    BY <2>1, <2>2 DEF Pipes, Ends
  <2>5. kept \subseteq Pids \X Ends
    BY <2>1, EndsKept
  <2>6. Held' \subseteq kept \cup {NoFd} /\ kept \subseteq Held'
    BY <2>2, <2>3, <2>4
  <2>7. /\ MaySpawn /\ GiveUp /\ spawned' = spawned + 1 /\ pid' = spawned + 1 /\ stopping' = "close"
        /\ proc' = [proc EXCEPT ![spawned + 1] = "running"] /\ UNCHANGED <<polls, stray, taken>>
    BY <1>3 DEF SpawnStreamFails
  <2> HIDE DEF kept
  <2> QED  BY <2>3, <2>5, <2>6, <2>7, Spawned
<1>4. ASSUME NEW maps \in Mappings, NEW closed \in CloseLists, SpawnFds(maps, closed) PROVE SubprocInv'
  <2>1. Held' = {NoFd} /\ fds' = fds \cup {} /\ running' \in BOOLEAN
    BY <1>4, NoneLeft DEF SpawnFds, Held
  <2>2. /\ MaySpawn /\ GiveUp /\ spawned' = spawned + 1 /\ pid' = spawned + 1 /\ stopping' = "no"
        /\ proc' = [proc EXCEPT ![spawned + 1] = "running"] /\ UNCHANGED <<polls, stray, taken>>
    BY <1>4 DEF SpawnFds, MaySpawn, GiveUp
  <2> DEFINE kept == {}
  <2>3. fds' = fds \cup kept /\ kept \subseteq Pids \X Ends /\ Held' \subseteq kept \cup {NoFd} /\ kept \subseteq Held'
    BY <2>1
  <2> HIDE DEF kept
  <2> QED  BY <2>1, <2>2, <2>3, Spawned
<1>16. ASSUME NEW maps, NEW k, SpawnFdsFails(maps, k) PROVE SubprocInv'
  <2>1. fds' = fds /\ UNCHANGED <<pid, input, output, error_fd, running, proc, stopping, polls, stray, taken, abandoned>>
    BY <1>16, NoneLeft DEF SpawnFdsFails, handle
  <2>2. spawned' \in 0 .. MaxSpawn /\ \A p \in Pids : p > spawned' => p > spawned
    BY <1>16, Numbers DEF SpawnFdsFails, MaySpawn, SubprocTypeOK, Pids
  <2>3. SubprocTypeOK' /\ HandleOwnsAll' /\ NoDuplicates'
    BY <2>1, <2>2 DEF SubprocTypeOK, HandleOwnsAll, NoDuplicates
  <2>4. PidIsOurs'
    BY <2>1, <2>2 DEF PidIsOurs
  <2>5. StopHasChild'
    BY <2>1 DEF StopHasChild, Held
  <2> QED  BY <2>3, <2>4, <2>5
<1>5. CASE SubprocClose
  <2>1. Held' = {NoFd} /\ fds' = fds \ {input, output, error_fd}
    BY <1>5 DEF SubprocClose, Close, Held
  <2>2. UNCHANGED <<pid, running, spawned, proc, stopping, polls, stray, taken, abandoned>>
    BY <1>5 DEF SubprocClose
  <2>3. SubprocTypeOK'
    BY <2>1, <2>2 DEF SubprocTypeOK, Held
  <2>4. HandleOwnsAll' /\ PidIsOurs' /\ StopHasChild' /\ NoDuplicates'
    BY <2>1, <2>2 DEF HandleOwnsAll, PidIsOurs, StopHasChild, NoDuplicates
  <2> QED  BY <2>3, <2>4
<1>6. CASE SubprocReap
  <2>1. Held' = Held /\ fds \subseteq Held \cup abandoned /\ Held \subseteq fds \cup {NoFd}
    BY <1>6 DEF SubprocReap, Held, HandleOwnsAll, SubprocTypeOK
  <2> QED  BY <1>6, <2>1, Collected DEF SubprocReap, Forget
<1>7. CASE SubprocStop
  <2>1. stopping' = "close" /\ UNCHANGED <<pid, input, output, error_fd, running, spawned, proc, fds, polls, stray, taken, abandoned>>
    BY <1>7 DEF SubprocStop, handle
  <2> QED  BY <2>1 DEF SubprocTypeOK, HandleOwnsAll, PidIsOurs, StopHasChild, NoDuplicates
<1>8. CASE StopClose
  <2>1. Held' = {NoFd} /\ fds' = fds \ {input, output, error_fd}
    BY <1>8 DEF StopClose, Close, Held
  <2>2. UNCHANGED <<pid, spawned, proc, polls, stray, taken, abandoned>>
    BY <1>8 DEF StopClose
  <2>3. running' \in BOOLEAN /\ stopping' \in {"no", "signal"} /\ (stopping' = "signal" => pid # NoPid)
    BY <1>8 DEF StopClose, SubprocTypeOK
  <2>4. SubprocTypeOK'
    BY <2>1, <2>2, <2>3 DEF SubprocTypeOK, Held
  <2>5. HandleOwnsAll' /\ PidIsOurs' /\ NoDuplicates'
    BY <2>1, <2>2 DEF HandleOwnsAll, PidIsOurs, NoDuplicates
  <2>6. StopHasChild'
    BY <2>1, <2>2, <2>3 DEF StopHasChild
  <2> QED  BY <2>4, <2>5, <2>6
<1>9. ASSUME pid # NoPid, NEW sig \in {"signalled", "killed"}, Kill(sig),
             stopping' \in {"poll", "wait"}, Held = {NoFd}, polls' \in 0 .. Waits,
             UNCHANGED <<handle, spawned, fds, taken, abandoned>>
      PROVE  SubprocInv'
  <2>1. pid \in Pids /\ proc[pid] # "unused"
    BY <1>9 DEF SubprocTypeOK, PidIsOurs, Uncollected
  <2>2. /\ Delivered(pid, sig) \in Uncollected \cup {"gone", "stranger"}
        /\ Delivered(pid, sig) \in Uncollected <=> proc[pid] \in Uncollected
        /\ Delivered(pid, sig) \in {"gone", "stranger"} <=> proc[pid] \in {"gone", "stranger"}
    <3>1. proc[pid] \in Uncollected \cup {"unused", "gone", "stranger"}
      BY <2>1 DEF SubprocTypeOK
    <3> QED  BY <2>1, <3>1 DEF Delivered, Uncollected
  <2>3. /\ proc' \in [Pids -> Uncollected \cup {"unused", "gone", "stranger"}]
        /\ \A q \in Pids : proc'[q] \in Uncollected <=> proc[q] \in Uncollected
        /\ \A q \in Pids : proc'[q] = "unused" <=> proc[q] = "unused"
    BY <1>9, <2>1, <2>2, ProcessMoves DEF Kill
  <2>9. proc'[pid] \in {"gone", "stranger"} <=> proc[pid] \in {"gone", "stranger"}
    BY <1>9, <2>1, <2>2 DEF Kill, SubprocTypeOK
  <2>4. stray' \subseteq taken /\ stray' \subseteq Pids
    <3>1. proc[pid] = "stranger" => pid \in taken
      BY <1>9 DEF PidIsOurs, Uncollected
    <3> QED  BY <1>9, <2>1, <3>1 DEF Kill, HandleOwnsAll, SubprocTypeOK
  <2>5. UNCHANGED <<pid, input, output, error_fd, running, spawned, fds, taken, abandoned>>
    BY <1>9 DEF handle
  <2>6. SubprocTypeOK'
    BY <1>9, <2>3, <2>4, <2>5 DEF SubprocTypeOK
  <2>7. HandleOwnsAll' /\ PidIsOurs' /\ NoDuplicates'
    BY <2>1, <2>3, <2>4, <2>5, <2>9 DEF HandleOwnsAll, PidIsOurs, NoDuplicates
  <2>8. StopHasChild'
    BY <1>9, <2>5 DEF StopHasChild, Held
  <2> QED  BY <2>6, <2>7, <2>8
<1>10. CASE StopSignal
  <2>1. pid # NoPid /\ Held = {NoFd} /\ polls' \in 0 .. Waits /\ "signalled" \in {"signalled", "killed"}
    BY <1>10, Numbers DEF StopSignal, StopHasChild
  <2> QED  BY <1>9, <1>10, <2>1 DEF StopSignal
<1>11. CASE StopRefused
  <2>1. stopping' = "no" /\ UNCHANGED <<pid, input, output, error_fd, running, spawned, proc, fds, polls, stray, taken, abandoned>>
    BY <1>11 DEF StopRefused, handle
  <2> QED  BY <2>1 DEF SubprocTypeOK, HandleOwnsAll, PidIsOurs, StopHasChild, NoDuplicates
<1>12. CASE StopCollect
  <2>1. pid # NoPid /\ Held = {NoFd}
    BY <1>12 DEF StopCollect, StopHasChild
  <2>2. Held' = {NoFd} /\ fds \subseteq Held \cup abandoned
    BY <1>12 DEF StopCollect, Reset, Held, HandleOwnsAll
  <2> QED  BY <1>12, <2>1, <2>2, Collected DEF StopCollect, Reset
<1>13. CASE StopPoll
  <2>1. polls' \in 0 .. Waits
    BY <1>13, Numbers DEF StopPoll, SubprocTypeOK
  <2>2. UNCHANGED <<pid, input, output, error_fd, running, spawned, proc, fds, stopping, stray, taken, abandoned>>
    BY <1>13 DEF StopPoll, handle
  <2> QED  BY <2>1, <2>2 DEF SubprocTypeOK, HandleOwnsAll, PidIsOurs, StopHasChild, NoDuplicates, Held
<1>17. CASE StopKill
  <2>1. pid # NoPid /\ Held = {NoFd} /\ polls' \in 0 .. Waits /\ "killed" \in {"signalled", "killed"}
    BY <1>17 DEF StopKill, StopHasChild, SubprocTypeOK
  <2> QED  BY <1>9, <1>17, <2>1 DEF StopKill
<1>18. ASSUME NEW p \in Pids, HostCollects(p) PROVE SubprocInv'
  <2>1. proc[p] = "zombie" /\ proc' = [proc EXCEPT ![p] = "gone"] /\ taken' = taken \cup {p}
    BY <1>18 DEF HostCollects
  <2>2. UNCHANGED <<pid, input, output, error_fd, running, spawned, fds, stopping, polls, stray, abandoned>>
    BY <1>18 DEF HostCollects, handle
  <2>3. proc'[p] = "gone" /\ \A q \in Pids \ {p} : proc'[q] = proc[q]
    BY <2>1 DEF SubprocTypeOK
  <2>4. proc' \in [Pids -> Uncollected \cup {"unused", "gone", "stranger"}]
    BY <2>1 DEF SubprocTypeOK
  <2>5. SubprocTypeOK' /\ NoDuplicates' /\ StopHasChild'
    BY <2>1, <2>2, <2>4 DEF SubprocTypeOK, NoDuplicates, StopHasChild, Held
  <2>6. HandleOwnsAll'
    BY <2>1, <2>2, <2>3 DEF HandleOwnsAll, Uncollected
  <2>7. PidIsOurs'
    BY <2>1, <2>2, <2>3 DEF PidIsOurs
  <2> QED  BY <2>5, <2>6, <2>7
<1>14. ASSUME NEW p \in Pids, ChildExits(p) \/ PidReused(p) PROVE SubprocInv'
  <2>1. PICK s \in Uncollected \cup {"gone", "stranger"} :
            /\ proc' = [proc EXCEPT ![p] = s] /\ proc[p] # "unused"
            /\ s \in Uncollected <=> proc[p] \in Uncollected
    <3>1. CASE ChildExits(p)
      BY <3>1 DEF ChildExits, Uncollected
    <3>2. CASE PidReused(p)
      BY <3>2 DEF PidReused, Uncollected
    <3> QED  BY <1>14, <3>1, <3>2
  <2>2. UNCHANGED <<pid, input, output, error_fd, running, spawned, fds, stopping, polls, stray, taken, abandoned>>
    BY <1>14 DEF ChildExits, PidReused, handle
  <2>3. /\ proc' \in [Pids -> Uncollected \cup {"unused", "gone", "stranger"}]
        /\ \A q \in Pids : proc'[q] \in Uncollected <=> proc[q] \in Uncollected
        /\ \A q \in Pids : proc'[q] = "unused" <=> proc[q] = "unused"
    BY <2>1, ProcessMoves
  <2>4. SubprocTypeOK'
    BY <2>2, <2>3 DEF SubprocTypeOK
  <2>6. pid # NoPid /\ pid \in taken /\ proc[pid] \in {"gone", "stranger"} => proc'[pid] \in {"gone", "stranger"}
    BY <1>14 DEF SubprocTypeOK, ChildExits, PidReused
  <2>5. HandleOwnsAll' /\ PidIsOurs' /\ StopHasChild' /\ NoDuplicates'
    BY <2>2, <2>3, <2>6 DEF HandleOwnsAll, PidIsOurs, StopHasChild, Held, SubprocTypeOK, NoDuplicates
  <2> QED  BY <2>4, <2>5
<1>15. CASE UNCHANGED subprocVars
  BY <1>15 DEF subprocVars, handle, SubprocTypeOK, HandleOwnsAll, PidIsOurs, StopHasChild, NoDuplicates, Held
<1> QED  BY <1>1, <1>2, <1>3, <1>4, <1>5, <1>6, <1>7, <1>8, <1>10, <1>11, <1>12, <1>13, <1>14, <1>15, <1>16, <1>17, <1>18
         DEF SubprocNext, StopSteps

\* Types of the handle, of the kernel's process table and of the open descriptors
\* (subproc.c); in particular the handle never holds a descriptor that is closed.
THEOREM SubprocTypes == SubprocSpec => []SubprocTypeOK
<1>1. SubprocInv => SubprocTypeOK
  BY DEF SubprocInv
<1> QED  BY SubprocInit, SubprocStep, <1>1, PTL DEF SubprocSpec

\* Over any number of spawns, with every failure of pipe(), fcntl(), fork() and fdopen(),
\* and with the child exiting at any moment: no descriptor leaks but what the caller gave
\* up, no child is forgotten, and no signal reaches a recycled pid, unless the program
\* collected that child itself.
THEOREM HandleAlwaysOwnsAll == SubprocSpec => []HandleOwnsAll
<1>1. SubprocInv => HandleOwnsAll
  BY DEF SubprocInv
<1> QED  BY SubprocInit, SubprocStep, <1>1, PTL DEF SubprocSpec

-----------------------------------------------------------------------------
(* The descriptors of a child.                                             *)

\* The parent's open files, its descriptor tables with them, and one mapping.
Files  == {<<"file", d>> : d \in ParentFds}
Tables == {t \in UNION {[D -> Files] : D \in SUBSET Nat} : IsFiniteSet(DOMAIN t) /\ ParentFds \subseteq DOMAIN t}
Mapping == [source : ParentFds, target : Nat]
IsMaps(maps) == maps \in Seq(Mapping)

\* What it takes to be a descriptor table.
LEMMA TableType ==
    ASSUME NEW t
    PROVE  t \in Tables <=> /\ DOMAIN t \subseteq Nat /\ t \in [DOMAIN t -> Files]
                            /\ IsFiniteSet(DOMAIN t) /\ ParentFds \subseteq DOMAIN t
BY DEF Tables

\* The parent's own descriptors are one.
LEMMA ParentIs == ParentTable \in Tables /\ DOMAIN ParentTable = ParentFds
<1>1. DOMAIN ParentTable = ParentFds /\ ParentTable \in [ParentFds -> Files]
  BY DEF ParentTable, Files
<1> QED  BY <1>1, SubprocAssumption, TableType

\* A mapping goes from a descriptor of the parent to a number.
LEMMA MapsAre ==
    ASSUME NEW maps, IsMaps(maps)
    PROVE  /\ Len(maps) \in Nat /\ DOMAIN maps = 1 .. Len(maps)
           /\ \A i \in DOMAIN maps : maps[i].source \in ParentFds /\ maps[i].target \in Nat
<1>1. PICK R : R = Mapping
  OBVIOUS
<1>2. maps \in Seq(R)
  BY <1>1 DEF IsMaps
<1>3. Len(maps) \in Nat /\ DOMAIN maps = 1 .. Len(maps) /\ \A i \in DOMAIN maps : maps[i] \in R
  BY <1>2
<1>4. \A m \in R : m.source \in ParentFds /\ m.target \in Nat
  BY <1>1 DEF Mapping
<1> QED  BY <1>3, <1>4

\* Every target is below the number duplicates start at.
LEMMA FirstIs ==
    ASSUME NEW maps, IsMaps(maps)
    PROVE  FirstFd(maps) \in Nat /\ \A i \in DOMAIN maps : maps[i].target < FirstFd(maps)
<1>1. PICK S : S = {3} \cup {maps[i].target + 1 : i \in DOMAIN maps}
  OBVIOUS
<1>2. DOMAIN maps = 1 .. Len(maps) /\ Len(maps) \in Nat /\ \A i \in DOMAIN maps : maps[i].target \in Nat
  BY MapsAre
<1>3. S \in SUBSET Nat /\ S # {}
  BY <1>1, <1>2
<1>4. IsFiniteSet(S)
  <2>1. PICK D, f : D = DOMAIN maps /\ f = [i \in D |-> maps[i].target + 1]
    OBVIOUS
  <2>2. PICK R : R = {f[i] : i \in D}
    OBVIOUS
  <2>3. IsFiniteSet(D)
    BY <1>2, <2>1, FS_Interval
  <2>4. IsFiniteSet(R)
    <3>1. \A r \in R : \E i \in D : f[i] = r
      BY <2>2
    <3>2. f \in Surjection(D, R)
      BY <2>1, <2>2, <3>1 DEF Surjection
    <3> QED  BY <2>3, <3>2, FS_Surjection
  <2>5. IsFiniteSet({3})
    BY FS_Singleton
  <2>6. S = {3} \cup R
    BY <1>1, <2>1, <2>2
  <2> QED  BY <2>4, <2>5, <2>6, FS_Union
<1>5. \E m \in S : \A y \in S : m >= y
  BY <1>3, <1>4, Greatest
<1>6. PICK m : m = FirstFd(maps) /\ m \in S /\ \A y \in S : m >= y
  BY <1>1, <1>5 DEF FirstFd, Max
<1>7. ASSUME NEW i \in DOMAIN maps PROVE maps[i].target < m
  <2>1. PICK n \in Nat : n = maps[i].target /\ n + 1 \in S
    BY <1>1, <1>2
  <2>2. m >= n + 1 /\ m \in Nat
    BY <1>3, <1>6, <2>1
  <2> QED  BY <2>1, <2>2
<1> QED  BY <1>3, <1>6, <1>7

\* fcntl(F_DUPFD) finds a free number at or above the one asked for.
LEMMA FreeIs ==
    ASSUME NEW t \in Tables, NEW first \in Nat
    PROVE  LowestFree(t, first) \in Nat /\ LowestFree(t, first) >= first /\ LowestFree(t, first) \notin DOMAIN t
<1>1. PICK n, R : n = Cardinality(DOMAIN t) /\ R = first .. first + n
  OBVIOUS
<1>2. IsFiniteSet(DOMAIN t) /\ n \in Nat
  BY <1>1, TableType, FS_CardinalityType
<1>3. Cardinality(R) = n + 1
  BY <1>1, <1>2, FS_Interval
<1>4. ~(R \subseteq DOMAIN t)
  <2> SUFFICES ASSUME R \subseteq DOMAIN t PROVE FALSE
    OBVIOUS
  <2>1. Cardinality(R) <= Cardinality(DOMAIN t)
    BY <1>2, FS_Subset
  <2> QED  BY <1>1, <1>2, <1>3, <2>1
<1>5. PICK F : F = {d \in R : d \notin DOMAIN t}
  OBVIOUS
<1>6. F \in SUBSET Nat /\ F # {}
  BY <1>1, <1>2, <1>4, <1>5
<1>7. \E x \in F : \A y \in F : x <= y
  BY <1>6, Least
<1>8. PICK d : d = LowestFree(t, first) /\ d \in F
  BY <1>1, <1>5, <1>7 DEF LowestFree, Min
<1> QED  BY <1>1, <1>2, <1>5, <1>8

\* A duplicate changes the one descriptor it is made at.
LEMMA DupIs ==
    ASSUME NEW t \in Tables, NEW a \in DOMAIN t, NEW b \in Nat
    PROVE  /\ Dup2(t, a, b) \in Tables /\ DOMAIN Dup2(t, a, b) = DOMAIN t \cup {b}
           /\ Dup2(t, a, b)[b] = t[a] /\ \A d \in DOMAIN t : d # b => Dup2(t, a, b)[d] = t[d]
<1>1. PICK r : r = Dup2(t, a, b)
  OBVIOUS
<1>2. DOMAIN t \subseteq Nat /\ t \in [DOMAIN t -> Files] /\ IsFiniteSet(DOMAIN t) /\ ParentFds \subseteq DOMAIN t
  BY TableType
<1>3. /\ DOMAIN r = DOMAIN t \cup {b} /\ r[b] = t[a] /\ \A d \in DOMAIN t : d # b => r[d] = t[d]
      /\ r \in [DOMAIN t \cup {b} -> Files]
  BY <1>1, <1>2 DEF Dup2
<1>4. IsFiniteSet(DOMAIN t \cup {b})
  BY <1>2, FS_AddElement
<1>5. r \in Tables
  BY <1>2, <1>3, <1>4, TableType
<1> QED  BY <1>1, <1>3, <1>5

\* The descriptors and the duplicates made so far, and one more duplicate.
Duped == [table : Tables, dups : Seq(Nat)]

OneDup(r, maps, n) ==
    LET free == LowestFree(r.table, FirstFd(maps))
    IN  [table |-> Dup2(r.table, maps[n].source, free), dups |-> Append(r.dups, free)]

\* The duplicates of the first n sources, beside the descriptors of the parent.
HasDups(r, n, maps) ==
    /\ r \in Duped /\ Len(r.dups) = n
    /\ \A d \in ParentFds : r.table[d] = ParentTable[d]
    /\ \A i \in 1 .. n : /\ r.dups[i] >= FirstFd(maps) /\ r.dups[i] \in DOMAIN r.table
                         /\ r.table[r.dups[i]] = ParentTable[maps[i].source]

\* One more source is duplicated, and the earlier duplicates keep their files.
LEMMA OneDupIs ==
    ASSUME NEW maps, IsMaps(maps), NEW n \in 1 .. Len(maps), NEW r \in Duped
    PROVE  OneDup(r, maps, n) \in Duped /\ (HasDups(r, n - 1, maps) => HasDups(OneDup(r, maps, n), n, maps))
<1>1. PICK t, ds, s : t = r.table /\ ds = r.dups /\ s = maps[n].source
  OBVIOUS
<1>2. t \in Tables /\ ds \in Seq(Nat)
  BY <1>1 DEF Duped
<1>3. PICK first \in Nat : first = FirstFd(maps)
  BY FirstIs
<1>4. PICK free \in Nat : free = LowestFree(t, first) /\ free >= first /\ free \notin DOMAIN t
  BY <1>2, FreeIs
<1>5. Len(maps) \in Nat /\ s \in ParentFds /\ s \in DOMAIN t /\ ParentFds \subseteq DOMAIN t
  <2>1. Len(maps) \in Nat /\ s \in ParentFds
    BY <1>1, MapsAre
  <2>2. ParentFds \subseteq DOMAIN t
    BY <1>2, TableType
  <2> QED  BY <2>1, <2>2
<1>6. PICK u, es : u = Dup2(t, s, free) /\ es = Append(ds, free)
  OBVIOUS
<1>7. /\ u \in Tables /\ DOMAIN u = DOMAIN t \cup {free}
      /\ u[free] = t[s] /\ \A d \in DOMAIN t : d # free => u[d] = t[d]
  BY <1>2, <1>5, <1>6, DupIs
<1>8. /\ es \in Seq(Nat) /\ Len(es) = Len(ds) + 1 /\ es[Len(ds) + 1] = free
      /\ \A i \in 1 .. Len(ds) : es[i] = ds[i]
  BY <1>2, <1>6
<1>9. PICK q : q = OneDup(r, maps, n)
  OBVIOUS
<1>10. q = [table |-> u, dups |-> es]
  BY <1>1, <1>3, <1>4, <1>6, <1>9 DEF OneDup
<1>11. q.table = u /\ q.dups = es /\ q \in Duped
  BY <1>7, <1>8, <1>10 DEF Duped
<1>12. ASSUME HasDups(r, n - 1, maps) PROVE HasDups(q, n, maps)
  <2>1. /\ Len(ds) = n - 1
        /\ \A d \in ParentFds : t[d] = ParentTable[d]
        /\ \A i \in 1 .. n - 1 : /\ ds[i] >= first /\ ds[i] \in DOMAIN t
                                 /\ t[ds[i]] = ParentTable[maps[i].source]
    BY <1>1, <1>3, <1>12 DEF HasDups
  <2>2. n \in Nat /\ Len(es) = n /\ es[n] = free /\ \A i \in 1 .. n - 1 : es[i] = ds[i]
    BY <1>5, <1>8, <2>1
  <2>3. ASSUME NEW d \in ParentFds PROVE u[d] = ParentTable[d]
    BY <1>4, <1>5, <1>7, <2>1
  <2>4. ASSUME NEW i \in 1 .. n
        PROVE  es[i] >= first /\ es[i] \in DOMAIN u /\ u[es[i]] = ParentTable[maps[i].source]
    <3>1. CASE i = n
      BY <1>1, <1>4, <1>5, <1>7, <2>1, <2>2, <3>1
    <3>2. CASE i # n
      <4>1. i \in 1 .. n - 1
        BY <2>2, <3>2
      <4>2. es[i] = ds[i] /\ ds[i] >= first /\ ds[i] \in DOMAIN t /\ t[ds[i]] = ParentTable[maps[i].source]
        BY <2>1, <2>2, <4>1
      <4> QED  BY <1>4, <1>7, <4>2
    <3> QED  BY <3>1, <3>2
  <2> QED  BY <1>3, <1>11, <2>2, <2>3, <2>4 DEF HasDups
<1> QED  BY <1>9, <1>11, <1>12

\* The recursion of Duplicated, and that there is a function that obeys it.
Making(f, maps) ==
    f = [n \in 0 .. Len(maps) |-> IF n = 0 THEN [table |-> ParentTable, dups |-> <<>>] ELSE OneDup(f[n - 1], maps, n)]

LEMMA Makes ==
    ASSUME NEW maps, IsMaps(maps)
    PROVE  \E f \in [0 .. Len(maps) -> Duped] : Making(f, maps)
<1>1. PICK T, h : T = Duped /\ h = Len(maps)
  OBVIOUS
<1>2. h \in Nat
  BY <1>1, MapsAre
<1>3. PICK b \in T : b = [table |-> ParentTable, dups |-> <<>>]
  <2>1. <<>> \in Seq(Nat)
    OBVIOUS
  <2>2. [table |-> ParentTable, dups |-> <<>>] \in T
    BY <1>1, <2>1, ParentIs DEF Duped
  <2> QED  BY <2>2
<1>4. PICK step : step = [p \in Nat \X T |-> IF p[1] \in 1 .. h THEN OneDup(p[2], maps, p[1]) ELSE p[2]]
  OBVIOUS
<1>5. ASSUME NEW n \in Nat, NEW r \in T
      PROVE  step[<<n, r>>] = IF n \in 1 .. h THEN OneDup(r, maps, n) ELSE r
  BY <1>4
<1>6. step \in [Nat \X T -> T]
  <2>1. ASSUME NEW p \in Nat \X T PROVE step[p] \in T
    <3>1. PICK n \in Nat, r \in T : p = <<n, r>>
      OBVIOUS
    <3>2. CASE n \in 1 .. h
      <4>1. OneDup(r, maps, n) \in T
        BY <1>1, <3>2, OneDupIs
      <4> QED  BY <1>5, <3>1, <3>2, <4>1
    <3>3. CASE n \notin 1 .. h
      BY <1>5, <3>1, <3>3
    <3> QED  BY <3>2, <3>3
  <2>2. DOMAIN step = Nat \X T /\ step = [p \in DOMAIN step |-> step[p]]
    BY <1>4
  <2> QED  BY <2>1, <2>2
<1>7. PICK f \in [0 .. h -> T] : Iteration(f, h, b, step)
  BY <1>2, <1>6, Iterates
<1>8. ASSUME NEW n \in 0 .. h
      PROVE  f[n] = IF n = 0 THEN [table |-> ParentTable, dups |-> <<>>] ELSE OneDup(f[n - 1], maps, n)
  <2>1. CASE n = 0
    BY <1>3, <1>7, <2>1 DEF Iteration
  <2>2. CASE n # 0
    <3>1. n \in Nat /\ f[n - 1] \in T /\ n \in 1 .. h
      BY <1>2, <2>2
    <3>2. f[n] = step[<<n, f[n - 1]>>]
      BY <1>7, <2>2 DEF Iteration
    <3>3. f[n] = OneDup(f[n - 1], maps, n)
      BY <1>5, <3>1, <3>2
    <3> QED  BY <2>2, <3>3
  <2> QED  BY <2>1, <2>2
<1>9. f = [n \in 0 .. h |-> IF n = 0 THEN [table |-> ParentTable, dups |-> <<>>] ELSE OneDup(f[n - 1], maps, n)]
  BY <1>8
<1> QED  BY <1>1, <1>7, <1>9 DEF Making

\* By induction over the mappings: every source has its duplicate.
LEMMA DuplicatedIs ==
    ASSUME NEW maps, IsMaps(maps)
    PROVE  HasDups(Duplicated(maps), Len(maps), maps)
<1>1. PICK f, h : f = (CHOOSE g : Making(g, maps)) /\ h = Len(maps)
  OBVIOUS
<1>2. Making(f, maps)
  BY <1>1, Makes
<1>3. Duplicated(maps) = f[h]
  <2>1. f = CHOOSE g : g = [n \in 0 .. Len(maps) |->
                IF n = 0 THEN [table |-> ParentTable, dups |-> <<>>] ELSE OneDup(g[n - 1], maps, n)]
    BY <1>1 DEF Making
  <2> QED  BY <1>1, <2>1 DEF Duplicated, OneDup
<1>4. h \in Nat /\ Len(maps) = h
  BY <1>1, MapsAre
<1>5. ASSUME NEW n \in 0 .. h
      PROVE  f[n] = IF n = 0 THEN [table |-> ParentTable, dups |-> <<>>] ELSE OneDup(f[n - 1], maps, n)
  BY <1>1, <1>2, Zenon DEF Making
<1>6. PICK C : C = {n \in Nat : n <= h => HasDups(f[n], n, maps)}
  OBVIOUS
<1>7. 0 \in C
  <2>1. f[0] = [table |-> ParentTable, dups |-> <<>>]
    BY <1>4, <1>5
  <2>2. <<>> \in Seq(Nat) /\ Len(<<>>) = 0
    OBVIOUS
  <2>3. f[0].table = ParentTable /\ f[0].dups = <<>> /\ f[0] \in Duped
    BY <2>1, <2>2, ParentIs DEF Duped
  <2>4. HasDups(f[0], 0, maps)
    BY <2>2, <2>3 DEF HasDups
  <2> QED  BY <1>6, <2>4
<1>8. ASSUME NEW n \in C PROVE n + 1 \in C
  <2>1. n \in Nat
    BY <1>6
  <2>2. CASE n + 1 <= h
    <3>1. HasDups(f[n], n, maps) /\ n + 1 \in 1 .. h /\ (n + 1) - 1 = n
      BY <1>4, <1>6, <2>1, <2>2
    <3>2. f[n + 1] = OneDup(f[n], maps, n + 1)
      BY <1>4, <1>5, <2>1, <2>2
    <3>3. f[n] \in Duped
      BY <3>1 DEF HasDups
    <3>4. PICK m \in 1 .. Len(maps) : m = n + 1 /\ m - 1 = n
      BY <1>4, <3>1
    <3>5. HasDups(f[n], m - 1, maps)
      BY <3>1, <3>4
    <3>6. HasDups(OneDup(f[n], maps, m), m, maps)
      BY <3>3, <3>5, OneDupIs
    <3> QED  BY <1>6, <2>1, <3>2, <3>4, <3>6
  <2>3. CASE ~(n + 1 <= h)
    BY <1>6, <2>1, <2>3
  <2> QED  BY <2>2, <2>3
<1>9. \A n \in Nat : n \in C
  <2>1. C \in SUBSET Nat
    BY <1>6
  <2> QED  BY <1>7, <1>8, <2>1, CountsUp
<1>10. HasDups(f[h], h, maps)
  BY <1>4, <1>6, <1>9
<1> QED  BY <1>3, <1>4, <1>10

\* Tables that still have every duplicate.
Reaching(r) == {c \in Tables : \A i \in DOMAIN r.dups : r.dups[i] \in DOMAIN c}

\* The first n targets have their files, and no duplicate has lost its.
HasTargets(c, n, maps, r) ==
    /\ c \in Reaching(r)
    /\ \A i \in DOMAIN maps : c[r.dups[i]] = ParentTable[maps[i].source]
    /\ \A i \in 1 .. n : maps[i].target \in DOMAIN c /\ c[maps[i].target] = ParentTable[maps[i].source]

\* dup2() of one more mapping: the target is below every duplicate and differs from the
\* earlier targets, so nothing that is still needed is overwritten.
LEMMA OneTarget ==
    ASSUME NEW maps, IsMaps(maps), NEW r, HasDups(r, Len(maps), maps), NEW n \in 1 .. Len(maps), NEW c \in Reaching(r)
    PROVE  /\ Dup2(c, r.dups[n], maps[n].target) \in Reaching(r)
           /\ Distinct(maps) /\ HasTargets(c, n - 1, maps, r) => HasTargets(Dup2(c, r.dups[n], maps[n].target), n, maps, r)
<1>1. PICK h, ds, d, b, first : h = Len(maps) /\ ds = r.dups /\ d = ds[n] /\ b = maps[n].target /\ first = FirstFd(maps)
  OBVIOUS
<1>2. h \in Nat /\ DOMAIN maps = 1 .. h /\ n \in DOMAIN maps /\ b \in Nat /\ \A i \in DOMAIN maps : maps[i].target \in Nat
  BY <1>1, MapsAre
<1>3. first \in Nat /\ \A i \in DOMAIN maps : maps[i].target < first
  BY <1>1, FirstIs
<1>4. ds \in Seq(Nat) /\ Len(ds) = h /\ \A i \in 1 .. h : ds[i] >= first
  BY <1>1 DEF HasDups, Duped
<1>5. DOMAIN ds = 1 .. h /\ \A i \in 1 .. h : ds[i] \in Nat
  BY <1>4
<1>6. c \in Tables /\ \A i \in 1 .. h : ds[i] \in DOMAIN c
  BY <1>1, <1>5 DEF Reaching
<1>7. PICK e : e = Dup2(c, d, b)
  OBVIOUS
<1>8. /\ e \in Tables /\ DOMAIN e = DOMAIN c \cup {b}
      /\ e[b] = c[d] /\ \A k \in DOMAIN c : k # b => e[k] = c[k]
  <2>1. d \in DOMAIN c
    BY <1>1, <1>2, <1>6
  <2> QED  BY <1>2, <1>6, <1>7, <2>1, DupIs
<1>9. e \in Reaching(r)
  BY <1>1, <1>5, <1>6, <1>8 DEF Reaching
<1>10. \A i \in 1 .. h : ds[i] # b
  BY <1>1, <1>2, <1>3, <1>4, <1>5
<1>11. ASSUME Distinct(maps), HasTargets(c, n - 1, maps, r) PROVE HasTargets(e, n, maps, r)
  <2>1. /\ \A i \in 1 .. h : c[ds[i]] = ParentTable[maps[i].source]
        /\ \A i \in 1 .. n - 1 : maps[i].target \in DOMAIN c /\ c[maps[i].target] = ParentTable[maps[i].source]
    BY <1>1, <1>2, <1>11 DEF HasTargets
  <2>2. ASSUME NEW i \in 1 .. h PROVE e[ds[i]] = ParentTable[maps[i].source]
    BY <1>6, <1>8, <1>10, <2>1
  <2>3. ASSUME NEW i \in 1 .. n
        PROVE  maps[i].target \in DOMAIN e /\ e[maps[i].target] = ParentTable[maps[i].source]
    <3>1. CASE i = n
      BY <1>1, <1>2, <1>8, <2>1, <3>1
    <3>2. CASE i # n
      <4>1. i \in 1 .. n - 1 /\ i \in DOMAIN maps
        BY <1>1, <1>2, <3>2
      <4>2. maps[i].target # b
        BY <1>1, <1>2, <1>11, <3>2, <4>1 DEF Distinct
      <4> QED  BY <1>8, <2>1, <4>1, <4>2
    <3> QED  BY <3>1, <3>2
  <2> QED  BY <1>1, <1>2, <1>9, <2>2, <2>3 DEF HasTargets
<1> QED  BY <1>1, <1>7, <1>9, <1>11

\* The recursion of ChildTable, and that there is a function that obeys it.
Placing(f, maps, r) ==
    f = [n \in 0 .. Len(maps) |-> IF n = 0 THEN r.table ELSE Dup2(f[n - 1], r.dups[n], maps[n].target)]

LEMMA Places ==
    ASSUME NEW maps, IsMaps(maps), NEW r, HasDups(r, Len(maps), maps)
    PROVE  \E f : Placing(f, maps, r)
<1>1. PICK T, h : T = Reaching(r) /\ h = Len(maps)
  OBVIOUS
<1>2. h \in Nat
  BY <1>1, MapsAre
<1>3. PICK b \in T : b = r.table
  <2>1. r.table \in Tables /\ r.dups \in Seq(Nat) /\ Len(r.dups) = h /\ \A i \in 1 .. h : r.dups[i] \in DOMAIN r.table
    BY <1>1 DEF HasDups, Duped
  <2>2. DOMAIN r.dups = 1 .. h
    BY <2>1
  <2>3. r.table \in T
    BY <1>1, <2>1, <2>2 DEF Reaching
  <2> QED  BY <2>3
<1>4. PICK step : step = [p \in Nat \X T |-> IF p[1] \in 1 .. h THEN Dup2(p[2], r.dups[p[1]], maps[p[1]].target) ELSE p[2]]
  OBVIOUS
<1>5. ASSUME NEW n \in Nat, NEW c \in T
      PROVE  step[<<n, c>>] = IF n \in 1 .. h THEN Dup2(c, r.dups[n], maps[n].target) ELSE c
  BY <1>4
<1>6. step \in [Nat \X T -> T]
  <2>1. ASSUME NEW p \in Nat \X T PROVE step[p] \in T
    <3>1. PICK n \in Nat, c \in T : p = <<n, c>>
      OBVIOUS
    <3>2. CASE n \in 1 .. h
      <4>1. Dup2(c, r.dups[n], maps[n].target) \in T
        BY <1>1, <3>2, OneTarget
      <4> QED  BY <1>5, <3>1, <3>2, <4>1
    <3>3. CASE n \notin 1 .. h
      BY <1>5, <3>1, <3>3
    <3> QED  BY <3>2, <3>3
  <2>2. DOMAIN step = Nat \X T /\ step = [p \in DOMAIN step |-> step[p]]
    BY <1>4
  <2> QED  BY <2>1, <2>2
<1>7. PICK f \in [0 .. h -> T] : Iteration(f, h, b, step)
  BY <1>2, <1>6, Iterates
<1>8. ASSUME NEW n \in 0 .. h
      PROVE  f[n] = IF n = 0 THEN r.table ELSE Dup2(f[n - 1], r.dups[n], maps[n].target)
  <2>1. CASE n = 0
    BY <1>3, <1>7, <2>1 DEF Iteration
  <2>2. CASE n # 0
    <3>1. n \in Nat /\ f[n - 1] \in T /\ n \in 1 .. h
      BY <1>2, <2>2
    <3>2. f[n] = step[<<n, f[n - 1]>>]
      BY <1>7, <2>2 DEF Iteration
    <3>3. f[n] = Dup2(f[n - 1], r.dups[n], maps[n].target)
      BY <1>5, <3>1, <3>2
    <3> QED  BY <2>2, <3>3
  <2> QED  BY <2>1, <2>2
<1>9. f = [n \in 0 .. h |-> IF n = 0 THEN r.table ELSE Dup2(f[n - 1], r.dups[n], maps[n].target)]
  BY <1>8
<1> QED  BY <1>1, <1>9 DEF Placing

\* What a child is given: each source at its target, and none of what it was told to
\* close but a target.
Given(table, maps, closed) ==
    /\ \A i \in DOMAIN maps : maps[i].target \in DOMAIN table /\ table[maps[i].target] = ParentTable[maps[i].source]
    /\ \A d \in closed : d \in DOMAIN table => \E i \in DOMAIN maps : maps[i].target = d

\* By induction over the mappings, and with the duplicates and the listed descriptors
\* closed: the child has what it was to be given.
LEMMA ChildIs ==
    ASSUME NEW maps, IsMaps(maps), Distinct(maps), NEW closed
    PROVE  Given(ChildTable(maps, closed), maps, closed)
<1>1. PICK r : r = Duplicated(maps)
  OBVIOUS
<1>2. PICK f, h : f = (CHOOSE g : Placing(g, maps, r)) /\ h = Len(maps)
  OBVIOUS
<1>3. HasDups(r, h, maps) /\ h \in Nat /\ DOMAIN maps = 1 .. h /\ Len(maps) = h
  BY <1>1, <1>2, DuplicatedIs, MapsAre
<1>4. Placing(f, maps, r)
  BY <1>2, <1>3, Places
<1>5. PICK c, ts, open : /\ c = f[h] /\ ts = {maps[i].target : i \in DOMAIN maps}
                         /\ open = (DOMAIN c \ ToSet(r.dups)) \ (closed \ ts)
  OBVIOUS
<1>6. ChildTable(maps, closed) = [d \in open |-> c[d]]
  <2>1. f = CHOOSE g : Placing(g, maps, Duplicated(maps))
    BY <1>1, <1>2
  <2>2. f = CHOOSE g : g = [n \in 0 .. Len(maps) |->
                IF n = 0 THEN Duplicated(maps).table ELSE Dup2(g[n - 1], Duplicated(maps).dups[n], maps[n].target)]
    BY <2>1 DEF Placing
  <2>3. open = (DOMAIN f[Len(maps)] \ ToSet(Duplicated(maps).dups)) \ (closed \ {maps[i].target : i \in DOMAIN maps})
    BY <1>1, <1>2, <1>5
  <2>4. ChildTable(maps, closed) = [d \in open |-> f[Len(maps)][d]]
    BY <2>2, <2>3 DEF ChildTable
  <2> QED  BY <1>2, <1>5, <2>4
<1>7. ASSUME NEW n \in 0 .. h
      PROVE  f[n] = IF n = 0 THEN r.table ELSE Dup2(f[n - 1], r.dups[n], maps[n].target)
  BY <1>2, <1>4, Zenon DEF Placing
<1>8. PICK C : C = {n \in Nat : n <= h => HasTargets(f[n], n, maps, r)}
  OBVIOUS
<1>9. 0 \in C
  <2>1. f[0] = r.table
    BY <1>3, <1>7
  <2>2. /\ r.table \in Tables /\ r.dups \in Seq(Nat) /\ Len(r.dups) = h
        /\ \A i \in 1 .. h : r.dups[i] \in DOMAIN r.table /\ r.table[r.dups[i]] = ParentTable[maps[i].source]
    BY <1>3 DEF HasDups, Duped
  <2>3. DOMAIN r.dups = 1 .. h
    BY <2>2
  <2>4. HasTargets(f[0], 0, maps, r)
    BY <1>3, <2>1, <2>2, <2>3 DEF HasTargets, Reaching
  <2> QED  BY <1>8, <2>4
<1>10. ASSUME NEW n \in C PROVE n + 1 \in C
  <2>1. n \in Nat
    BY <1>8
  <2>2. CASE n + 1 <= h
    <3>1. HasTargets(f[n], n, maps, r) /\ n + 1 \in 1 .. h /\ (n + 1) - 1 = n
      BY <1>3, <1>8, <2>1, <2>2
    <3>2. f[n + 1] = Dup2(f[n], r.dups[n + 1], maps[n + 1].target)
      BY <1>3, <1>7, <2>1, <2>2
    <3>3. f[n] \in Reaching(r)
      BY <3>1 DEF HasTargets
    <3>4. PICK m \in 1 .. Len(maps) : m = n + 1 /\ m - 1 = n
      BY <1>3, <3>1
    <3>5. HasTargets(f[n], m - 1, maps, r)
      BY <3>1, <3>4
    <3>6. HasTargets(Dup2(f[n], r.dups[m], maps[m].target), m, maps, r)
      BY <1>3, <3>3, <3>5, OneTarget
    <3> QED  BY <1>8, <2>1, <3>2, <3>4, <3>6
  <2>3. CASE ~(n + 1 <= h)
    BY <1>8, <2>1, <2>3
  <2> QED  BY <2>2, <2>3
<1>11. \A n \in Nat : n \in C
  <2>1. C \in SUBSET Nat
    BY <1>8
  <2> QED  BY <1>9, <1>10, <2>1, CountsUp
<1>12. HasTargets(c, h, maps, r)
  BY <1>3, <1>5, <1>8, <1>11
<1>13. ASSUME NEW i \in DOMAIN maps
       PROVE  maps[i].target \in open /\ c[maps[i].target] = ParentTable[maps[i].source]
  <2>1. maps[i].target \in DOMAIN c /\ c[maps[i].target] = ParentTable[maps[i].source]
    BY <1>3, <1>12 DEF HasTargets
  <2>2. maps[i].target \in Nat /\ maps[i].target < FirstFd(maps) /\ FirstFd(maps) \in Nat
    BY MapsAre, FirstIs
  <2>3. maps[i].target \notin ToSet(r.dups)
    <3>1. r.dups \in Seq(Nat) /\ Len(r.dups) = h /\ \A j \in 1 .. h : r.dups[j] >= FirstFd(maps)
      BY <1>3 DEF HasDups, Duped
    <3>2. DOMAIN r.dups = 1 .. h /\ \A j \in 1 .. h : r.dups[j] \in Nat
      BY <3>1
    <3>3. \A j \in 1 .. h : r.dups[j] # maps[i].target
      BY <2>2, <3>1, <3>2
    <3> QED  BY <3>2, <3>3 DEF ToSet
  <2> QED  BY <1>5, <2>1, <2>3
<1>14. ASSUME NEW d \in closed, d \in open PROVE \E i \in DOMAIN maps : maps[i].target = d
  BY <1>5, <1>14
<1>15. PICK t : t = ChildTable(maps, closed)
  OBVIOUS
<1>16. DOMAIN t = open /\ \A d \in open : t[d] = c[d]
  BY <1>6, <1>15
<1>17. Given(t, maps, closed)
  BY <1>13, <1>14, <1>16 DEF Given
<1> QED  BY <1>15, <1>17

\* Whatever descriptors the parent holds, and however sources and targets of the
\* mappings overlap, the child of subproc_spawn_fds() finds each source at its target
\* and nothing it was told to close.
THEOREM MappingsAlwaysHonoured == SubprocSpec => []MappingsHonoured
<1>1. SubprocStart => MappingsHonoured
  BY DEF SubprocStart, MappingsHonoured
<1>2. MappingsHonoured /\ [SubprocNext]_subprocVars => MappingsHonoured'
  <2> SUFFICES ASSUME MappingsHonoured, [SubprocNext]_subprocVars PROVE MappingsHonoured'
    OBVIOUS
  <2>1. CASE inherited' = inherited
    BY <2>1 DEF MappingsHonoured
  <2>2. ASSUME NEW maps \in Mappings, NEW closed \in CloseLists, SpawnFds(maps, closed) PROVE MappingsHonoured'
    <3>1. Distinct(maps)
      BY <2>2 DEF SpawnFds
    <3>2. IsMaps(maps)
      BY SubprocAssumption DEF IsMaps, Mapping
    <3>3. PICK t : t = ChildTable(maps, closed)
      OBVIOUS
    <3>4. Given(t, maps, closed)
      BY <3>1, <3>2, <3>3, ChildIs
    <3>5. inherited' = [maps |-> maps, closed |-> closed, table |-> t]
      BY <2>2, <3>3 DEF SpawnFds
    <3>6. inherited'.maps = maps /\ inherited'.closed = closed /\ inherited'.table = t
      BY <3>5
    <3> QED  BY <3>4, <3>6 DEF MappingsHonoured, Given
  <2>3. ASSUME ~(\E maps \in Mappings, closed \in CloseLists : SpawnFds(maps, closed)) PROVE inherited' = inherited
    BY <2>3 DEF SubprocNext, StopSteps, Spawn, SpawnFails, SpawnStreamFails, SubprocClose, SubprocReap, SubprocStop,
                StopClose, StopSignal, StopRefused, StopCollect, StopPoll, StopKill, SpawnFdsFails, ChildExits, PidReused,
                HostCollects, subprocVars
  <2> QED  BY <2>1, <2>2, <2>3
<1> QED  BY <1>1, <1>2, PTL DEF SubprocSpec

-----------------------------------------------------------------------------
(* Transports.                                                             *)

Events == Payload \cup {"open", "close", "hangup"}

\* What a transport in state st may have told the application.
Phase(st, log) ==
    /\ log \in Seq(Events) /\ InOrder(log)
    /\ st = "absent" => log = <<>>
    /\ st = "connecting" => \A i \in DOMAIN log : log[i] = "error"
    /\ st = "open" => /\ \E i \in DOMAIN log : log[i] = "open"
                      /\ \A i \in DOMAIN log : log[i] # "hangup"
    /\ st \in {"open", "closing"} => \A i \in DOMAIN log : log[i] # "close"

\* A transport that is closed or freed has no socket: the driver cannot call into it.
Unhooked == state \in {"absent", "closed", "freed"} => socket = "none"

TransportInv == TransportTypeOK /\ Phase(state, told) /\ Unhooked

-----------------------------------------------------------------------------
\* One more event after a log that does not end the story.
LEMMA OneMore ==
    ASSUME NEW log \in Seq(Events), NEW e \in Events, InOrder(log),
           \A i \in DOMAIN log : log[i] # "close",
           e \in {"message", "binary"} => \E i \in DOMAIN log : log[i] = "open",
           e = "open" => \A i \in DOMAIN log : log[i] = "error",
           e \in {"open", "message", "binary"} => \A i \in DOMAIN log : log[i] # "hangup"
    PROVE  InOrder(Append(log, e))
<1> DEFINE more == Append(log, e)
<1>1. /\ more \in Seq(Events) /\ Len(log) \in Nat /\ Len(more) = Len(log) + 1
      /\ DOMAIN log = 1 .. Len(log) /\ DOMAIN more = 1 .. Len(log) + 1
      /\ more[Len(log) + 1] = e /\ \A i \in 1 .. Len(log) : more[i] = log[i]
  OBVIOUS
<1> HIDE DEF more
<1>2. ASSUME NEW i \in DOMAIN more
      PROVE  /\ more[i] \in {"message", "binary"} => \E j \in 1 .. i - 1 : more[j] = "open"
             /\ more[i] = "open" => \A j \in 1 .. i - 1 : more[j] = "error"
             /\ more[i] \in {"open", "message", "binary"} => \A j \in 1 .. i - 1 : more[j] # "hangup"
             /\ more[i] = "close" => i = Len(more)
  <2>1. CASE i = Len(log) + 1
    BY <1>1, <2>1
  <2>2. CASE i \in 1 .. Len(log)
    <3>1. more[i] = log[i] /\ \A j \in 1 .. i - 1 : more[j] = log[j]
      BY <1>1, <2>2
    <3> QED  BY <1>1, <2>2, <3>1 DEF InOrder
  <2> QED  BY <1>1, <2>1, <2>2
<1> QED  BY <1>2 DEF InOrder, more

\* The same log, seen through its elements.
LEMMA Appended ==
    ASSUME NEW log \in Seq(Events), NEW e \in Events
    PROVE  /\ Append(log, e) \in Seq(Events) /\ log \o <<e>> = Append(log, e)
           /\ \A i \in DOMAIN Append(log, e) : Append(log, e)[i] = e
                                             \/ (i \in DOMAIN log /\ Append(log, e)[i] = log[i])
           /\ \A i \in DOMAIN log : i \in DOMAIN Append(log, e) /\ Append(log, e)[i] = log[i]
           /\ \E i \in DOMAIN Append(log, e) : Append(log, e)[i] = e
<1>1. /\ Append(log, e) \in Seq(Events) /\ log \o <<e>> = Append(log, e)
      /\ Len(log) \in Nat /\ DOMAIN log = 1 .. Len(log) /\ DOMAIN Append(log, e) = 1 .. Len(log) + 1
      /\ Append(log, e)[Len(log) + 1] = e /\ \A i \in 1 .. Len(log) : Append(log, e)[i] = log[i]
  OBVIOUS
<1> DEFINE more == Append(log, e)
<1> HIDE DEF more
<1>2. Len(log) + 1 \in DOMAIN more
  BY <1>1 DEF more
<1> QED  BY <1>1, <1>2 DEF more

\* The event an emit passes on fits the state the callback sees.
LEMMA PassedFits ==
    ASSUME TransportInv, NEW e \in Payload \cup {"open", "close"}, Passes(e)
    PROVE  /\ StateAtCallback(e) \in Live /\ Phase(StateAtCallback(e), Append(told, e))
           /\ StateAtCallback(e) = "closed" => e = "close"
<1> DEFINE more == Append(told, e)
<1>1. told \in Seq(Events) /\ e \in Events /\ InOrder(told)
  BY DEF TransportInv, Phase, Events
<1>2. /\ more \in Seq(Events)
      /\ \A i \in DOMAIN more : more[i] = e \/ (i \in DOMAIN told /\ more[i] = told[i])
      /\ \A i \in DOMAIN told : i \in DOMAIN more /\ more[i] = told[i]
      /\ \E i \in DOMAIN more : more[i] = e
  BY <1>1, Appended
<1>3. /\ \A i \in DOMAIN told : told[i] # "close"
      /\ e \in {"message", "binary"} => state = "open"
      /\ e = "open" => state = "connecting"
  BY DEF Passes, TransportInv, Phase, Live, Payload
<1>4. InOrder(more)
  BY <1>1, <1>3, OneMore DEF TransportInv, Phase
<1> HIDE DEF more
<1>5. CASE e = "open"
  <2>1. StateAtCallback(e) = "open"
    BY <1>5 DEF StateAtCallback
  <2>2. \A i \in DOMAIN told : told[i] = "error"
    BY <1>3, <1>5 DEF TransportInv, Phase
  <2>3. Phase("open", more)
    BY <1>2, <1>4, <1>5, <2>2 DEF Phase
  <2> QED  BY <2>1, <2>3 DEF Live, more
<1>6. CASE e = "close"
  <2>1. StateAtCallback(e) = "closed"
    BY <1>6 DEF StateAtCallback
  <2>2. Phase("closed", more)
    BY <1>2, <1>4 DEF Phase
  <2> QED  BY <1>6, <2>1, <2>2 DEF Live, more
<1>7. CASE e \in Payload
  <2>1. StateAtCallback(e) = state /\ state \in {"connecting", "open", "closing"}
    BY <1>7 DEF StateAtCallback, Payload, Passes, Live
  <2>2. state = "connecting" => e = "error"
    BY <1>3, <1>7 DEF Payload
  <2>3. e \notin {"hangup", "close"}
    BY <1>7 DEF Payload
  <2>4. Phase(state, told)
    BY DEF TransportInv
  <2>5. \A i \in DOMAIN told : state = "connecting" => told[i] = "error"
    BY <2>4 DEF Phase
  <2>6. state = "open" => /\ \E i \in DOMAIN told : told[i] = "open"
                         /\ \A i \in DOMAIN told : told[i] # "hangup"
    BY <2>4 DEF Phase
  <2>7. Phase(state, more)
    BY <1>2, <1>3, <1>4, <2>1, <2>2, <2>3, <2>5, <2>6 DEF Phase
  <2> QED  BY <2>1, <2>7 DEF Live, more
<1> QED  BY <1>5, <1>6, <1>7 DEF more

\* Whatever the application does about a transport keeps its story straight.
LEMMA ReactionFits ==
    ASSUME TransportTypeOK, NEW what \in Reactions, NEW st \in Live, NEW websocket \in BOOLEAN,
           NEW log \in Seq(Events), Phase(st, log)
    PROVE  /\ Reaction(what, st, websocket).state \in Live \cup {"freed"}
           /\ Phase(Reaction(what, st, websocket).state, log \o Reaction(what, st, websocket).log)
           /\ Reaction(what, st, websocket).closing \in BOOLEAN
           /\ Reaction(what, st, websocket).sent \in 0 .. QueueLimit
           /\ Reaction(what, st, websocket).state \in {"closed", "freed"} => st = "closed"
<1> DEFINE after == Reaction(what, st, websocket)
<1>1. after.closing \in BOOLEAN
  BY DEF Reaction, Marked, TransportTypeOK
<1>2. after.sent \in 0 .. QueueLimit
  BY TransportAssumption DEF Reaction, MaySend, TransportTypeOK
<1>3. CASE what = "close" /\ st \in {"connecting", "open"}
  <2>1. after.state = "closing" /\ after.log = <<"hangup">>
    BY <1>3 DEF Reaction
  <2> HIDE DEF after
  <2>2. "hangup" \in Events /\ \A i \in DOMAIN log : log[i] # "close"
    BY <1>3 DEF Phase, Events
  <2>3. InOrder(Append(log, "hangup"))
    BY <2>2, OneMore DEF Phase
  <2>4. Phase("closing", Append(log, "hangup"))
    BY <2>2, <2>3, Appended DEF Phase
  <2>5. log \o <<"hangup">> = Append(log, "hangup")
    BY <2>2, Appended
  <2>6. after.state \in Live \cup {"freed"} /\ Phase(after.state, log \o after.log) /\ after.state = "closing"
    BY <2>1, <2>4, <2>5 DEF Live
  <2> QED  BY <1>1, <1>2, <2>6 DEF after
<1>4. CASE ~(what = "close" /\ st \in {"connecting", "open"})
  <2>1. after.log = <<>> /\ (after.state = st \/ (st = "closed" /\ after.state = "freed"))
    BY <1>4 DEF Reaction, MayRelease
  <2> HIDE DEF after
  <2>2. log \o <<>> = log
    OBVIOUS
  <2>3. after.state \in Live \cup {"freed"} /\ Phase(after.state, log)
    BY <2>1 DEF Phase, Live
  <2>4. after.state \in {"closed", "freed"} => st = "closed"
    BY <2>1 DEF Live
  <2>5. Phase(after.state, log \o after.log)
    BY <2>1, <2>2, <2>3
  <2> QED  BY <1>1, <1>2, <2>3, <2>4, <2>5 DEF after
<1> QED  BY <1>3, <1>4

\* An event of the driver, whether it passes or not.
LEMMA EmitFits ==
    ASSUME TransportInv, NEW e \in Payload \cup {"open", "close"}, NEW websocket \in BOOLEAN,
           Emit(e, websocket), socket = "up"
    PROVE  /\ state' \in Live \cup {"absent", "freed"} /\ Phase(state', told')
           /\ is_closing' \in BOOLEAN /\ sent' \in 0 .. QueueLimit
           /\ state' \in {"absent", "closed", "freed"} => e = "close"
<1>1. CASE Passes(e)
  <2> DEFINE after(w) == Reaction(w, StateAtCallback(e), websocket)
  <2>1. PICK what \in Reactions :
            /\ told' = Append(told, e) \o after(what).log
            /\ state' = after(what).state /\ is_closing' = after(what).closing /\ sent' = after(what).sent
    BY <1>1 DEF Emit
  <2>2. /\ StateAtCallback(e) \in Live /\ Phase(StateAtCallback(e), Append(told, e))
        /\ StateAtCallback(e) = "closed" => e = "close"
    BY <1>1, PassedFits
  <2>3. Append(told, e) \in Seq(Events) /\ TransportTypeOK
    BY <2>2 DEF Phase, TransportInv
  <2>4. /\ after(what).state \in Live \cup {"freed"}
        /\ Phase(after(what).state, Append(told, e) \o after(what).log)
        /\ after(what).closing \in BOOLEAN /\ after(what).sent \in 0 .. QueueLimit
        /\ after(what).state \in {"closed", "freed"} => StateAtCallback(e) = "closed"
    <3>1. what \in Reactions
      BY <2>1
    <3> DEFINE st == StateAtCallback(e)  log == Append(told, e)
    <3>2. st \in Live /\ log \in Seq(Events) /\ Phase(st, log) /\ TransportTypeOK
      BY <2>2, <2>3
    <3> HIDE DEF st, log
    <3>3. /\ Reaction(what, st, websocket).state \in Live \cup {"freed"}
          /\ Phase(Reaction(what, st, websocket).state, log \o Reaction(what, st, websocket).log)
          /\ Reaction(what, st, websocket).closing \in BOOLEAN
          /\ Reaction(what, st, websocket).sent \in 0 .. QueueLimit
          /\ Reaction(what, st, websocket).state \in {"closed", "freed"} => st = "closed"
      BY <3>1, <3>2, ReactionFits
    <3> QED  BY <3>3 DEF st, log
  <2> HIDE DEF after
  <2> QED  BY <2>1, <2>2, <2>4 DEF Live
<1>2. CASE ~Passes(e)
  <2>1. UNCHANGED <<state, is_closing, sent, told>>
    BY <1>2 DEF Emit
  <2>2. state' \notin {"absent", "closed", "freed"} /\ Phase(state', told')
    BY <2>1 DEF TransportInv, Unhooked
  <2> QED  BY <2>1, <2>2 DEF TransportInv, TransportTypeOK
<1> QED  BY <1>1, <1>2

-----------------------------------------------------------------------------
LEMMA TransportInit == TransportStart => TransportInv
<1> SUFFICES ASSUME TransportStart PROVE TransportInv
  OBVIOUS
<1>1. <<>> \in Seq(Events) /\ InOrder(<<>>)
  BY DEF InOrder
<1>2. TransportTypeOK
  <2>1. told \in Seq(Payload \cup {"open", "close", "hangup"})
    BY <1>1 DEF TransportStart, Events
  <2>2. sent \in 0 .. QueueLimit /\ driven \in 0 .. MaxEvents
    BY TransportAssumption DEF TransportStart
  <2> QED  BY <2>1, <2>2 DEF TransportStart, TransportTypeOK
<1>3. Phase(state, told)
  BY <1>1 DEF TransportStart, Phase
<1> QED  BY <1>2, <1>3 DEF TransportStart, TransportInv, Unhooked

LEMMA TransportStep == TransportInv /\ [TransportNext]_transportVars => TransportInv'
<1> SUFFICES ASSUME TransportInv, [TransportNext]_transportVars PROVE TransportInv'
  OBVIOUS
<1>0. TransportTypeOK' <=> /\ state' \in Live \cup {"absent", "freed"}
                           /\ socket' \in {"none", "up"} /\ is_closing' \in BOOLEAN
                           /\ is_draining' \in BOOLEAN
                           /\ is_websocket' \in BOOLEAN /\ sent' \in 0 .. QueueLimit
                           /\ driven' \in 0 .. MaxEvents /\ told' \in Seq(Events)
  BY DEF TransportTypeOK, Events
<1>T. TransportTypeOK
  BY DEF TransportInv
<1>1. CASE Adopt
  <2>1. told \in Seq(Events) /\ Phase("connecting", told) /\ told' = told
    BY <1>1 DEF Adopt, TransportInv, Phase
  <2> QED  BY <1>0, <1>1, <1>T, <2>1 DEF Adopt, TransportInv, TransportTypeOK, Unhooked, Live
<1>2. CASE MongooseOpen
  <2>1. driven' \in 0 .. MaxEvents
    BY <1>2, <1>T, TransportAssumption DEF MongooseOpen, TransportTypeOK
  <2>2. /\ state' \in Live \cup {"absent", "freed"} /\ Phase(state', told')
        /\ is_closing' \in BOOLEAN /\ sent' \in 0 .. QueueLimit
        /\ state' \notin {"absent", "closed", "freed"}
    <3>1. Emit("open", TRUE) /\ socket = "up" /\ "open" \in Payload \cup {"open", "close"} /\ TRUE \in BOOLEAN
      BY <1>2 DEF MongooseOpen
    <3>2. /\ state' \in Live \cup {"absent", "freed"} /\ Phase(state', told')
          /\ is_closing' \in BOOLEAN /\ sent' \in 0 .. QueueLimit
          /\ state' \in {"absent", "closed", "freed"} => "open" = "close"
      BY <3>1, EmitFits, Zenon
    <3> QED  BY <3>2
  <2>3. told' \in Seq(Events)
    BY <2>2 DEF Phase
  <2>4. socket' \in {"none", "up"} /\ is_websocket' \in BOOLEAN /\ is_draining' \in BOOLEAN
    BY <1>2, <1>T DEF MongooseOpen, TransportTypeOK
  <2> QED  BY <1>0, <2>1, <2>2, <2>3, <2>4 DEF TransportInv, Unhooked
<1>3. ASSUME NEW e \in Payload, MongooseEvent(e) PROVE TransportInv'
  <2>1. driven' \in 0 .. MaxEvents
    BY <1>3, <1>T, TransportAssumption DEF MongooseEvent, TransportTypeOK
  <2>2. /\ state' \in Live \cup {"absent", "freed"} /\ Phase(state', told')
        /\ is_closing' \in BOOLEAN /\ sent' \in 0 .. QueueLimit
        /\ state' \in {"absent", "closed", "freed"} => e = "close"
    BY <1>3, <1>T, EmitFits DEF MongooseEvent, TransportTypeOK
  <2>3. told' \in Seq(Events) /\ state' \notin {"absent", "closed", "freed"}
    BY <2>2 DEF Phase, Payload
  <2>4. socket' \in {"none", "up"} /\ is_websocket' \in BOOLEAN /\ is_draining' \in BOOLEAN
    BY <1>3, <1>T DEF MongooseEvent, TransportTypeOK
  <2> QED  BY <1>0, <2>1, <2>2, <2>3, <2>4 DEF TransportInv, Unhooked
<1>4. CASE MongooseClosed
  <2>1. /\ state' \in Live \cup {"absent", "freed"} /\ Phase(state', told')
        /\ is_closing' \in BOOLEAN /\ sent' \in 0 .. QueueLimit
    BY <1>4, <1>T, EmitFits DEF MongooseClosed, TransportTypeOK
  <2>2. told' \in Seq(Events)
    BY <2>1 DEF Phase
  <2>3. /\ socket' = "none" /\ driven' \in 0 .. MaxEvents
        /\ is_websocket' \in BOOLEAN /\ is_draining' \in BOOLEAN
    BY <1>4, <1>T DEF MongooseClosed, TransportTypeOK
  <2> QED  BY <1>0, <2>1, <2>2, <2>3 DEF TransportInv, Unhooked
<1>5. CASE MongooseFlush
  <2>1. sent' \in 0 .. QueueLimit
    BY <1>5, <1>T, TransportAssumption DEF MongooseFlush, TransportTypeOK
  <2>2. UNCHANGED <<state, socket, is_closing, is_draining, is_websocket, told, driven>>
    BY <1>5 DEF MongooseFlush
  <2> QED  BY <1>0, <2>1, <2>2 DEF TransportInv, TransportTypeOK, Unhooked, Phase
<1>6. ASSUME NEW w \in Reactions, Application(w) PROVE TransportInv'
  <2>1. /\ state \in Live /\ told \in Seq(Events) /\ Phase(state, told) /\ is_websocket \in BOOLEAN
    BY <1>6, <1>T DEF Application, TransportInv, Phase, TransportTypeOK
  <2>A. /\ state' = Reaction(w, state, is_websocket).state
        /\ is_closing' = Reaction(w, state, is_websocket).closing
        /\ sent' = Reaction(w, state, is_websocket).sent
        /\ told' = told \o Reaction(w, state, is_websocket).log
    BY <1>6 DEF Application
  <2>2. /\ state' \in Live \cup {"freed"} /\ Phase(state', told')
        /\ is_closing' \in BOOLEAN /\ sent' \in 0 .. QueueLimit
        /\ state' \in {"closed", "freed"} => state = "closed"
    BY <1>T, <2>A, <2>1, ReactionFits
  <2>3. told' \in Seq(Events)
    BY <2>2 DEF Phase
  <2>4. UNCHANGED <<socket, is_draining, is_websocket, driven>>
    BY <1>6 DEF Application
  <2> QED  BY <1>0, <1>T, <2>2, <2>3, <2>4 DEF TransportInv, TransportTypeOK, Unhooked, Live
<1>7. CASE UNCHANGED transportVars
  BY <1>0, <1>7 DEF transportVars, TransportInv, TransportTypeOK, Unhooked, Phase
<1>8. CASE MongooseDrain
  BY <1>0, <1>8 DEF MongooseDrain, TransportInv, TransportTypeOK, Unhooked, Phase
<1> QED  BY <1>1, <1>2, <1>3, <1>4, <1>5, <1>6, <1>7, <1>8 DEF TransportNext

\* Types of the transport and of the log the application sees; the send buffer
\* never exceeds its limit (transport.mongoose.c).
THEOREM TransportTypes == TransportSpec => []TransportTypeOK
<1>1. TransportInv => TransportTypeOK
  BY DEF TransportInv
<1> QED  BY TransportInit, TransportStep, <1>1, PTL DEF TransportSpec

\* For any number of events, whatever the application does inside and outside its
\* callback: OPEN comes first and once, traffic only between it and the application's
\* close, CLOSE is last, and a closed or freed transport has no socket left.
THEOREM EventsAlwaysInOrder == TransportSpec => []EventOrder
<1>1. TransportInv => EventOrder
  BY DEF TransportInv, Phase, Unhooked, EventOrder
<1> QED  BY TransportInit, TransportStep, <1>1, PTL DEF TransportSpec

-----------------------------------------------------------------------------
(* The SOCKS handshake.  Parsing a longer stream goes on where parsing its  *)
(* beginning stopped.                                                       *)

Bytes == 0 .. 255

\* What is left behind the first n bytes.
LEMMA FromIs ==
    ASSUME NEW s \in Seq(Bytes), NEW n \in Nat, n <= Len(s)
    PROVE  /\ From(s, n) \in Seq(Bytes) /\ Len(From(s, n)) = Len(s) - n
           /\ \A i \in 1 .. Len(s) - n : From(s, n)[i] = s[n + i]
<1>1. PICK m \in Int, l \in Int : m = n + 1 /\ l = Len(s)
  OBVIOUS
<1>2. /\ SubSeq(s, m, l) \in Seq(Bytes)
      /\ Len(SubSeq(s, m, l)) = IF m <= l THEN l - m + 1 ELSE 0
      /\ \A i \in 1 .. l - m + 1 : SubSeq(s, m, l)[i] = s[m + i - 1]
  <2>1. \A i \in m .. l : s[i] \in Bytes
    BY <1>1
  <2> QED  BY <1>1, <2>1, SubSeqProperties
<1>3. From(s, n) = SubSeq(s, m, l)
  BY <1>1 DEF From
<1>4. Len(From(s, n)) = Len(s) - n
  BY <1>1, <1>2, <1>3
<1>5. \A i \in 1 .. Len(s) - n : From(s, n)[i] = s[n + i]
  <2> SUFFICES ASSUME NEW i \in 1 .. Len(s) - n PROVE From(s, n)[i] = s[n + i]
    OBVIOUS
  <2>1. i \in 1 .. l - m + 1 /\ m + i - 1 = n + i
    BY <1>1
  <2> QED  BY <1>2, <1>3, <2>1
<1> QED  BY <1>2, <1>3, <1>4, <1>5

\* t is s with x behind it.
Joined(s, x, t) ==
    /\ t \in Seq(Bytes) /\ Len(t) = Len(s) + Len(x)
    /\ \A i \in 1 .. Len(s) : t[i] = s[i]
    /\ \A i \in 1 .. Len(x) : t[Len(s) + i] = x[i]

\* Two pieces, one behind the other.
LEMMA JoinedIs ==
    ASSUME NEW s \in Seq(Bytes), NEW x \in Seq(Bytes)
    PROVE  Joined(s, x, s \o x)
<1>1. /\ s \o x \in Seq(Bytes) /\ Len(s \o x) = Len(s) + Len(x)
      /\ \A i \in 1 .. Len(s) + Len(x) : (s \o x)[i] = IF i <= Len(s) THEN s[i] ELSE x[i - Len(s)]
  BY ConcatProperties
<1>2. PICK t : t = s \o x
  OBVIOUS
<1>3. \A i \in 1 .. Len(s) : t[i] = s[i]
  BY <1>1, <1>2
<1>4. \A i \in 1 .. Len(x) : t[Len(s) + i] = x[i]
  <2> SUFFICES ASSUME NEW i \in 1 .. Len(x) PROVE t[Len(s) + i] = x[i]
    OBVIOUS
  <2>1. PICK j \in Int : j = Len(s) + i
    OBVIOUS
  <2>2. j \in 1 .. Len(s) + Len(x) /\ ~(j <= Len(s)) /\ j - Len(s) = i
    BY <2>1
  <2> QED  BY <1>1, <1>2, <2>1, <2>2
<1> QED  BY <1>1, <1>2, <1>3, <1>4 DEF Joined

\* Bytes that arrive later do not disturb what is taken from the beginning.
LEMMA FromJoined ==
    ASSUME NEW s \in Seq(Bytes), NEW x \in Seq(Bytes), NEW n \in Nat, n <= Len(s)
    PROVE  From(s \o x, n) = From(s, n) \o x
<1>1. PICK t, f, l, r : t = s \o x /\ f = From(s, n) /\ l = From(t, n) /\ r = f \o x
  OBVIOUS
<1>2. Joined(s, x, t)
  BY <1>1, JoinedIs
<1>3. t \in Seq(Bytes) /\ Len(t) = Len(s) + Len(x)
  BY <1>2 DEF Joined
<1>4. f \in Seq(Bytes) /\ Len(f) = Len(s) - n /\ \A i \in 1 .. Len(s) - n : f[i] = s[n + i]
  BY <1>1, FromIs
<1>5. Joined(f, x, r)
  BY <1>1, <1>4, JoinedIs
<1>6. l \in Seq(Bytes) /\ Len(l) = Len(t) - n /\ \A i \in 1 .. Len(t) - n : l[i] = t[n + i]
  <2>1. n <= Len(t)
    BY <1>3
  <2> QED  BY <1>1, <1>3, <2>1, FromIs
<1>7. r \in Seq(Bytes) /\ Len(r) = Len(l)
  BY <1>3, <1>4, <1>5, <1>6 DEF Joined
<1>8. ASSUME NEW i \in 1 .. Len(l) PROVE l[i] = r[i]
  <2>1. l[i] = t[n + i]
    BY <1>6
  <2>2. CASE i <= Len(s) - n
    <3>1. t[n + i] = s[n + i]
      <4>1. PICK j \in Int : j = n + i
        BY <1>6
      <4>2. j \in 1 .. Len(s)
        BY <1>6, <2>2, <4>1
      <4> QED  BY <1>2, <4>1, <4>2 DEF Joined
    <3>2. r[i] = f[i] /\ f[i] = s[n + i]
      <4>1. i \in 1 .. Len(s) - n /\ i \in 1 .. Len(f)
        BY <1>3, <1>4, <1>6, <2>2
      <4> QED  BY <1>4, <1>5, <4>1 DEF Joined
    <3> QED  BY <2>1, <3>1, <3>2
  <2>3. CASE i > Len(s) - n
    <3>1. PICK j : j = i - (Len(s) - n)
      OBVIOUS
    <3>2. j \in 1 .. Len(x) /\ Len(s) + j = n + i /\ Len(f) + j = i
      BY <1>3, <1>4, <1>6, <2>3, <3>1
    <3>3. t[Len(s) + j] = x[j] /\ r[Len(f) + j] = x[j]
      BY <1>2, <1>5, <3>2 DEF Joined
    <3> QED  BY <2>1, <3>2, <3>3
  <2> QED  BY <2>2, <2>3
<1>9. l = r
  BY <1>6, <1>7, <1>8, SeqEqual
<1> QED  BY <1>1, <1>9

\* The length of a reply is known from its first five bytes.
LEMMA ReplyKeepsLength ==
    ASSUME NEW s \in Seq(Bytes), NEW t \in Seq(Bytes), Len(s) >= 5, Len(t) >= 5,
           s[4] = t[4], s[5] = t[5]
    PROVE  ReplyLength(s) = ReplyLength(t) /\ ReplyLength(s) \in Nat /\ ReplyLength(s) >= 7
<1>1. s[5] \in 0 .. 255
  <2>1. PICK k \in 1 .. Len(s) : k = 5
    OBVIOUS
  <2>2. s[k] \in Bytes
    OBVIOUS
  <2> QED  BY <2>1, <2>2 DEF Bytes
<1>2. CASE s[4] = 1
  BY <1>2 DEF ReplyLength
<1>3. CASE s[4] = 4
  BY <1>3 DEF ReplyLength
<1>4. CASE s[4] \notin {1, 4}
  <2>1. ReplyLength(s) = 7 + s[5]
    BY <1>4 DEF ReplyLength
  <2>2. ReplyLength(t) = 7 + t[5]
    BY <1>4 DEF ReplyLength
  <2>3. ReplyLength(s) = ReplyLength(t)
    BY <2>1, <2>2
  <2>4. PICK k \in 0 .. 255 : k = s[5]
    BY <1>1
  <2>5. 7 + k \in Nat /\ 7 + k >= 7
    OBVIOUS
  <2> QED  BY <2>1, <2>3, <2>4, <2>5
<1> QED  BY <1>2, <1>3, <1>4

-----------------------------------------------------------------------------
(* One turn of the loop in each stage.                                     *)

\* The proxy takes our method, accepts our credentials, refuses the connection, or has
\* sent the whole of a good reply.
Greets(b, user) == b[1] = 5 /\ b[2] = Method(user)
Admits(b) == b[1] = 1 /\ b[2] = 0
Refuses(p) == \/ Len(p) >= 4 /\ (p[1] # 5 \/ p[3] # 0 \/ p[2] # 0 \/ p[4] \notin {1, 3, 4})
              \/ Len(p) >= 5 /\ p[4] = 3 /\ p[5] = 0
IsWhole(p) == ~Refuses(p) /\ Len(p) >= 5 /\ Len(p) >= ReplyLength(p)

\* The fields of a client record.
LEMMA Clients ==
    ASSUME NEW st, NEW b, NEW asked, NEW d, NEW c, c = Client(st, b, asked, d)
    PROVE  c.stage = st /\ c.recv = b /\ c.requests = asked /\ c.flow = d
BY DEF Client

\* A client whose read event has returned takes no further turn.
LEMMA TurnDone ==
    ASSUME NEW st, NEW b, NEW asked, NEW user, NEW c, c = Client(st, b, asked, "return")
    PROVE  Turn(c, user) = c
<1>1. c.flow = "return"
  BY Clients
<1> QED  BY <1>1 DEF Turn

\* A turn on the method the proxy chose.
LEMMA TurnGreeting ==
    ASSUME NEW b \in Seq(Bytes), NEW asked, NEW user \in BOOLEAN, NEW c, c = Client("greeting", b, asked, "continue")
    PROVE  /\ Len(b) < 2 => Turn(c, user) = Client("greeting", b, asked, "return")
           /\ Len(b) >= 2 /\ ~Greets(b, user) => Turn(c, user) = Client("failed", b, asked, "return")
           /\ Len(b) >= 2 /\ Greets(b, user) /\ user =>
                 Turn(c, user) = Client("auth", From(b, 2), Append(asked, "auth"), "continue")
           /\ Len(b) >= 2 /\ Greets(b, user) /\ ~user =>
                 Turn(c, user) = Client("connect", From(b, 2), Append(asked, "connect"), "continue")
<1>1. c.stage = "greeting" /\ c.recv = b /\ c.requests = asked
  BY Clients
<1>2. c.flow = "continue"
  BY Clients
<1>3. Turn(c, user) = ParseGreeting(c, user)
  BY <1>1, <1>2 DEF Turn
<1>4. Len(b) < 2 => ParseGreeting(c, user) = Client("greeting", b, asked, "return")
  BY <1>1 DEF ParseGreeting, Pends
<1>5. Len(b) >= 2 /\ ~Greets(b, user) => ParseGreeting(c, user) = Client("failed", b, asked, "return")
  BY <1>1 DEF ParseGreeting, Fails, Greets
<1>6. ASSUME Len(b) >= 2, Greets(b, user), user
      PROVE  ParseGreeting(c, user) = Client("auth", From(b, 2), Append(asked, "auth"), "continue")
  <2>1. ~(Len(b) < 2) /\ ~(b[1] # 5 \/ b[2] # Method(user))
    BY <1>6 DEF Greets
  <2>2. ParseGreeting(c, user) = IF user THEN Asks(c, "auth", "auth", 2) ELSE Asks(c, "connect", "connect", 2)
    BY <1>1, <2>1 DEF ParseGreeting
  <2>3. ParseGreeting(c, user) = Asks(c, "auth", "auth", 2)
    BY <1>6, <2>2
  <2> QED  BY <1>1, <2>3 DEF Asks
<1>7. Len(b) >= 2 /\ Greets(b, user) /\ ~user =>
         ParseGreeting(c, user) = Client("connect", From(b, 2), Append(asked, "connect"), "continue")
  BY <1>1 DEF ParseGreeting, Asks, Greets
<1> QED  BY <1>3, <1>4, <1>5, <1>6, <1>7

\* A turn on the proxy's answer to the credentials.
LEMMA TurnAuth ==
    ASSUME NEW b \in Seq(Bytes), NEW asked, NEW user \in BOOLEAN, NEW c, c = Client("auth", b, asked, "continue")
    PROVE  /\ Len(b) < 2 => Turn(c, user) = Client("auth", b, asked, "return")
           /\ Len(b) >= 2 /\ ~Admits(b) => Turn(c, user) = Client("failed", b, asked, "return")
           /\ Len(b) >= 2 /\ Admits(b) =>
                 Turn(c, user) = Client("connect", From(b, 2), Append(asked, "connect"), "continue")
<1>1. c.stage = "auth" /\ c.recv = b /\ c.requests = asked
  BY Clients
<1>2. c.flow = "continue"
  BY Clients
<1>3. Turn(c, user) = ParseAuth(c)
  BY <1>1, <1>2 DEF Turn
<1>4. Len(b) < 2 => ParseAuth(c) = Client("auth", b, asked, "return")
  BY <1>1 DEF ParseAuth, Pends
<1>5. Len(b) >= 2 /\ ~Admits(b) => ParseAuth(c) = Client("failed", b, asked, "return")
  BY <1>1 DEF ParseAuth, Fails, Admits
<1>6. Len(b) >= 2 /\ Admits(b) =>
         ParseAuth(c) = Client("connect", From(b, 2), Append(asked, "connect"), "continue")
  BY <1>1 DEF ParseAuth, Asks, Admits
<1> QED  BY <1>3, <1>4, <1>5, <1>6

\* A turn on the reply to CONNECT.
LEMMA TurnConnect ==
    ASSUME NEW p \in Seq(Bytes), NEW asked, NEW user \in BOOLEAN, NEW c, c = Client("connect", p, asked, "continue")
    PROVE  /\ Refuses(p) => Turn(c, user) = Client("failed", p, asked, "return")
           /\ IsWhole(p) => Turn(c, user) = Client("ready", From(p, ReplyLength(p)), asked, "return")
           /\ ~Refuses(p) /\ ~IsWhole(p) => Turn(c, user) = Client("connect", p, asked, "return")
<1>1. c.stage = "connect" /\ c.recv = p /\ c.requests = asked
  BY Clients
<1>2. c.flow = "continue"
  BY Clients
<1>3. Turn(c, user) = ParseConnect(c)
  BY <1>1, <1>2 DEF Turn
<1>4. Fails(c) = Client("failed", p, asked, "return") /\ Pends(c) = Client("connect", p, asked, "return")
  BY <1>1 DEF Fails, Pends
<1>5. Refuses(p) => ParseConnect(c) = Fails(c)
  BY <1>1 DEF ParseConnect, Refuses
<1>6. ASSUME IsWhole(p) PROVE ParseConnect(c) = Client("ready", From(p, ReplyLength(p)), asked, "return")
  <2>1. ~Refuses(p) /\ Len(p) >= 5 /\ Len(p) \in Nat
    BY <1>6 DEF IsWhole
  <2>2. ReplyLength(p) \in Nat /\ ~(Len(p) < ReplyLength(p))
    <3>1. ReplyLength(p) \in Nat
      BY <2>1, ReplyKeepsLength
    <3> QED  BY <1>6, <2>1, <3>1 DEF IsWhole
  <2>3. ParseConnect(c) = IF Len(p) < ReplyLength(p) THEN Pends(c)
                          ELSE Client("ready", From(p, ReplyLength(p)), asked, "return")
    BY <1>1, <2>1 DEF ParseConnect, Refuses
  <2> QED  BY <2>2, <2>3
<1>7. ~Refuses(p) /\ ~IsWhole(p) => ParseConnect(c) = Pends(c)
  <2> SUFFICES ASSUME ~Refuses(p), ~IsWhole(p) PROVE ParseConnect(c) = Pends(c)
    OBVIOUS
  <2>1. CASE Len(p) < 4
    BY <1>1, <2>1 DEF ParseConnect
  <2>2. CASE Len(p) = 4 /\ p[4] = 3
    BY <1>1, <2>2 DEF ParseConnect, Refuses
  <2>3. CASE Len(p) = 4 /\ p[4] # 3
    <3>1. ReplyLength(p) \in {10, 22}
      BY <2>3 DEF ReplyLength, Refuses
    <3>2. ParseConnect(c) = IF Len(p) < ReplyLength(p) THEN Pends(c)
                            ELSE Client("ready", From(p, ReplyLength(p)), asked, "return")
      <4>1. /\ ~(Len(p) < 4) /\ ~(Len(p) >= 5)
            /\ ~(p[1] # 5 \/ p[3] # 0 \/ p[2] # 0 \/ p[4] \notin {1, 3, 4}) /\ ~(p[4] = 3)
        BY <2>3 DEF Refuses
      <4> QED  BY <1>1, <4>1 DEF ParseConnect
    <3> QED  BY <2>3, <3>1, <3>2
  <2>4. CASE Len(p) >= 5
    <3>1. Len(p) < ReplyLength(p)
      <4>1. ReplyLength(p) \in Nat
        BY <2>4, ReplyKeepsLength
      <4> QED  BY <2>4, <4>1 DEF IsWhole
    <3> QED  BY <1>1, <2>4, <3>1 DEF ParseConnect, Refuses
  <2>5. PICK n \in Nat : n = Len(p)
    OBVIOUS
  <2>6. Len(p) < 4 \/ Len(p) = 4 \/ Len(p) >= 5
    BY <2>5
  <2> QED  BY <2>1, <2>2, <2>3, <2>4, <2>6
<1> QED  BY <1>3, <1>4, <1>5, <1>6, <1>7

-----------------------------------------------------------------------------
(* The loop from each stage, as the next stage's loop on what is left.     *)

\* The loop in the last stage is one turn.
LEMMA FromConnect ==
    ASSUME NEW p \in Seq(Bytes), NEW asked, NEW user \in BOOLEAN
    PROVE  /\ Refuses(p) => Parsed("connect", p, asked, user) = Client("failed", p, asked, "return")
           /\ IsWhole(p) => Parsed("connect", p, asked, user) = Client("ready", From(p, ReplyLength(p)), asked, "return")
           /\ ~Refuses(p) /\ ~IsWhole(p) => Parsed("connect", p, asked, user) = Client("connect", p, asked, "return")
<1>1. PICK c, d : c = Client("connect", p, asked, "continue") /\ d = Turn(c, user)
  OBVIOUS
<1>2. Parsed("connect", p, asked, user) = Turn(Turn(d, user), user)
  BY <1>1 DEF Parsed
<1>3. \A st, b : d = Client(st, b, asked, "return") => Parsed("connect", p, asked, user) = d
  BY <1>2, TurnDone
<1>4. /\ Refuses(p) => d = Client("failed", p, asked, "return")
      /\ IsWhole(p) => d = Client("ready", From(p, ReplyLength(p)), asked, "return")
      /\ ~Refuses(p) /\ ~IsWhole(p) => d = Client("connect", p, asked, "return")
  BY <1>1, TurnConnect
<1> QED  BY <1>3, <1>4

\* Further turns after the last stage change nothing.
LEMMA EndsConnect ==
    ASSUME NEW p \in Seq(Bytes), NEW asked, NEW user \in BOOLEAN, NEW c, c = Client("connect", p, asked, "continue")
    PROVE  Turn(Turn(c, user), user) = Parsed("connect", p, asked, user) /\ Turn(c, user) = Parsed("connect", p, asked, user)
<1>1. PICK d : d = Turn(c, user)
  OBVIOUS
<1>2. \E st, b : d = Client(st, b, asked, "return")
  BY <1>1, TurnConnect
<1>3. Turn(d, user) = d
  BY <1>2, TurnDone
<1>4. Parsed("connect", p, asked, user) = Turn(Turn(d, user), user)
  BY <1>1 DEF Parsed
<1> QED  BY <1>1, <1>3, <1>4

\* The loop that begins with the answer to the credentials.
LEMMA FromAuth ==
    ASSUME NEW b \in Seq(Bytes), NEW asked, NEW user \in BOOLEAN
    PROVE  /\ Len(b) < 2 => Parsed("auth", b, asked, user) = Client("auth", b, asked, "return")
           /\ Len(b) >= 2 /\ ~Admits(b) => Parsed("auth", b, asked, user) = Client("failed", b, asked, "return")
           /\ Len(b) >= 2 /\ Admits(b) =>
                 Parsed("auth", b, asked, user) = Parsed("connect", From(b, 2), Append(asked, "connect"), user)
<1>1. PICK c, d : c = Client("auth", b, asked, "continue") /\ d = Turn(c, user)
  OBVIOUS
<1>2. Parsed("auth", b, asked, user) = Turn(Turn(d, user), user)
  BY <1>1 DEF Parsed
<1>3. \A st : d = Client(st, b, asked, "return") => Parsed("auth", b, asked, user) = d
  BY <1>2, TurnDone
<1>4. /\ Len(b) < 2 => d = Client("auth", b, asked, "return")
      /\ Len(b) >= 2 /\ ~Admits(b) => d = Client("failed", b, asked, "return")
      /\ Len(b) >= 2 /\ Admits(b) => d = Client("connect", From(b, 2), Append(asked, "connect"), "continue")
  BY <1>1, TurnAuth
<1>5. ASSUME Len(b) >= 2, Admits(b)
      PROVE  Parsed("auth", b, asked, user) = Parsed("connect", From(b, 2), Append(asked, "connect"), user)
  <2>1. From(b, 2) \in Seq(Bytes)
    BY <1>5, FromIs
  <2>2. PICK f, a : f = From(b, 2) /\ a = Append(asked, "connect")
    OBVIOUS
  <2>3. Turn(Turn(d, user), user) = Parsed("connect", f, a, user)
    BY <1>4, <1>5, <2>1, <2>2, EndsConnect
  <2> QED  BY <1>2, <2>2, <2>3
<1> QED  BY <1>3, <1>4, <1>5

\* The loop that begins with the method the proxy chose.
LEMMA FromGreeting ==
    ASSUME NEW b \in Seq(Bytes), NEW asked, NEW user \in BOOLEAN
    PROVE  /\ Len(b) < 2 => Parsed("greeting", b, asked, user) = Client("greeting", b, asked, "return")
           /\ Len(b) >= 2 /\ ~Greets(b, user) => Parsed("greeting", b, asked, user) = Client("failed", b, asked, "return")
           /\ Len(b) >= 2 /\ Greets(b, user) /\ user =>
                 Parsed("greeting", b, asked, user) = Parsed("auth", From(b, 2), Append(asked, "auth"), user)
           /\ Len(b) >= 2 /\ Greets(b, user) /\ ~user =>
                 Parsed("greeting", b, asked, user) = Parsed("connect", From(b, 2), Append(asked, "connect"), user)
<1>1. PICK c, d : c = Client("greeting", b, asked, "continue") /\ d = Turn(c, user)
  OBVIOUS
<1>2. Parsed("greeting", b, asked, user) = Turn(Turn(d, user), user)
  BY <1>1 DEF Parsed
<1>3. \A st : d = Client(st, b, asked, "return") => Parsed("greeting", b, asked, user) = d
  BY <1>2, TurnDone
<1>4. /\ Len(b) < 2 => d = Client("greeting", b, asked, "return")
      /\ Len(b) >= 2 /\ ~Greets(b, user) => d = Client("failed", b, asked, "return")
      /\ Len(b) >= 2 /\ Greets(b, user) /\ user =>
            d = Client("auth", From(b, 2), Append(asked, "auth"), "continue")
      /\ Len(b) >= 2 /\ Greets(b, user) /\ ~user =>
            d = Client("connect", From(b, 2), Append(asked, "connect"), "continue")
  BY <1>1, TurnGreeting
<1>5. ASSUME Len(b) >= 2, Greets(b, user), ~user
      PROVE  Parsed("greeting", b, asked, user) = Parsed("connect", From(b, 2), Append(asked, "connect"), user)
  <2>1. From(b, 2) \in Seq(Bytes)
    BY <1>5, FromIs
  <2>2. PICK f, a : f = From(b, 2) /\ a = Append(asked, "connect")
    OBVIOUS
  <2>3. Turn(Turn(d, user), user) = Parsed("connect", f, a, user)
    BY <1>4, <1>5, <2>1, <2>2, EndsConnect
  <2> QED  BY <1>2, <2>2, <2>3
<1>6. ASSUME Len(b) >= 2, Greets(b, user), user
      PROVE  Parsed("greeting", b, asked, user) = Parsed("auth", From(b, 2), Append(asked, "auth"), user)
  <2>1. From(b, 2) \in Seq(Bytes)
    BY <1>6, FromIs
  <2>2. PICK f, a : f = From(b, 2) /\ a = Append(asked, "auth")
    OBVIOUS
  <2>3. d = Client("auth", f, a, "continue") /\ f \in Seq(Bytes)
    BY <1>4, <1>6, <2>1, <2>2
  <2>4. Parsed("auth", f, a, user) = Turn(Turn(Turn(d, user), user), user)
    BY <2>3 DEF Parsed
  <2>5. PICK e : e = Turn(d, user)
    OBVIOUS
  <2>6. /\ Len(f) < 2 => e = Client("auth", f, a, "return")
        /\ Len(f) >= 2 /\ ~Admits(f) => e = Client("failed", f, a, "return")
        /\ Len(f) >= 2 /\ Admits(f) => e = Client("connect", From(f, 2), Append(a, "connect"), "continue")
    BY <2>3, <2>5, TurnAuth
  <2>7. Turn(Turn(e, user), user) = Turn(e, user)
    <3>1. CASE Len(f) < 2 \/ ~Admits(f)
      <4>1. \E st : e = Client(st, f, a, "return")
        BY <2>3, <2>6, <3>1
      <4> QED  BY <4>1, TurnDone
    <3>2. CASE Len(f) >= 2 /\ Admits(f)
      <4>1. From(f, 2) \in Seq(Bytes)
        BY <2>3, <3>2, FromIs
      <4>2. PICK g, h : g = From(f, 2) /\ h = Append(a, "connect")
        OBVIOUS
      <4>3. Turn(Turn(e, user), user) = Parsed("connect", g, h, user) /\ Turn(e, user) = Parsed("connect", g, h, user)
        BY <2>6, <3>2, <4>1, <4>2, EndsConnect
      <4> QED  BY <4>3
    <3>3. Len(f) \in Nat
      BY <2>3
    <3> QED  BY <3>1, <3>2, <3>3
  <2> QED  BY <1>2, <2>2, <2>4, <2>5, <2>7
<1> QED  BY <1>3, <1>4, <1>5, <1>6

-----------------------------------------------------------------------------
(* A loop that stopped for want of bytes, or was done, goes on as one loop.  *)

\* What parsing b came to, with x arriving later.
GoesOn(c, x, user) ==
    IF c.stage = "ready" THEN Client("ready", c.recv \o x, c.requests, "return")
    ELSE Parsed(c.stage, c.recv \o x, c.requests, user)

\* The loop on b and the loop on b and x together.
Resumes(st, b, asked, x, user) ==
    LET c == Parsed(st, b, asked, user)
    IN  /\ c.stage \in {"greeting", "auth", "connect", "ready", "failed"} /\ c.recv \in Seq(Bytes)
        /\ c.flow = "return"
        /\ c.stage # "failed" => Parsed(st, b \o x, asked, user) = GoesOn(c, x, user)

\* A reply to CONNECT cut anywhere is parsed as if it came in one piece.
LEMMA ResumesConnect ==
    ASSUME NEW p \in Seq(Bytes), NEW x \in Seq(Bytes), NEW asked, NEW user \in BOOLEAN
    PROVE  Resumes("connect", p, asked, x, user)
<1>1. PICK c, q : c = Parsed("connect", p, asked, user) /\ q = p \o x
  OBVIOUS
<1>2. Joined(p, x, q)
  BY <1>1, JoinedIs
<1>3. CASE Refuses(p)
  <2>1. c = Client("failed", p, asked, "return")
    BY <1>1, <1>3, FromConnect
  <2>2. c.stage = "failed" /\ c.recv = p /\ c.flow = "return"
    BY <2>1 DEF Client
  <2> QED  BY <1>1, <2>2 DEF Resumes
<1>4. CASE IsWhole(p)
  <2>1. PICK n \in Nat : n = ReplyLength(p) /\ n <= Len(p) /\ Len(p) >= 5
    <3>1. Len(p) >= 5
      BY <1>4 DEF IsWhole
    <3>2. ReplyLength(p) \in Nat
      BY <3>1, ReplyKeepsLength
    <3> QED  BY <1>4, <3>1, <3>2 DEF IsWhole
  <2>2. c = Client("ready", From(p, n), asked, "return")
    BY <1>1, <1>4, <2>1, FromConnect
  <2>3. c.stage = "ready" /\ c.recv = From(p, n) /\ c.requests = asked /\ c.flow = "return" /\ c.recv \in Seq(Bytes)
    <3>1. c.stage = "ready" /\ c.recv = From(p, n) /\ c.requests = asked /\ c.flow = "return"
      BY <2>2 DEF Client
    <3>2. From(p, n) \in Seq(Bytes)
      BY <2>1, FromIs
    <3> QED  BY <3>1, <3>2
  <2>4. q \in Seq(Bytes) /\ Len(q) = Len(p) + Len(x) /\ \A i \in 1 .. Len(p) : q[i] = p[i]
    BY <1>2 DEF Joined
  <2>5. q[1] = p[1] /\ q[2] = p[2] /\ q[3] = p[3] /\ q[4] = p[4] /\ q[5] = p[5] /\ Len(q) >= 5 /\ n <= Len(q)
    BY <2>1, <2>4
  <2>6. ReplyLength(q) = n
    BY <2>1, <2>4, <2>5, ReplyKeepsLength
  <2>7. IsWhole(q)
    <3>1. ~Refuses(q)
      BY <1>4, <2>1, <2>5 DEF IsWhole, Refuses
    <3> QED  BY <2>5, <2>6, <3>1 DEF IsWhole
  <2>8. Parsed("connect", q, asked, user) = Client("ready", From(q, n), asked, "return")
    BY <2>4, <2>6, <2>7, FromConnect
  <2>9. From(q, n) = From(p, n) \o x
    BY <1>1, <2>1, FromJoined
  <2> QED  BY <1>1, <2>3, <2>8, <2>9 DEF Resumes, GoesOn
<1>5. CASE ~Refuses(p) /\ ~IsWhole(p)
  <2>1. c = Client("connect", p, asked, "return")
    BY <1>1, <1>5, FromConnect
  <2>2. c.stage = "connect" /\ c.recv = p /\ c.requests = asked /\ c.flow = "return"
    BY <2>1 DEF Client
  <2> QED  BY <1>1, <2>2 DEF Resumes, GoesOn
<1> QED  BY <1>3, <1>4, <1>5

\* A loop in stage st that becomes the loop of stage su after n bytes.
LEMMA ResumesLater ==
    ASSUME NEW st, NEW su, NEW b \in Seq(Bytes), NEW x \in Seq(Bytes), Len(b) >= 2,
           NEW asked, NEW more, NEW user \in BOOLEAN,
           Parsed(st, b, asked, user) = Parsed(su, From(b, 2), more, user),
           Parsed(st, b \o x, asked, user) = Parsed(su, From(b \o x, 2), more, user),
           Resumes(su, From(b, 2), more, x, user)
    PROVE  Resumes(st, b, asked, x, user)
<1>1. From(b \o x, 2) = From(b, 2) \o x
  BY FromJoined
<1> QED  BY <1>1 DEF Resumes

\* The same from the answer to the credentials on.
LEMMA ResumesAuth ==
    ASSUME NEW b \in Seq(Bytes), NEW x \in Seq(Bytes), NEW asked, NEW user \in BOOLEAN
    PROVE  Resumes("auth", b, asked, x, user)
<1>1. PICK c, q : c = Parsed("auth", b, asked, user) /\ q = b \o x
  OBVIOUS
<1>2. q \in Seq(Bytes) /\ Len(q) = Len(b) + Len(x) /\ \A i \in 1 .. Len(b) : q[i] = b[i]
  BY <1>1, JoinedIs DEF Joined
<1>3. CASE Len(b) < 2
  <2>1. c = Client("auth", b, asked, "return")
    BY <1>1, <1>3, FromAuth
  <2>2. c.stage = "auth" /\ c.recv = b /\ c.requests = asked /\ c.flow = "return"
    BY <2>1 DEF Client
  <2> QED  BY <1>1, <2>2 DEF Resumes, GoesOn
<1>4. CASE Len(b) >= 2 /\ ~Admits(b)
  <2>1. c = Client("failed", b, asked, "return")
    BY <1>1, <1>4, FromAuth
  <2>2. c.stage = "failed" /\ c.recv = b /\ c.flow = "return"
    BY <2>1 DEF Client
  <2> QED  BY <1>1, <2>2 DEF Resumes
<1>5. CASE Len(b) >= 2 /\ Admits(b)
  <2>1. PICK a : a = Append(asked, "connect")
    OBVIOUS
  <2>2. Len(q) >= 2 /\ Admits(q)
    <3>1. q[1] = b[1] /\ q[2] = b[2] /\ Len(q) >= 2
      BY <1>2, <1>5
    <3> QED  BY <1>5, <3>1 DEF Admits
  <2>3. Parsed("auth", b, asked, user) = Parsed("connect", From(b, 2), a, user)
    BY <1>5, <2>1, FromAuth
  <2>4. Parsed("auth", q, asked, user) = Parsed("connect", From(q, 2), a, user)
    BY <1>2, <2>1, <2>2, FromAuth
  <2>5. From(b, 2) \in Seq(Bytes)
    BY <1>5, FromIs
  <2>6. Resumes("connect", From(b, 2), a, x, user)
    BY <2>5, ResumesConnect
  <2> QED  BY <1>1, <1>5, <2>3, <2>4, <2>6, ResumesLater
<1>6. Len(b) \in Nat
  OBVIOUS
<1> QED  BY <1>3, <1>4, <1>5, <1>6

\* The same for the whole handshake.
LEMMA ResumesGreeting ==
    ASSUME NEW b \in Seq(Bytes), NEW x \in Seq(Bytes), NEW asked, NEW user \in BOOLEAN
    PROVE  Resumes("greeting", b, asked, x, user)
<1>1. PICK c, q : c = Parsed("greeting", b, asked, user) /\ q = b \o x
  OBVIOUS
<1>2. q \in Seq(Bytes) /\ Len(q) = Len(b) + Len(x) /\ \A i \in 1 .. Len(b) : q[i] = b[i]
  BY <1>1, JoinedIs DEF Joined
<1>3. CASE Len(b) < 2
  <2>1. c = Client("greeting", b, asked, "return")
    BY <1>1, <1>3, FromGreeting
  <2>2. c.stage = "greeting" /\ c.recv = b /\ c.requests = asked /\ c.flow = "return"
    BY <2>1 DEF Client
  <2> QED  BY <1>1, <2>2 DEF Resumes, GoesOn
<1>4. CASE Len(b) >= 2 /\ ~Greets(b, user)
  <2>1. c = Client("failed", b, asked, "return")
    BY <1>1, <1>4, FromGreeting
  <2>2. c.stage = "failed" /\ c.recv = b /\ c.flow = "return"
    BY <2>1 DEF Client
  <2> QED  BY <1>1, <2>2 DEF Resumes
<1>5. CASE Len(b) >= 2 /\ Greets(b, user)
  <2>1. Len(q) >= 2 /\ Greets(q, user)
    <3>1. q[1] = b[1] /\ q[2] = b[2] /\ Len(q) >= 2
      BY <1>2, <1>5
    <3> QED  BY <1>5, <3>1 DEF Greets
  <2>2. From(b, 2) \in Seq(Bytes)
    BY <1>5, FromIs
  <2>3. CASE user
    <3>1. PICK a : a = Append(asked, "auth")
      OBVIOUS
    <3>2. Parsed("greeting", b, asked, user) = Parsed("auth", From(b, 2), a, user)
      BY <1>5, <2>3, <3>1, FromGreeting
    <3>3. Parsed("greeting", q, asked, user) = Parsed("auth", From(q, 2), a, user)
      BY <1>2, <2>1, <2>3, <3>1, FromGreeting
    <3>4. Resumes("auth", From(b, 2), a, x, user)
      BY <2>2, ResumesAuth
    <3> QED  BY <1>1, <1>5, <3>2, <3>3, <3>4, ResumesLater
  <2>4. CASE ~user
    <3>1. PICK a : a = Append(asked, "connect")
      OBVIOUS
    <3>2. Parsed("greeting", b, asked, user) = Parsed("connect", From(b, 2), a, user)
      BY <1>5, <2>4, <3>1, FromGreeting
    <3>3. Parsed("greeting", q, asked, user) = Parsed("connect", From(q, 2), a, user)
      BY <1>2, <2>1, <2>4, <3>1, FromGreeting
    <3>4. Resumes("connect", From(b, 2), a, x, user)
      BY <2>2, ResumesConnect
    <3> QED  BY <1>1, <1>5, <3>2, <3>3, <3>4, ResumesLater
  <2> QED  BY <2>3, <2>4
<1>6. Len(b) \in Nat
  OBVIOUS
<1> QED  BY <1>3, <1>4, <1>5, <1>6

-----------------------------------------------------------------------------
(* What a loop over everything that arrived has asked for and believed.     *)

\* Requests a client with or without credentials has made, of the bytes b.
Asked(asked, b, user) ==
    \/ asked = <<"greeting">>
    \/ asked = <<"greeting", "auth">> /\ user /\ Len(b) >= 2 /\ b[2] = 2
    \/ asked = <<"greeting", "connect">> /\ ~user /\ Len(b) >= 2 /\ b[2] = 0
    \/ asked = <<"greeting", "auth", "connect">> /\ user /\ Len(b) >= 4 /\ b[2] = 2 /\ b[4] = 0

\* A client asks for something, and for three things at most.
LEMMA AskedSome ==
    ASSUME NEW r, NEW b, NEW user, Asked(r, b, user)
    PROVE  r # <<>> /\ Len(r) \in 1 .. 3
<1>1. \/ r = <<"greeting">> \/ r = <<"greeting", "auth">> \/ r = <<"greeting", "connect">>
      \/ r = <<"greeting", "auth", "connect">>
  BY DEF Asked
<1> QED  BY <1>1

\* The first requests of a client are those of a client that stopped earlier.
LEMMA AskedBefore ==
    ASSUME NEW r, NEW b, NEW user, Asked(r, b, user), NEW j \in 1 .. Len(r)
    PROVE  Asked(SubSeq(r, 1, j), b, user)
<1> DEFINE Words == {"greeting", "auth", "connect"}
<1>9. PICK m \in Int : m = 1
  OBVIOUS
<1>1. PICK a : a = SubSeq(r, m, j) /\ m = 1
  BY <1>9
<1>2. /\ r \in Seq(Words) /\ Len(r) \in 1 .. 3 /\ r[1] = "greeting"
      /\ Len(r) = 3 => r = <<"greeting", "auth", "connect">> /\ user /\ Len(b) >= 4 /\ b[2] = 2
  <2>1. CASE r = <<"greeting">>
    BY <2>1
  <2>2. CASE r = <<"greeting", "auth">>
    BY <2>2
  <2>3. CASE r = <<"greeting", "connect">>
    BY <2>3
  <2>4. CASE r = <<"greeting", "auth", "connect">> /\ user /\ Len(b) >= 4 /\ b[2] = 2
    BY <2>4
  <2> QED  BY <2>1, <2>2, <2>3, <2>4 DEF Asked
<1>10. PICK l \in 1 .. 3 : l = Len(r)
  BY <1>2
<1>3. j \in 1 .. 3 /\ j <= Len(r)
  <2>1. j \in 1 .. l
    BY <1>10
  <2> QED  BY <1>10, <2>1
<1>4. a \in Seq(Words) /\ Len(a) = j /\ \A i \in 1 .. j : a[i] = r[i]
  <2>1. \A i \in m .. j : r[i] \in Words
    BY <1>1, <1>2, <1>3
  <2>2. /\ a \in Seq(Words)
        /\ Len(a) = IF m <= j THEN j - m + 1 ELSE 0
        /\ \A i \in 1 .. j - m + 1 : a[i] = r[m + i - 1]
    BY <1>1, <1>3, <2>1, SubSeqProperties
  <2> QED  BY <1>1, <1>3, <2>2
<1>5. CASE j = Len(r)
  <2>1. Len(a) = Len(r) /\ \A i \in 1 .. Len(a) : a[i] = r[i]
    BY <1>4, <1>5
  <2>2. a = r
    BY <1>2, <1>4, <2>1, SeqEqual
  <2> QED  BY <1>1, <2>2
<1>6. CASE j = 1
  <2>1. a = <<"greeting">>
    BY <1>2, <1>4, <1>6
  <2> QED  BY <1>1, <2>1 DEF Asked
<1>7. CASE j = 2 /\ Len(r) = 3
  <2>1. r[1] = "greeting" /\ r[2] = "auth" /\ user /\ Len(b) >= 2 /\ b[2] = 2
    BY <1>2, <1>7
  <2>2. a = <<"greeting", "auth">>
    BY <1>4, <1>7, <2>1
  <2> QED  BY <1>1, <2>1, <2>2 DEF Asked
<1>8. j = 1 \/ j = Len(r) \/ (j = 2 /\ Len(r) = 3)
  <2>1. l = 1 \/ l = 2 \/ l = 3
    BY <1>10
  <2>2. PICK i \in 1 .. 3 : i = j /\ i <= l
    BY <1>3, <1>10
  <2>3. i = 1 \/ i = 2 \/ i = 3
    BY <2>2
  <2>4. i = 1 \/ i = l \/ (i = 2 /\ l = 3)
    BY <2>1, <2>2, <2>3
  <2> QED  BY <1>10, <2>2, <2>4
<1> QED  BY <1>5, <1>6, <1>7, <1>8

\* A reply that is believed is there as a whole.
Believed(b, user) ==
    LET reply == From(b, Before(user))
    IN  Len(b) >= Before(user) /\ Len(reply) >= 5 /\ Len(reply) >= ReplyLength(reply)

\* The loop c that began with the reply p has asked for nothing more.
Settles(c, p, asked) == c.requests = asked /\ (c.stage = "ready" => Len(p) >= 5 /\ Len(p) >= ReplyLength(p))

\* In the last stage nothing more is asked for, and only a whole reply is believed.
LEMMA ConnectAsks ==
    ASSUME NEW p \in Seq(Bytes), NEW asked, NEW user \in BOOLEAN, NEW c, c = Parsed("connect", p, asked, user)
    PROVE  Settles(c, p, asked)
<1>1. CASE Refuses(p)
  <2>1. c = Client("failed", p, asked, "return")
    BY <1>1, FromConnect
  <2> QED  BY <2>1 DEF Client, Settles
<1>2. CASE IsWhole(p)
  <2>1. c = Client("ready", From(p, ReplyLength(p)), asked, "return")
    BY <1>2, FromConnect
  <2> QED  BY <1>2, <2>1 DEF Client, IsWhole, Settles
<1>3. CASE ~Refuses(p) /\ ~IsWhole(p)
  <2>1. c = Client("connect", p, asked, "return")
    BY <1>3, FromConnect
  <2> QED  BY <2>1 DEF Client, Settles
<1> QED  BY <1>1, <1>2, <1>3

\* What a handshake parsed in one piece has asked for and believed.
LEMMA GreetingAsks ==
    ASSUME NEW b \in Seq(Bytes), NEW user \in BOOLEAN, NEW c, c = Parsed("greeting", b, <<"greeting">>, user)
    PROVE  Asked(c.requests, b, user) /\ (c.stage = "ready" => Believed(b, user))
<1>1. PICK s : s = <<"greeting">>
  OBVIOUS
<1>2. CASE Len(b) < 2
  <2>1. c = Client("greeting", b, s, "return")
    BY <1>1, <1>2, FromGreeting
  <2>2. c.stage = "greeting" /\ c.requests = s
    BY <2>1 DEF Client
  <2> QED  BY <1>1, <2>2 DEF Asked
<1>3. CASE Len(b) >= 2 /\ ~Greets(b, user)
  <2>1. c = Client("failed", b, s, "return")
    BY <1>1, <1>3, FromGreeting
  <2>2. c.stage = "failed" /\ c.requests = s
    BY <2>1 DEF Client
  <2> QED  BY <1>1, <2>2 DEF Asked
<1>4. CASE Len(b) >= 2 /\ Greets(b, user) /\ ~user
  <2>1. PICK f, a : f = From(b, 2) /\ a = <<"greeting", "connect">>
    OBVIOUS
  <2>2. a = Append(s, "connect") /\ f \in Seq(Bytes) /\ b[2] = 0
    <3>1. a = Append(s, "connect")
      BY <1>1, <2>1
    <3>2. f \in Seq(Bytes)
      BY <1>4, <2>1, FromIs
    <3>3. b[2] = 0
      BY <1>4 DEF Greets, Method
    <3> QED  BY <3>1, <3>2, <3>3
  <2>3. c = Parsed("connect", f, a, user)
    <3>1. Parsed("greeting", b, s, user) = Parsed("connect", From(b, 2), Append(s, "connect"), user)
      BY <1>4, FromGreeting
    <3> QED  BY <1>1, <2>1, <2>2, <3>1
  <2>4. c.requests = a /\ (c.stage = "ready" => Len(f) >= 5 /\ Len(f) >= ReplyLength(f))
    <3>1. Settles(c, f, a)
      BY <2>2, <2>3, ConnectAsks
    <3> QED  BY <3>1 DEF Settles
  <2>5. From(b, Before(user)) = f /\ Before(user) = 2
    BY <1>4, <2>1 DEF Before
  <2>6. Asked(c.requests, b, user)
    BY <1>4, <2>1, <2>2, <2>4 DEF Asked
  <2>7. c.stage = "ready" => Believed(b, user)
    BY <1>4, <2>4, <2>5 DEF Believed
  <2> QED  BY <2>6, <2>7
<1>5. CASE Len(b) >= 2 /\ Greets(b, user) /\ user
  <2>1. PICK f, a : f = From(b, 2) /\ a = <<"greeting", "auth">>
    OBVIOUS
  <2>2. /\ a = Append(s, "auth") /\ f \in Seq(Bytes) /\ b[2] = 2
        /\ Len(f) = Len(b) - 2 /\ \A i \in 1 .. Len(b) - 2 : f[i] = b[2 + i]
    <3>1. a = Append(s, "auth")
      BY <1>1, <2>1
    <3>2. f \in Seq(Bytes) /\ Len(f) = Len(b) - 2 /\ \A i \in 1 .. Len(b) - 2 : f[i] = b[2 + i]
      BY <1>5, <2>1, FromIs
    <3>3. b[2] = 2
      BY <1>5 DEF Greets, Method
    <3> QED  BY <3>1, <3>2, <3>3
  <2>3. c = Parsed("auth", f, a, user)
    <3>1. Parsed("greeting", b, s, user) = Parsed("auth", From(b, 2), Append(s, "auth"), user)
      BY <1>5, FromGreeting
    <3> QED  BY <1>1, <2>1, <2>2, <3>1
  <2>4. CASE Len(f) < 2
    <3>1. c = Client("auth", f, a, "return")
      BY <2>2, <2>3, <2>4, FromAuth
    <3>2. c.stage = "auth" /\ c.requests = a
      BY <3>1 DEF Client
    <3> QED  BY <1>5, <2>1, <2>2, <3>2 DEF Asked
  <2>5. CASE Len(f) >= 2 /\ ~Admits(f)
    <3>1. c = Client("failed", f, a, "return")
      BY <2>2, <2>3, <2>5, FromAuth
    <3>2. c.stage = "failed" /\ c.requests = a
      BY <3>1 DEF Client
    <3> QED  BY <1>5, <2>1, <2>2, <3>2 DEF Asked
  <2>6. CASE Len(f) >= 2 /\ Admits(f)
    <3>1. PICK g, h : g = From(f, 2) /\ h = <<"greeting", "auth", "connect">>
      OBVIOUS
    <3>2. h = Append(a, "connect")
      BY <2>1, <3>1
    <3>3. g \in Seq(Bytes) /\ Len(g) = Len(f) - 2 /\ \A i \in 1 .. Len(f) - 2 : g[i] = f[2 + i]
      BY <2>2, <2>6, <3>1, FromIs
    <3>4. c = Parsed("connect", g, h, user)
      <4>1. Parsed("auth", f, a, user) = Parsed("connect", From(f, 2), Append(a, "connect"), user)
        BY <2>2, <2>6, FromAuth
      <4> QED  BY <2>3, <3>1, <3>2, <4>1
    <3>5. c.requests = h /\ (c.stage = "ready" => Len(g) >= 5 /\ Len(g) >= ReplyLength(g))
      <4>1. Settles(c, g, h)
        BY <3>3, <3>4, ConnectAsks
      <4> QED  BY <4>1 DEF Settles
    <3>6. f[2] = b[4] /\ f[2] = 0 /\ Len(b) >= 4
      <4>1. f[2] = b[2 + 2] /\ Len(b) >= 4
        BY <2>2, <2>6
      <4> QED  BY <2>6, <4>1 DEF Admits
    <3>7. Asked(c.requests, b, user)
      BY <1>5, <2>2, <3>1, <3>5, <3>6 DEF Asked
    <3>8. From(b, 4) = g
      <4>1. PICK k : k = From(b, 4)
        OBVIOUS
      <4>2. k \in Seq(Bytes) /\ Len(k) = Len(b) - 4 /\ \A i \in 1 .. Len(b) - 4 : k[i] = b[4 + i]
        BY <3>6, <4>1, FromIs
      <4>3. Len(k) = Len(g)
        BY <2>2, <3>3, <4>2
      <4>4. ASSUME NEW i \in 1 .. Len(k) PROVE k[i] = g[i]
        <5>1. i \in 1 .. Len(f) - 2 /\ i \in 1 .. Len(b) - 4
          BY <2>2, <3>3, <4>2, <4>3
        <5>2. PICK j \in Int : j = 2 + i
          BY <5>1
        <5>3. j \in 1 .. Len(b) - 2 /\ 2 + j = 4 + i
          BY <2>2, <5>1, <5>2
        <5>4. g[i] = f[j] /\ f[j] = b[2 + j] /\ k[i] = b[4 + i]
          BY <2>2, <3>3, <4>2, <5>1, <5>2, <5>3
        <5> QED  BY <5>3, <5>4
      <4> QED  BY <3>3, <4>1, <4>2, <4>3, <4>4, SeqEqual
    <3>9. Before(user) = 4
      BY <1>5 DEF Before
    <3>10. c.stage = "ready" => Believed(b, user)
      BY <3>5, <3>6, <3>8, <3>9 DEF Believed
    <3> QED  BY <3>7, <3>10
  <2>7. PICK n \in Nat : n = Len(f)
    BY <2>2
  <2> QED  BY <2>4, <2>5, <2>6, <2>7
<1>6. PICK n \in Nat : n = Len(b)
  OBVIOUS
<1> QED  BY <1>2, <1>3, <1>4, <1>5, <1>6

-----------------------------------------------------------------------------
(* The invariant of the handshake: with k bytes arrived, the client is where *)
(* those bytes in one piece would have left it.                              *)

\* The first k bytes of the script, and the loop on them in one piece.
Arrived(k) == SubSeq(script.bytes, 1, k)
Once(k) == Parsed("greeting", Arrived(k), <<"greeting">>, script.user)

AtByte(k) ==
    /\ k \in 0 .. Len(script.bytes) /\ coming = From(script.bytes, k)
    /\ Asked(requests, Arrived(k), script.user)
    /\ cause \in {"none", "bytes"} =>
          stage = Once(k).stage /\ recv = Once(k).recv /\ requests = Once(k).requests

SocksInv ==
    /\ SocksTypeOK
    /\ stage = "off" => requests = <<>>
    /\ requests = <<>> => stage \in {"off", "failed"} /\ coming = <<>> /\ recv = <<>>
    /\ requests = <<>> => cause # "bytes"
    /\ cause = "none" <=> stage # "failed"
    /\ requests # <<>> =>
          script \in Scripts /\ (\E k \in Nat : AtByte(k)) /\ (stage = "failed" => closing)

\* The types SocksAssumption gives.
LEMMA ScriptTypes ==
    ASSUME NEW s \in Scripts
    PROVE  s.bytes \in Seq(Bytes) /\ s.user \in BOOLEAN /\ s.payload \in Nat
BY SocksAssumption DEF Bytes

\* A beginning of the script, as a sequence.
LEMMA BeginningIs ==
    ASSUME NEW p \in Seq(Bytes), NEW k \in Nat, k <= Len(p)
    PROVE  /\ SubSeq(p, 1, k) \in Seq(Bytes) /\ Len(SubSeq(p, 1, k)) = k
           /\ \A i \in 1 .. k : SubSeq(p, 1, k)[i] = p[i]
<1>1. PICK m \in Int : m = 1
  OBVIOUS
<1>2. /\ SubSeq(p, m, k) \in Seq(Bytes)
      /\ Len(SubSeq(p, m, k)) = IF m <= k THEN k - m + 1 ELSE 0
      /\ \A i \in 1 .. k - m + 1 : SubSeq(p, m, k)[i] = p[m + i - 1]
  <2>1. \A i \in m .. k : p[i] \in Bytes
    BY <1>1
  <2> QED  BY <1>1, <2>1, SubSeqProperties
<1>3. Len(SubSeq(p, m, k)) = k
  BY <1>1, <1>2
<1>4. ASSUME NEW i \in 1 .. k PROVE SubSeq(p, m, k)[i] = p[i]
  <2>1. i \in 1 .. k - m + 1 /\ m + i - 1 = i
    BY <1>1
  <2> QED  BY <1>2, <2>1
<1> QED  BY <1>1, <1>2, <1>3, <1>4

\* The first n of the bytes still to come, behind the k that have arrived.
LEMMA ArrivesNext ==
    ASSUME NEW p \in Seq(Bytes), NEW k \in 0 .. Len(p), NEW f, f = From(p, k), NEW n \in 1 .. Len(f)
    PROVE  /\ k + n \in 0 .. Len(p) /\ SubSeq(f, 1, n) \in Seq(Bytes)
           /\ SubSeq(p, 1, k) \o SubSeq(f, 1, n) = SubSeq(p, 1, k + n)
           /\ From(f, n) = From(p, k + n)
<1>1. f \in Seq(Bytes) /\ Len(f) = Len(p) - k /\ \A i \in 1 .. Len(p) - k : f[i] = p[k + i]
  <2>1. k \in Nat /\ k <= Len(p)
    OBVIOUS
  <2> QED  BY <2>1, FromIs
<1>2. PICK m \in Nat : m = k + n
  BY <1>1
<1>3. m <= Len(p) /\ n \in Nat /\ n <= Len(f)
  BY <1>1, <1>2
<1>4. PICK b, x, j, e : b = SubSeq(p, 1, k) /\ x = SubSeq(f, 1, n) /\ j = b \o x /\ e = SubSeq(p, 1, m)
  OBVIOUS
<1>5. b \in Seq(Bytes) /\ Len(b) = k /\ \A i \in 1 .. k : b[i] = p[i]
  BY <1>4, BeginningIs
<1>6. x \in Seq(Bytes) /\ Len(x) = n /\ \A i \in 1 .. n : x[i] = f[i]
  BY <1>1, <1>3, <1>4, BeginningIs
<1>7. e \in Seq(Bytes) /\ Len(e) = m /\ \A i \in 1 .. m : e[i] = p[i]
  BY <1>3, <1>4, BeginningIs
<1>8. Joined(b, x, j)
  BY <1>4, <1>5, <1>6, JoinedIs
<1>9. j \in Seq(Bytes) /\ Len(j) = m
  BY <1>2, <1>3, <1>5, <1>6, <1>8 DEF Joined
<1>10. ASSUME NEW i \in 1 .. Len(j) PROVE j[i] = e[i]
  <2>1. e[i] = p[i]
    BY <1>7, <1>9
  <2>2. CASE i <= k
    <3>1. i \in 1 .. Len(b) /\ i \in 1 .. k
      BY <1>5, <1>9, <2>2
    <3> QED  BY <1>5, <1>8, <2>1, <3>1 DEF Joined
  <2>3. CASE i > k
    <3>1. PICK l \in Int : l = i - k
      BY <1>9
    <3>2. l \in 1 .. Len(x) /\ l \in 1 .. n /\ l \in 1 .. Len(p) - k /\ Len(b) + l = i /\ k + l = i
      BY <1>1, <1>2, <1>3, <1>5, <1>6, <1>9, <2>3, <3>1
    <3>3. j[Len(b) + l] = x[l] /\ x[l] = f[l] /\ f[l] = p[k + l]
      BY <1>1, <1>6, <1>8, <3>2 DEF Joined
    <3> QED  BY <2>1, <3>2, <3>3
  <2> QED  BY <1>9, <2>2, <2>3
<1>11. j = e
  BY <1>7, <1>9, <1>10, SeqEqual
<1>12. PICK u, v : u = From(f, n) /\ v = From(p, m)
  OBVIOUS
<1>13. u \in Seq(Bytes) /\ Len(u) = Len(f) - n /\ \A i \in 1 .. Len(f) - n : u[i] = f[n + i]
  BY <1>1, <1>3, <1>12, FromIs
<1>14. v \in Seq(Bytes) /\ Len(v) = Len(p) - m /\ \A i \in 1 .. Len(p) - m : v[i] = p[m + i]
  BY <1>3, <1>12, FromIs
<1>15. Len(u) = Len(v)
  BY <1>1, <1>2, <1>3, <1>13, <1>14
<1>16. ASSUME NEW i \in 1 .. Len(u) PROVE u[i] = v[i]
  <2>1. PICK l \in Int : l = n + i
    BY <1>3, <1>13
  <2>2. i \in 1 .. Len(f) - n /\ i \in 1 .. Len(p) - m /\ l \in 1 .. Len(p) - k /\ k + l = m + i
    BY <1>1, <1>2, <1>3, <1>13, <1>14, <1>15, <2>1
  <2>3. u[i] = f[l] /\ f[l] = p[k + l] /\ v[i] = p[m + i]
    BY <1>1, <1>13, <1>14, <2>1, <2>2
  <2> QED  BY <2>2, <2>3
<1>17. u = v
  BY <1>13, <1>14, <1>15, <1>16, SeqEqual
<1> QED  BY <1>2, <1>3, <1>4, <1>6, <1>11, <1>12, <1>17

\* Before rr_socks_init() nothing was sent.
LEMMA SocksInvInit == SocksStart => SocksInv
BY DEF SocksStart, SocksInv, SocksTypeOK, Stages, Causes

\* A new handshake stands at byte 0 of its script.
LEMMA ConnectKeepsSocks ==
    ASSUME SocksInv, NEW s \in Scripts, SocksConnect(s)
    PROVE  SocksInv'
<1>1. /\ stage = "off" /\ stage' = "greeting" /\ script' = s /\ coming' = s.bytes
      /\ requests' = <<"greeting">> /\ recv' = recv /\ closing' = closing /\ expired' = expired
      /\ cause' = cause
  BY DEF SocksConnect
<1>2. SocksTypeOK' /\ recv = <<>>
  BY <1>1 DEF SocksInv, SocksTypeOK, Stages
<1>3. PICK p, user : p = s.bytes /\ user = s.user
  OBVIOUS
<1>4. p \in Seq(Bytes) /\ user \in BOOLEAN
  BY <1>3, ScriptTypes
<1>5. PICK z \in Nat : z = 0
  OBVIOUS
<1>6. PICK b, f : b = SubSeq(p, 1, z) /\ f = From(p, z)
  OBVIOUS
<1>7. b \in Seq(Bytes) /\ Len(b) = 0
  BY <1>4, <1>5, <1>6, BeginningIs
<1>8. b = <<>>
  BY <1>7, EmptySeq
<1>9. f = p
  <2>1. f \in Seq(Bytes) /\ Len(f) = Len(p) - z /\ \A i \in 1 .. Len(p) - z : f[i] = p[z + i]
    BY <1>4, <1>5, <1>6, FromIs
  <2>2. Len(f) = Len(p) /\ \A i \in 1 .. Len(f) : f[i] = p[i]
    BY <1>4, <1>5, <2>1
  <2> QED  BY <1>4, <2>1, <2>2, SeqEqual
<1>10. PICK g, c : g = <<"greeting">> /\ c = Parsed("greeting", b, g, user)
  OBVIOUS
<1>11. c = Client("greeting", b, g, "return")
  <2>1. Len(b) < 2
    BY <1>7
  <2>2. Parsed("greeting", b, g, user) = Client("greeting", b, g, "return")
    BY <1>4, <1>7, <2>1, FromGreeting
  <2> QED  BY <1>10, <2>2
<1>12. c.stage = "greeting" /\ c.recv = b /\ c.requests = g
  BY <1>11, Clients
<1>13. c = Once(z)'
  BY <1>1, <1>3, <1>6, <1>10 DEF Once, Arrived
<1>14. AtByte(z)'
  <2>1. z \in 0 .. Len(p)
    BY <1>4, <1>5
  <2>2. (z \in 0 .. Len(script.bytes) /\ coming = From(script.bytes, z))'
    BY <1>1, <1>3, <1>6, <1>9, <2>1
  <2>3. (requests = Once(z).requests /\ stage = Once(z).stage /\ recv = Once(z).recv)'
    BY <1>1, <1>2, <1>8, <1>10, <1>12, <1>13
  <2>4. Asked(requests, Arrived(z), script.user)'
    BY <1>1 DEF Asked
  <2> QED  BY <2>2, <2>3, <2>4 DEF AtByte
<1>15. requests' # <<>> /\ stage' = "greeting" /\ cause' = "none"
  BY <1>1 DEF SocksInv
<1> QED  BY <1>1, <1>2, <1>5, <1>14, <1>15 DEF SocksInv

\* Every read goes on where the reads before it stopped.
LEMMA ReadKeepsSocks ==
    ASSUME SocksInv, NEW n \in 1 .. Len(coming), SocksRead(n)
    PROVE  SocksInv'
<1>1. /\ stage # "off" /\ ~closing /\ coming # <<>> /\ coming' = From(coming, n)
      /\ script' = script /\ expired' = expired
  BY DEF SocksRead
<1>2. requests # <<>> /\ script \in Scripts /\ stage # "failed" /\ cause = "none" /\ SocksTypeOK
  BY <1>1 DEF SocksInv
<1>3. PICK k \in Nat : AtByte(k)
  BY <1>2 DEF SocksInv
<1>4. PICK p, user, s : p = script.bytes /\ user = script.user /\ s = <<"greeting">>
  OBVIOUS
<1>5. p \in Seq(Bytes) /\ user \in BOOLEAN
  BY <1>2, <1>4, ScriptTypes
<1>6. k \in 0 .. Len(p) /\ coming = From(p, k)
  BY <1>3, <1>4 DEF AtByte
<1>7. PICK m, b, x : m = k + n /\ b = SubSeq(p, 1, k) /\ x = SubSeq(coming, 1, n)
  OBVIOUS
<1>8. m \in 0 .. Len(p) /\ x \in Seq(Bytes) /\ b \o x = SubSeq(p, 1, m) /\ From(coming, n) = From(p, m)
  BY <1>5, <1>6, <1>7, ArrivesNext
<1>9. b \in Seq(Bytes)
  BY <1>5, <1>6, <1>7, BeginningIs
<1>10. PICK c, d : c = Parsed("greeting", b, s, user) /\ d = Parsed("greeting", b \o x, s, user)
  OBVIOUS
<1>11. c = Once(k) /\ d = Once(m)'
  BY <1>1, <1>4, <1>7, <1>8, <1>10 DEF Once, Arrived
<1>12. stage = c.stage /\ recv = c.recv /\ requests = c.requests
  BY <1>2, <1>3, <1>11 DEF AtByte
<1>13. c.recv \in Seq(Bytes) /\ d = GoesOn(c, x, user)
  <2>1. Resumes("greeting", b, s, x, user)
    BY <1>5, <1>8, <1>9, ResumesGreeting
  <2> QED  BY <1>2, <1>10, <1>12, <2>1 DEF Resumes
<1>14. d.stage \in {"greeting", "auth", "connect", "ready", "failed"}
  <2>1. PICK q, e : q = b \o x /\ e = <<>>
    OBVIOUS
  <2>2. q \in Seq(Bytes) /\ e \in Seq(Bytes)
    BY <1>8, <1>9, <2>1
  <2>3. Resumes("greeting", q, s, e, user)
    BY <1>5, <2>2, ResumesGreeting
  <2> QED  BY <1>10, <2>1, <2>3 DEF Resumes
<1>15. /\ stage' = d.stage /\ recv' = d.recv /\ requests' = d.requests /\ closing' = (d.stage = "failed")
       /\ cause' = IF d.stage = "failed" THEN "bytes" ELSE cause
  <2>1. PICK bytes, r : /\ bytes = recv \o x
                        /\ r = IF stage \in {"ready", "failed"} THEN Client(stage, bytes, requests, "return")
                               ELSE Parsed(stage, bytes, requests, user)
    OBVIOUS
  <2>2. /\ stage' = r.stage /\ recv' = r.recv /\ requests' = r.requests /\ closing' = (r.stage = "failed")
        /\ cause' = IF r.stage = "failed" THEN "bytes" ELSE cause
    BY <1>4, <1>7, <2>1 DEF SocksRead, Heard
  <2>3. r = d
    BY <1>2, <1>12, <1>13, <2>1 DEF GoesOn
  <2> QED  BY <2>2, <2>3
<1>16. PICK q : q = b \o x
  OBVIOUS
<1>17. q = Arrived(m)' /\ Asked(d.requests, q, user) /\ d.requests # <<>> /\ m \in Nat
  <2>1. q \in Seq(Bytes)
    BY <1>8, <1>9, <1>16, JoinedIs DEF Joined
  <2>2. Asked(d.requests, q, user)
    BY <1>4, <1>5, <1>10, <1>16, <2>1, GreetingAsks
  <2>3. q = Arrived(m)'
    BY <1>1, <1>4, <1>8, <1>16 DEF Arrived
  <2> QED  BY <1>8, <2>2, <2>3, AskedSome
<1>21. AtByte(m)'
  <2>1. (m \in 0 .. Len(script.bytes) /\ coming = From(script.bytes, m))'
    BY <1>1, <1>4, <1>8
  <2>2. (requests = Once(m).requests /\ stage = Once(m).stage /\ recv = Once(m).recv)'
    BY <1>11, <1>15
  <2>3. Asked(requests, Arrived(m), script.user)'
    BY <1>1, <1>4, <1>15, <1>17
  <2> QED  BY <2>1, <2>2, <2>3 DEF AtByte
<1>18. SocksTypeOK'
  BY <1>1, <1>2, <1>14, <1>15 DEF SocksTypeOK, Stages, Causes
<1>19. stage' # "off" /\ (stage' = "failed" => closing') /\ (cause' = "none" <=> stage' # "failed")
  BY <1>2, <1>14, <1>15
<1>20. script' \in Scripts /\ requests' # <<>>
  BY <1>1, <1>2, <1>15, <1>17
<1> QED  BY <1>17, <1>18, <1>19, <1>20, <1>21 DEF SocksInv

\* A read that cannot send all it has to leaves a beginning of what it asked for.
LEMMA SendFailsKeepsSocks ==
    ASSUME SocksInv, NEW n \in 1 .. Len(coming), SocksSendFails(n)
    PROVE  SocksInv'
<1>1. /\ stage \in {"greeting", "auth", "connect"} /\ coming' = From(coming, n) /\ script' = script
      /\ stage' = "failed" /\ closing' = TRUE /\ cause' = "queue" /\ expired' = expired
  BY DEF SocksSendFails
<1>2. requests # <<>> /\ script \in Scripts /\ cause = "none" /\ SocksTypeOK
  BY <1>1 DEF SocksInv
<1>3. PICK k \in Nat : AtByte(k)
  BY <1>2 DEF SocksInv
<1>4. PICK p, user, s : p = script.bytes /\ user = script.user /\ s = <<"greeting">>
  OBVIOUS
<1>5. p \in Seq(Bytes) /\ user \in BOOLEAN
  BY <1>2, <1>4, ScriptTypes
<1>6. k \in 0 .. Len(p) /\ coming = From(p, k)
  BY <1>3, <1>4 DEF AtByte
<1>7. PICK m, b, x : m = k + n /\ b = SubSeq(p, 1, k) /\ x = SubSeq(coming, 1, n)
  OBVIOUS
<1>8. m \in 0 .. Len(p) /\ x \in Seq(Bytes) /\ b \o x = SubSeq(p, 1, m) /\ From(coming, n) = From(p, m)
  BY <1>5, <1>6, <1>7, ArrivesNext
<1>9. b \in Seq(Bytes)
  BY <1>5, <1>6, <1>7, BeginningIs
<1>10. PICK c, d : c = Parsed("greeting", b, s, user) /\ d = Parsed("greeting", b \o x, s, user)
  OBVIOUS
<1>11. c = Once(k)
  BY <1>4, <1>7, <1>10 DEF Once, Arrived
<1>12. stage = c.stage /\ recv = c.recv /\ requests = c.requests
  BY <1>2, <1>3, <1>11 DEF AtByte
<1>13. c.recv \in Seq(Bytes) /\ d = GoesOn(c, x, user)
  <2>1. Resumes("greeting", b, s, x, user)
    BY <1>5, <1>8, <1>9, ResumesGreeting
  <2> QED  BY <1>1, <1>10, <1>12, <2>1 DEF Resumes
<1>14. d = Parsed(stage, Heard(n), requests, user)
  BY <1>1, <1>7, <1>12, <1>13 DEF GoesOn, Heard
<1>15. PICK j \in Len(requests) .. Len(d.requests) - 1 : requests' = SubSeq(d.requests, 1, j)
  BY <1>4, <1>14 DEF SocksSendFails
<1>16. PICK q : q = b \o x
  OBVIOUS
<1>17. q = Arrived(m)' /\ Asked(d.requests, q, user) /\ m \in Nat
  <2>1. q \in Seq(Bytes)
    BY <1>8, <1>9, <1>16, JoinedIs DEF Joined
  <2>2. Asked(d.requests, q, user)
    BY <1>4, <1>5, <1>10, <1>16, <2>1, GreetingAsks
  <2>3. q = Arrived(m)'
    BY <1>1, <1>4, <1>8, <1>16 DEF Arrived
  <2> QED  BY <1>8, <2>2, <2>3
<1>18. Asked(requests', q, user) /\ requests' # <<>>
  <2>1. j \in 1 .. Len(d.requests)
    <3>1. Asked(requests, Arrived(k), user)
      BY <1>3, <1>4 DEF AtByte
    <3>2. Len(requests) \in 1 .. 3 /\ Len(d.requests) \in 1 .. 3
      BY <1>17, <3>1, AskedSome
    <3>3. PICK lo \in 1 .. 3, hi \in 1 .. 3 : lo = Len(requests) /\ hi = Len(d.requests)
      BY <3>2
    <3>4. j \in lo .. hi - 1
      BY <1>15, <3>3
    <3> QED  BY <3>3, <3>4
  <2> QED  BY <1>15, <1>17, <2>1, AskedSome, AskedBefore
<1>19. AtByte(m)'
  <2>1. (m \in 0 .. Len(script.bytes) /\ coming = From(script.bytes, m))'
    BY <1>1, <1>4, <1>8
  <2>2. Asked(requests, Arrived(m), script.user)'
    BY <1>1, <1>4, <1>17, <1>18
  <2> QED  BY <1>1, <2>1, <2>2 DEF AtByte
<1>20. SocksTypeOK'
  BY <1>1, <1>2 DEF SocksTypeOK, Stages, Causes
<1> QED  BY <1>1, <1>2, <1>17, <1>18, <1>19, <1>20 DEF SocksInv

\* The other steps leave the bytes and the requests alone; those that end the
\* handshake close the connection.
LEMMA OthersKeepSocks ==
    ASSUME SocksInv, SocksGreetingFails \/ SocksRefuse \/ SocksDeadline \/ SocksTimeout \/ SocksClosed
    PROVE  SocksInv'
<1> USE DEF SocksGreetingFails, SocksRefuse, SocksDeadline, SocksTimeout, SocksClosed
<1>1. script' = script /\ coming' = coming /\ recv' = recv /\ requests' = requests
  OBVIOUS
<1>2. /\ SocksTypeOK' /\ (stage' = stage \/ stage' = "failed") /\ (cause' = "none" <=> stage' # "failed")
      /\ cause' = "bytes" => cause = "bytes"
  <2>1. CASE SocksGreetingFails
    BY <2>1 DEF SocksInv, SocksTypeOK, Stages, Causes
  <2>2. CASE SocksRefuse
    BY <2>2 DEF SocksInv, SocksTypeOK, Stages, Causes
  <2>3. CASE SocksDeadline
    BY <2>3 DEF SocksInv, SocksTypeOK, Stages, Causes
  <2>4. CASE SocksTimeout
    BY <2>4 DEF SocksInv, SocksTypeOK, Stages, Causes
  <2>5. CASE SocksClosed
    BY <2>5 DEF SocksInv, SocksTypeOK, Stages, Causes
  <2> QED  BY <2>1, <2>2, <2>3, <2>4, <2>5
<1>3. requests # <<>> /\ stage' = "failed" => closing'
  BY DEF SocksInv
<1>4. ASSUME NEW k \in Nat, AtByte(k) PROVE AtByte(k)'
  <2>1. cause' \in {"none", "bytes"} => cause' = cause /\ stage' = stage
    BY DEF SocksInv
  <2>2. Once(k)' = Once(k) /\ Arrived(k)' = Arrived(k)
    BY <1>1 DEF Once, Arrived
  <2> QED  BY <1>1, <1>4, <2>1, <2>2 DEF AtByte
<1>5. requests = <<>> => stage' \in {"off", "failed"} /\ cause' # "bytes"
  BY <1>2 DEF SocksInv
<1>6. stage' = "off" => requests = <<>>
  BY <1>2 DEF SocksInv
<1>7. requests # <<>> => script \in Scripts /\ \E k \in Nat : AtByte(k)'
  BY <1>4 DEF SocksInv
<1>8. requests = <<>> => coming = <<>> /\ recv = <<>>
  BY DEF SocksInv
<1> QED  BY <1>1, <1>2, <1>3, <1>5, <1>6, <1>7, <1>8 DEF SocksInv

\* Every step of the handshake keeps the invariant.
LEMMA SocksStep ==
    ASSUME SocksInv, [SocksNext]_socksVars
    PROVE  SocksInv'
<1>1. ASSUME NEW s \in Scripts, SocksConnect(s) PROVE SocksInv'
  BY <1>1, ConnectKeepsSocks
<1>2. ASSUME NEW n \in 1 .. Len(coming), SocksRead(n) PROVE SocksInv'
  BY <1>2, ReadKeepsSocks
<1>5. ASSUME NEW n \in 1 .. Len(coming), SocksSendFails(n) PROVE SocksInv'
  BY <1>5, SendFailsKeepsSocks
<1>3. CASE SocksGreetingFails \/ SocksRefuse \/ SocksDeadline \/ SocksTimeout \/ SocksClosed
  BY <1>3, OthersKeepSocks
<1>4. CASE UNCHANGED socksVars
  BY <1>4 DEF socksVars, SocksInv, SocksTypeOK, AtByte, Once, Arrived
<1> QED  BY <1>1, <1>2, <1>3, <1>4, <1>5 DEF SocksNext

\* What the invariant says of the requests and of a believed reply.
LEMMA SocksInvExact ==
    ASSUME SocksInv
    PROVE  HandshakeExact
<1>1. CASE requests = <<>>
  <2>1. stage \in {"off", "failed"} /\ (stage = "failed" => cause \notin {"none", "bytes"})
    BY <1>1 DEF SocksInv
  <2>2. ~Contains(requests, "auth") /\ ~Contains(requests, "connect")
    BY <1>1 DEF Contains
  <2> QED  BY <2>1, <2>2 DEF HandshakeExact, ChunksDoNotMatter, NothingEarly
<1>2. CASE requests # <<>>
  <2>1. script \in Scripts
    BY <1>2 DEF SocksInv
  <2>2. PICK k \in Nat : AtByte(k)
    BY <1>2 DEF SocksInv
  <2>3. PICK p, user, b, c : /\ p = script.bytes /\ user = script.user /\ b = SubSeq(p, 1, k)
                             /\ c = Parsed("greeting", b, <<"greeting">>, user)
    OBVIOUS
  <2>4. p \in Seq(Bytes) /\ user \in BOOLEAN /\ script.payload \in Nat
    BY <2>1, <2>3, ScriptTypes
  <2>5. k \in 0 .. Len(p) /\ coming = From(p, k) /\ c = Once(k) /\ Asked(requests, b, user)
    BY <2>2, <2>3 DEF AtByte, Once, Arrived
  <2>6. b \in Seq(Bytes) /\ Len(b) = k /\ \A i \in 1 .. k : b[i] = p[i]
    <3>1. k <= Len(p)
      BY <2>4, <2>5
    <3> QED  BY <2>3, <2>4, <3>1, BeginningIs
  <2>7. Len(coming) = Len(p) - k
    <3>1. k <= Len(p)
      BY <2>4, <2>5
    <3> QED  BY <2>4, <2>5, <3>1, FromIs
  <2>8. c.stage = "ready" => Believed(b, user)
    BY <2>3, <2>4, <2>6, GreetingAsks
  <2>9. ChunksDoNotMatter
    <3>1. Len(p) - Len(coming) = k
      BY <2>4, <2>7
    <3>2. SubSeq(script.bytes, 1, Len(script.bytes) - Len(coming)) = b
      BY <2>3, <3>1
    <3>3. cause \in {"none", "bytes"} => stage = c.stage /\ recv = c.recv /\ requests = c.requests
      BY <2>2, <2>5 DEF AtByte
    <3>4. Parsed("greeting", SubSeq(script.bytes, 1, Len(script.bytes) - Len(coming)), <<"greeting">>, script.user) = c
      BY <2>3, <3>2
    <3> QED  BY <3>3, <3>4 DEF ChunksDoNotMatter
  <2>10. Contains(requests, "auth") => script.user /\ script.bytes[2] = 2
    <3> SUFFICES ASSUME Contains(requests, "auth") PROVE user /\ p[2] = 2
      BY <2>3
    <3>1. requests # <<"greeting">> /\ requests # <<"greeting", "connect">>
      BY DEF Contains
    <3>2. user /\ Len(b) >= 2 /\ b[2] = 2
      BY <2>5, <3>1, <2>6 DEF Asked
    <3> QED  BY <2>6, <3>2
  <2>11. Contains(requests, "connect") => IF script.user THEN script.bytes[4] = 0 ELSE script.bytes[2] = 0
    <3> SUFFICES ASSUME Contains(requests, "connect") PROVE IF user THEN p[4] = 0 ELSE p[2] = 0
      BY <2>3
    <3>1. requests # <<"greeting">> /\ requests # <<"greeting", "auth">>
      BY DEF Contains
    <3>2. \/ ~user /\ Len(b) >= 2 /\ b[2] = 0
          \/ user /\ Len(b) >= 4 /\ b[4] = 0
      BY <2>5, <3>1, <2>6 DEF Asked
    <3> QED  BY <2>6, <3>2
  <2>12. stage = "ready" => Len(coming) <= script.payload
    <3> SUFFICES ASSUME stage = "ready" PROVE Len(coming) <= script.payload
      OBVIOUS
    <3>1. Believed(b, user)
      <4>1. c.stage = "ready"
        <5>1. cause = "none"
          BY DEF SocksInv
        <5> QED  BY <2>2, <2>5, <5>1 DEF AtByte
      <4> QED  BY <2>8, <4>1
    <3>2. PICK w \in Nat : w = Before(user) /\ (w = 2 \/ w = 4)
      BY <2>4 DEF Before
    <3>3. PICK r, f : r = From(b, w) /\ f = From(p, w)
      OBVIOUS
    <3>4. k >= w /\ Len(r) >= 5 /\ Len(r) >= ReplyLength(r) /\ w <= Len(p)
      <4>1. Len(b) >= w /\ Len(r) >= 5 /\ Len(r) >= ReplyLength(r)
        BY <3>1, <3>2, <3>3 DEF Believed
      <4> QED  BY <2>4, <2>5, <2>6, <4>1
    <3>5. r \in Seq(Bytes) /\ Len(r) = k - w /\ \A i \in 1 .. k - w : r[i] = b[w + i]
      BY <2>6, <3>3, <3>4, FromIs
    <3>6. f \in Seq(Bytes) /\ Len(f) = Len(p) - w /\ \A i \in 1 .. Len(p) - w : f[i] = p[w + i]
      BY <2>4, <3>3, <3>4, FromIs
    <3>7. Len(f) >= 5 /\ r[4] = f[4] /\ r[5] = f[5]
      <4>1. k - w >= 5 /\ Len(p) - w >= 5 /\ w + 4 \in 1 .. k /\ w + 5 \in 1 .. k
        BY <2>4, <2>5, <3>4, <3>5
      <4>2. r[4] = b[w + 4] /\ r[5] = b[w + 5] /\ f[4] = p[w + 4] /\ f[5] = p[w + 5]
        <5>1. PICK u \in Nat, v \in Nat : u = 4 /\ v = 5
          OBVIOUS
        <5>2. u \in 1 .. k - w /\ v \in 1 .. k - w /\ u \in 1 .. Len(p) - w /\ v \in 1 .. Len(p) - w
          BY <2>4, <3>2, <4>1, <5>1
        <5>3. r[u] = b[w + u] /\ r[v] = b[w + v]
          BY <3>5, <5>2
        <5>4. f[u] = p[w + u] /\ f[v] = p[w + v]
          BY <3>6, <5>2
        <5> QED  BY <5>1, <5>3, <5>4
      <4>3. b[w + 4] = p[w + 4] /\ b[w + 5] = p[w + 5]
        BY <2>6, <4>1
      <4> QED  BY <3>6, <4>1, <4>2, <4>3
    <3>8. ReplyLength(r) = ReplyLength(f) /\ ReplyLength(r) \in Nat
      BY <3>4, <3>5, <3>6, <3>7, ReplyKeepsLength
    <3>9. ReplyLayout(f) = ReplyLength(f)
      <4>1. f[5] \in 0 .. 255
        <5>1. PICK i \in 1 .. Len(f) : i = 5
          BY <3>6, <3>7
        <5>2. f[i] \in Bytes
          BY <3>6, <5>1
        <5> QED  BY <5>1, <5>2 DEF Bytes
      <4>2. CASE f[4] \notin {1, 4}
        <5>1. ReplyLength(f) = 7 + f[5] /\ ReplyLayout(f) = 4 + (1 + f[5]) + 2
          BY <4>2 DEF ReplyLength, ReplyLayout
        <5>2. PICK i \in 0 .. 255 : i = f[5]
          BY <4>1
        <5> QED  BY <5>1, <5>2
      <4>3. CASE f[4] = 1
        BY <4>3 DEF ReplyLength, ReplyLayout
      <4>4. CASE f[4] = 4
        BY <4>4 DEF ReplyLength, ReplyLayout
      <4> QED  BY <4>2, <4>3, <4>4
    <3>10. Len(f) <= ReplyLayout(f) + script.payload
      <4>1. Len(From(script.bytes, Before(script.user))) >= 5 =>
               Len(From(script.bytes, Before(script.user)))
                  <= ReplyLayout(From(script.bytes, Before(script.user))) + script.payload
        BY <2>1, SocksAssumption
      <4>2. f = From(script.bytes, Before(script.user))
        BY <2>3, <3>2, <3>3
      <4> QED  BY <3>7, <4>1, <4>2
    <3>11. Len(f) <= ReplyLength(r) + script.payload
      BY <3>8, <3>9, <3>10
    <3>12. PICK l \in Nat, y \in Nat : l = ReplyLength(r) /\ y = script.payload
      BY <2>4, <3>8
    <3>13. Len(p) - w <= l + y /\ k - w >= l
      BY <3>4, <3>5, <3>6, <3>11, <3>12
    <3>14. Len(p) - k <= y
      BY <2>4, <3>2, <3>12, <3>13
    <3> QED  BY <2>7, <3>12, <3>14
  <2> QED  BY <2>9, <2>10, <2>11, <2>12 DEF HandshakeExact, NothingEarly
<1> QED  BY <1>1, <1>2

\* However the proxy's bytes are cut into reads, the client of socks.c is where the same
\* bytes in one piece would have left it, in the same stage or failed alike, with the same
\* requests and the same bytes left for its caller, unless a full send buffer, the deadline
\* or the end of the connection broke it off.  Broken off or not, it sends credentials and
\* asks for the connection only after the proxy granted the step before, and it believes a
\* reply only when all of it has arrived.
THEOREM HandshakeAlwaysExact == SocksSpec => []HandshakeExact
<1>1. SocksStart => SocksInv
  BY SocksInvInit
<1>2. SocksInv /\ [SocksNext]_socksVars => SocksInv'
  BY SocksStep
<1>3. SocksInv => HandshakeExact
  BY SocksInvExact
<1> QED  BY <1>1, <1>2, <1>3, PTL DEF SocksSpec

-----------------------------------------------------------------------------
(* The pid file.                                                           *)

\* Instances that are past open(); each made at most one inode.
Past == {i \in Instances : at[i] \in {"opened", "refused", "running", "exited"}}
InodesCounted == inodes <= Cardinality(Past) /\ file <= inodes

\* An instance between open() and its end has a file open, the one at the path unless
\* a refused start removed it; one that runs holds the lock of its file.
FilesOpen ==
    \A i \in Instances : at[i] \in {"opened", "refused", "running"} =>
        /\ opened[i] # 0
        /\ i \notin orphaned => opened[i] = file
LocksHeld == \A i \in Instances : at[i] = "running" => lockedBy[opened[i]] = i

DaemonInv == DaemonTypeOK /\ InodesCounted /\ FilesOpen /\ LocksHeld

\* There is room for the inode an instance is about to make.
LEMMA PastBounded ==
    ASSUME DaemonTypeOK
    PROVE  /\ IsFiniteSet(Past) /\ Cardinality(Past) \in Nat
           /\ Cardinality(Instances) \in Nat /\ Cardinality(Past) <= Cardinality(Instances)
BY DaemonAssumption, FS_Subset, FS_CardinalityType DEF Past

LEMMA InodesAreCounted == \A n \in Inodes : n # 0
BY DaemonAssumption, FS_CardinalityType DEF Inodes

LEMMA DaemonInit == DaemonStart => DaemonInv
<1> SUFFICES ASSUME DaemonStart PROVE DaemonInv
  OBVIOUS
<1>1. DaemonTypeOK
  BY DEF DaemonStart, DaemonTypeOK
<1>2. InodesCounted
  BY <1>1, PastBounded DEF DaemonStart, InodesCounted
<1>3. FilesOpen /\ LocksHeld
  BY DEF DaemonStart, FilesOpen, LocksHeld
<1> QED  BY <1>1, <1>2, <1>3 DEF DaemonInv

\* An instance that goes on never leaves Past.
LEMMA PastGrows ==
    ASSUME DaemonTypeOK, DaemonTypeOK', Past \subseteq Past', InodesCounted, inodes' = inodes, file' \in {0, file}
    PROVE  InodesCounted'
<1>1. Cardinality(Past) \in Nat /\ Cardinality(Past') \in Nat /\ IsFiniteSet(Past')
  BY PastBounded, FS_Subset, FS_CardinalityType, DaemonAssumption DEF Past
<1>2. Cardinality(Past) <= Cardinality(Past')
  BY <1>1, FS_Subset
<1> QED  BY <1>1, <1>2 DEF InodesCounted, DaemonTypeOK, Inodes

LEMMA DaemonStep == DaemonInv /\ [DaemonNext]_daemonVars => DaemonInv'
<1> SUFFICES ASSUME DaemonInv, [DaemonNext]_daemonVars PROVE DaemonInv'
  OBVIOUS
<1> USE DEF DaemonInv
<1>1. ASSUME NEW i \in Instances, DaemonStat(i) PROVE DaemonInv'
  <2>1. DaemonTypeOK'
    BY <1>1 DEF DaemonTypeOK, DaemonStat
  <2>2. InodesCounted'
    BY <1>1, <2>1, PastGrows DEF DaemonTypeOK, DaemonStat, Past
  <2>3. FilesOpen' /\ LocksHeld'
    BY <1>1 DEF DaemonTypeOK, DaemonStat, FilesOpen, LocksHeld
  <2> QED  BY <2>1, <2>2, <2>3
<1>2. ASSUME NEW i \in Instances, DaemonOpen(i) PROVE DaemonInv'
  <2> DEFINE P == Past
  <2>1. i \notin Past /\ Past' = Past \cup {i}
    BY <1>2 DEF DaemonTypeOK, DaemonOpen, Past
  <2>2. Cardinality(Past') = Cardinality(Past) + 1 /\ Cardinality(Past) \in Nat
    <3>1. Cardinality(P \cup {i}) = Cardinality(P) + 1
      BY <2>1, PastBounded, FS_AddElement
    <3> QED  BY <2>1, <3>1, PastBounded
  <2>3. Cardinality(Past') <= Cardinality(Instances) /\ Cardinality(Instances) \in Nat
    <3>1. Past' \subseteq Instances
      BY <2>1 DEF Past
    <3> QED  BY <3>1, FS_Subset, FS_CardinalityType, DaemonAssumption
  <2>4. inodes + 1 \in Inodes /\ inodes + 1 # 0
    BY <2>2, <2>3 DEF InodesCounted, DaemonTypeOK, Inodes
  <2>5. DaemonTypeOK'
    BY <1>2, <2>4 DEF DaemonTypeOK, DaemonOpen
  <2>6. InodesCounted'
    BY <1>2, <2>2, <2>5 DEF DaemonTypeOK, DaemonOpen, InodesCounted, Inodes
  <2>7. opened'[i] = file' /\ file' # 0 /\ \A j \in Instances \ {i} : opened'[j] = opened[j]
    BY <1>2, <2>4 DEF DaemonTypeOK, DaemonOpen
  <2>8. /\ at'[i] = "opened" /\ \A j \in Instances \ {i} : at'[j] = at[j]
        /\ lockedBy' = lockedBy /\ orphaned' = orphaned /\ (file # 0 => file' = file)
    BY <1>2 DEF DaemonTypeOK, DaemonOpen
  <2>9. FilesOpen'
    BY <2>7, <2>8 DEF FilesOpen
  <2>10. LocksHeld'
    BY <2>7, <2>8 DEF LocksHeld
  <2> QED  BY <2>5, <2>6, <2>9, <2>10
<1>3. ASSUME NEW i \in Instances, DaemonLock(i) PROVE DaemonInv'
  <2>1. DaemonTypeOK'
    BY <1>3 DEF DaemonTypeOK, DaemonLock
  <2>2. InodesCounted'
    BY <1>3, <2>1, PastGrows DEF DaemonTypeOK, DaemonLock, Past
  <2>3. FilesOpen'
    BY <1>3 DEF DaemonTypeOK, DaemonLock, FilesOpen
  <2>4. opened[i] \in Inodes /\ lockedBy[opened[i]] = Nobody
    BY <1>3 DEF DaemonLock, LockGranted, FilesOpen, DaemonTypeOK
  <2>5. \A j \in Instances : at[j] = "running" => opened[j] # opened[i]
    BY <2>4, DaemonAssumption DEF LocksHeld
  <2>6. /\ lockedBy'[opened[i]] = i /\ opened' = opened
        /\ \A n \in Inodes : n # opened[i] => lockedBy'[n] = lockedBy[n]
        /\ \A j \in Instances \ {i} : at'[j] = at[j]
    BY <1>3, <2>4 DEF DaemonLock, DaemonTypeOK
  <2>7. \A j \in Instances : at[j] = "running" => opened[j] \in Inodes
    BY DEF FilesOpen, DaemonTypeOK
  <2>8. LocksHeld'
    BY <2>5, <2>6, <2>7 DEF LocksHeld
  <2> QED  BY <2>1, <2>2, <2>3, <2>8
<1>4. ASSUME NEW i \in Instances, DaemonRefused(i) PROVE DaemonInv'
  <2>1. DaemonTypeOK'
    BY <1>4 DEF DaemonTypeOK, DaemonRefused
  <2>2. InodesCounted'
    BY <1>4, <2>1, PastGrows DEF DaemonTypeOK, DaemonRefused, Past
  <2>3. FilesOpen' /\ LocksHeld'
    BY <1>4 DEF DaemonTypeOK, DaemonRefused, FilesOpen, LocksHeld
  <2> QED  BY <2>1, <2>2, <2>3
<1>5. ASSUME NEW i \in Instances, DaemonUnlink(i) PROVE DaemonInv'
  <2>1. DaemonTypeOK'
    BY <1>5 DEF DaemonTypeOK, DaemonUnlink
  <2>2. InodesCounted'
    BY <1>5, <2>1, PastGrows DEF DaemonTypeOK, DaemonUnlink, Past
  <2>3. /\ at'[i] = "exited" /\ lockedBy' = lockedBy
        /\ \A j \in Instances \ {i} : at'[j] = at[j] /\ opened'[j] = opened[j]
    BY <1>5 DEF DaemonUnlink, DaemonTypeOK
  <2>4. \A j \in Instances : opened[j] # 0 /\ j \notin orphaned' => j \notin orphaned /\ opened[j] # file
    BY <1>5 DEF DaemonUnlink
  <2>5. FilesOpen'
    BY <2>3, <2>4 DEF FilesOpen
  <2>6. LocksHeld'
    BY <2>3 DEF LocksHeld
  <2> QED  BY <2>1, <2>2, <2>5, <2>6
<1>6. ASSUME NEW i \in Instances, DaemonExit(i) PROVE DaemonInv'
  <2>1. DaemonTypeOK'
    BY <1>6 DEF DaemonTypeOK, DaemonExit
  <2>2. InodesCounted'
    BY <1>6, <2>1, PastGrows DEF DaemonTypeOK, DaemonExit, Past
  <2>3. FilesOpen'
    BY <1>6 DEF DaemonTypeOK, DaemonExit, FilesOpen
  <2>4. \A j \in Instances \ {i} : at[j] = "running" => opened[j] # opened[i]
    BY <1>6 DEF DaemonExit, LocksHeld
  <2>5. /\ at'[i] = "exited"
        /\ \A j \in Instances \ {i} : at'[j] = at[j] /\ opened'[j] = opened[j]
        /\ \A n \in Inodes : n # opened[i] => lockedBy'[n] = lockedBy[n]
    BY <1>6 DEF DaemonExit, DaemonTypeOK
  <2>6. \A j \in Instances : at[j] = "running" => opened[j] \in Inodes
    BY DEF FilesOpen, DaemonTypeOK
  <2>7. LocksHeld'
    BY <2>4, <2>5, <2>6 DEF LocksHeld
  <2> QED  BY <2>1, <2>2, <2>3, <2>7
<1>7. CASE UNCHANGED daemonVars
  BY <1>7 DEF daemonVars, DaemonTypeOK, InodesCounted, Past, FilesOpen, LocksHeld
<1> QED  BY <1>1, <1>2, <1>3, <1>4, <1>5, <1>6, <1>7 DEF DaemonNext

\* Types of the instances, the pid file and its lock (daemon.c): no instance opens
\* or locks anything but an inode that was made for the pid file.
THEOREM DaemonTypes == DaemonSpec => []DaemonTypeOK
<1>1. DaemonInv => DaemonTypeOK
  BY DEF DaemonInv
<1> QED  BY DaemonInit, DaemonStep, <1>1, PTL DEF DaemonSpec

\* However many instances start, in whatever order they stat, open, lock and are
\* refused, at most one of those that run has its file still at the path.
THEOREM AtMostOneInstance == DaemonSpec => []OneInstance
<1>1. DaemonInv => OneInstance
  <2> SUFFICES ASSUME DaemonInv PROVE Cardinality(Running \ orphaned) <= 1
    BY DEF OneInstance
  <2>1. Running \ orphaned \subseteq {lockedBy[file]}
    BY DEF DaemonInv, FilesOpen, LocksHeld, Running
  <2>2. IsFiniteSet({lockedBy[file]}) /\ Cardinality({lockedBy[file]}) = 1
    BY FS_Singleton
  <2> QED  BY <2>1, <2>2, FS_Subset
<1> QED  BY DaemonInit, DaemonStep, <1>1, PTL DEF DaemonSpec

-----------------------------------------------------------------------------
(* Serial devices and pseudo-terminals.                                    *)

\* What a device was found with is at hand while its settings are changed.
Saved == IF device THEN original = Console /\ Valid(applied) /\ ReadBack(line) = applied
         ELSE line = Console

\* An open pseudo-terminal has a slave of its own and a path, and its link until
\* somebody takes that.
SlavesApart ==
    /\ \A p \in Ptys : pty[p] = Closed \/ (pty[p].slave \in Slaves /\ pty[p].path \in Links)
    /\ \A p, q \in Ptys : pty[p].slave # 0 /\ pty[p].slave = pty[q].slave => p = q
    /\ \A p \in Ptys : pty[p] # Closed /\ ~pty[p].lost => link[pty[p].path] = pty[p].slave

\* A close under way unlinks no other's link: who has the path has lost his.
ClosingOwn == \A p \in Ptys : unlinking # NoPath /\ pty[p].path = unlinking => pty[p].lost

\* The type invariant in the parts that one operation touches.
CallsOK  == calls \in 0 .. MaxSerial
DeviceOK == device \in BOOLEAN /\ line \in Settings /\ original \in Settings
PtysOK   ==
    /\ pty \in [Ptys -> PtyRecord] /\ link \in [Links -> Slaves \cup {0}]
    /\ unlinking \in Links \cup {NoPath}

SerialInv == CallsOK /\ DeviceOK /\ PtysOK /\ Saved /\ SlavesApart /\ ClosingOwn

LEMMA SerialTypeParts == SerialTypeOK <=> CallsOK /\ DeviceOK /\ PtysOK
BY DEF SerialTypeOK, CallsOK, DeviceOK, PtysOK

\* rr_serial_settings_read() undoes rr_serial_settings_apply().
LEMMA ReadBackIsExact ==
    ASSUME NEW s \in Requests, Valid(s)
    PROVE  /\ [rate |-> s.baud, flags |-> FlagsOf(s)] \in Settings
           /\ ReadBack([rate |-> s.baud, flags |-> FlagsOf(s)]) = s
<1> DEFINE l == [rate |-> s.baud, flags |-> FlagsOf(s)]
<1>1. /\ s = [baud |-> s.baud, bits |-> s.bits, parity |-> s.parity, stops |-> s.stops]
      /\ s.bits \in Int /\ s.stops \in Int
  BY SerialAssumption
<1>2. FlagsOf(s) \subseteq Flags
  <2> DEFINE size == CASE s.bits = 5 -> "CS5" [] s.bits = 6 -> "CS6" [] s.bits = 7 -> "CS7" [] OTHER -> "CS8"
  <2>1. size \in Flags
    BY DEF Flags
  <2> HIDE DEF size
  <2>2. ({size} \cup (IF s.parity = "n" THEN {} ELSE {"PARENB"})
                 \cup (IF s.parity = "o" THEN {"PARODD"} ELSE {})
                 \cup (IF s.stops = 2 THEN {"CSTOPB"} ELSE {})) \subseteq Flags
    BY <2>1 DEF Flags
  <2> QED  BY <2>2 DEF FlagsOf, size
<1>3. /\ "CS5" \in FlagsOf(s) <=> s.bits = 5
      /\ "CS6" \in FlagsOf(s) <=> s.bits = 6
      /\ "CS7" \in FlagsOf(s) <=> s.bits = 7
  BY <1>1 DEF FlagsOf
<1>4. /\ "PARENB" \in FlagsOf(s) <=> s.parity # "n"
      /\ "PARODD" \in FlagsOf(s) <=> s.parity = "o"
      /\ "CSTOPB" \in FlagsOf(s) <=> s.stops = 2
  BY <1>1 DEF FlagsOf
<1>5. l.rate = s.baud /\ l.flags = FlagsOf(s) /\ l \in Settings
  BY <1>2 DEF Valid, Settings
<1> HIDE DEF l
<1>6. ReadBack(l).baud = s.baud
  BY <1>5 DEF ReadBack
<1>7. ReadBack(l).bits = s.bits
  BY <1>1, <1>3, <1>5 DEF ReadBack, Valid
<1>8. ReadBack(l).parity = s.parity
  BY <1>4, <1>5 DEF ReadBack, Valid
<1>9. ReadBack(l).stops = s.stops
  BY <1>1, <1>4, <1>5 DEF ReadBack, Valid
<1>10. ReadBack(l) = [baud |-> ReadBack(l).baud, bits |-> ReadBack(l).bits,
                     parity |-> ReadBack(l).parity, stops |-> ReadBack(l).stops]
  BY DEF ReadBack
<1> QED  BY <1>1, <1>5, <1>6, <1>7, <1>8, <1>9, <1>10 DEF l

\* With one pseudo-terminal closed there is a slave left.
LEMMA SlaveIsFree == FreeSlave \in Slaves /\ \A p \in Ptys : pty[p].slave # FreeSlave
<1> DEFINE Used == {pty[p].slave : p \in Ptys}
<1>1. IsFiniteSet(Used) /\ Cardinality(Used) <= Cardinality(Ptys) /\ Cardinality(Ptys) \in Nat
  <2> DEFINE slaveOf == [p \in Ptys |-> pty[p].slave]
  <2>1. slaveOf \in Surjection(Ptys, Used)
    BY DEF Surjection
  <2>2. IsFiniteSet(Ptys)
    BY SerialAssumption
  <2> HIDE DEF slaveOf, Used
  <2> QED  BY <2>1, <2>2, FS_Surjection, FS_CardinalityType
<1>2. Cardinality(Slaves) = Cardinality(Ptys) + 1 /\ IsFiniteSet(Slaves)
  BY <1>1, FS_Interval DEF Slaves
<1>3. ~(Slaves \subseteq Used)
  <2> HIDE DEF Used
  <2>1. Slaves \subseteq Used => Cardinality(Slaves) <= Cardinality(Used)
    BY <1>1, FS_Subset
  <2> QED  BY <1>1, <1>2, <2>1, FS_CardinalityType
<1>4. \E s \in Slaves : \A p \in Ptys : pty[p].slave # s
  BY <1>3
<1> QED  BY <1>4 DEF FreeSlave

LEMMA ClosedRecord == Closed \in PtyRecord /\ Closed.slave = 0
BY DEF Closed, PtyRecord

\* What a call leaves alone stays right.
LEMMA CallCounted ==
    ASSUME CallsOK, calls' = calls \/ (calls < MaxSerial /\ calls' = calls + 1)
    PROVE  CallsOK'
BY SerialAssumption DEF CallsOK

LEMMA DeviceAlone ==
    ASSUME DeviceOK, Saved, UNCHANGED <<line, original, device, applied>>
    PROVE  DeviceOK' /\ Saved'
BY DEF DeviceOK, Saved

LEMMA PtysAlone ==
    ASSUME PtysOK, SlavesApart, ClosingOwn, UNCHANGED <<pty, link, unlinking>>
    PROVE  PtysOK' /\ SlavesApart' /\ ClosingOwn'
BY DEF PtysOK, SlavesApart, ClosingOwn

LEMMA SerialInit == SerialStart => SerialInv
<1> SUFFICES ASSUME SerialStart PROVE SerialInv
  OBVIOUS
<1>1. CallsOK
  BY SerialAssumption DEF SerialStart, CallsOK
<1>2. Console \in Settings
  BY DEF Console, Settings, Rates, Flags
<1>3. DeviceOK /\ Saved
  BY <1>2 DEF SerialStart, DeviceOK, Saved
<1>4. PtysOK
  BY ClosedRecord DEF SerialStart, PtysOK
<1>5. SlavesApart /\ ClosingOwn
  BY ClosedRecord DEF SerialStart, SlavesApart, ClosingOwn
<1> QED  BY <1>1, <1>3, <1>4, <1>5 DEF SerialInv

LEMMA SerialStep == SerialInv /\ [SerialNext]_serialVars => SerialInv'
<1> SUFFICES ASSUME SerialInv, [SerialNext]_serialVars PROVE SerialInv'
  OBVIOUS
<1>0. \A n \in Slaves : n # 0
  BY SerialAssumption DEF Slaves
<1> USE DEF SerialInv
<1>1. ASSUME NEW s \in Requests, DeviceOpen(s) PROVE SerialInv'
  <2>1. CallsOK'
    BY <1>1, CallCounted DEF DeviceOpen
  <2>2. PtysOK' /\ SlavesApart' /\ ClosingOwn'
    BY <1>1, PtysAlone DEF DeviceOpen
  <2>3. original' = Console /\ Console \in Settings
    BY <1>1 DEF DeviceOpen, DeviceOK, Saved
  <2>4. CASE Valid(s)
    <3>1. line' \in Settings /\ ReadBack(line') = applied' /\ Valid(applied') /\ device' = TRUE
      BY <1>1, <2>4, ReadBackIsExact DEF DeviceOpen
    <3> QED  BY <2>1, <2>2, <2>3, <3>1 DEF DeviceOK, Saved
  <2>5. CASE ~Valid(s)
    <3>1. device' = FALSE /\ line' = Console
      BY <1>1, <2>5 DEF DeviceOpen, Valid, Saved
    <3> QED  BY <2>1, <2>2, <2>3, <3>1 DEF DeviceOK, Saved
  <2> QED  BY <2>4, <2>5
<1>2. ASSUME NEW s \in Requests, SettingsApply(s) PROVE SerialInv'
  <2>1. CallsOK'
    BY <1>2, CallCounted DEF SettingsApply
  <2>2. PtysOK' /\ SlavesApart' /\ ClosingOwn'
    BY <1>2, PtysAlone DEF SettingsApply
  <2>3. line' \in Settings /\ ReadBack(line') = applied' /\ Valid(applied')
    BY <1>2, ReadBackIsExact DEF SettingsApply
  <2>4. device' = device /\ device /\ original' = original
    BY <1>2 DEF SettingsApply
  <2> QED  BY <2>1, <2>2, <2>3, <2>4 DEF DeviceOK, Saved
<1>3. CASE DeviceClose
  <2>1. CallsOK'
    BY <1>3, CallCounted DEF DeviceClose
  <2>2. PtysOK' /\ SlavesApart' /\ ClosingOwn'
    BY <1>3, PtysAlone DEF DeviceClose
  <2> QED  BY <1>3, <2>1, <2>2 DEF DeviceClose, Restored, DeviceOK, Saved
<1>4. ASSUME NEW p \in Ptys, PtyClose(p) PROVE SerialInv'
  <2>1. CallsOK' /\ DeviceOK' /\ Saved'
    BY <1>4, CallCounted, DeviceAlone DEF PtyClose
  <2>2. pty[p].slave \in Slaves /\ pty[p].path \in Links
    BY <1>4 DEF PtyClose, SlavesApart
  <2>3. PtysOK'
    BY <1>4, <2>2, ClosedRecord DEF PtyClose, PtysOK
  <2>4. pty'[p] = Closed /\ (\A q \in Ptys \ {p} : pty'[q] = pty[q]) /\ link' = link
    BY <1>4 DEF PtyClose, PtysOK
  <2>5. SlavesApart'
    BY <1>0, <2>2, <2>4, ClosedRecord DEF SlavesApart
  <2>6. ClosingOwn'
    <3>1. SUFFICES ASSUME NEW q \in Ptys, unlinking' # NoPath, pty'[q].path = unlinking'
                   PROVE  pty'[q].lost
      BY DEF ClosingOwn
    <3>2. unlinking' = pty[p].path /\ link[pty[p].path] = pty[p].slave
      BY <1>4, <3>1 DEF PtyClose, RemovesLink
    <3>3. Closed.path = NoPath /\ unlinking' # NoPath
      BY <3>1 DEF Closed
    <3>4. q # p /\ pty[q].path = pty[p].path /\ pty'[q] = pty[q] /\ pty[q] # Closed
      BY <2>4, <3>1, <3>2, <3>3
    <3> QED  BY <1>0, <2>2, <3>2, <3>4 DEF SlavesApart
  <2> QED  BY <2>1, <2>3, <2>5, <2>6
<1>5. ASSUME NEW p \in Ptys, NEW path \in Links, unlinking = NoPath, PtyOpen(p, path) PROVE SerialInv'
  <2>1. CallsOK' /\ DeviceOK' /\ Saved'
    BY <1>5, CallCounted, DeviceAlone DEF PtyOpen
  <2>2. CASE link[path] = 0
    <3> DEFINE new == [slave |-> FreeSlave, path |-> path, lost |-> FALSE]
    <3>1. FreeSlave \in Slaves /\ \A q \in Ptys : pty[q].slave # FreeSlave
      BY SlaveIsFree
    <3>2. new \in PtyRecord /\ new.slave = FreeSlave /\ new.path = path /\ ~new.lost
      BY <3>1 DEF PtyRecord
    <3>3. /\ pty' = [pty EXCEPT ![p] = new] /\ link' = [link EXCEPT ![path] = FreeSlave]
          /\ unlinking' = unlinking
      BY <1>5, <2>2 DEF PtyOpen
    <3> HIDE DEF new
    <3>4. PtysOK'
      BY <3>1, <3>2, <3>3 DEF PtysOK
    <3>5. /\ pty'[p] = new /\ \A q \in Ptys \ {p} : pty'[q] = pty[q]
          /\ link'[path] = FreeSlave /\ \A l \in Links \ {path} : link'[l] = link[l]
      BY <3>3 DEF PtysOK
    <3>6. SlavesApart'
      BY <1>0, <2>2, <3>1, <3>2, <3>5, ClosedRecord DEF SlavesApart
    <3>7. ClosingOwn'
      BY <1>5 DEF PtyOpen, ClosingOwn
    <3> QED  BY <2>1, <3>4, <3>6, <3>7
  <2>3. CASE link[path] # 0
    BY <1>5, <2>1, <2>3, PtysAlone DEF PtyOpen
  <2> QED  BY <2>2, <2>3
<1>6. ASSUME NEW path \in Links, LinkTaken(path) PROVE SerialInv'
  <2>1. CallsOK' /\ DeviceOK' /\ Saved'
    BY <1>6, CallCounted, DeviceAlone DEF LinkTaken
  <2>2. link' = [link EXCEPT ![path] = 0] /\ link[path] # 0
    BY <1>6 DEF LinkTaken
  <2>3. ASSUME NEW p \in Ptys
        PROVE  /\ pty'[p] \in PtyRecord
               /\ pty'[p].slave = pty[p].slave /\ pty'[p].path = pty[p].path
               /\ pty'[p] = pty[p] \/ (pty'[p].lost /\ pty[p].slave = link[path])
               /\ pty[p].path = path /\ pty[p].slave = link[path] => pty'[p].lost
    <3>1. pty[p] \in PtyRecord
      BY DEF PtysOK
    <3>2. pty'[p] = IF pty[p].path = path /\ pty[p].slave = link[path]
                    THEN [pty[p] EXCEPT !.lost = TRUE] ELSE pty[p]
      BY <1>6 DEF LinkTaken
    <3>3. /\ [pty[p] EXCEPT !.lost = TRUE] \in PtyRecord /\ [pty[p] EXCEPT !.lost = TRUE].lost
          /\ [pty[p] EXCEPT !.lost = TRUE].slave = pty[p].slave
          /\ [pty[p] EXCEPT !.lost = TRUE].path = pty[p].path
      BY <3>1 DEF PtyRecord
    <3> QED  BY <3>1, <3>2, <3>3
  <2>4. PtysOK'
    <3>1. pty' \in [Ptys -> PtyRecord]
      BY <1>6, <2>3 DEF LinkTaken
    <3> QED  BY <1>6, <2>2, <3>1 DEF PtysOK, LinkTaken
  <2>5. /\ link'[path] = 0 /\ \A l \in Links \ {path} : link'[l] = link[l]
    BY <2>2 DEF PtysOK
  <2>6. \A p \in Ptys : pty'[p] = Closed \/ (pty'[p].slave \in Slaves /\ pty'[p].path \in Links)
    BY <2>2, <2>3, ClosedRecord DEF SlavesApart
  <2>7. \A p, q \in Ptys : pty'[p].slave # 0 /\ pty'[p].slave = pty'[q].slave => p = q
    BY <2>3 DEF SlavesApart
  <2>8. ASSUME NEW p \in Ptys, pty'[p] # Closed, ~pty'[p].lost
        PROVE  link'[pty'[p].path] = pty'[p].slave
    <3>1. pty'[p] = pty[p]
      BY <2>3, <2>8
    <3>2. link[pty[p].path] = pty[p].slave /\ pty[p].path \in Links
      BY <2>8, <3>1 DEF SlavesApart
    <3>3. pty[p].path # path
      BY <2>3, <2>8, <3>2
    <3> QED  BY <2>5, <3>1, <3>2, <3>3
  <2>9. SlavesApart'
    BY <2>6, <2>7, <2>8 DEF SlavesApart
  <2>10. ClosingOwn'
    BY <1>6, <2>3 DEF ClosingOwn, LinkTaken
  <2> QED  BY <2>1, <2>4, <2>9, <2>10
<1>8. CASE PtyUnlink
  <2>1. CallsOK' /\ DeviceOK' /\ Saved'
    BY <1>8, CallCounted, DeviceAlone DEF PtyUnlink
  <2>2. /\ pty' = pty /\ unlinking' = NoPath /\ unlinking \in Links
        /\ \A l \in Links \ {unlinking} : link'[l] = link[l]
    BY <1>8 DEF PtyUnlink, PtysOK
  <2>3. PtysOK'
    BY <1>8, <2>2 DEF PtyUnlink, PtysOK
  <2>4. \A q \in Ptys : pty[q] # Closed /\ ~pty[q].lost => pty[q].path \in Links \ {unlinking}
    BY <1>8 DEF PtyUnlink, ClosingOwn, SlavesApart
  <2>5. SlavesApart'
    BY <2>2, <2>4 DEF SlavesApart
  <2>6. ClosingOwn'
    BY <2>2 DEF ClosingOwn
  <2> QED  BY <2>1, <2>3, <2>5, <2>6
<1>7. CASE UNCHANGED serialVars
  BY <1>7, CallCounted, DeviceAlone, PtysAlone DEF serialVars
<1> QED  BY <1>1, <1>2, <1>3, <1>4, <1>5, <1>6, <1>7, <1>8 DEF SerialNext

\* Types of the device's settings and of the pseudo-terminals (io.serial.c).
THEOREM SerialTypes == SerialSpec => []SerialTypeOK
<1>1. SerialInv => SerialTypeOK
  BY SerialTypeParts DEF SerialInv
<1> QED  BY SerialInit, SerialStep, <1>1, PTL DEF SerialSpec

\* For any settings asked for and any number of pseudo-terminals under any paths: a
\* closed device has the settings it was found with, an open one reads back as it
\* was set, and no pseudo-terminal loses its link to another's close.
THEOREM BorrowedAlwaysReturned == SerialSpec => []BorrowedIsReturned
<1>1. SerialInv => BorrowedIsReturned
  BY DEF SerialInv, Saved, SlavesApart, BorrowedIsReturned
<1> QED  BY SerialInit, SerialStep, <1>1, PTL DEF SerialSpec
=============================================================================
