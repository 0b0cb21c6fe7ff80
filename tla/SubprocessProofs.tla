-------------------------- MODULE SubprocessProofs --------------------------
(***************************************************************************)
(* Proofs about Subprocess, for any number of helpers and all options: the *)
(* SIGCHLD handler and notify_spawn_subprocess() do not get into each      *)
(* other's way, and what it takes to shorten the sleep between two kills.  *)
(***************************************************************************)
EXTENDS Subprocess, TLAPS

\* The places notify_spawn_subprocess() is called from and returns to.
ReturnPC == {"nap", "sleep1", "kill", "ext", "failed", "throttle", "sleep"}

\* What the code after the call relies on.
RetInv == ret \in ReturnPC

\* From fork() to waitpid() the helper has not been reaped: only the handler
\* could have done it, and SIGCHLD is blocked.
OwnInv ==
    /\ pc \in {"pidfd_open", "poll", "waitpid"} => child[pid1] # "none"
    /\ OwnChildReapable

\* Where the daemon is, or will be after notify_spawn_subprocess().
Site == IF pc = "block" \/ InSpawn THEN ret ELSE pc

\* After an attempt to kill, the only way to the next one is through a sleep.
\* One signal interrupts it; only a second one, whose handler runs between the
\* return of nanosleep() and the test of errno, keeps it from being resumed.
Rest == {"returned", "ext", "failed", "throttle", "sleep1", "sleep", "eintr", "resume"}

RestInv ==
    ~rested /\ sigs # 2 =>
        /\ Site \in Rest
        /\ pc \in {"eintr", "resume"} => sigs = 1
        /\ pc = "resume" => ~handler /\ errno = "EINTR"

SubprocessInv ==
    TypeOK /\ RetInv /\ SpawnBalanced /\ NoZombieForgotten /\ OwnInv /\ RestInv

----------------------------------------------------------------------------
(* SubprocessInv is preserved.                                             *)

\* Helpers: a zombie appears together with a pending signal.
LEMMA HelperStep ==
    ASSUME SubprocessInv, NEW c \in Child, Exec(c) \/ ChildExit(c)
    PROVE  SubprocessInv'
  <1> USE DEF SubprocessInv
  <1>1. /\ UNCHANGED <<args, blocked, handler, errno, pc, spawnvars, killvars>>
        /\ \A d \in Child : child'[d] = "none" <=> child[d] = "none"
        /\ \A d \in Child : child[d] = "zombie" => child'[d] = "zombie"
        /\ \A d \in Child : child'[d] = "zombie" => child[d] = "zombie" \/ pending'
        /\ pending => pending'
        /\ child' \in [Child -> {"none", "forked", "run", "zombie"}]
        /\ pending' \in BOOLEAN
    BY DEF Exec, ChildExit, sigvars, TypeOK
  <1>2. TypeOK' /\ RetInv' /\ RestInv'
    BY <1>1 DEF TypeOK, RetInv, RestInv, Site, InSpawn, spawnvars, killvars
  <1>3. SpawnBalanced'
    BY <1>1 DEF SpawnBalanced, InSpawn, spawnvars
  <1>4. NoZombieForgotten'
    BY <1>1 DEF NoZombieForgotten
  <1>5. OwnInv'
    BY <1>1 DEF OwnInv, OwnChildReapable, TypeOK, spawnvars
  <1> QED
    BY <1>2, <1>3, <1>4, <1>5

\* The handler: it starts only outside notify_spawn_subprocess() and ends
\* only when no zombie is left.
LEMMA HandlerStep ==
    ASSUME SubprocessInv, Handler
    PROVE  SubprocessInv'
  <1> USE DEF SubprocessInv
  <1>1. /\ ~InSpawn /\ UNCHANGED <<args, blocked, spawnvars, res, saved, rested>>
        /\ \/ pc' = pc
           \/ pc = "sleep1" /\ pc' = "sleep"
           \/ pc = "nap" /\ pc' = "get_entry"
           \/ pc = "sleep" /\ pc' = "eintr"
    BY DEF Handler, HandlerStart, HandlerReap, HandlerReturn, SpawnBalanced, InSpawn,
           TypeOK, sigvars, killvars
  <1>2. ~InSpawn'
    BY <1>1 DEF InSpawn
  <1>3. TypeOK'
    <2>1. /\ child' \in [Child -> {"none", "forked", "run", "zombie"}]
          /\ pending' \in BOOLEAN /\ handler' \in BOOLEAN /\ errno' \in Errno
      BY DEF Handler, HandlerStart, HandlerReap, HandlerReturn, Reap, TypeOK, Errno,
             sigvars
    <2>2. sigs' \in 0 .. 2
      <3>1. sigs' = sigs \/ (sigs < 2 /\ sigs' = sigs + 1)
        BY DEF Handler, HandlerStart, HandlerReap, HandlerReturn, killvars
      <3> QED
        BY <3>1, SMT DEF TypeOK
    <2> QED
      BY <1>1, <1>2, <2>1, <2>2 DEF TypeOK, PC, InSpawn, spawnvars
  <1>4. RetInv' /\ RestInv'
    <2>1. RetInv'
      BY <1>1 DEF RetInv, spawnvars
    <2>2. pc # "block" => Site = pc
      BY <1>1 DEF Site
    <2>3. pc' # "block" => Site' = pc'
      BY <1>2 DEF Site
    <2>4. sigs \in 0 .. 2 /\ pc # "block" => pc' # "block"
      BY <1>1 DEF TypeOK
    <2>5. CASE pc = "block"
      <3>1. pc' = pc /\ sigs' = sigs /\ rested' = rested /\ ret' = ret
        BY <1>1, <2>5 DEF Handler, HandlerStart, HandlerReap, HandlerReturn, spawnvars, killvars
      <3> QED
        BY <2>1, <2>5, <3>1 DEF RestInv, Site
    <2>6. CASE pc # "block" /\ HandlerStart
      <3>1. /\ ~handler
            /\ sigs' = IF ~rested /\ pc \in {"sleep", "eintr", "resume"} /\ sigs < 2
                        THEN sigs + 1 ELSE sigs
        BY <2>6 DEF HandlerStart
      <3>2. sigs \in 0 .. 2
        BY DEF TypeOK
      <3> QED
        BY <1>1, <2>1, <2>2, <2>3, <2>4, <2>6, <3>1, <3>2 DEF RestInv, Rest
    <2>7. CASE pc # "block" /\ (HandlerReap \/ HandlerReturn)
      <3>1. handler /\ pc' = pc /\ sigs' = sigs
        BY <2>7 DEF HandlerReap, HandlerReturn, killvars
      <3> QED
        BY <1>1, <2>1, <2>2, <2>3, <2>7, <3>1 DEF RestInv
    <2> QED
      BY <2>5, <2>6, <2>7 DEF Handler
  <1>5. SpawnBalanced'
    BY <1>1, <1>2 DEF SpawnBalanced, InSpawn, spawnvars
  <1>6. NoZombieForgotten'
    BY DEF Handler, HandlerStart, HandlerReap, HandlerReturn, Reap, NoZombieForgotten,
           sigvars, TypeOK
  <1>7. OwnInv'
    BY <1>1, <1>2 DEF OwnInv, OwnChildReapable, InSpawn
  <1> QED
    BY <1>3, <1>4, <1>5, <1>6, <1>7

\* Outside notify_spawn_subprocess() the daemon touches neither the helpers
\* nor the signal.
LEMMA PlainStep ==
    ASSUME SubprocessInv, Meminfo \/ Enough \/ KernelOom \/ KillProc \/ Sleep
    PROVE  SubprocessInv'
  <1> USE DEF SubprocessInv
  <1> DEFINE Plain == PC \ {"block", "fork", "pidfd_open", "poll", "waitpid", "close",
                            "unblock"}
  <1>1. /\ UNCHANGED <<args, child, sigvars, pid1, pidfd>>
        /\ errno' \in Errno /\ res' \in Errno /\ saved' \in Errno
    BY DEF Meminfo, Enough, KernelOom, KillProc, Sleep, WakeUp, Interrupted, Resume, GetEntry, Strtoll, CheckErrno,
           NoVictim, Prehook, KillWait, NotifyDbus, NotifyTooSoon, NotifyExt, Killed,
           KillFailed, Throttle, spawnvars, killvars, TypeOK, Errno
  <1>2. /\ pc \in Plain
        /\ \/ pc' \in Plain /\ ret' = ret
           \/ pc' = "block" /\ ret' \in ReturnPC
        /\ rested' \in BOOLEAN
        /\ sigs' = sigs \/ sigs' = 0
    BY DEF Meminfo, Enough, KernelOom, KillProc, Sleep, WakeUp, Interrupted, Resume, GetEntry, Strtoll, CheckErrno,
           NoVictim, Prehook, KillWait, NotifyDbus, NotifyTooSoon, NotifyExt, Killed,
           KillFailed, Throttle, At, Spawn, spawnvars, killvars, TypeOK, PC, ReturnPC
  <1>3. \/ rested'
        \/ pc = "kill" /\ pc' = "returned"
        \/ /\ rested' = rested /\ sigs' = sigs
           /\ pc \in Rest /\ (pc = "resume" => errno = "EINTR") =>
                \/ pc' \in Rest \ {"eintr", "resume"}
                \/ pc = "eintr" /\ pc' = "resume" /\ ~handler /\ errno' = "EINTR"
                \/ pc' = "block" /\ ret' \in Rest
    BY DEF Meminfo, Enough, KernelOom, KillProc, Sleep, WakeUp, Interrupted, Resume, GetEntry, Strtoll, CheckErrno,
           NoVictim, Prehook, KillWait, NotifyDbus, NotifyTooSoon, NotifyExt, Killed,
           KillFailed, Throttle, At, Spawn, spawnvars, killvars, Rest
  <1>4. ~InSpawn /\ ~InSpawn' /\ pc # "block"
    BY <1>2 DEF InSpawn
  <1>5. TypeOK'
    <2>1. sigs' \in 0 .. 2
      BY <1>2, SMT DEF TypeOK
    <2> QED
      BY <1>1, <1>2, <2>1 DEF TypeOK, PC, ReturnPC, sigvars
  <1>6. RetInv'
    BY <1>2 DEF RetInv
  <1>7. SpawnBalanced' /\ NoZombieForgotten'
    BY <1>1, <1>4 DEF SpawnBalanced, NoZombieForgotten, InSpawn, sigvars
  <1>8. OwnInv'
    BY <1>4 DEF OwnInv, OwnChildReapable, InSpawn
  <1>9. RestInv'
    BY <1>1, <1>3, <1>4, <1>2 DEF RestInv, Site, Rest, sigvars
  <1> QED
    BY <1>5, <1>6, <1>7, <1>8, <1>9

\* notify_spawn_subprocess(): SIGCHLD is blocked from before the fork() until
\* after the helper was reaped or left to the handler.
LEMMA SpawnStep ==
    ASSUME SubprocessInv, SpawnSubprocess
    PROVE  SubprocessInv'
  <1> USE DEF SubprocessInv
  <1>1. CASE Block
    BY <1>1 DEF Block, At, TypeOK, RetInv, SpawnBalanced, NoZombieForgotten, OwnInv,
                OwnChildReapable, RestInv, Site, InSpawn, PC, spawnvars, killvars
  <1>2. CASE Fork
    BY <1>2 DEF Fork, At, TypeOK, RetInv, SpawnBalanced, NoZombieForgotten, OwnInv,
                OwnChildReapable, RestInv, Site, InSpawn, PC, sigvars, killvars
  <1>3. CASE PidfdOpen
    BY <1>3 DEF PidfdOpen, At, TypeOK, RetInv, SpawnBalanced, NoZombieForgotten, OwnInv,
                OwnChildReapable, RestInv, Site, InSpawn, PC, sigvars, killvars
  <1>4. CASE PollReady \/ PollTimeout
    <2>1. /\ pc = "poll" /\ UNCHANGED <<args, child, sigvars, errno, spawnvars, killvars>>
          /\ \/ pc' = "waitpid" /\ child[pid1] \in {"zombie", "none"}
             \/ pc' = "close"
      BY <1>4 DEF PollReady, PollTimeout, At
    <2>2. TypeOK' /\ RetInv' /\ RestInv'
      BY <2>1 DEF TypeOK, RetInv, RestInv, Site, InSpawn, PC, sigvars, spawnvars, killvars
    <2>3. SpawnBalanced'
      BY <2>1 DEF SpawnBalanced, InSpawn, sigvars, spawnvars
    <2>4. NoZombieForgotten' /\ OwnInv'
      BY <2>1 DEF NoZombieForgotten, OwnInv, OwnChildReapable, sigvars, spawnvars
    <2> QED
      BY <2>2, <2>3, <2>4
  <1>5. CASE WaitPid
    <2>1. /\ child[pid1] = "zombie" /\ pid1 \in Child
          /\ child' = [child EXCEPT ![pid1] = "none"] /\ errno' = errno
          /\ pc = "waitpid" /\ pc' = "close"
          /\ UNCHANGED <<args, sigvars, spawnvars, killvars>>
      BY <1>5 DEF WaitPid, Reap, At, OwnInv, OwnChildReapable, TypeOK
    <2>2. TypeOK' /\ RetInv' /\ RestInv'
      BY <2>1 DEF TypeOK, RetInv, RestInv, Site, InSpawn, PC, sigvars, spawnvars, killvars
    <2>3. SpawnBalanced' /\ OwnInv'
      BY <2>1 DEF SpawnBalanced, InSpawn, OwnInv, OwnChildReapable, sigvars, spawnvars
    <2>4. NoZombieForgotten'
      BY <2>1 DEF NoZombieForgotten, TypeOK, sigvars
    <2> QED
      BY <2>2, <2>3, <2>4
  <1>6. CASE ClosePidfd
    BY <1>6 DEF ClosePidfd, At, TypeOK, RetInv, SpawnBalanced, NoZombieForgotten, OwnInv,
                OwnChildReapable, RestInv, Site, InSpawn, PC, sigvars, killvars
  <1>7. CASE Unblock
    <2>1. /\ pc = "unblock" /\ ~handler /\ blocked' = FALSE
          /\ handler' = pending /\ pending' = FALSE
          /\ pc' = ret /\ pid1' = NoChild
          /\ UNCHANGED <<args, child, errno, ret, pidfd, res, saved, rested, sigs>>
      BY <1>7 DEF Unblock, At, killvars
    <2>2. pc' \in ReturnPC /\ ~InSpawn' /\ pc' # "block" /\ ~pidfd'
      BY <2>1 DEF RetInv, ReturnPC, InSpawn, SpawnBalanced
    <2>3. TypeOK' /\ RetInv'
      BY <2>1, <2>2 DEF TypeOK, RetInv, ReturnPC, PC
    <2>4. SpawnBalanced'
      <3>1. InSpawn' = FALSE
        BY <2>2 DEF InSpawn, ReturnPC
      <3> QED
        BY <2>1, <2>2, <3>1, Zenon DEF SpawnBalanced
    <2>5. NoZombieForgotten'
      BY <2>1 DEF NoZombieForgotten
    <2>6. OwnInv'
      BY <2>2 DEF OwnInv, OwnChildReapable, ReturnPC
    <2>7. RestInv'
      BY <2>1, <2>2 DEF RestInv, Site, InSpawn, ReturnPC
    <2> QED
      BY <2>3, <2>4, <2>5, <2>6, <2>7
  <1> QED
    BY <1>1, <1>2, <1>3, <1>4, <1>5, <1>6, <1>7 DEF SpawnSubprocess

LEMMA SubprocessInit ==
    ASSUME Init PROVE SubprocessInv
  <1>1. TypeOK /\ RetInv
    <2>1. sigs \in 0 .. 2
      BY SMT DEF Init
    <2> QED
      BY <2>1, SubprocessAssumption DEF Init, TypeOK, RetInv, ReturnPC, PC, Errno
  <1>2. SpawnBalanced /\ RestInv
    <2>1. InSpawn = FALSE
      BY DEF Init, InSpawn
    <2> QED
      BY <2>1 DEF Init, SpawnBalanced, RestInv
  <1>3. NoZombieForgotten /\ OwnInv
    BY DEF Init, NoZombieForgotten, OwnInv, OwnChildReapable
  <1> QED
    BY <1>1, <1>2, <1>3 DEF SubprocessInv

LEMMA SubprocessStutter ==
    ASSUME SubprocessInv, UNCHANGED vars PROVE SubprocessInv'
  BY DEF SubprocessInv, vars, sigvars, spawnvars, killvars, TypeOK, RetInv,
         SpawnBalanced, InSpawn, NoZombieForgotten, OwnInv, OwnChildReapable, RestInv, Site

----------------------------------------------------------------------------
(* The theorems.                                                           *)

\* The inductive invariant that the theorems below rest on.
THEOREM SubprocessInvariant == Spec => []SubprocessInv
  <1>1. Init => SubprocessInv
    BY SubprocessInit
  <1>2. SubprocessInv /\ [Next]_vars => SubprocessInv'
    BY HelperStep, HandlerStep, PlainStep, SpawnStep, SubprocessStutter
       DEF Next, Daemon, Stopped
  <1> QED
    BY <1>1, <1>2, PTL DEF Spec

\* Types; after fork() there is a helper to work with.
THEOREM SubprocessTypes == Spec => []TypeOK
  BY SubprocessInvariant, PTL DEF SubprocessInv

\* However many helpers end while one SIGCHLD is pending or handled, a zombie
\* always has a handler run ahead of it or above it.
THEOREM ZombiesRemembered == Spec => []NoZombieForgotten
  BY SubprocessInvariant, PTL DEF SubprocessInv

\* No way through notify_spawn_subprocess() leaves SIGCHLD blocked or the pidfd
\* open, or lets the handler in.
THEOREM SpawnLeavesNoTrace == Spec => []SpawnBalanced
  BY SubprocessInvariant, PTL DEF SubprocessInv

\* The helper that poll() has reported is still there for waitpid().
THEOREM OwnChildIsReaped == Spec => []OwnChildReapable
  <1>1. SubprocessInv => OwnChildReapable
    BY DEF SubprocessInv, OwnInv
  <1> QED
    BY <1>1, SubprocessInvariant, PTL

\* Two attempts to kill have a whole adaptive sleep between them, unless two
\* SIGCHLDs were delivered within one.
THEOREM RestedBeforeKill == Spec => []RestBetweenKills
  <1>1. SubprocessInv => RestBetweenKills
    BY DEF SubprocessInv, RestInv, RestBetweenKills, Site, InSpawn, Rest
  <1> QED
    BY <1>1, SubprocessInvariant, PTL
=============================================================================
