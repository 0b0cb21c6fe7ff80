--------------------------- MODULE EarlyoomProofs ---------------------------
(***************************************************************************)
(* Proofs about Earlyoom, for every set of pids, every process table, all  *)
(* options, limits and readings, and any number of pid reuses and of       *)
(* rounds of the wait loop.                                                *)
(***************************************************************************)
EXTENDS Earlyoom, TLAPS

USE DEF SIGKILL, SIGTERM

\* kill_wait() between its first signal and its return.
Waiting == {"loop", "kill2", "alive"}

\* What the types of the step's results rest on: kill_wait() is only called
\* with a victim, and the loop counter is below its bound within the loop.
TypeInv ==
    /\ TypeOK
    /\ pc \in {"prehook", "kill_wait"} => victim.pid > 0
    /\ pc \in {"kill2", "alive"} => i < WaitRounds

----------------------------------------------------------------------------
(* Lemmas about the operators.                                             *)

\* The fields of a process that arithmetic is done with.
LEMMA KindFields ==
    ASSUME NEW k \in KindType
    PROVE  /\ k.pgid \in Nat /\ k.rss \in Nat /\ k.oom_score \in Nat
           /\ k.prefer \in BOOLEAN /\ k.avoid \in BOOLEAN /\ k.allowed \in BOOLEAN
  BY DEF KindType

\* is_larger() fills the candidate with numbers.
LEMMA ProcInfoType ==
    ASSUME NEW a, NEW p \in Pid, NEW k \in KindType, NEW st
    PROVE  procinfo(a, p, k, st) \in ProcInfo
  <1>1. k.rss \in Nat /\ k.oom_score \in Nat
    BY KindFields
  <1>2. StatRss(k, st) \in Int /\ OomScore(k, st) \in Int
    BY <1>1 DEF StatRss, OomScore
  <1>3. /\ Adjust(a, k, OOM_SCORE_PREFER, OOM_SCORE_AVOID) \in Int
        /\ Adjust(a, k, VMRSS_PREFER, VMRSS_AVOID) \in Int
    BY DEF Adjust, OOM_SCORE_PREFER, OOM_SCORE_AVOID, VMRSS_PREFER, VMRSS_AVOID
  <1>4. p \in Int
    BY EarlyoomAssumption
  <1> QED
    BY <1>2, <1>3, <1>4 DEF procinfo, ProcInfo, PageKiB

LEMMA EmptyInfoType ==
    /\ empty_procinfo \in ProcInfo /\ zero_procinfo \in ProcInfo
    /\ empty_procinfo.pid \notin Pid /\ zero_procinfo.pid \notin Pid
  BY EarlyoomAssumption
     DEF empty_procinfo, zero_procinfo, ProcInfo, PROCINFO_FIELD_NOT_SET

LEMMA SigType ==
    ASSUME NEW r PROVE lowmem_sig(r) \in {0, 15, 9}
  BY DEF lowmem_sig

\* Delivering a signal changes nothing but the pending signals.
LEMMA DeliverType ==
    ASSUME proc \in [Pid -> ProcType], NEW S, NEW s \in {15, 9}
    PROVE  /\ Deliver(S, s) \in [Pid -> ProcType]
           /\ \A p \in Pid : /\ Deliver(S, s)[p].st = proc[p].st
                             /\ Deliver(S, s)[p].kind = proc[p].kind
                             /\ Deliver(S, s)[p].inc = proc[p].inc
  BY DEF Deliver, ProcType

LEMMA HitType ==
    ASSUME proc \in [Pid -> ProcType], NEW S \in SUBSET Pid
    PROVE  Incarnation(S) \subseteq Pid \X Nat
  BY DEF Incarnation, ProcType

LEMMA TargetsType ==
    ASSUME NEW t PROVE Targets(t) \subseteq Pid /\ Permitted(t) \subseteq Targets(t)
  BY DEF Targets, Permitted

LEMMA KillErrType == ASSUME NEW t PROVE KillErr(t) \in Errno
  BY DEF KillErr, Errno

----------------------------------------------------------------------------
(* Type correctness.                                                       *)

\* An environment step replaces one entry of the table by another.
LEMMA TypeEnv ==
    ASSUME TypeInv, Env PROVE TypeInv'
  <1>1. CASE MemChange
    BY <1>1, EarlyoomAssumption DEF TypeInv, TypeOK, MemChange, round
  <1>2. ASSUME NEW p \in Pid, NEW e \in ProcType, ProcChange(p, e)
        PROVE  TypeInv'
    BY <1>2 DEF TypeInv, TypeOK, ProcChange, round
  <1>3. ASSUME NEW p \in Pid, NEW k \in Kinds[p], Spawn(p, k) PROVE TypeInv'
    <2>1. k \in KindType
      BY EarlyoomAssumption
    <2>2. [st |-> "run", kind |-> k, inc |-> proc[p].inc + 1, pend |-> {}] \in ProcType
      BY <2>1 DEF TypeInv, TypeOK, ProcType, ProcState
    <2> QED
      BY <1>2, <1>3, <2>2 DEF Spawn
  <1>4. ASSUME NEW p \in Pid, Exit(p) \/ LeaderExit(p) \/ Die(p) \/ Reap(p)
        PROVE  TypeInv'
    <2>1. \A st \in ProcState : [proc[p] EXCEPT !.st = st] \in ProcType
      BY DEF TypeInv, TypeOK, ProcType
    <2>2. \A st \in ProcState : [proc[p] EXCEPT !.st = st, !.pend = {}] \in ProcType
      BY DEF TypeInv, TypeOK, ProcType
    <2> QED
      BY <1>2, <1>4, <2>1, <2>2 DEF Exit, LeaderExit, Die, Reap, ProcState
  <1> QED
    BY <1>1, <1>3, <1>4 DEF Env

\* Startup and the poll loop: the sysrq trigger is the one step that touches
\* the process table.
LEMMA TypePoll ==
    ASSUME TypeInv, Startup \/ PollLoop \/ Fatal PROVE TypeInv'
  <1> USE DEF TypeInv, TypeOK, Goto, env, round, PC
  <1>1. CASE CheckKernelOom
    BY <1>1 DEF CheckKernelOom, ArgsType
  <1>2. CASE Selftest
    BY <1>2, EmptyInfoType DEF Selftest, opendir
  <1>3. CASE CheckHooks
    BY <1>3 DEF CheckHooks, AbsoluteOrNone, ArgsType, Path
  <1>4. CASE PollIdle \/ PollLow \/ PollKernelOom
    BY <1>4, SigType, EmptyInfoType
       DEF PollIdle, PollLow, PollKernelOom, ReadMeminfo, opendir
  <1>5. CASE SysrqOom
    <2>1. PICK p \in Pid : /\ proc' = Deliver({p}, SIGKILL)
                           /\ hit' = Incarnation({p})
      BY <1>5 DEF SysrqOom
    <2>2. proc' \in [Pid -> ProcType]
      BY <2>1, DeliverType
    <2>3. hit' \subseteq Pid \X Nat
      BY <2>1, HitType
    <2>4. pc' \in {"exited", "poll"}
      BY <1>5 DEF SysrqOom
    <2> QED
      BY <1>5, <2>2, <2>3, <2>4 DEF SysrqOom
  <1>6. CASE SysrqNothing \/ Recheck \/ Sleep \/ Fatal
    BY <1>6 DEF SysrqNothing, Recheck, Sleep, Fatal
  <1> QED
    BY <1>1, <1>2, <1>3, <1>4, <1>5, <1>6 DEF Startup, PollLoop

LEMMA TypeFind ==
    ASSUME TypeInv, FindLargest PROVE TypeInv'
  <1> USE DEF TypeInv, TypeOK, Goto, env, round, PC
  <1>1. ASSUME NEW p \in Pid, Scan(p) PROVE TypeInv'
    <2>1. proc[p].kind \in KindType /\ proc[p].inc \in Nat
      BY DEF ProcType
    <2>2. victim' \in ProcInfo /\ vinc' \in Nat
      BY <1>1, <2>1, ProcInfoType DEF Scan, ScanLarger, ScanSkip
    <2> QED
      BY <1>1, <2>2 DEF Scan
  <1>2. CASE ScanDone
    BY <1>2, EmptyInfoType DEF ScanDone
  <1> QED
    BY <1>1, <1>2 DEF FindLargest

LEMMA TypeKillProc ==
    ASSUME TypeInv, KillProc PROVE TypeInv'
  BY DEF TypeInv, TypeOK, Goto, env, round, PC,
         KillProc, NoVictim, KillProcess, Prehook, Notify, Result, Sleep1

\* What kill_release() does to the variables, whatever signal it sends.
LEMMA ReleaseType ==
    ASSUME TypeOK, NEW l \in PC, kill_release(sig, l)
    PROVE  /\ proc' \in [Pid -> ProcType] /\ hit' \subseteq Pid \X Nat
           /\ err' \in Errno /\ pc' \in {"exited", "close", l}
  <1>1. sig # 0 => Deliver(Permitted(pid), sig) \in [Pid -> ProcType]
    BY DeliverType DEF TypeOK
  <1>2. Incarnation(Permitted(pid)) \subseteq Pid \X Nat
    BY HitType, TargetsType DEF TypeOK
  <1> QED
    BY <1>1, <1>2, KillErrType DEF TypeOK, kill_release, Goto

LEMMA TypeKillWait ==
    ASSUME TypeInv, KillWait PROVE TypeInv'
  <1> USE DEF TypeInv, TypeOK, Goto, env, round, PC
  <1>1. CASE KillWaitDryrun
    BY <1>1 DEF KillWaitDryrun, Return, Errno
  <1>2. CASE KillWaitSingle
    BY <1>2 DEF KillWaitSingle, ProcInfo
  <1>3. CASE KillWaitGroup
    <2>1. ASSUME Targets(victim.pid) # {}
          PROVE  -proc[victim.pid].kind.pgid \in Int
      <3>1. victim.pid \in Pid
        BY <1>3, <2>1 DEF KillWaitGroup, Targets, ProcInfo
      <3>2. proc[victim.pid].kind \in KindType
        BY <3>1 DEF ProcType
      <3> QED
        BY <3>2, KindFields
    <2>2. pid' \in Int /\ err' \in Errno /\ pc' \in {"pidfd", "hooks", "notify"}
      BY <1>3, <2>1 DEF KillWaitGroup, Return, Errno, ProcInfo
    <2> QED
      BY <1>3, <2>2 DEF KillWaitGroup
  <1>4. CASE OpenPidfd
    BY <1>4 DEF OpenPidfd
  <1>5. CASE Kill1
    <2>1. kill_release(sig, IF sig = 0 THEN "close" ELSE "loop")
      BY <1>5 DEF Kill1
    <2>2. /\ proc' \in [Pid -> ProcType] /\ hit' \subseteq Pid \X Nat
          /\ err' \in Errno /\ pc' \in {"exited", "close", "loop"}
      BY <2>1, ReleaseType
    <2> QED
      BY <1>5, <2>2, EarlyoomAssumption DEF Kill1
  <1>6. CASE Loop \/ Timeout
    BY <1>6, EarlyoomAssumption DEF Loop, Timeout, Errno
  <1>7. CASE Kill2
    <2>1. /\ proc' \in [Pid -> ProcType] /\ hit' \subseteq Pid \X Nat
          /\ err' \in Errno /\ pc' \in {"exited", "close", "alive"}
      BY <1>7, ReleaseType DEF Kill2
    <2> QED
      BY <1>7, <2>1 DEF Kill2
  <1>8. CASE StillAlive
    BY <1>8, EarlyoomAssumption DEF StillAlive
  <1>9. CASE Exited \/ ClosePidfd
    BY <1>9 DEF Exited, ClosePidfd, Return
  <1> QED
    BY <1>1, <1>2, <1>3, <1>4, <1>5, <1>6, <1>7, <1>8, <1>9 DEF KillWait

LEMMA TypeInit ==
    ASSUME Init PROVE TypeInv
  <1>1. \A p \in Pid : InitProc(p) \subseteq ProcType
    BY EarlyoomAssumption DEF InitProc, ProcType, ProcState
  <1>2. proc \in [Pid -> ProcType]
    BY <1>1 DEF Init
  <1>3. mem \in Reading /\ m \in Reading /\ args \in ArgsType
    BY EarlyoomAssumption DEF Init
  <1>4. /\ pc = "start" /\ sig = 0 /\ todo = {} /\ victim = empty_procinfo
        /\ vinc = 0 /\ pid = 0 /\ pidfd = FALSE /\ i = 0 /\ err = "ok" /\ hit = {}
    BY DEF Init
  <1>5. i \in 0 .. WaitRounds
    BY <1>4, EarlyoomAssumption
  <1>6. /\ pc \in PC /\ sig \in {0, 15, 9} /\ todo \subseteq Pid /\ vinc \in Nat
        /\ victim \in ProcInfo /\ pid \in Int /\ err \in Errno
        /\ hit \subseteq Pid \X Nat
    BY <1>4, EmptyInfoType DEF PC, Errno
  <1>7. pidfd \in BOOLEAN
    BY <1>4
  <1>8. pc \notin {"prehook", "kill_wait", "kill2", "alive"}
    BY <1>4
  <1> QED
    BY <1>2, <1>3, <1>5, <1>6, <1>7, <1>8 DEF TypeInv, TypeOK

LEMMA TypeStutter ==
    ASSUME TypeInv, UNCHANGED vars PROVE TypeInv'
  BY DEF TypeInv, TypeOK, vars, round

\* The type invariant with what it needs to be inductive: kill_wait() has a
\* victim, and its counter is below the bound inside the loop.
THEOREM TypeInvariant == Spec => []TypeInv
  <1>1. Init => TypeInv
    BY TypeInit
  <1>2. TypeInv /\ [Next]_vars => TypeInv'
    BY TypeEnv, TypePoll, TypeFind, TypeKillProc, TypeKillWait, TypeStutter
       DEF Next, Daemon
  <1> QED
    BY <1>1, <1>2, PTL DEF Spec

\* Type correctness of the daemon and the table it works on: in particular
\* the wait loop of kill_wait() never exceeds its bound, and kill() is never
\* called with a target computed from a process that is not there.
THEOREM TypeCorrect == Spec => []TypeOK
  BY TypeInvariant, PTL DEF TypeInv

=============================================================================
