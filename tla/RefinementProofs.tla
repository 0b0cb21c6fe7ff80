-------------------------- MODULE RefinementProofs --------------------------
(***************************************************************************)
(* Earlyoom implements OomKiller, for every set of pids, process table,    *)
(* options, limits and readings: each step of the daemon and of its        *)
(* environment is a step of the abstract rounds, or none of them.          *)
(***************************************************************************)
EXTENDS EarlyoomRefinement, EarlyoomSafety

USE DEF SIGKILL, SIGTERM

----------------------------------------------------------------------------
(* The refinement mapping.                                                 *)

\* The phase of every place in the code.
LEMMA PhaseTable ==
    ASSUME NEW l, NEW s
    PROVE  /\ l = "exited" => PhaseAt(l, s) = "exited"
           /\ l = "koom" => PhaseAt(l, s) = "kernel"
           /\ l \in {"start", "hooks", "poll", "sleep1", "sleep"} => PhaseAt(l, s) = "watch"
           /\ l \in {"scan", "recheck"} =>
                PhaseAt(l, s) = IF s # 0 THEN "select" ELSE "watch"
           /\ l \in {"kill", "prehook", "kill_wait", "pidfd", "kill1"} =>
                PhaseAt(l, s) = IF s # 0 THEN "armed" ELSE "watch"
           /\ l \in Waiting => PhaseAt(l, s) = "wait"
           /\ l \in {"close", "notify", "result"} =>
                PhaseAt(l, s) = IF s # 0 THEN "done" ELSE "watch"
  <1>1. l = "exited" => PhaseAt(l, s) = "exited"
    BY DEF PhaseAt
  <1>2. l = "koom" => PhaseAt(l, s) = "kernel"
    BY DEF PhaseAt
  <1>3. l \in {"start", "hooks", "poll", "sleep1", "sleep"} => PhaseAt(l, s) = "watch"
    BY DEF PhaseAt
  <1>4. l \in {"scan", "recheck"} =>
          PhaseAt(l, s) = IF s # 0 THEN "select" ELSE "watch"
    BY DEF PhaseAt
  <1>5. l \in {"kill", "prehook", "kill_wait", "pidfd", "kill1"} =>
          PhaseAt(l, s) = IF s # 0 THEN "armed" ELSE "watch"
    BY DEF PhaseAt
  <1>6. l \in Waiting => PhaseAt(l, s) = "wait"
    BY DEF PhaseAt, Waiting
  <1>7. l \in {"close", "notify", "result"} =>
          PhaseAt(l, s) = IF s # 0 THEN "done" ELSE "watch"
    BY DEF PhaseAt
  <1> QED
    BY <1>1, <1>2, <1>3, <1>4, <1>5, <1>6, <1>7

LEMMA SignalTable ==
    /\ SignalName(9) = "KILL" /\ SignalName(15) = "TERM" /\ SignalName(0) = "none"
  BY DEF SignalName

\* The processes that run are told by state and incarnation.
LEMMA SameLive ==
    ASSUME \A p \in Pid : proc'[p].st = proc[p].st /\ proc'[p].inc = proc[p].inc
    PROVE  Live' = Live
  BY DEF Live

\* Nobody who runs is gone.
LEMMA LiveNotGone ==
    ASSUME NEW h, h \in Live PROVE h[1] \in Pid /\ ~Gone(h[1], h[2])
  BY DEF Live, Gone

LEMMA SameLevel ==
    ASSUME mem' = mem PROVE lowmem_sig(mem)' = lowmem_sig(mem)
  BY DEF lowmem_sig, AtKill, AtTerm

\* Steps within a phase.
LEMMA Stutter ==
    ASSUME Live' = Live, mem' = mem, Phase' = Phase,
           Phase \in {"select", "armed", "wait", "done"} => sig' = sig,
           Phase \in {"armed", "wait", "done"} => hit' = hit,
           Phase = "done" => err' = err
    PROVE  UNCHANGED Killer!vars
  <1>1. Demand' = Demand /\ Struck' = Struck /\ Outcome' = Outcome
    BY DEF Demand, Struck, Outcome
  <1> QED
    BY <1>1, SameLevel DEF Killer!vars

----------------------------------------------------------------------------
(* The signal at the two places where the mapping depends on it.           *)

\* The self-test has signal 0, a second reading is taken for a signal.
SigInv == (pc = "start" => sig = 0) /\ (pc = "recheck" => sig # 0)

LEMMA SigStep ==
    ASSUME SigInv, [Next]_vars PROVE SigInv'
  <1>1. CASE Env \/ UNCHANGED vars
    <2>1. UNCHANGED <<pc, sig>>
      BY <1>1 DEF Env, MemChange, Spawn, Exit, LeaderExit, Die, Reap, ProcChange, vars
    <2> QED
      BY <2>1 DEF SigInv
  <1>2. CASE Startup \/ PollLoop \/ Fatal
    <2>1. pc' \notin {"start", "recheck"}
      BY <1>2 DEF Startup, CheckKernelOom, Selftest, CheckHooks, PollLoop, PollIdle,
                  PollLow, PollKernelOom, SysrqOom, SysrqNothing, Recheck, Sleep,
                  Fatal, opendir, Goto
    <2> QED
      BY <2>1 DEF SigInv
  <1>3. CASE FindLargest
    BY <1>3 DEF FindLargest, Scan, ScanDone, Goto, SigInv
  <1>4. CASE KillProc
    BY <1>4 DEF KillProc, NoVictim, KillProcess, Prehook, Notify, Result, Sleep1, Goto,
                SigInv
  <1>5. CASE KillWait
    <2>1. CASE Kill1 \/ Kill2
      BY <2>1 DEF Kill1, Kill2, kill_release, Goto, SigInv
    <2>2. CASE ~Kill1 /\ ~Kill2
      BY <1>5, <2>2 DEF KillWait, KillWaitDryrun, KillWaitSingle, KillWaitGroup,
                        OpenPidfd, Loop, StillAlive, Exited, Timeout, ClosePidfd, Return,
                        Goto, SigInv
    <2> QED
      BY <2>1, <2>2
  <1> QED
    BY <1>1, <1>2, <1>3, <1>4, <1>5 DEF Next, Daemon

----------------------------------------------------------------------------
(* Every step is a step of a round.                                        *)

\* Processes come and go, memory moves: whoever was struck and is gone does
\* not come back.
LEMMA RefineEnv ==
    ASSUME TypeInv, SafeInv, Env PROVE [Killer!Next]_(Killer!vars)
  <1>1. /\ TableStep
        /\ UNCHANGED <<args, pc, m, sig, todo, victim, vinc, pid, pidfd, i, err, hit>>
    BY EnvTable
  <1>2. Phase' = Phase /\ Demand' = Demand /\ Struck' = Struck /\ Outcome' = Outcome
    BY <1>1 DEF Phase, Demand, Struck, Outcome
  <1>3. TypeInv'
    BY TypeEnv
  <1>4. Live' \subseteq Process
    BY <1>3 DEF Live, Process, TypeInv, TypeOK, ProcType
  <1>5. SignalName(lowmem_sig(mem))' \in Killer!Signal
    <2>1. lowmem_sig(mem)' \in {0, 15, 9}
      BY DEF lowmem_sig
    <2> QED
      BY <2>1, SignalTable DEF Killer!Signal
  <1>6. ASSUME NEW h \in Struck, h \in Live' PROVE h \in Live
    <2>1. h \in hit
      BY <1>6 DEF Struck
    <2>2. h \in Pid \X Nat /\ h[2] <= proc[h[1]].inc
      BY <2>1 DEF TypeInv, TypeOK, SafeInv, HitInv
    <2>3. ~Gone(h[1], h[2])'
      BY <1>6 DEF Live, Gone
    <2>4. ~Gone(h[1], h[2])
      BY <1>1, <2>2, <2>3, GoneStable
    <2>5. proc[h[1]].st \in {"run", "zleader"} /\ h = <<h[1], proc[h[1]].inc>>
      BY <2>2, <2>4 DEF Gone, TypeInv, TypeOK, ProcType, ProcState
    <2> QED
      BY <2>2, <2>5 DEF Live
  <1>7. Killer!World
    BY <1>2, <1>4, <1>5, <1>6 DEF Killer!World, Killer!self
  <1> QED
    BY <1>7 DEF Killer!Next

\* The self-tests belong to no round.
LEMMA RefineStartup ==
    ASSUME TypeInv, SigInv, Startup PROVE UNCHANGED Killer!vars
  <1>1. /\ proc' = proc /\ mem' = mem /\ sig' = sig
        /\ pc \in {"start", "hooks"} /\ pc' \in {"scan", "hooks", "poll"}
        /\ pc' = "scan" => sig = 0
    BY DEF Startup, CheckKernelOom, Selftest, CheckHooks, opendir, Goto, env, SigInv
  <1>2. Phase = "watch" /\ Phase' = "watch"
    BY <1>1, PhaseTable DEF Phase
  <1>3. Live' = Live
    BY <1>1, SameLive
  <1> QED
    BY <1>1, <1>2, <1>3, Stutter

LEMMA RefinePoll ==
    ASSUME TypeInv, SafeInv, SigInv, PollLoop PROVE [Killer!Next]_(Killer!vars)
  <1>1. Live' = Live /\ mem' = mem /\ lowmem_sig(mem)' = lowmem_sig(mem)
    <2>1. CASE SysrqOom
      <3>1. PICK p \in Pid : proc' = Deliver({p}, SIGKILL)
        BY <2>1 DEF SysrqOom
      <3>2. \A q \in Pid : proc'[q].st = proc[q].st /\ proc'[q].inc = proc[q].inc
        BY <3>1, DeliverType DEF TypeInv, TypeOK
      <3> QED
        BY <2>1, <3>2, SameLive, SameLevel DEF SysrqOom
    <2>2. CASE ~SysrqOom
      BY <2>2, SameLive, SameLevel
         DEF PollLoop, PollIdle, PollLow, PollKernelOom, SysrqNothing, Recheck, Sleep, env
    <2> QED
      BY <2>1, <2>2
  <1>2. lowmem_sig(mem) \in {0, 15, 9}
    BY SigType
  <1>3. CASE PollIdle \/ Sleep
    <2>1. pc \in {"poll", "sleep"} /\ pc' \in {"poll", "sleep"}
      BY <1>3 DEF PollIdle, Sleep, Goto
    <2>2. Phase = "watch" /\ Phase' = "watch"
      BY <2>1, PhaseTable DEF Phase
    <2> QED
      BY <1>1, <2>2, Stutter
  <1>4. CASE PollLow
    <2>1. /\ pc = "poll" /\ pc' = "scan" /\ sig' = lowmem_sig(mem)
          /\ lowmem_sig(mem) # 0
      BY <1>4 DEF PollLow, ReadMeminfo, opendir, Goto
    <2>2. Phase = "watch" /\ Phase' = "select"
      BY <2>1, PhaseTable DEF Phase
    <2>3. SignalName(lowmem_sig(mem)) # "none"
      BY <1>2, <2>1, SignalTable
    <2>4. Killer!Notice
      BY <1>1, <2>1, <2>2, <2>3 DEF Killer!Notice, Demand, Struck, Outcome
    <2> QED
      BY <2>4 DEF Killer!Next
  <1>5. CASE PollKernelOom
    <2>1. pc = "poll" /\ pc' = "koom" /\ lowmem_sig(mem) # 0
      BY <1>5 DEF PollKernelOom, Goto
    <2>2. Phase = "watch" /\ Phase' = "kernel"
      BY <2>1, PhaseTable DEF Phase
    <2>3. SignalName(lowmem_sig(mem)) # "none"
      BY <1>2, <2>1, SignalTable
    <2>4. Killer!Delegate
      BY <1>1, <2>2, <2>3 DEF Killer!Delegate, Demand, Struck, Outcome
    <2> QED
      BY <2>4 DEF Killer!Next
  <1>6. CASE SysrqOom \/ SysrqNothing
    <2>1. pc = "koom" /\ pc' \in {"poll", "exited"}
      BY <1>6 DEF SysrqOom, SysrqNothing, Goto
    <2>2. Phase = "kernel" /\ Phase' \in {"watch", "exited"}
      BY <2>1, PhaseTable DEF Phase
    <2>3. Killer!Delegated \/ Killer!Exit
      BY <1>1, <2>2 DEF Killer!Delegated, Killer!Exit, Killer!Quiet, Demand, Struck, Outcome
    <2> QED
      BY <2>3 DEF Killer!Next
  <1>7. CASE Recheck
    <2>1. /\ pc = "recheck" /\ sig # 0 /\ UNCHANGED <<sig, hit>> /\ hit = {}
          /\ pc' = IF lowmem_sig(mem) = 0 THEN "sleep" ELSE "kill"
      BY <1>7 DEF Recheck, Goto, SigInv, SafeInv, QuietInv, Before, round
    <2>2. Phase = "select"
      BY <2>1, PhaseTable DEF Phase
    <2>3. CASE lowmem_sig(mem) = 0
      <3>1. Phase' = "watch"
        BY <2>1, <2>3, PhaseTable DEF Phase
      <3>2. Killer!Recovered
        BY <1>1, <2>2, <2>3, <3>1, SignalTable
           DEF Killer!Recovered, Killer!Quiet, Demand, Struck, Outcome
      <3> QED
        BY <3>2 DEF Killer!Next
    <2>4. CASE lowmem_sig(mem) # 0
      <3>1. Phase' = "armed"
        BY <2>1, <2>4, PhaseTable DEF Phase
      <3>2. SignalName(lowmem_sig(mem)) # "none"
        BY <1>2, <2>4, SignalTable
      <3>3. Killer!Arm
        BY <1>1, <2>1, <2>2, <3>1, <3>2 DEF Killer!Arm, Demand, Struck, Outcome
      <3> QED
        BY <3>3 DEF Killer!Next
    <2> QED
      BY <2>3, <2>4
  <1> QED
    BY <1>3, <1>4, <1>5, <1>6, <1>7 DEF PollLoop

\* Selecting a victim is one phase of a round.
LEMMA RefineFind ==
    ASSUME FindLargest PROVE UNCHANGED Killer!vars
  <1>1. /\ proc' = proc /\ mem' = mem /\ sig' = sig /\ hit' = hit
        /\ pc = "scan"
        /\ pc' = "scan" \/ (pc' = "kill" /\ sig = 0) \/ (pc' = "recheck" /\ sig # 0)
    BY DEF FindLargest, Scan, ScanDone, Goto, env, round
  <1>2. Phase' = Phase /\ Phase \in {"watch", "select"}
    BY <1>1, PhaseTable DEF Phase
  <1>3. Live' = Live
    BY <1>1, SameLive
  <1> QED
    BY <1>1, <1>2, <1>3, Stutter

LEMMA RefineKillProc ==
    ASSUME KillProc PROVE [Killer!Next]_(Killer!vars)
  <1>1. /\ proc' = proc /\ mem' = mem /\ sig' = sig /\ hit' = hit /\ err' = err
    BY DEF KillProc, NoVictim, KillProcess, Prehook, Notify, Result, Sleep1, env, round
  <1>2. Live' = Live /\ lowmem_sig(mem)' = lowmem_sig(mem)
    BY <1>1, SameLive, SameLevel
  <1>3. CASE KillProcess \/ Prehook \/ Notify \/ Sleep1
    <2>1. \/ /\ pc \in {"kill", "prehook"} /\ pc' \in {"prehook", "kill_wait"}
          \/ pc = "notify" /\ pc' = "result"
          \/ pc = "sleep1" /\ pc' \in {"hooks", "sleep"}
      BY <1>3 DEF KillProcess, Prehook, Notify, Sleep1, Goto
    <2>2. Phase' = Phase
      BY <1>1, <2>1, PhaseTable DEF Phase
    <2> QED
      BY <1>1, <1>2, <2>2, Stutter
  <1>4. CASE NoVictim \/ Result
    <2>1. /\ pc \in {"kill", "result"} /\ pc' \in {"sleep1", "sleep"}
      BY <1>4 DEF NoVictim, Result, Goto
    <2>2. Phase' = "watch" /\ (sig = 0 => Phase = "watch")
          /\ (sig # 0 => Phase \in {"armed", "done"})
      BY <1>1, <2>1, PhaseTable DEF Phase
    <2>3. CASE sig = 0
      BY <1>1, <1>2, <2>2, <2>3, Stutter
    <2>4. CASE sig # 0
      <3>1. Killer!GiveUp \/ Killer!Return
        BY <1>1, <1>2, <2>2, <2>4
           DEF Killer!GiveUp, Killer!Return, Killer!Quiet, Demand, Struck, Outcome
      <3> QED
        BY <3>1 DEF Killer!Next
    <2> QED
      BY <2>3, <2>4
  <1> QED
    BY <1>3, <1>4 DEF KillProc

\* The steps of kill_wait() up to the first signal: a dry run and a victim
\* whose group is gone are spared.
LEMMA RefineBefore ==
    ASSUME SafeInv, KillWaitDryrun \/ KillWaitSingle \/ KillWaitGroup \/ OpenPidfd
    PROVE  [Killer!Next]_(Killer!vars)
  <1>1. /\ proc' = proc /\ mem' = mem /\ sig' = sig /\ hit' = hit
        /\ pc \in {"kill_wait", "pidfd"}
    BY DEF KillWaitDryrun, KillWaitSingle, KillWaitGroup, OpenPidfd, env
  <1>2. Live' = Live /\ lowmem_sig(mem)' = lowmem_sig(mem)
    BY <1>1, SameLive, SameLevel
  <1>3. Phase = IF sig # 0 THEN "armed" ELSE "watch"
    BY <1>1, PhaseTable DEF Phase
  <1>4. \/ pc' \in {"pidfd", "kill1"}
        \/ pc' = "hooks" /\ sig = 0
        \/ pc' = "notify" /\ sig # 0 /\ err' \in {"ok", "ESRCH"}
    BY DEF KillWaitDryrun, KillWaitSingle, KillWaitGroup, OpenPidfd, Return, Goto
  <1>5. CASE pc' = "notify" /\ sig # 0 /\ err' \in {"ok", "ESRCH"}
    <2>1. Phase' = "done"
      BY <1>1, <1>5, PhaseTable DEF Phase
    <2>2. Killer!Spare
      BY <1>1, <1>2, <1>3, <1>5, <2>1 DEF Killer!Spare, Demand, Struck, Outcome
    <2> QED
      BY <2>2 DEF Killer!Next
  <1>6. CASE pc' \in {"pidfd", "kill1"} \/ (pc' = "hooks" /\ sig = 0)
    <2>1. Phase' = Phase
      BY <1>1, <1>3, <1>6, PhaseTable DEF Phase
    <2> QED
      BY <1>1, <1>2, <1>3, <2>1, Stutter
  <1> QED
    BY <1>4, <1>5, <1>6

\* A kill() that is sent.  If it finds nobody, then nobody it was sent to
\* before is running.
LEMMA RefineSignal ==
    ASSUME TypeInv, SafeInv, TypeInv', sig # 0, sig' = sig, pid' = pid, mem' = mem,
           NEW l \in {"loop", "alive"}, kill_release(sig, l),
           (pc = "kill1" /\ hit = {}) \/ pc = "kill2", \A h \in hit : Linked(h)
    PROVE  Killer!Next
  <1>1. /\ proc' = Deliver(Permitted(pid), sig)
        /\ hit' = hit \cup Incarnation(Permitted(pid))
        /\ err' = KillErr(pid)
        /\ pc' \in {"exited", "close", l}
        /\ pc' = "close" => KillErr(pid) # "ok"
    BY DEF kill_release, Goto
  <1>2. \A p \in Pid : proc'[p].st = proc[p].st /\ proc'[p].inc = proc[p].inc
    BY <1>1, DeliverType DEF TypeInv, TypeOK
  <1>3. Live' = Live /\ lowmem_sig(mem)' = lowmem_sig(mem)
    BY <1>2, SameLive, SameLevel
  <1>4. Phase = IF pc = "kill1" THEN "armed" ELSE "wait"
    BY PhaseTable DEF Phase, Waiting
  <1>5. CASE pc' = "exited"
    <2>1. Phase' = "exited"
      BY <1>5, PhaseTable DEF Phase
    <2>2. Killer!Exit
      BY <1>3, <2>1 DEF Killer!Exit, Killer!Quiet, Demand, Struck, Outcome
    <2> QED
      BY <2>2 DEF Killer!Next
  <1>6. CASE pc' = "close"
    <2>1. Phase' = "done"
      BY <1>6, PhaseTable DEF Phase
    <2>2. Permitted(pid) = {} /\ hit' = hit
      BY <1>1, <1>6, KillErrNone DEF Incarnation
    <2>3. hit \cap Live = {}
      BY <2>2, LiveNotGone DEF Linked
    <2>4. err' # "ETIME"
      BY <1>1 DEF KillErr
    <2>5. Killer!Spare \/ Killer!Over
      BY <1>3, <1>4, <2>1, <2>2, <2>3, <2>4
         DEF Killer!Spare, Killer!Over, Demand, Struck, Outcome
    <2> QED
      BY <2>5 DEF Killer!Next
  <1>7. CASE pc' = l
    <2>1. Phase' = "wait"
      BY <1>7, PhaseTable DEF Phase, Waiting
    <2>2. hit \subseteq hit' /\ hit' \subseteq Process
      BY <1>1 DEF TypeInv, TypeOK, Process
    <2>3. Killer!Strike
      BY <1>3, <1>4, <2>1, <2>2 DEF Killer!Strike, Demand, Struck, Outcome
    <2> QED
      BY <2>3 DEF Killer!Next
  <1> QED
    BY <1>1, <1>5, <1>6, <1>7

LEMMA RefineKill ==
    ASSUME TypeInv, SafeInv, Kill1 \/ Kill2 PROVE [Killer!Next]_(Killer!vars)
  <1>1. CASE Kill1 /\ sig = 0
    <2>1. /\ proc' = proc /\ mem' = mem /\ sig' = sig /\ pc = "kill1" /\ pc' = "close"
      BY <1>1 DEF Kill1, kill_release, Goto
    <2>2. Phase = "watch" /\ Phase' = "watch" /\ Live' = Live
      BY <1>1, <2>1, PhaseTable, SameLive DEF Phase
    <2> QED
      BY <2>1, <2>2, Stutter
  <1>2. CASE (Kill1 /\ sig # 0) \/ Kill2
    <2>1. /\ sig' = sig /\ pid' = pid /\ mem' = mem
          /\ (pc = "kill1" /\ hit = {}) \/ pc = "kill2"
          /\ \A h \in hit : Linked(h)
          /\ sig # 0
      BY <1>2 DEF Kill1, Kill2, SafeInv, QuietInv, LinkInv, Before, Waiting
    <2>2. PICK l \in {"loop", "alive"} : kill_release(sig, l)
      BY <1>2 DEF Kill1, Kill2
    <2>3. TypeInv'
      BY TypeKillWait DEF KillWait
    <2> QED
      BY <2>1, <2>2, <2>3, RefineSignal
  <1> QED
    BY <1>1, <1>2

\* The wait loop: an escalation is called for by the SIGKILL limits, and only
\* the timeout leaves somebody behind.
LEMMA RefineWait ==
    ASSUME TypeInv, SafeInv, ~ProcMayFail,
           Loop \/ StillAlive \/ Exited \/ Timeout \/ ClosePidfd
    PROVE  [Killer!Next]_(Killer!vars)
  <1>1. /\ proc' = proc /\ mem' = mem /\ hit' = hit
    BY DEF Loop, StillAlive, Exited, Timeout, ClosePidfd, env, round
  <1>2. Live' = Live /\ lowmem_sig(mem)' = lowmem_sig(mem)
    BY <1>1, SameLive, SameLevel
  <1>3. CASE StillAlive \/ (Loop /\ sig' = sig)
    <2>1. pc \in Waiting /\ pc' \in Waiting /\ sig' = sig
      BY <1>3 DEF StillAlive, Loop, Goto, Waiting
    <2>2. Phase' = "wait" /\ Phase = "wait"
      BY <2>1, PhaseTable DEF Phase
    <2> QED
      BY <1>1, <1>2, <2>1, <2>2, Stutter
  <1>4. CASE Loop /\ sig' # sig
    <2>1. pc = "loop" /\ pc' = "kill2" /\ sig # 9 /\ sig' = 9 /\ AtKill(mem)
      BY <1>4 DEF Loop, Goto
    <2>2. sig = 15 /\ lowmem_sig(mem) = 9
      BY <2>1 DEF TypeInv, TypeOK, SafeInv, QuietInv, Waiting, lowmem_sig
    <2>3. Phase' = "wait" /\ Phase = "wait"
      BY <2>1, PhaseTable DEF Phase, Waiting
    <2>4. Killer!Escalate
      BY <1>1, <1>2, <2>1, <2>2, <2>3, SignalTable
         DEF Killer!Escalate, Demand, Struck, Outcome
    <2> QED
      BY <2>4 DEF Killer!Next
  <1>5. CASE Exited
    <2>1. /\ pc = "alive" /\ pc' = "close" /\ ~is_alive(pid)
          /\ sig' = sig /\ err' = err
      BY <1>5 DEF Exited, Goto, round
    <2>2. sig # 0 /\ err = "ok" /\ pid # 0 /\ \A h \in hit : Linked(h)
      BY <2>1 DEF SafeInv, QuietInv, LinkInv, Waiting
    <2>3. hit \cap Live = {}
      BY <2>1, <2>2, NotAliveGone, LiveNotGone
    <2>4. Phase = "wait" /\ Phase' = "done"
      BY <2>1, <2>2, PhaseTable DEF Phase, Waiting
    <2>5. Killer!Over
      BY <1>1, <1>2, <2>1, <2>2, <2>3, <2>4 DEF Killer!Over, Demand, Struck, Outcome
    <2> QED
      BY <2>5 DEF Killer!Next
  <1>6. CASE Timeout
    <2>1. pc = "loop" /\ pc' = "close" /\ sig' = sig /\ err' = "ETIME"
      BY <1>6 DEF Timeout, Goto
    <2>2. sig # 0
      BY <2>1 DEF SafeInv, QuietInv, Waiting
    <2>3. Phase = "wait" /\ Phase' = "done"
      BY <2>1, <2>2, PhaseTable DEF Phase, Waiting
    <2>4. Killer!Expire
      BY <1>1, <1>2, <2>1, <2>3 DEF Killer!Expire, Demand, Struck, Outcome
    <2> QED
      BY <2>4 DEF Killer!Next
  <1>7. CASE ClosePidfd
    <2>1. /\ pc = "close" /\ sig' = sig /\ err' = err
          /\ pc' = IF sig = 0 THEN "hooks" ELSE "notify"
      BY <1>7 DEF ClosePidfd, Return, Goto
    <2>2. Phase' = Phase
      BY <2>1, PhaseTable DEF Phase
    <2> QED
      BY <1>1, <1>2, <2>1, <2>2, Stutter
  <1> QED
    BY <1>3, <1>4, <1>5, <1>6, <1>7

----------------------------------------------------------------------------
(* The refinement.                                                         *)

LEMMA RefineInit ==
    ASSUME Init PROVE Killer!Init
  <1>1. pc = "start" /\ sig = 0
    BY DEF Init
  <1>2. Phase = "watch"
    BY <1>1, PhaseTable DEF Phase
  <1>3. Live \subseteq Process
    BY TypeInit DEF Live, Process, TypeInv, TypeOK, ProcType
  <1>4. SignalName(lowmem_sig(mem)) \in Killer!Signal
    BY SigType, SignalTable DEF Killer!Signal
  <1> QED
    BY <1>2, <1>3, <1>4 DEF Killer!Init, Demand, Struck, Outcome

\* As long as /proc can be read, main.c and kill.c keep the promise of
\* OomKiller: every signal follows a second low reading, SIGKILL replaces
\* SIGTERM only at the SIGKILL limits, and a round is reported over only over
\* the dead.
THEOREM EarlyoomKeepsRounds ==
    ASSUME ~ProcMayFail PROVE Spec => RoundsKept
  <1>1. Init => Killer!Init
    BY RefineInit
  <1>2. TypeInv /\ SafeInv /\ SigInv /\ [Next]_vars => [Killer!Next]_(Killer!vars)
    <2> SUFFICES ASSUME TypeInv, SafeInv, SigInv, [Next]_vars
                 PROVE  [Killer!Next]_(Killer!vars)
      OBVIOUS
    <2>1. CASE UNCHANGED vars
      <3>1. UNCHANGED <<proc, mem, pc, sig, hit, err>>
        BY <2>1 DEF vars, round
      <3>2. Phase' = Phase /\ Live' = Live
        BY <3>1, SameLive DEF Phase
      <3> QED
        BY <3>1, <3>2, Stutter
    <2>2. CASE KillWait
      BY <2>2, RefineBefore, RefineKill, RefineWait DEF KillWait
    <2>3. ~Fatal
      BY DEF Fatal
    <2> QED
      BY <2>1, <2>2, <2>3, RefineEnv, RefineStartup, RefinePoll, RefineFind,
         RefineKillProc DEF Next, Daemon
  <1>3. Init => SigInv
    BY DEF Init, SigInv
  <1>4. SigInv /\ [Next]_vars => SigInv'
    BY SigStep
  <1> QED
    BY <1>1, <1>2, <1>3, <1>4, TypeInvariant, SafeInvariant, PTL
       DEF Spec, RoundsKept, Killer!Spec

----------------------------------------------------------------------------
(* What the rounds are good for.                                           *)

\* Inductive in OomKiller.
PromiseInv == Killer!RoundPromise /\ (Phase # "done" => Outcome = "none")

LEMMA PromiseStep ==
    PromiseInv /\ [Killer!Next]_(Killer!vars) => PromiseInv'
  <1> SUFFICES ASSUME PromiseInv, [Killer!Next]_(Killer!vars) PROVE PromiseInv'
    OBVIOUS
  <1> USE DEF PromiseInv, Killer!RoundPromise, Killer!Quiet
  <1>1. CASE UNCHANGED Killer!vars
    BY <1>1 DEF Killer!vars
  <1>2. CASE Killer!World
    BY <1>2 DEF Killer!World, Killer!self
  <1>3. CASE Killer!Notice \/ Killer!Recovered \/ Killer!Arm \/ Killer!GiveUp \/ Killer!Spare
    BY <1>3 DEF Killer!Notice, Killer!Recovered, Killer!Arm, Killer!GiveUp, Killer!Spare
  <1>4. CASE Killer!Strike \/ Killer!Escalate \/ Killer!Over \/ Killer!Expire
    BY <1>4 DEF Killer!Strike, Killer!Escalate, Killer!Over, Killer!Expire
  <1>5. CASE Killer!Return \/ Killer!Delegate \/ Killer!Delegated \/ Killer!Exit
    BY <1>5 DEF Killer!Return, Killer!Delegate, Killer!Delegated, Killer!Exit
  <1> QED
    BY <1>1, <1>2, <1>3, <1>4, <1>5 DEF Killer!Next

\* The rounds of OomKiller are enough for a caller: whoever keeps to them, and
\* Earlyoom does, reports success only over the dead, and still does when the
\* report is read, whatever starts and ends in between.
THEOREM RoundsPromise == RoundsKept => []Killer!RoundPromise
  <1>1. Killer!Init => PromiseInv
    BY DEF Killer!Init, PromiseInv, Killer!RoundPromise
  <1>2. PromiseInv => Killer!RoundPromise
    BY DEF PromiseInv
  <1> QED
    BY <1>1, <1>2, PromiseStep, PTL DEF RoundsKept, Killer!Spec

\* kill_wait(): with /proc readable, what OomKiller promises holds of the pids,
\* incarnations and results of the code.
THEOREM EarlyoomPromises ==
    ASSUME ~ProcMayFail PROVE Spec => []Killer!RoundPromise
  BY EarlyoomKeepsRounds, RoundsPromise
=============================================================================
