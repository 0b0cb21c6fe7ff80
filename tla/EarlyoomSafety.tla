--------------------------- MODULE EarlyoomSafety ---------------------------
(***************************************************************************)
(* Proofs of the safety properties of Earlyoom: what kill_wait() reports,  *)
(* whom a signal may reach, and that a dry run is harmless.                *)
(*                                                                         *)
(* The inductive invariant SafeInv records, on top of the types, which     *)
(* processes kill_wait() has signalled (hit) and why each of them is       *)
(* either gone or still among the targets that is_alive() looks at.        *)
(***************************************************************************)
EXTENDS EarlyoomProofs

USE DEF SIGKILL, SIGTERM

\* earlyoom itself is running until one of its own signals ends it.
SelfInv == proc[Self].st = "run" /\ proc[Self].kind = SelfKind

\* Nothing was signalled before the first kill() of a round, in a dry run or
\* with signal 0.
Before == {"start", "scan", "hooks", "recheck", "kill", "prehook", "kill_wait",
           "pidfd", "kill1"}

QuietInv ==
    /\ pc \in Before => hit = {}
    /\ sig = 0 \/ args.dryrun => hit = {}
    /\ pc \in {"pidfd", "kill1"} => sig = 0 \/ ~args.dryrun
    /\ pc \in Waiting => sig # 0 /\ ~args.dryrun
    /\ pc = "koom" => sig # 0 /\ args.kernel_oom

\* Incarnations only grow.
HitInv == \A h \in hit : h[2] <= proc[h[1]].inc

\* In the wait loop, whoever was signalled is gone or is still a target that
\* earlyoom may signal.
Linked(h) == Gone(h[1], h[2]) \/ h[1] \in Permitted(pid)
LinkInv == pc \in Waiting => err = "ok" /\ pid # 0 /\ \A h \in hit : Linked(h)

\* The victim, unless its pid was reused, is a process that may be killed.
VictimInv ==
    /\ victim.pid \in Pid =>
          /\ vinc <= proc[victim.pid].inc
          /\ vinc = proc[victim.pid].inc =>
                ~Protected(args, victim.pid, proc[victim.pid].kind)
    /\ pc # "scan" => victim.pid # Self
    /\ ~args.kill_process_group /\ pc \in {"pidfd", "kill1"} \cup Waiting =>
          pid = victim.pid /\ pid > 0
    /\ ~args.kill_process_group /\ ~args.kernel_oom =>
          \A h \in hit : h[1] = victim.pid /\ h[1] # Self

SafeInv == SelfInv /\ QuietInv /\ HitInv /\ LinkInv /\ VictimInv

----------------------------------------------------------------------------
(* What any step may do to an entry of the process table: keep the process *)
(* (and never revive it), or start the next incarnation on a free pid.     *)

TableStep ==
    \A p \in Pid :
        \/ /\ proc'[p].inc = proc[p].inc /\ proc'[p].kind = proc[p].kind
           /\ proc[p].st \in {"free", "zombie"} => proc'[p].st \in {"free", "zombie"}
        \/ proc'[p].inc = proc[p].inc + 1 /\ proc[p].st = "free"

LEMMA EnvTable ==
    ASSUME TypeInv, Env
    PROVE  /\ TableStep
           /\ UNCHANGED <<args, pc, m, sig, todo, victim, vinc, pid, pidfd, i, err, hit>>
           /\ SelfInv => SelfInv'
  <1> USE DEF TypeInv, TypeOK, SelfInv, round
  <1>0. Self \in Pid
    BY EarlyoomAssumption
  <1>1. CASE MemChange
    BY <1>1, <1>0 DEF MemChange, TableStep
  <1>2. ASSUME NEW p \in Pid, NEW k \in Kinds[p], Spawn(p, k)
        PROVE  TableStep /\ (SelfInv => SelfInv')
               /\ UNCHANGED <<args, pc, m, sig, todo, victim, vinc, pid, pidfd, i, err, hit>>
    BY <1>2, <1>0 DEF Spawn, ProcChange, TableStep
  <1>3. ASSUME NEW p \in Pid, Exit(p) \/ LeaderExit(p) \/ Die(p) \/ Reap(p)
        PROVE  TableStep /\ (SelfInv => SelfInv')
               /\ UNCHANGED <<args, pc, m, sig, todo, victim, vinc, pid, pidfd, i, err, hit>>
    <2>1. PICK e : /\ ProcChange(p, e)
                   /\ e.inc = proc[p].inc /\ e.kind = proc[p].kind
                   /\ proc[p].st \in {"free", "zombie"} => e.st \in {"free", "zombie"}
                   /\ p = Self => proc[p].st = "zombie"
      BY <1>3 DEF Exit, LeaderExit, Die, Reap, ProcType
    <2> QED
      BY <2>1, <1>0 DEF ProcChange, TableStep
  <1> QED
    BY <1>1, <1>2, <1>3 DEF Env

\* Signals do not move the table.
LEMMA DeliverTable ==
    ASSUME TypeInv, NEW S, NEW s \in {15, 9}, proc' = Deliver(S, s)
    PROVE  TableStep /\ (SelfInv => SelfInv')
  <1>1. \A p \in Pid : /\ proc'[p].st = proc[p].st
                       /\ proc'[p].kind = proc[p].kind
                       /\ proc'[p].inc = proc[p].inc
    BY DeliverType DEF TypeInv, TypeOK
  <1> QED
    BY <1>1, EarlyoomAssumption DEF TableStep, SelfInv

LEMMA SameTable ==
    ASSUME proc' = proc
    PROVE  TableStep /\ (SelfInv => SelfInv')
  BY DEF TableStep, SelfInv

\* What is gone stays gone.
LEMMA GoneStable ==
    ASSUME TypeInv, TableStep, NEW h \in Pid \X Nat, h[2] <= proc[h[1]].inc
    PROVE  h[2] <= proc'[h[1]].inc /\ (Gone(h[1], h[2]) => Gone(h[1], h[2])')
  <1>1. h[1] \in Pid /\ h[2] \in Nat
    OBVIOUS
  <1>2. proc[h[1]].inc \in Nat
    BY <1>1 DEF TypeInv, TypeOK, ProcType
  <1> QED
    BY <1>1, <1>2 DEF TableStep, Gone

\* A target that leaves the set of targets has been reaped.
LEMMA LinkedStable ==
    ASSUME TypeInv, TableStep, pid' = pid,
           NEW h \in Pid \X Nat, h[2] <= proc[h[1]].inc, Linked(h)
    PROVE  Linked(h)'
  <1>1. h[1] \in Pid /\ h[2] \in Nat
    OBVIOUS
  <1>2. proc[h[1]].inc \in Nat
    BY <1>1 DEF TypeInv, TypeOK, ProcType
  <1>3. CASE Gone(h[1], h[2])
    BY <1>3, GoneStable DEF Linked
  <1>4. CASE ~Gone(h[1], h[2]) /\ ~Gone(h[1], h[2])'
    <2>1. h[1] \in Permitted(pid)
      BY <1>4 DEF Linked
    <2>2. proc'[h[1]].kind = proc[h[1]].kind /\ proc'[h[1]].st \notin {"free", "zombie"}
      BY <1>1, <1>2, <1>4 DEF TableStep, Gone
    <2>3. h[1] \in Permitted(pid)'
      BY <1>1, <2>1, <2>2 DEF Permitted, Targets, Exists
    <2> QED
      BY <2>3 DEF Linked
  <1> QED
    BY <1>3, <1>4 DEF Linked

LEMMA SameLinked ==
    ASSUME proc' = proc, pid' = pid, NEW h
    PROVE  Linked(h)' <=> Linked(h)
  BY DEF Linked, Gone, Permitted, Targets, Exists

----------------------------------------------------------------------------
(* SafeInv is preserved.                                                   *)

\* Steps that leave the daemon alone.
LEMMA SafeEnv ==
    ASSUME TypeInv, SafeInv, Env \/ UNCHANGED vars PROVE SafeInv'
  <1>1. /\ TableStep /\ SelfInv'
        /\ UNCHANGED <<args, pc, m, sig, todo, victim, vinc, pid, pidfd, i, err, hit>>
    BY EnvTable, SameTable DEF SafeInv, vars, round
  <1>2. hit \subseteq Pid \X Nat
    BY DEF TypeInv, TypeOK
  <1>3. HitInv'
    BY <1>1, <1>2, GoneStable DEF SafeInv, HitInv
  <1>4. LinkInv'
    BY <1>1, <1>2, LinkedStable DEF SafeInv, HitInv, LinkInv
  <1>5. QuietInv'
    BY <1>1 DEF SafeInv, QuietInv
  <1>6. VictimInv'
    <2>1. ASSUME victim.pid \in Pid
          PROVE  /\ vinc <= proc'[victim.pid].inc
                 /\ vinc = proc'[victim.pid].inc =>
                      ~Protected(args, victim.pid, proc'[victim.pid].kind)
      <3>1. vinc \in Nat /\ proc[victim.pid].inc \in Nat
        BY <2>1 DEF TypeInv, TypeOK, ProcType
      <3> QED
        BY <1>1, <2>1, <3>1 DEF TableStep, SafeInv, VictimInv
    <2> QED
      BY <1>1, <2>1 DEF SafeInv, VictimInv
  <1> QED
    BY <1>1, <1>3, <1>4, <1>5, <1>6 DEF SafeInv

\* Protection depends on two options only, which never change.
LEMMA ProtectedSame ==
    ASSUME NEW a, NEW b, NEW p, NEW k,
           a.ignore_root_user = b.ignore_root_user, a.ignore_regex = b.ignore_regex
    PROVE  Protected(a, p, k) <=> Protected(b, p, k)
  BY DEF Protected, Skipped

LEMMA SafeStartup ==
    ASSUME TypeInv, SafeInv, Startup PROVE SafeInv'
  <1>1. proc' = proc /\ SelfInv'
    BY SameTable DEF SafeInv, Startup, CheckKernelOom, Selftest, CheckHooks, env
  <1>2. CASE CheckKernelOom \/ CheckHooks
    <2>1. /\ args'.dryrun = args.dryrun
          /\ args'.kill_process_group = args.kill_process_group
          /\ args'.ignore_root_user = args.ignore_root_user
          /\ args'.ignore_regex = args.ignore_regex
      <3>1. args \in ArgsType
        BY DEF TypeInv, TypeOK
      <3>2. CASE CheckKernelOom
        BY <3>1, <3>2 DEF CheckKernelOom, ArgsType
      <3>3. CASE CheckHooks
        BY <3>1, <3>3 DEF CheckHooks, ArgsType
      <3> QED
        BY <1>2, <3>2, <3>3
    <2>2. /\ UNCHANGED <<sig, victim, vinc, pid, err, hit>>
          /\ pc \in {"start", "hooks"} /\ pc' \in {"hooks", "poll"}
      BY <1>2 DEF CheckKernelOom, CheckHooks, Goto, round
    <2>3. hit = {}
      BY <2>2 DEF SafeInv, QuietInv, Before
    <2>4. QuietInv' /\ HitInv' /\ LinkInv'
      BY <2>1, <2>2, <2>3 DEF QuietInv, HitInv, LinkInv, Waiting
    <2>5. VictimInv'
      BY <1>1, <2>1, <2>2, <2>3, ProtectedSame DEF SafeInv, VictimInv, Waiting
    <2> QED
      BY <1>1, <2>4, <2>5 DEF SafeInv
  <1>3. CASE Selftest
    <2>1. /\ UNCHANGED <<args, sig, hit>> /\ hit = {} /\ pc' = "scan"
          /\ victim' = empty_procinfo
      BY <1>3 DEF Selftest, opendir, Goto, round, SafeInv, QuietInv, Before
    <2>2. victim'.pid \notin Pid
      BY <2>1, EmptyInfoType
    <2>3. QuietInv' /\ HitInv' /\ LinkInv' /\ VictimInv'
      BY <2>1, <2>2 DEF QuietInv, HitInv, LinkInv, VictimInv, Waiting
    <2> QED
      BY <1>1, <2>3 DEF SafeInv
  <1> QED
    BY <1>2, <1>3 DEF Startup

\* The poll loop: a new round starts with nothing signalled, and only the
\* kernel's OOM killer, which --kernel-oom invokes, signals anything here.
LEMMA SafePoll ==
    ASSUME TypeInv, SafeInv, PollLoop \/ Fatal PROVE SafeInv'
  <1>1. CASE PollIdle \/ PollKernelOom
    <2>1. /\ proc' = proc /\ UNCHANGED <<args, victim, vinc, pid>> /\ hit' = {}
          /\ pc = "poll" /\ pc' \in {"sleep", "koom"}
          /\ pc' = "koom" => sig' # 0 /\ args.kernel_oom
      BY <1>1 DEF PollIdle, PollKernelOom, ReadMeminfo, Goto, env
    <2>2. QuietInv' /\ HitInv' /\ LinkInv'
      BY <2>1 DEF QuietInv, HitInv, LinkInv, Waiting, Before
    <2>3. VictimInv'
      BY <2>1 DEF SafeInv, VictimInv, Waiting
    <2> QED
      BY <2>1, <2>2, <2>3, SameTable DEF SafeInv
  <1>2. CASE PollLow
    <2>1. /\ proc' = proc /\ UNCHANGED args /\ hit' = {} /\ pc' = "scan"
          /\ victim' = empty_procinfo
      BY <1>2 DEF PollLow, ReadMeminfo, opendir, Goto, env
    <2>2. victim'.pid \notin Pid
      BY <2>1, EmptyInfoType
    <2>3. QuietInv' /\ HitInv' /\ LinkInv' /\ VictimInv'
      BY <2>1, <2>2 DEF QuietInv, HitInv, LinkInv, VictimInv, Waiting
    <2> QED
      BY <2>1, <2>3, SameTable DEF SafeInv
  <1>3. CASE SysrqOom
    <2>1. PICK p \in Pid : /\ proc' = Deliver({p}, SIGKILL)
                           /\ hit' = Incarnation({p})
      BY <1>3 DEF SysrqOom
    <2>2. TableStep /\ SelfInv'
      BY <2>1, DeliverTable DEF SafeInv
    <2>3. /\ UNCHANGED <<args, sig, victim, vinc, pid, err>>
          /\ pc = "koom" /\ pc' \in {"poll", "exited"} /\ ~args.dryrun
      BY <1>3 DEF SysrqOom, Goto
    <2>4. sig # 0 /\ args.kernel_oom
      BY <2>3 DEF SafeInv, QuietInv
    <2>5. \A q \in Pid : proc'[q].inc = proc[q].inc /\ proc'[q].kind = proc[q].kind
      BY <2>1, DeliverType DEF TypeInv, TypeOK
    <2>6. HitInv'
      <3>1. proc[p].inc \in Nat
        BY DEF TypeInv, TypeOK, ProcType
      <3>2. hit' = {<<p, proc[p].inc>>}
        BY <2>1 DEF Incarnation
      <3> QED
        BY <2>5, <3>1, <3>2 DEF HitInv
    <2>7. QuietInv' /\ LinkInv'
      BY <2>3, <2>4 DEF QuietInv, LinkInv, Before, Waiting
    <2>8. VictimInv'
      BY <2>3, <2>4, <2>5 DEF SafeInv, VictimInv, Waiting
    <2> QED
      BY <2>2, <2>6, <2>7, <2>8 DEF SafeInv
  <1>4. CASE SysrqNothing \/ Recheck \/ Sleep \/ Fatal
    <2>1. /\ proc' = proc /\ UNCHANGED <<args, sig, victim, vinc, pid, err, hit>>
          /\ pc # "scan"
          /\ \/ pc' \in {"poll", "sleep", "exited"}
             \/ pc = "recheck" /\ pc' = "kill"
      BY <1>4 DEF SysrqNothing, Recheck, Sleep, Fatal, Goto, env, round
    <2>2. QuietInv'
      BY <2>1 DEF SafeInv, QuietInv, Before, Waiting
    <2>3. HitInv' /\ LinkInv'
      BY <2>1 DEF SafeInv, HitInv, LinkInv, Waiting
    <2>4. VictimInv'
      BY <2>1 DEF SafeInv, VictimInv, Waiting
    <2> QED
      BY <2>1, <2>2, <2>3, <2>4, SameTable DEF SafeInv
  <1> QED
    BY <1>1, <1>2, <1>3, <1>4 DEF PollLoop

\* The scan: whoever becomes the victim passed every filter of is_larger().
LEMMA SafeFind ==
    ASSUME TypeInv, SafeInv, FindLargest PROVE SafeInv'
  <1>1. /\ proc' = proc /\ UNCHANGED <<args, sig, pid, err, hit>>
        /\ pc = "scan" /\ pc' \in {"scan", "kill", "recheck"}
    BY DEF FindLargest, Scan, ScanDone, Goto, env, round
  <1>2. hit = {}
    BY <1>1 DEF SafeInv, QuietInv, Before
  <1>3. QuietInv' /\ HitInv' /\ LinkInv'
    BY <1>1, <1>2 DEF QuietInv, HitInv, LinkInv, Waiting
  <1>4. ASSUME NEW p \in Pid, Scan(p) PROVE VictimInv'
    <2>1. CASE ScanLarger(p)
      <3>1. victim'.pid = p /\ vinc' = proc[p].inc /\ pc' = "scan"
        BY <1>4, <2>1 DEF ScanLarger, Scan, procinfo
      <3>2. ~Protected(args, p, proc[p].kind)
        BY <2>1 DEF ScanLarger, is_larger, Protected
      <3>3. proc[p].inc \in Nat
        BY DEF TypeInv, TypeOK, ProcType
      <3> QED
        BY <1>1, <1>2, <3>1, <3>2, <3>3 DEF VictimInv, Waiting
    <2>2. CASE ScanSkip(p)
      BY <1>1, <1>2, <1>4, <2>2 DEF Scan, ScanSkip, SafeInv, VictimInv, Waiting
    <2> QED
      BY <1>4, <2>1, <2>2 DEF Scan
  <1>5. ASSUME ScanDone PROVE VictimInv'
    <2>1. /\ vinc' = vinc
          /\ \/ victim.pid = Self /\ victim' = zero_procinfo
             \/ victim.pid # Self /\ victim' = victim
      BY <1>5 DEF ScanDone
    <2>2. Self \in Pid /\ zero_procinfo.pid \notin Pid
      BY EarlyoomAssumption, EmptyInfoType
    <2> QED
      BY <1>1, <1>2, <2>1, <2>2 DEF SafeInv, VictimInv, Waiting
  <1>6. VictimInv'
    BY <1>4, <1>5 DEF FindLargest
  <1> QED
    BY <1>1, <1>3, <1>6, SameTable DEF SafeInv

LEMMA SafeKillProc ==
    ASSUME TypeInv, SafeInv, KillProc PROVE SafeInv'
  <1>1. /\ proc' = proc /\ UNCHANGED <<args, sig, victim, vinc, pid, err, hit>>
        /\ \/ pc \in {"kill", "prehook"} /\ pc' \in {"sleep1", "prehook", "kill_wait"}
           \/ pc \in {"notify", "result"} /\ pc' \in {"result", "sleep1", "sleep"}
           \/ pc = "sleep1" /\ pc' \in {"hooks", "sleep"} /\ (pc' = "hooks" => sig = 0)
    BY DEF KillProc, NoVictim, KillProcess, Prehook, Notify, Result, Sleep1,
           Goto, env, round
  <1>2. QuietInv'
    BY <1>1 DEF SafeInv, QuietInv, Before, Waiting
  <1>3. HitInv' /\ LinkInv'
    BY <1>1 DEF SafeInv, HitInv, LinkInv, Waiting
  <1>4. VictimInv'
    BY <1>1 DEF SafeInv, VictimInv, Waiting
  <1> QED
    BY <1>1, <1>2, <1>3, <1>4, SameTable DEF SafeInv

----------------------------------------------------------------------------
(* kill_wait().                                                            *)

\* kill() fails only if there is nobody that it may signal.
LEMMA KillErrNone ==
    ASSUME NEW t, KillErr(t) # "ok" PROVE Permitted(t) = {}
  BY TargetsType DEF KillErr

\* A group that kill(-pgid, 0) does not find and a process that is_alive()
\* does not find leave no signalled process behind.
LEMMA NotAliveGone ==
    ASSUME TypeInv, pid # 0, ~is_alive(pid), NEW h, Linked(h)
    PROVE  Gone(h[1], h[2])
  <1>0. pid \in Int
    BY DEF TypeInv, TypeOK
  <1>1. CASE pid < 0
    BY <1>1, KillErrNone DEF is_alive, Linked
  <1>2. CASE pid > 0 /\ h[1] \in Permitted(pid)
    <2>1. h[1] \in Targets(pid) /\ h[1] = pid
      BY <1>0, <1>2 DEF Permitted, Targets
    <2> QED
      BY <1>0, <1>2, <2>1 DEF is_alive, Gone
  <1> QED
    BY <1>0, <1>1, <1>2 DEF Linked

\* A signal that kill_wait() sends: everybody it reaches is recorded and is
\* a target; if it fails, everybody reached before is gone.
LEMMA ReleaseSafe ==
    ASSUME TypeInv, SafeInv, sig # 0, pid' = pid, NEW l \in {"loop", "alive"},
           kill_release(sig, l), \A h \in hit : Linked(h)
    PROVE  /\ TableStep /\ SelfInv' /\ HitInv'
           /\ hit' = hit \cup Incarnation(Permitted(pid))
           /\ \A h \in hit' : Linked(h)'
           /\ pc' \in {"exited", "close", l}
           /\ pc' = l => err' = "ok" /\ pid # 0
           /\ pc' = "close" => \A h \in hit' : Gone(h[1], h[2])'
  <1>1. /\ proc' = Deliver(Permitted(pid), sig)
        /\ hit' = hit \cup Incarnation(Permitted(pid))
        /\ err' = KillErr(pid)
    BY DEF kill_release
  <1>2. TableStep /\ SelfInv'
    BY <1>1, DeliverTable DEF SafeInv, TypeInv, TypeOK
  <1>3. Permitted(pid) \subseteq Pid
    BY TargetsType
  <1>4. ASSUME NEW h \in hit'
        PROVE  h \in Pid \X Nat /\ h[2] <= proc[h[1]].inc /\ Linked(h)
    <2>1. CASE h \in hit
      BY <2>1 DEF TypeInv, TypeOK, SafeInv, HitInv
    <2>2. CASE h \in Incarnation(Permitted(pid))
      <3>1. PICK p \in Permitted(pid) : h = <<p, proc[p].inc>>
        BY <2>2 DEF Incarnation
      <3>2. p \in Pid /\ proc[p].inc \in Nat
        BY <1>3 DEF TypeInv, TypeOK, ProcType
      <3> QED
        BY <3>1, <3>2 DEF Linked
    <2> QED
      BY <1>1, <2>1, <2>2
  <1>5. HitInv'
    BY <1>2, <1>4, GoneStable DEF HitInv
  <1>6. \A h \in hit' : Linked(h)'
    BY <1>2, <1>4, LinkedStable
  <1>7. pc' \in {"exited", "close", l}
    BY DEF kill_release, Goto
  <1>8. ASSUME pc' = l PROVE err' = "ok" /\ pid # 0
    <2>1. Self \notin Permitted(pid) /\ KillErr(pid) = "ok"
      BY <1>8 DEF kill_release, Goto
    <2>2. pid = 0 => Self \in Permitted(pid)
      BY EarlyoomAssumption DEF SafeInv, SelfInv, Permitted, Targets, Exists
    <2> QED
      BY <1>1, <2>1, <2>2
  <1>9. ASSUME pc' = "close", NEW h \in hit' PROVE Gone(h[1], h[2])'
    <2>1. KillErr(pid) # "ok"
      BY <1>9 DEF kill_release, Goto
    <2>2. Gone(h[1], h[2])
      BY <1>4, <2>1, KillErrNone DEF Linked
    <2> QED
      BY <1>2, <1>4, <2>2, GoneStable
  <1> QED
    BY <1>1, <1>2, <1>5, <1>6, <1>7, <1>8, <1>9

\* Without -g the target is the victim alone.
LEMMA SingleTarget ==
    ASSUME NEW t \in Int, t > 0, NEW h \in Incarnation(Permitted(t)) PROVE h[1] = t
  BY DEF Incarnation, Permitted, Targets

LEMMA ReleaseVictim ==
    ASSUME TypeInv, SafeInv, TableStep, UNCHANGED <<args, victim, vinc, pid>>,
           pc \in {"kill1", "kill2"}, pc' \in {"exited", "close", "loop", "alive"},
           hit' = hit \cup Incarnation(Permitted(pid))
    PROVE  VictimInv'
  <1>1. ASSUME victim.pid \in Pid
        PROVE  /\ vinc <= proc'[victim.pid].inc
               /\ vinc = proc'[victim.pid].inc =>
                    ~Protected(args, victim.pid, proc'[victim.pid].kind)
    <2>1. vinc \in Nat /\ proc[victim.pid].inc \in Nat
      BY <1>1 DEF TypeInv, TypeOK, ProcType
    <2> QED
      BY <1>1, <2>1 DEF TableStep, SafeInv, VictimInv
  <1>2. ~args.kill_process_group => pid = victim.pid /\ pid > 0 /\ pid # Self
    BY DEF SafeInv, VictimInv, Waiting
  <1>3. ASSUME ~args.kill_process_group, ~args.kernel_oom, NEW h \in hit'
        PROVE  h[1] = victim.pid /\ h[1] # Self
    <2>1. CASE h \in hit
      BY <1>3, <2>1 DEF SafeInv, VictimInv
    <2>2. CASE h \in Incarnation(Permitted(pid))
      BY <1>2, <1>3, <2>2, SingleTarget DEF TypeInv, TypeOK
    <2> QED
      BY <1>3, <2>1, <2>2
  <1> QED
    BY <1>1, <1>2, <1>3 DEF SafeInv, VictimInv, Waiting

LEMMA SafeKill1 ==
    ASSUME TypeInv, SafeInv, Kill1 PROVE SafeInv'
  <1>1. /\ UNCHANGED <<args, sig, victim, vinc, pid>> /\ pc = "kill1" /\ hit = {}
    BY DEF Kill1, SafeInv, QuietInv, Before
  <1>2. CASE sig = 0
    <2>1. proc' = proc /\ hit' = hit /\ pc' = "close"
      BY <1>2 DEF Kill1, kill_release, Goto
    <2>2. QuietInv' /\ HitInv' /\ LinkInv'
      BY <1>1, <2>1 DEF QuietInv, HitInv, LinkInv, Before, Waiting
    <2>3. VictimInv'
      BY <1>1, <2>1 DEF SafeInv, VictimInv, Waiting
    <2> QED
      BY <2>1, <2>2, <2>3, SameTable DEF SafeInv
  <1>3. CASE sig # 0
    <2>1. kill_release(sig, "loop")
      BY <1>3 DEF Kill1
    <2>2. /\ TableStep /\ SelfInv' /\ HitInv'
          /\ hit' = hit \cup Incarnation(Permitted(pid))
          /\ \A h \in hit' : Linked(h)'
          /\ pc' \in {"exited", "close", "loop"}
          /\ pc' = "loop" => err' = "ok" /\ pid # 0
      BY <1>1, <1>3, <2>1, ReleaseSafe
    <2>3. ~args.dryrun
      BY <1>1, <1>3 DEF SafeInv, QuietInv
    <2>4. QuietInv'
      BY <1>1, <1>3, <2>2, <2>3 DEF QuietInv, Before, Waiting
    <2>5. LinkInv'
      BY <1>1, <2>2 DEF LinkInv, Waiting
    <2>6. VictimInv'
      BY <1>1, <2>2, ReleaseVictim
    <2> QED
      BY <2>2, <2>4, <2>5, <2>6 DEF SafeInv
  <1> QED
    BY <1>2, <1>3

LEMMA SafeKill2 ==
    ASSUME TypeInv, SafeInv, Kill2 PROVE SafeInv'
  <1>1. /\ UNCHANGED <<args, sig, victim, vinc, pid>> /\ pc = "kill2"
        /\ kill_release(sig, "alive")
    BY DEF Kill2
  <1>2. sig # 0 /\ ~args.dryrun /\ \A h \in hit : Linked(h)
    BY <1>1 DEF SafeInv, QuietInv, LinkInv, Waiting
  <1>3. /\ TableStep /\ SelfInv' /\ HitInv'
        /\ hit' = hit \cup Incarnation(Permitted(pid))
        /\ \A h \in hit' : Linked(h)'
        /\ pc' \in {"exited", "close", "alive"}
        /\ pc' = "alive" => err' = "ok" /\ pid # 0
    BY <1>1, <1>2, ReleaseSafe
  <1>4. QuietInv'
    BY <1>1, <1>2, <1>3 DEF QuietInv, Before, Waiting
  <1>5. LinkInv'
    BY <1>1, <1>3 DEF LinkInv, Waiting
  <1>6. VictimInv'
    BY <1>1, <1>3, ReleaseVictim
  <1> QED
    BY <1>3, <1>4, <1>5, <1>6 DEF SafeInv

\* The steps of kill_wait() that send no signal.
LEMMA SafeKillWait ==
    ASSUME TypeInv, SafeInv, KillWait PROVE SafeInv'
  <1>1. CASE Kill1 \/ Kill2
    BY <1>1, SafeKill1, SafeKill2
  <1>2. CASE KillWaitDryrun \/ KillWaitSingle \/ KillWaitGroup \/ OpenPidfd
    <2>1. /\ proc' = proc /\ UNCHANGED <<args, sig, victim, vinc, hit>>
          /\ pc \in {"kill_wait", "pidfd"}
          /\ pc' \in {"hooks", "notify", "pidfd", "kill1"}
          /\ pc' \in {"pidfd", "kill1"} => pc = "pidfd" \/ ~(args.dryrun /\ sig # 0)
      BY <1>2 DEF KillWaitDryrun, KillWaitSingle, KillWaitGroup, OpenPidfd,
                  Return, Goto, env
    <2>2. hit = {}
      BY <2>1 DEF SafeInv, QuietInv, Before
    <2>3. QuietInv' /\ HitInv' /\ LinkInv'
      BY <2>1, <2>2 DEF SafeInv, QuietInv, HitInv, LinkInv, Waiting
    <2>4. ~args.kill_process_group /\ pc' \in {"pidfd", "kill1"} =>
             pid' = victim.pid /\ pid' > 0
      BY <1>2 DEF KillWaitDryrun, KillWaitSingle, KillWaitGroup, OpenPidfd,
                  Return, Goto, TypeInv, SafeInv, VictimInv
    <2>5. VictimInv'
      BY <2>1, <2>2, <2>4 DEF SafeInv, VictimInv, Waiting
    <2> QED
      BY <2>1, <2>3, <2>5, SameTable DEF SafeInv
  <1>3. CASE Loop \/ StillAlive \/ Exited \/ Timeout \/ ClosePidfd
    <2>1. /\ proc' = proc /\ UNCHANGED <<args, victim, vinc, pid, hit>>
          /\ pc \in Waiting \cup {"close"} /\ pc' \in Waiting \cup {"close", "hooks", "notify"}
          /\ pc' \in Waiting => pc \in Waiting /\ err' = err
          /\ pc' = "hooks" => sig = 0
          /\ sig' = sig \/ (pc \in Waiting /\ sig' = SIGKILL)
      BY <1>3 DEF Loop, StillAlive, Exited, Timeout, ClosePidfd, Return, Goto,
                  env, round, Waiting
    <2>2. QuietInv'
      BY <2>1 DEF SafeInv, QuietInv, Before, Waiting
    <2>3. HitInv'
      BY <2>1 DEF SafeInv, HitInv
    <2>4. LinkInv'
      BY <2>1, SameLinked DEF SafeInv, LinkInv
    <2>5. VictimInv'
      BY <2>1 DEF SafeInv, VictimInv, Waiting
    <2> QED
      BY <2>1, <2>2, <2>3, <2>4, <2>5, SameTable DEF SafeInv
  <1> QED
    BY <1>1, <1>2, <1>3 DEF KillWait

LEMMA SafeInit ==
    ASSUME Init PROVE SafeInv
  <1>1. /\ pc = "start" /\ sig = 0 /\ victim = empty_procinfo /\ hit = {}
    BY DEF Init
  <1>2. proc[Self] \in InitProc(Self)
    BY EarlyoomAssumption DEF Init
  <1>3. SelfInv
    BY <1>2 DEF InitProc, SelfInv
  <1>4. victim.pid \notin Pid /\ Self \in Pid
    BY <1>1, EmptyInfoType, EarlyoomAssumption
  <1>5. QuietInv /\ HitInv /\ LinkInv /\ VictimInv
    BY <1>1, <1>4 DEF QuietInv, HitInv, LinkInv, VictimInv, Before, Waiting
  <1> QED
    BY <1>3, <1>5 DEF SafeInv

\* The inductive invariant that the theorems below rest on.
THEOREM SafeInvariant == Spec => []SafeInv
  <1>1. Init => SafeInv
    BY SafeInit
  <1>2. TypeInv /\ SafeInv /\ [Next]_vars => SafeInv'
    BY SafeEnv, SafeStartup, SafePoll, SafeFind, SafeKillProc, SafeKillWait
       DEF Next, Daemon
  <1> QED
    BY <1>1, <1>2, TypeInvariant, PTL DEF Spec

----------------------------------------------------------------------------
(* The properties.                                                         *)

\* --dryrun, and the self-test at startup that calls kill_process() with
\* signal 0, signal nobody, under all options and in every interleaving.
THEOREM DryrunIsHarmless == Spec => []DryrunHarmless
  <1>1. SafeInv => DryrunHarmless
    BY DEF SafeInv, QuietInv, DryrunHarmless
  <1> QED
    BY <1>1, SafeInvariant, PTL

\* Whom is_larger() filters out, and earlyoom itself, is signalled only as
\* the new owner of the victim's pid.
THEOREM ProtectedAreSpared == Spec => []ProtectedUnlessReused
  <1>1. TypeInv /\ SafeInv => ProtectedUnlessReused
    <2> SUFFICES ASSUME TypeInv, SafeInv,
                        ~args.kill_process_group, ~args.kernel_oom, NEW h \in hit,
                        h[2] = vinc, proc[h[1]].inc = h[2]
                 PROVE  h[1] # Self /\ ~Protected(args, h[1], proc[h[1]].kind)
      BY DEF ProtectedUnlessReused
    <2>1. h[1] \in Pid
      BY DEF TypeInv, TypeOK
    <2>2. h[1] = victim.pid /\ h[1] # Self
      BY DEF SafeInv, VictimInv
    <2> QED
      BY <2>1, <2>2 DEF SafeInv, VictimInv
  <1> QED
    BY <1>1, TypeInvariant, SafeInvariant, PTL

\* Where kill_wait() has returned without reporting a timeout.
Reported == pc \in {"close", "notify", "result"}

\* A step that neither enters the report nor changes what is reported.
LEMMA SurvivorsSame ==
    ASSUME TypeInv, SafeInv, OnlyTimeoutLeavesSurvivors, TableStep,
           UNCHANGED <<sig, err, hit>>, Reported' => Reported
    PROVE  OnlyTimeoutLeavesSurvivors'
  <1>1. \A h \in hit : h \in Pid \X Nat /\ h[2] <= proc[h[1]].inc
    BY DEF TypeInv, TypeOK, SafeInv, HitInv
  <1>2. \A h \in hit : Gone(h[1], h[2]) => Gone(h[1], h[2])'
    BY <1>1, GoneStable
  <1> QED
    BY <1>2 DEF OnlyTimeoutLeavesSurvivors, Reported

\* The steps that enter the report.
LEMMA SurvivorsKillWait ==
    ASSUME TypeInv, SafeInv, OnlyTimeoutLeavesSurvivors, ~ProcMayFail, KillWait
    PROVE  OnlyTimeoutLeavesSurvivors'
  <1>1. CASE (Kill1 /\ sig # 0) \/ Kill2
    <2>1. \A h \in hit : Linked(h)
      BY <1>1 DEF Kill1, Kill2, SafeInv, QuietInv, LinkInv, Before, Waiting
    <2>2. PICK l \in {"loop", "alive"} : kill_release(sig, l)
      BY <1>1 DEF Kill1, Kill2
    <2>3. sig # 0 /\ pid' = pid
      BY <1>1 DEF Kill1, Kill2, SafeInv, QuietInv, Waiting
    <2>4. /\ pc' \in {"exited", "close", l}
          /\ pc' = "close" => \A h \in hit' : Gone(h[1], h[2])'
      BY <2>1, <2>2, <2>3, ReleaseSafe
    <2> QED
      BY <2>4 DEF OnlyTimeoutLeavesSurvivors
  <1>2. CASE Kill1 /\ sig = 0
    BY <1>2 DEF Kill1, OnlyTimeoutLeavesSurvivors
  <1>3. CASE Exited
    <2>1. pc = "alive" /\ ~is_alive(pid) /\ proc' = proc /\ hit' = hit
      BY <1>3 DEF Exited, env, round
    <2>2. pid # 0 /\ \A h \in hit : Linked(h)
      BY <2>1 DEF SafeInv, LinkInv, Waiting
    <2>3. \A h \in hit : Gone(h[1], h[2])
      BY <2>1, <2>2, NotAliveGone
    <2> QED
      BY <2>1, <2>3 DEF OnlyTimeoutLeavesSurvivors, Gone
  <1>4. CASE Timeout
    BY <1>4 DEF Timeout, OnlyTimeoutLeavesSurvivors
  <1>5. CASE KillWaitDryrun \/ KillWaitGroup
    <2>1. hit = {} /\ hit' = hit
      BY <1>5 DEF KillWaitDryrun, KillWaitGroup, SafeInv, QuietInv, Before
    <2> QED
      BY <2>1 DEF OnlyTimeoutLeavesSurvivors
  <1>6. CASE KillWaitSingle \/ OpenPidfd \/ Loop \/ StillAlive
    <2>1. pc' \in {"pidfd", "kill1", "kill2", "alive", "loop"}
      BY <1>6 DEF KillWaitSingle, OpenPidfd, Loop, StillAlive, Goto
    <2> QED
      BY <2>1 DEF OnlyTimeoutLeavesSurvivors
  <1>7. CASE ClosePidfd
    <2>1. proc' = proc /\ UNCHANGED <<sig, err, hit>> /\ Reported
      BY <1>7 DEF ClosePidfd, Reported, env
    <2> QED
      BY <2>1, SurvivorsSame, SameTable
  <1> QED
    BY <1>1, <1>2, <1>3, <1>4, <1>5, <1>6, <1>7 DEF KillWait

LEMMA SurvivorsRest ==
    ASSUME TypeInv, SafeInv, OnlyTimeoutLeavesSurvivors,
           Startup \/ PollLoop \/ Fatal \/ FindLargest \/ KillProc
    PROVE  OnlyTimeoutLeavesSurvivors'
  <1>1. CASE KillProc
    <2>1. proc' = proc /\ UNCHANGED <<sig, err, hit>> /\ (Reported' => Reported)
      BY <1>1 DEF KillProc, NoVictim, KillProcess, Prehook, Notify, Result, Sleep1,
                  Goto, env, round, Reported
    <2> QED
      BY <2>1, SurvivorsSame, SameTable
  <1>2. CASE Startup \/ FindLargest
    <2>1. pc' \in {"hooks", "scan", "poll", "kill", "recheck"}
      BY <1>2 DEF Startup, FindLargest, CheckKernelOom, Selftest, CheckHooks,
                  opendir, Scan, ScanDone, Goto
    <2> QED
      BY <2>1 DEF OnlyTimeoutLeavesSurvivors
  <1>3. CASE PollLoop \/ Fatal
    <2>1. pc' \in {"sleep", "scan", "koom", "poll", "exited", "kill"}
      BY <1>3 DEF PollLoop, PollIdle, PollLow, PollKernelOom, SysrqOom, SysrqNothing,
                  Recheck, Sleep, Fatal, opendir, Goto
    <2> QED
      BY <2>1 DEF OnlyTimeoutLeavesSurvivors
  <1> QED
    BY <1>1, <1>2, <1>3

\* As long as /proc can be read: of whatever kill_wait() reports, only the
\* timeout leaves a signalled process running.
THEOREM SurvivorsOnlyAfterTimeout ==
    ASSUME ~ProcMayFail PROVE Spec => []OnlyTimeoutLeavesSurvivors
  <1>1. Init => OnlyTimeoutLeavesSurvivors
    BY DEF Init, OnlyTimeoutLeavesSurvivors
  <1>2. TypeInv /\ SafeInv /\ OnlyTimeoutLeavesSurvivors /\ [Next]_vars
          => OnlyTimeoutLeavesSurvivors'
    <2> SUFFICES ASSUME TypeInv, SafeInv, OnlyTimeoutLeavesSurvivors, [Next]_vars
                 PROVE  OnlyTimeoutLeavesSurvivors'
      OBVIOUS
    <2>1. CASE Env \/ UNCHANGED vars
      BY <2>1, EnvTable, SameTable, SurvivorsSame DEF Reported, vars, round
    <2> QED
      BY <2>1, SurvivorsKillWait, SurvivorsRest DEF Next, Daemon
  <1> QED
    BY <1>1, <1>2, TypeInvariant, SafeInvariant, PTL DEF Spec

----------------------------------------------------------------------------
(* The pidfd of kill_wait().                                               *)

\* It is only opened for a signal to be sent, and open until out_close.
PidfdInv ==
    pidfd => sig # 0 /\ pc \in {"kill1", "loop", "kill2", "alive", "close", "exited"}

LEMMA PidfdInvStep ==
    ASSUME PidfdInv, [Next]_vars PROVE PidfdInv'
  <1>1. CASE Env \/ UNCHANGED vars
    <2>1. UNCHANGED <<pc, sig, pidfd>>
      BY <1>1 DEF Env, MemChange, Spawn, Exit, LeaderExit, Die, Reap, ProcChange, vars, round
    <2> QED
      BY <2>1 DEF PidfdInv
  <1>2. CASE Startup \/ PollLoop \/ FindLargest \/ KillProc
    <2>1. /\ pidfd' = pidfd
          /\ pc \notin {"kill1", "loop", "kill2", "alive", "close", "exited"}
      BY <1>2 DEF Startup, CheckKernelOom, Selftest, CheckHooks, PollLoop, PollIdle,
                  PollLow, PollKernelOom, SysrqOom, SysrqNothing, Recheck, Sleep,
                  FindLargest, Scan, ScanDone, KillProc, NoVictim, KillProcess,
                  Prehook, Notify, Result, Sleep1, round
    <2> QED
      BY <2>1 DEF PidfdInv
  <1>3. CASE Fatal
    BY <1>3 DEF Fatal, Goto, PidfdInv, round
  <1>4. CASE KillWaitDryrun \/ KillWaitSingle \/ KillWaitGroup
    BY <1>4 DEF KillWaitDryrun, KillWaitSingle, KillWaitGroup, PidfdInv
  <1>5. CASE OpenPidfd \/ ClosePidfd
    BY <1>5 DEF OpenPidfd, ClosePidfd, Goto, PidfdInv
  <1>6. CASE Kill1 \/ Loop \/ Kill2 \/ StillAlive \/ Exited \/ Timeout
    <2>1. /\ pc' \in {"exited", "close", "loop", "kill2", "alive"}
          /\ pidfd' = pidfd /\ (sig # 0 => sig' # 0)
      BY <1>6 DEF Kill1, Loop, Kill2, StillAlive, Exited, Timeout, kill_release, Goto, round,
                  SIGKILL
    <2> QED
      BY <2>1 DEF PidfdInv
  <1> QED
    BY <1>1, <1>2, <1>3, <1>4, <1>5, <1>6 DEF Next, Daemon, KillWait

\* Only out_close closes it.
LEMMA PidfdCloses ==
    ASSUME PidfdInv, [Next]_vars, pidfd, ~pidfd'
    PROVE  pc = "close" /\ err' = err /\ hit' = hit /\ proc' = proc
  <1>1. ~(Env \/ UNCHANGED vars)
    BY DEF Env, MemChange, Spawn, Exit, LeaderExit, Die, Reap, ProcChange, vars, round
  <1>2. ~(Startup \/ PollLoop \/ FindLargest \/ KillProc \/ Fatal)
    BY DEF Startup, CheckKernelOom, Selftest, CheckHooks, PollLoop, PollIdle,
           PollLow, PollKernelOom, SysrqOom, SysrqNothing, Recheck, Sleep,
           FindLargest, Scan, ScanDone, KillProc, NoVictim, KillProcess,
           Prehook, Notify, Result, Sleep1, Fatal, round
  <1>3. ~(KillWaitDryrun \/ KillWaitSingle \/ KillWaitGroup \/ OpenPidfd)
    BY DEF KillWaitDryrun, KillWaitSingle, KillWaitGroup, OpenPidfd, PidfdInv
  <1>4. ~(Kill1 \/ Loop \/ Kill2 \/ StillAlive \/ Exited \/ Timeout)
    BY DEF Kill1, Loop, Kill2, StillAlive, Exited, Timeout, round
  <1> QED
    BY <1>1, <1>2, <1>3, <1>4 DEF Next, Daemon, KillWait, ClosePidfd, env

\* If /proc can be read, then whatever fails in kill_wait(), the pidfd it
\* opened is closed when it returns, and before that only after the timeout or
\* when nobody it signalled is left.
THEOREM PidfdNeverLeaks ==
    ASSUME ~ProcMayFail PROVE Spec => PidfdBalanced
  <1>1. Init => PidfdInv
    BY DEF Init, PidfdInv
  <1>2. PidfdInv /\ [Next]_vars => PidfdInv'
    BY PidfdInvStep
  <1>3. PidfdInv => (pidfd => pc \in {"kill1", "loop", "kill2", "alive", "close", "exited"})
    BY DEF PidfdInv
  <1>4. PidfdInv /\ OnlyTimeoutLeavesSurvivors /\ [Next]_vars
          => [pidfd /\ ~pidfd' => err' = "ETIME" \/ \A h \in hit' : Gone(h[1], h[2])']_vars
    BY PidfdCloses DEF PidfdInv, OnlyTimeoutLeavesSurvivors, Gone, env
  <1> QED
    BY <1>1, <1>2, <1>3, <1>4, SurvivorsOnlyAfterTimeout, PTL DEF Spec, PidfdBalanced
=============================================================================
