------------------------------ MODULE Earlyoom ------------------------------
(***************************************************************************)
(* The earlyoom daemon: startup_selftests() and poll_loop() of main.c,     *)
(* find_largest_process(), kill_process(), kill_wait() and                 *)
(* trigger_kernel_oom() of kill.c, is_alive() of meminfo.c, running        *)
(* against a process table and a memory level that change between any two  *)
(* of its steps.                                                           *)
(*                                                                         *)
(* A step of the daemon is a stretch of code with at most one system call  *)
(* that depends on the environment, so that processes may exit, be reaped, *)
(* be started under a reused pid, and memory may move, between selecting a *)
(* victim, opening its pidfd, signalling it and checking that it is gone.  *)
(***************************************************************************)
EXTENDS Limits, Victim, FiniteSets

CONSTANTS
    Pid,         \* the pids that occur, earlyoom's own included
    Self,        \* getpid()
    SelfKind,    \* the attributes of the earlyoom process
    Kinds,       \* for each pid, what processes may run under it
    Args,        \* the option records a run may be started with
    Readings,    \* the readings of /proc/meminfo that occur
    MaxInc,      \* bound: processes that run under the same pid, one by one
    WaitRounds,  \* bound: iterations of the wait loop (100 in kill_wait)
    ProcMayFail  \* whether reads below /proc may fail for lack of resources

Path == {"none", "absolute", "relative"}   \* NULL, "/...", anything else

ArgsType ==
    [dryrun : BOOLEAN, kill_process_group : BOOLEAN, kernel_oom : BOOLEAN,
     ignore_root_user : BOOLEAN, sort_by_rss : BOOLEAN,
     prefer_regex : BOOLEAN, avoid_regex : BOOLEAN, ignore_regex : BOOLEAN,
     notify_ext : Path, kill_process_prehook : Path]

ASSUME EarlyoomAssumption ==
    /\ Pid \subseteq Nat \ {0} /\ Self \in Pid
    /\ SelfKind \in KindType /\ SelfKind.allowed
    /\ Kinds \in [Pid -> SUBSET KindType]
    /\ Args \subseteq ArgsType
    /\ Readings \subseteq Reading
    /\ MaxInc \in Nat
    /\ WaitRounds \in Nat \ {0}
    /\ ProcMayFail \in BOOLEAN

VARIABLES
    proc,    \* the process table: state, attributes, incarnation and
             \* pending signals of every pid
    mem,     \* what /proc/meminfo would show now
    args,    \* poll_loop_args_t
    pc,      \* where the daemon is
    m,       \* the reading poll_loop holds
    sig,     \* the signal kill_process was called with / kill_wait sends
    todo,    \* entries of /proc the scan has not read yet
    victim,  \* the largest process found so far
    vinc,    \* ghost: the incarnation the victim had when it was read
    pid,     \* the target of kill(): a pid, or minus a process group
    pidfd,   \* is the pidfd of kill_wait open?
    i,       \* loop counter of kill_wait
    err,     \* outcome of kill_wait: "ok" or the errno it leaves
    hit      \* ghost: the <<pid, incarnation>> signalled in this round

env    == <<proc, mem>>
round  == <<pid, pidfd, i, err, hit>>
vars   == <<proc, mem, args, pc, m, sig, todo, victim, vinc, round>>

ProcType ==
    [st : ProcState, kind : KindType, inc : Nat, pend : SUBSET {SIGTERM, SIGKILL}]

PC == {"start", "scan", "hooks", "poll", "koom", "recheck", "kill", "prehook",
       "kill_wait", "pidfd", "kill1", "loop", "kill2", "alive", "close",
       "notify", "result", "sleep1", "sleep", "exited"}

Errno == {"ok", "ESRCH", "EPERM", "ETIME"}

----------------------------------------------------------------------------
(* The process table, and kill(2) on it (kernel).                          *)

Exists(p) == proc[p].st # "free"

\* Members of the target of kill(t, ...).  -1 addresses every process but
\* init and the caller, 0 the caller's own process group.
Targets(t) ==
    {p \in Pid : /\ Exists(p)
                 /\ \/ t > 0  /\ p = t
                    \/ t = 0  /\ proc[p].kind.pgid = SelfKind.pgid
                    \/ t = -1 /\ p # 1 /\ p # Self
                    \/ t < -1 /\ proc[p].kind.pgid = -t}

Permitted(t) == {p \in Targets(t) : proc[p].kind.allowed}

\* kill() succeeds when one member may be signalled; kill(-1) even when none.
KillErr(t) ==
    IF Targets(t) = {} THEN "ESRCH"
    ELSE IF t # -1 /\ Permitted(t) = {} THEN "EPERM"
    ELSE "ok"

\* The processes of S get the signal s; a zombie no longer reacts to it.
Deliver(S, s) ==
    [p \in Pid |-> IF p \in S /\ proc[p].st # "zombie"
                   THEN [proc[p] EXCEPT !.pend = @ \cup {s}]
                   ELSE proc[p]]

Incarnation(S) == {<<p, proc[p].inc>> : p \in S}

----------------------------------------------------------------------------
(* The environment: other processes and the kernel.                        *)

MemChange ==
    /\ mem' \in Readings
    /\ UNCHANGED <<proc, args, pc, m, sig, todo, victim, vinc, round>>

ProcChange(p, new) ==
    /\ proc' = [proc EXCEPT ![p] = new]
    /\ UNCHANGED <<mem, args, pc, m, sig, todo, victim, vinc, round>>

\* A process starts under an unused pid: as leader of a new process group or
\* as a member of an existing one (0 and 1: groups of processes outside the
\* pid namespace, and of init).  The kernel does not hand out a pid that is
\* still in use as a process group.
Spawn(p, k) ==
    /\ proc[p].st = "free" /\ proc[p].inc < MaxInc
    /\ \A q \in Pid : Exists(q) => proc[q].kind.pgid # p
    /\ \/ k.pgid \in {p, 0, 1}
       \/ \E q \in Pid : Exists(q) /\ proc[q].kind.pgid = k.pgid
    /\ ProcChange(p, [st |-> "run", kind |-> k, inc |-> proc[p].inc + 1,
                      pend |-> {}])

\* A process exits on its own.
Exit(p) ==
    /\ p # Self /\ proc[p].st \in {"run", "zleader"}
    /\ ProcChange(p, [proc[p] EXCEPT !.st = "zombie", !.pend = {}])

\* The main thread exits, the other threads of the process run on.
LeaderExit(p) ==
    /\ p # Self /\ proc[p].st = "run"
    /\ ProcChange(p, [proc[p] EXCEPT !.st = "zleader"])

\* A signalled process terminates.
Die(p) ==
    /\ p # Self /\ proc[p].st \in {"run", "zleader"}
    /\ proc[p].pend \cap proc[p].kind.reacts # {}
    /\ ProcChange(p, [proc[p] EXCEPT !.st = "zombie", !.pend = {}])

\* The parent collects the zombie; the pid may be used again.
Reap(p) ==
    /\ proc[p].st = "zombie"
    /\ ProcChange(p, [proc[p] EXCEPT !.st = "free"])

Env ==
    \/ MemChange
    \/ \E p \in Pid :
          \/ \E k \in Kinds[p] : Spawn(p, k)
          \/ Exit(p) \/ LeaderExit(p) \/ Die(p) \/ Reap(p)
----------------------------------------------------------------------------
(* main(): startup_selftests() and the memory readings.                    *)

Goto(l) == pc' = l

\* fatal(): the meminfo file or the /proc directory cannot be read.
Fatal ==
    /\ ProcMayFail
    /\ \/ pc = "start" /\ ~args.kernel_oom
       \/ pc \in {"poll", "recheck"}
       \/ pc = "loop" /\ i < WaitRounds
    /\ Goto("exited")
    /\ UNCHANGED <<env, args, m, sig, todo, victim, vinc, round>>

\* The start of find_largest_process(): opendir and the empty victim.
opendir ==
    /\ todo' = Pid
    /\ victim' = empty_procinfo /\ vinc' = 0
    /\ Goto("scan")

\* --kernel-oom: a failing permission check falls back to user mode.
CheckKernelOom ==
    /\ pc = "start" /\ args.kernel_oom
    /\ args' \in {args, [args EXCEPT !.kernel_oom = FALSE]}
    /\ Goto("hooks")
    /\ UNCHANGED <<env, m, sig, todo, victim, vinc, round>>

\* Otherwise kill_process() is exercised once with signal 0.
Selftest ==
    /\ pc = "start" /\ ~args.kernel_oom
    /\ opendir
    /\ UNCHANGED <<env, args, m, sig, round>>

\* Scripts that are not absolute paths are disabled.
AbsoluteOrNone(path) == IF path = "relative" THEN "none" ELSE path

CheckHooks ==
    /\ pc = "hooks"
    /\ args' = [args EXCEPT
          !.notify_ext = AbsoluteOrNone(args.notify_ext),
          !.kill_process_prehook = AbsoluteOrNone(args.kill_process_prehook)]
    /\ Goto("poll")
    /\ UNCHANGED <<env, m, sig, todo, victim, vinc, round>>

----------------------------------------------------------------------------
(* poll_loop().                                                            *)

\* An iteration starts with a reading and the decision it calls for.
ReadMeminfo == m' = mem /\ sig' = lowmem_sig(mem) /\ hit' = {}

\* With enough memory: report and sleep.
PollIdle ==
    /\ pc = "poll" /\ lowmem_sig(mem) = 0
    /\ ReadMeminfo
    /\ Goto("sleep")
    /\ UNCHANGED <<env, args, todo, victim, vinc, pid, pidfd, i, err>>

PollLow ==
    /\ pc = "poll" /\ lowmem_sig(mem) # 0 /\ ~args.kernel_oom
    /\ ReadMeminfo
    /\ opendir
    /\ UNCHANGED <<env, args, pid, pidfd, i, err>>

PollKernelOom ==
    /\ pc = "poll" /\ lowmem_sig(mem) # 0 /\ args.kernel_oom
    /\ ReadMeminfo
    /\ Goto("koom")
    /\ UNCHANGED <<env, args, todo, victim, vinc, pid, pidfd, i, err>>

\* Mutant: the dryrun flag is not looked at before the trigger is written.
SysrqOom_IgnoresDryrun ==
    /\ pc = "koom"
    /\ \E p \in Pid \ {Self} :
          /\ proc[p].st \in {"run", "zleader"}
          /\ proc' = Deliver({p}, SIGKILL) /\ hit' = Incarnation({p})
    /\ Goto("poll")
    /\ UNCHANGED <<mem, args, m, sig, todo, victim, vinc, pid, pidfd, i, err>>

\* trigger_kernel_oom(): the kernel selects a process by its own rules.
SysrqOom ==
    /\ pc = "koom" /\ ~args.dryrun
    /\ \E p \in Pid :
          /\ proc[p].st \in {"run", "zleader"} /\ p # 1
          /\ proc[p].kind.oom_score_adj # -1000
          /\ proc' = Deliver({p}, SIGKILL)
          /\ hit' = Incarnation({p})
          /\ Goto(IF p = Self THEN "exited" ELSE "poll")
    /\ UNCHANGED <<mem, args, m, sig, todo, victim, vinc, pid, pidfd, i, err>>

\* It changes nothing in dryrun mode, without permission, or when the
\* kernel finds nobody to kill.
SysrqNothing ==
    /\ pc = "koom"
    /\ Goto("poll")
    /\ UNCHANGED <<env, args, m, sig, todo, victim, vinc, round>>

\* Mutant: the second reading is left out.
Recheck_NotRead ==
    /\ pc = "recheck"
    /\ Goto("kill")
    /\ UNCHANGED <<env, args, m, sig, todo, victim, vinc, round>>

\* The second reading, after the victim was selected.
Recheck ==
    /\ pc = "recheck"
    /\ m' = mem
    /\ Goto(IF lowmem_sig(mem) = 0 THEN "sleep" ELSE "kill")
    /\ UNCHANGED <<env, args, sig, todo, victim, vinc, round>>

\* The adaptive sleep.
Sleep ==
    /\ pc = "sleep"
    /\ Goto("poll")
    /\ UNCHANGED <<env, args, m, sig, todo, victim, vinc, round>>

----------------------------------------------------------------------------
(* find_largest_process().                                                 *)

\* One directory entry: is_larger() against the victim so far.
ScanLarger(p) ==
    /\ is_larger(args, victim, p, proc[p].kind, proc[p].st)
    /\ victim' = procinfo(args, p, proc[p].kind, proc[p].st)
    /\ vinc' = proc[p].inc

ScanSkip(p) ==
    /\ \/ ~is_larger(args, victim, p, proc[p].kind, proc[p].st)
       \/ ProcMayFail             \* one of the reads of /proc/PID failed
    /\ UNCHANGED <<victim, vinc>>

Scan(p) ==
    /\ pc = "scan" /\ p \in todo
    /\ todo' = todo \ {p}
    /\ ScanLarger(p) \/ ScanSkip(p)
    /\ UNCHANGED <<env, args, pc, m, sig, round>>

\* Mutant: no check whether the victim is earlyoom itself.
ScanDone_NoSelfCheck ==
    /\ pc = "scan" /\ (todo = {} \/ ProcMayFail)
    /\ todo' = {}
    /\ Goto(IF sig = 0 THEN "kill" ELSE "recheck")
    /\ UNCHANGED <<env, args, m, sig, victim, vinc, round>>

\* The directory is exhausted (or readdir failed).  A victim that is
\* earlyoom itself is dropped.  The self-test goes straight to
\* kill_process(), the poll loop reads meminfo again first.
ScanDone ==
    /\ pc = "scan" /\ (todo = {} \/ ProcMayFail)
    /\ todo' = {}
    /\ victim' = IF victim.pid = Self THEN zero_procinfo ELSE victim
    /\ Goto(IF sig = 0 THEN "kill" ELSE "recheck")
    /\ UNCHANGED <<env, args, m, sig, vinc, round>>

----------------------------------------------------------------------------
(* kill_process().                                                         *)

NoVictim ==
    /\ pc = "kill" /\ victim.pid <= 0
    /\ Goto("sleep1")
    /\ UNCHANGED <<env, args, m, sig, todo, victim, vinc, round>>

KillProcess ==
    /\ pc = "kill" /\ victim.pid > 0
    /\ Goto(IF sig # 0 /\ args.kill_process_prehook # "none"
            THEN "prehook" ELSE "kill_wait")
    /\ UNCHANGED <<env, args, m, sig, todo, victim, vinc, round>>

\* The pre-hook gets up to PREHOOK_STARTUP_SLEEP_MS before the kill.
Prehook ==
    /\ pc = "prehook"
    /\ Goto("kill_wait")
    /\ UNCHANGED <<env, args, m, sig, todo, victim, vinc, round>>

\* notify_process_killed(), called with whatever kill_wait() returned.
Notify ==
    /\ pc = "notify"
    /\ Goto("result")
    /\ UNCHANGED <<env, args, m, sig, todo, victim, vinc, round>>

\* A failure for lack of permission is throttled by a second of sleep.
Result ==
    /\ pc = "result"
    /\ Goto(IF err = "EPERM" THEN "sleep1" ELSE "sleep")
    /\ UNCHANGED <<env, args, m, sig, todo, victim, vinc, round>>

\* sleep(1), then back to the caller of kill_process().
Sleep1 ==
    /\ pc = "sleep1"
    /\ Goto(IF sig = 0 THEN "hooks" ELSE "sleep")
    /\ UNCHANGED <<env, args, m, sig, todo, victim, vinc, round>>

----------------------------------------------------------------------------
(* kill_wait().                                                            *)

\* Where kill_process() continues after kill_wait() returns.
Return == Goto(IF sig = 0 THEN "hooks" ELSE "notify")

KillWaitDryrun ==
    /\ pc = "kill_wait" /\ args.dryrun /\ sig # 0
    /\ err' = "ok"
    /\ Return
    /\ UNCHANGED <<env, args, m, sig, todo, victim, vinc, pid, pidfd, i, hit>>

\* Mutant: the dryrun test only guards the notification.
KillWaitSingle_IgnoresDryrun ==
    /\ pc = "kill_wait" /\ ~args.kill_process_group
    /\ pid' = victim.pid
    /\ Goto("pidfd")
    /\ UNCHANGED <<env, args, m, sig, todo, victim, vinc, pidfd, i, err, hit>>

KillWaitSingle ==
    /\ pc = "kill_wait" /\ ~(args.dryrun /\ sig # 0) /\ ~args.kill_process_group
    /\ pid' = victim.pid
    /\ Goto("pidfd")
    /\ UNCHANGED <<env, args, m, sig, todo, victim, vinc, pidfd, i, err, hit>>

\* -g: the target becomes the victim's process group, if it still exists.
KillWaitGroup ==
    /\ pc = "kill_wait" /\ ~(args.dryrun /\ sig # 0) /\ args.kill_process_group
    /\ IF Targets(victim.pid) # {}
       THEN pid' = -proc[victim.pid].kind.pgid /\ err' = err /\ Goto("pidfd")
       ELSE pid' = victim.pid /\ err' = "ESRCH" /\ Return
    /\ UNCHANGED <<env, args, m, sig, todo, victim, vinc, pidfd, i, hit>>

\* pidfd_open() fails if the process is gone, or for lack of resources.
OpenPidfd ==
    /\ pc = "pidfd"
    /\ \/ pidfd' = FALSE
       \/ pidfd' = TRUE /\ ~args.kill_process_group /\ sig # 0 /\ Targets(pid) # {}
    /\ Goto("kill1")
    /\ UNCHANGED <<env, args, m, sig, todo, victim, vinc, pid, i, err, hit>>

\* kill_release(): kill(pid, s); then continue at l.  Signal 0 only checks.
\* earlyoom handles neither SIGTERM nor SIGKILL: if it is among the
\* receivers, that is its end.  process_mrelease() frees memory early and
\* changes nothing else.
kill_release(s, l) ==
    /\ err' = KillErr(pid)
    /\ proc' = IF s = 0 THEN proc ELSE Deliver(Permitted(pid), s)
    /\ hit'  = IF s = 0 THEN hit ELSE hit \cup Incarnation(Permitted(pid))
    /\ Goto(IF s # 0 /\ Self \in Permitted(pid) THEN "exited"
            ELSE IF KillErr(pid) # "ok" THEN "close" ELSE l)

\* Mutant: the pidfd is closed as soon as the signal is sent.
Kill1_ClosesPidfd ==
    /\ pc = "kill1"
    /\ kill_release(sig, IF sig = 0 THEN "close" ELSE "loop")
    /\ i' = 0 /\ pidfd' = FALSE
    /\ UNCHANGED <<mem, args, m, sig, todo, victim, vinc, pid>>

\* The first signal; with signal 0 there is nothing to wait for.
Kill1 ==
    /\ pc = "kill1"
    /\ kill_release(sig, IF sig = 0 THEN "close" ELSE "loop")
    /\ i' = 0
    /\ UNCHANGED <<mem, args, m, sig, todo, victim, vinc, pid, pidfd>>

\* Mutant: one iteration too many.
Loop_OffByOne ==
    /\ pc = "loop" /\ i <= WaitRounds
    /\ IF sig # SIGKILL /\ AtKill(mem)
       THEN sig' = SIGKILL /\ Goto("kill2")
       ELSE sig' = sig /\ Goto("alive")
    /\ UNCHANGED <<env, args, m, todo, victim, vinc, round>>

\* Mutant: the SIGTERM limits are compared a second time.
Loop_TermLimits ==
    /\ pc = "loop" /\ i < WaitRounds
    /\ IF sig # SIGKILL /\ AtTerm(mem)
       THEN sig' = SIGKILL /\ Goto("kill2")
       ELSE sig' = sig /\ Goto("alive")
    /\ UNCHANGED <<env, args, m, todo, victim, vinc, round>>

\* The head of the wait loop: has memory dropped to the SIGKILL limits?
Loop ==
    /\ pc = "loop" /\ i < WaitRounds
    /\ IF sig # SIGKILL /\ AtKill(mem)
       THEN sig' = SIGKILL /\ Goto("kill2")
       ELSE sig' = sig /\ Goto("alive")
    /\ UNCHANGED <<env, args, m, todo, victim, vinc, round>>

\* The escalation.
Kill2 ==
    /\ pc = "kill2"
    /\ kill_release(sig, "alive")
    /\ UNCHANGED <<mem, args, m, sig, todo, victim, vinc, pid, pidfd, i>>

\* Mutant: a zombie main thread counts as dead although other threads run.
is_alive_NoThreadCount(t) ==
    IF t < 0 THEN KillErr(t) = "ok"
    ELSE \E p \in Targets(t) : p = t /\ proc[p].st = "run"

\* Mutant: of a process group only the leader is looked at.
is_alive_LeaderOnly(t) ==
    \E p \in Pid : p = (IF t < 0 THEN -t ELSE t) /\ proc[p].st \in {"run", "zleader"}

\* is_alive(): a group is alive while kill(-pgid, 0) succeeds, a process
\* while /proc/PID/stat shows something else than a zombie without threads.
is_alive(t) ==
    IF t < 0 THEN KillErr(t) = "ok"
    ELSE \E p \in Targets(t) : p = t /\ proc[p].st # "zombie"

\* Mutant: the loop counter is not advanced.
StillAlive_NoCount ==
    /\ pc = "alive" /\ is_alive(pid)
    /\ Goto("loop")
    /\ UNCHANGED <<env, args, m, sig, todo, victim, vinc, round>>

StillAlive ==
    /\ pc = "alive" /\ is_alive(pid)
    /\ i' = i + 1
    /\ Goto("loop")
    /\ UNCHANGED <<env, args, m, sig, todo, victim, vinc, pid, pidfd, err, hit>>

Exited ==
    /\ pc = "alive" /\ (~is_alive(pid) \/ (ProcMayFail /\ pid >= 0))
    /\ Goto("close")
    /\ UNCHANGED <<env, args, m, sig, todo, victim, vinc, round>>

Timeout ==
    /\ pc = "loop" /\ i = WaitRounds
    /\ err' = "ETIME"
    /\ Goto("close")
    /\ UNCHANGED <<env, args, m, sig, todo, victim, vinc, pid, pidfd, i, hit>>

\* Mutant: a failed kill() returns without closing the pidfd.
ClosePidfd_LeakOnError ==
    /\ pc = "close"
    /\ pidfd' = (pidfd /\ err # "ok")
    /\ Return
    /\ UNCHANGED <<env, args, m, sig, todo, victim, vinc, pid, i, err, hit>>

\* out_close.
ClosePidfd ==
    /\ pc = "close"
    /\ pidfd' = FALSE
    /\ Return
    /\ UNCHANGED <<env, args, m, sig, todo, victim, vinc, pid, i, err, hit>>

----------------------------------------------------------------------------
(* The specification.                                                      *)

InitProc(p) ==
    IF p = Self
    THEN {[st |-> "run", kind |-> SelfKind, inc |-> 1, pend |-> {}]}
    ELSE {[st |-> "run", kind |-> k, inc |-> 1, pend |-> {}] : k \in Kinds[p]}
           \cup {[st |-> "free", kind |-> SelfKind, inc |-> 0, pend |-> {}]}

Init ==
    /\ proc \in {f \in [Pid -> UNION {InitProc(p) : p \in Pid}] :
                    \A p \in Pid : f[p] \in InitProc(p)}
    /\ mem \in Readings /\ m = mem      \* main() reads meminfo first
    /\ args \in Args
    /\ pc = "start"
    /\ sig = 0
    /\ todo = {}
    /\ victim = empty_procinfo /\ vinc = 0
    /\ pid = 0 /\ pidfd = FALSE /\ i = 0 /\ err = "ok" /\ hit = {}

Startup     == CheckKernelOom \/ Selftest \/ CheckHooks
PollLoop    == PollIdle \/ PollLow \/ PollKernelOom \/ SysrqOom \/ SysrqNothing
                 \/ Recheck \/ Sleep
FindLargest == (\E p \in Pid : Scan(p)) \/ ScanDone
KillProc    == NoVictim \/ KillProcess \/ Prehook \/ Notify \/ Result \/ Sleep1
KillWait    == KillWaitDryrun \/ KillWaitSingle \/ KillWaitGroup \/ OpenPidfd
                 \/ Kill1 \/ Loop \/ Kill2 \/ StillAlive \/ Exited \/ Timeout
                 \/ ClosePidfd
Daemon      == Startup \/ PollLoop \/ FindLargest \/ KillProc \/ KillWait

Next == Daemon \/ Fatal \/ Env

Spec == Init /\ [][Next]_vars

\* The daemon is a runnable process: it keeps taking its steps.  A process
\* with a pending signal that it does not ignore is terminated by the kernel.
Fairness == WF_vars(Daemon) /\ \A p \in Pid : WF_vars(Die(p))

FairSpec == Spec /\ Fairness

----------------------------------------------------------------------------
(* Properties.                                                             *)

\* Every variable has the type its C counterpart has in the code.
TypeOK ==
    /\ proc \in [Pid -> ProcType]
    /\ mem \in Reading /\ m \in Reading
    /\ args \in ArgsType
    /\ pc \in PC
    /\ sig \in {0, SIGTERM, SIGKILL}
    /\ todo \subseteq Pid
    /\ victim \in ProcInfo /\ vinc \in Nat
    /\ pid \in Int /\ pidfd \in BOOLEAN
    /\ i \in 0 .. WaitRounds
    /\ err \in Errno
    /\ hit \subseteq Pid \X Nat

\* Incarnation n of pid p is no more: exited, or reaped and perhaps replaced.
Gone(p, n) == proc[p].inc # n \/ proc[p].st \in {"free", "zombie"}

\* kill_wait() reports how the kill went.  Whatever it reports except the
\* timeout, no process that it signalled is left running: success is never
\* announced early, and an ESRCH or EPERM from the escalating second kill()
\* does not hide a survivor, although pids are reused and main threads turn
\* into zombies while the wait loop runs.
OnlyTimeoutLeavesSurvivors ==
    pc \in {"close", "notify", "result"} /\ sig # 0 /\ err # "ETIME"
        => \A h \in hit : Gone(h[1], h[2])

\* is_larger() filters and the check for "selected myself" protect init,
\* kernel threads, oom_score_adj -1000, --ignore matches, root's processes
\* under --ignore-root-user and earlyoom itself.  Without -g and --kernel-oom
\* a signal reaches such a process only if it runs under a pid that was
\* reused since the victim was selected.
ProtectedUnlessReused ==
    ~args.kill_process_group /\ ~args.kernel_oom =>
        \A h \in hit : h[2] = vinc /\ proc[h[1]].inc = h[2] =>
            h[1] # Self /\ ~Protected(args, h[1], proc[h[1]].kind)

\* --dryrun never signals anything: not through the escalation in the wait
\* loop, not through the kernel's OOM killer; and neither does the self-test
\* at startup, which runs the same code with signal 0.
DryrunHarmless == args.dryrun \/ sig = 0 => hit = {}

\* No path through kill_wait() leaks the pidfd: it is open only between
\* pidfd_open() and out_close.  Nor does one close it while an escalation could
\* still need it for process_mrelease(): it is given up only after the timeout,
\* or when no process signalled in this round is left running.
PidfdBalanced ==
    /\ [](pidfd => pc \in {"kill1", "loop", "kill2", "alive", "close", "exited"})
    /\ [][pidfd /\ ~pidfd' => err' = "ETIME" \/ \A h \in hit' : Gone(h[1], h[2])']_vars

\* kill_wait() gives up after its bounded number of rounds: every signal sent
\* is followed by the return to the poll loop, or earlyoom is gone.
KillWaitReturns == pc = "kill1" ~> pc \in {"poll", "exited"}

\* A running process that is_larger() and the check for "selected myself" let
\* through.
Killable(p) ==
    /\ proc[p].st \in {"run", "zleader"} /\ p # Self
    /\ ~Protected(args, p, proc[p].kind)

\* The code gives up on no victim and chooses the largest again: what it
\* cannot signal, or what SIGKILL does not end, would stay in the way.
NobodyInTheWay == \A p \in Pid : \A k \in Kinds[p] : k.allowed /\ SIGKILL \in k.reacts

\* While memory stays at or below the SIGKILL limits, poll_loop() goes on until
\* no process that it may kill is left.
PressureRelieved ==
    NobodyInTheWay /\ <>[]AtKill(mem) => <>(\A p \in Pid : ~Killable(p))

----------------------------------------------------------------------------
(* What the documentation says of the program, and the code does not keep. *)

\* MANPAGE.md, -g: "Kill all processes that have same process group id (PGID)
\* as the process with excessive memory usage."  pid is minus that group.
GroupKillStaysInGroup ==
    args.kill_process_group =>
        \A h \in hit : proc[h[1]].inc = h[2] => proc[h[1]].kind.pgid = -pid
=============================================================================
