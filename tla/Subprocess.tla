----------------------------- MODULE Subprocess -----------------------------
(***************************************************************************)
(* The helper programs earlyoom starts (dbus-send for -n, the scripts of   *)
(* -N and -P) and the SIGCHLD handler that reaps them: main() and          *)
(* handle_sigchld() of main.c, notify_spawn_subprocess() and the calls to  *)
(* it in kill_process() and trigger_kernel_oom() (kill.c).                 *)
(*                                                                         *)
(* The handler interrupts the daemon between any two of its steps unless   *)
(* SIGCHLD is blocked, shares errno with it and cuts its naps short.       *)
(* Memory, victims and signals are abstracted to the outcomes that decide  *)
(* which helpers are started.                                              *)
(***************************************************************************)

EXTENDS Integers

CONSTANTS
    Child,    \* bound: the helpers that may exist at the same time
    NoChild,  \* no helper
    Options   \* the option records a run may be started with

OptionType ==
    [notify : BOOLEAN, notify_ext : BOOLEAN, kill_process_prehook : BOOLEAN,
     kernel_oom : BOOLEAN, dryrun : BOOLEAN]

ASSUME SubprocessAssumption == NoChild \notin Child /\ Options \subseteq OptionType

VARIABLES
    args,     \* poll_loop_args_t
    child,    \* the state of every helper
    blocked,  \* is SIGCHLD blocked?
    pending,  \* is SIGCHLD pending?
    handler,  \* is handle_sigchld running?
    errno,    \* the thread's errno
    pc,       \* where the daemon is
    ret,      \* where notify_spawn_subprocess() returns to
    pid1,     \* the helper it started
    pidfd,    \* is its pidfd open?
    res,      \* what kill_wait() returned: "ok" or the errno of the failure
    saved,    \* saved_errno of kill_process()
    rested,   \* ghost: slept to the end since the last attempt to kill?
    sigs      \* ghost: if not, the SIGCHLDs that came into an adaptive sleep
              \* since then, counted to 2

spawnvars == <<ret, pid1, pidfd>>
killvars  == <<res, saved, rested, sigs>>
sigvars   == <<blocked, pending, handler>>
vars == <<args, child, sigvars, errno, pc, spawnvars, killvars>>

Errno == {"ok", "ESRCH", "EPERM", "ETIME", "ECHILD", "EINTR"}

PC == {"get_entry", "strtoll", "check", "act", "koom", "nap", "kill", "returned",
       "ext", "failed", "throttle", "sleep1", "sleep", "eintr", "resume",
       "block", "fork", "pidfd_open", "poll", "waitpid", "close", "unblock",
       "exited"}

InSpawn == pc \in {"fork", "pidfd_open", "poll", "waitpid", "close", "unblock"}

Init ==
    /\ args \in Options
    /\ child = [c \in Child |-> "none"]
    /\ blocked = FALSE /\ pending = FALSE /\ handler = FALSE
    /\ errno = "ok"
    /\ pc = "get_entry"
    /\ ret = "sleep" /\ pid1 = NoChild /\ pidfd = FALSE
    /\ res = "ok" /\ saved = "ok" /\ rested = TRUE /\ sigs = 0

----------------------------------------------------------------------------
(* Helpers and the signal (kernel), and handle_sigchld().                  *)

\* The child of fork(): it unblocks SIGCHLD, puts the victim into its
\* environment and becomes the helper.
Exec(c) ==
    /\ child[c] = "forked"
    /\ child' = [child EXCEPT ![c] = "run"]
    /\ UNCHANGED <<args, sigvars, errno, pc, spawnvars, killvars>>

\* A helper ends, or execv() failed and the child exits; SIGCHLD becomes
\* pending, once however many have ended.
ChildExit(c) ==
    /\ child[c] \in {"forked", "run"}
    /\ child' = [child EXCEPT ![c] = "zombie"]
    /\ pending' = TRUE
    /\ UNCHANGED <<args, blocked, handler, errno, pc, spawnvars, killvars>>

\* Delivery.  In the handler SIGCHLD is blocked.  sleep(1) and the nap after
\* the kernel's OOM killer end with it: they are not repeated after EINTR.
HandlerStart ==
    /\ pc # "exited" /\ pending /\ ~blocked /\ ~handler
    /\ pending' = FALSE /\ handler' = TRUE
    /\ pc' = CASE pc = "sleep1" -> "sleep"
               [] pc = "nap"    -> "get_entry"
               [] pc = "sleep"  -> "eintr"
               [] OTHER         -> pc
    /\ sigs' = IF ~rested /\ pc \in {"sleep", "eintr", "resume"} /\ sigs < 2
               THEN sigs + 1 ELSE sigs
    /\ UNCHANGED <<args, child, blocked, errno, spawnvars, res, saved, rested>>

Reap(c) == child' = [child EXCEPT ![c] = "none"]

\* Mutant: one waitpid() per signal.
HandlerReap_Once ==
    /\ handler
    /\ \E c \in Child : child[c] = "zombie" /\ Reap(c)
    /\ handler' = FALSE
    /\ UNCHANGED <<args, blocked, pending, errno, pc, spawnvars, killvars>>

\* waitpid(-1, WNOHANG) returned a helper: ask again.
HandlerReap ==
    /\ handler
    /\ \E c \in Child : child[c] = "zombie" /\ Reap(c)
    /\ UNCHANGED <<args, sigvars, errno, pc, spawnvars, killvars>>

\* It returned 0 (helpers are running) or -1 with ECHILD (there are none).
HandlerReturn ==
    /\ handler
    /\ \A c \in Child : child[c] # "zombie"
    /\ handler' = FALSE
    /\ errno' = IF \A c \in Child : child[c] = "none" THEN "ECHILD" ELSE errno
    /\ UNCHANGED <<args, child, blocked, pending, pc, spawnvars, killvars>>

\* The daemon's own code runs only while the handler does not.
At(l) == pc = l /\ ~handler

----------------------------------------------------------------------------
(* notify_spawn_subprocess().                                              *)

\* The call, to return to l.
Spawn(l) == pc' = "block" /\ ret' = l

\* Mutant: SIGCHLD stays unblocked.
Block_Not ==
    /\ At("block")
    /\ pc' = "fork"
    /\ UNCHANGED <<args, child, sigvars, errno, spawnvars, killvars>>

Block ==
    /\ At("block")
    /\ blocked' = TRUE
    /\ pc' = "fork"
    /\ UNCHANGED <<args, child, pending, handler, errno, spawnvars, killvars>>

\* Mutant: a failed fork() goes unnoticed.
Fork_ErrorIgnored ==
    /\ At("fork")
    /\ \/ \E c \in Child :
            /\ child[c] = "none"
            /\ child' = [child EXCEPT ![c] = "forked"]
            /\ pid1' = c
       \/ pid1' = NoChild /\ child' = child
    /\ pc' = "pidfd_open"
    /\ UNCHANGED <<args, sigvars, errno, ret, pidfd, killvars>>

Fork ==
    /\ At("fork")
    /\ \/ \E c \in Child :
            /\ child[c] = "none"
            /\ child' = [child EXCEPT ![c] = "forked"]
            /\ pid1' = c /\ pc' = "pidfd_open"
       \/ pid1' = NoChild /\ pc' = "unblock" /\ child' = child
    /\ UNCHANGED <<args, sigvars, errno, ret, pidfd, killvars>>

PidfdOpen ==
    /\ At("pidfd_open")
    /\ \/ pidfd' = TRUE /\ pc' = "poll"
       \/ pidfd' = FALSE /\ pc' = "unblock"
    /\ UNCHANGED <<args, child, sigvars, errno, ret, pid1, killvars>>

\* Ready once the helper has exited; otherwise the timeout passes (at once
\* for -n and -N, after 200 ms for -P), or poll() fails.
PollReady ==
    /\ At("poll") /\ child[pid1] \in {"zombie", "none"}
    /\ pc' = "waitpid"
    /\ UNCHANGED <<args, child, sigvars, errno, spawnvars, killvars>>

PollTimeout ==
    /\ At("poll")
    /\ pc' = "close"
    /\ UNCHANGED <<args, child, sigvars, errno, spawnvars, killvars>>

\* waitpid(pid1, WNOHANG); without such a child it is an error (a warning).
WaitPid ==
    /\ At("waitpid")
    /\ IF child[pid1] = "zombie"
       THEN Reap(pid1) /\ errno' = errno
       ELSE child' = child /\ errno' = "ECHILD"
    /\ pc' = "close"
    /\ UNCHANGED <<args, sigvars, spawnvars, killvars>>

ClosePidfd ==
    /\ At("close")
    /\ pidfd' = FALSE
    /\ pc' = "unblock"
    /\ UNCHANGED <<args, child, sigvars, errno, ret, pid1, killvars>>

\* Mutant: the early exits leave SIGCHLD blocked.
Unblock_NotOnError ==
    /\ At("unblock")
    /\ blocked' = (pid1 = NoChild)
    /\ IF blocked' THEN UNCHANGED <<handler, pending>>
       ELSE handler' = pending /\ pending' = FALSE
    /\ pc' = ret /\ pid1' = NoChild
    /\ UNCHANGED <<args, child, errno, ret, pidfd, killvars>>

\* A pending signal is delivered before sigprocmask() returns.
Unblock ==
    /\ At("unblock")
    /\ blocked' = FALSE
    /\ handler' = pending /\ pending' = FALSE
    /\ pc' = ret /\ pid1' = NoChild
    /\ UNCHANGED <<args, child, errno, ret, pidfd, killvars>>

----------------------------------------------------------------------------
(* get_entry() on the contents of /proc/meminfo: errno = 0; strtoll;       *)
(* errno # 0 is a failed conversion and, in get_entry_fatal(), the end.    *)

GetEntry ==
    /\ At("get_entry")
    /\ errno' = "ok"
    /\ pc' = "strtoll"
    /\ UNCHANGED <<args, child, sigvars, spawnvars, killvars>>

\* The file is well-formed: strtoll() leaves errno alone.
Strtoll ==
    /\ At("strtoll")
    /\ pc' = "check"
    /\ UNCHANGED <<args, child, sigvars, errno, spawnvars, killvars>>

CheckErrno ==
    /\ At("check")
    /\ pc' = IF errno # "ok" THEN "exited" ELSE "act"
    /\ UNCHANGED <<args, child, sigvars, errno, spawnvars, killvars>>

----------------------------------------------------------------------------
(* What the reading leads to: nothing, the kernel's OOM killer, or         *)
(* kill_process().                                                         *)

Enough ==
    /\ At("act")
    /\ pc' = "sleep"
    /\ UNCHANGED <<args, child, sigvars, errno, spawnvars, killvars>>

\* trigger_kernel_oom() notifies if the trigger was written; then the nap.
KernelOom ==
    /\ At("act") /\ args.kernel_oom
    /\ \/ args.notify /\ ~args.dryrun /\ Spawn("nap")
       \/ pc' = "nap" /\ ret' = ret
    /\ UNCHANGED <<args, child, sigvars, errno, pid1, pidfd, killvars>>

\* kill_process() without a victim.
NoVictim ==
    /\ At("act") /\ ~args.kernel_oom
    /\ IF args.notify THEN Spawn("sleep1")
       ELSE pc' = "sleep1" /\ ret' = ret
    /\ UNCHANGED <<args, child, sigvars, errno, pid1, pidfd, killvars>>

\* kill_process() with one: the pre-hook comes first.
Prehook ==
    /\ At("act") /\ ~args.kernel_oom
    /\ IF args.kill_process_prehook THEN Spawn("kill")
       ELSE pc' = "kill" /\ ret' = ret
    /\ UNCHANGED <<args, child, sigvars, errno, pid1, pidfd, killvars>>

\* kill_wait() returns; a failure leaves its reason in errno.  A dry run
\* always succeeds.
KillWait ==
    /\ At("kill")
    /\ res' \in IF args.dryrun THEN {"ok"} ELSE {"ok", "ESRCH", "EPERM", "ETIME"}
    /\ rested' = FALSE /\ sigs' = 0
    /\ errno' = IF res' = "ok" THEN errno ELSE res'
    /\ pc' = "returned"
    /\ UNCHANGED <<args, child, sigvars, spawnvars, saved>>

\* saved_errno = errno, then notify_process_killed(): -n first, then -N.
NotifyDbus ==
    /\ At("returned")
    /\ saved' = errno
    /\ IF args.notify THEN Spawn("ext")
       ELSE pc' = "ext" /\ ret' = ret
    /\ UNCHANGED <<args, child, sigvars, errno, pid1, pidfd, res, rested, sigs>>

\* In a dry run both are skipped if the last ones were less than a second
\* ago, or if the clock cannot be read.
NotifyTooSoon ==
    /\ At("returned") /\ args.dryrun
    /\ saved' = errno
    /\ pc' = "failed"
    /\ UNCHANGED <<args, child, sigvars, errno, spawnvars, res, rested, sigs>>

NotifyExt ==
    /\ At("ext")
    /\ IF args.notify_ext THEN Spawn("failed")
       ELSE pc' = "failed" /\ ret' = ret
    /\ UNCHANGED <<args, child, sigvars, errno, pid1, pidfd, killvars>>

Killed ==
    /\ At("failed") /\ res = "ok"
    /\ pc' = "sleep"
    /\ UNCHANGED <<args, child, sigvars, errno, spawnvars, killvars>>

KillFailed ==
    /\ At("failed") /\ res # "ok"
    /\ IF args.notify THEN Spawn("throttle")
       ELSE pc' = "throttle" /\ ret' = ret
    /\ UNCHANGED <<args, child, sigvars, errno, pid1, pidfd, killvars>>

Throttle ==
    /\ At("throttle")
    /\ pc' = IF saved = "EPERM" THEN "sleep1" ELSE "sleep"
    /\ UNCHANGED <<args, child, sigvars, errno, spawnvars, killvars>>

\* The time of sleep(1), of the nap after the kernel's OOM killer or of the
\* adaptive sleep has passed.
WakeUp ==
    /\ ~handler
    /\ \/ pc = "sleep1" /\ pc' = "sleep" /\ UNCHANGED <<rested, sigs>>
       \/ pc = "nap" /\ pc' = "get_entry" /\ UNCHANGED <<rested, sigs>>
       \/ pc = "sleep" /\ pc' = "get_entry" /\ rested' = TRUE /\ sigs' = 0
    /\ UNCHANGED <<args, child, sigvars, errno, spawnvars, res, saved>>

\* An interrupted nanosleep() sets errno when the handler has returned.
Interrupted ==
    /\ At("eintr")
    /\ errno' = "EINTR"
    /\ pc' = "resume"
    /\ UNCHANGED <<args, child, sigvars, spawnvars, killvars>>

\* Mutant: nanosleep() is called once.
Resume_Not ==
    /\ At("resume")
    /\ pc' = "get_entry"
    /\ UNCHANGED <<args, child, sigvars, errno, spawnvars, killvars>>

\* The adaptive sleep is resumed if errno still says EINTR, which a handler
\* that ran since may have replaced.
Resume ==
    /\ At("resume")
    /\ pc' = IF errno = "EINTR" THEN "sleep" ELSE "get_entry"
    /\ UNCHANGED <<args, child, sigvars, errno, spawnvars, killvars>>

----------------------------------------------------------------------------
(* The specification.                                                      *)

SpawnSubprocess == Block \/ Fork \/ PidfdOpen \/ PollReady \/ PollTimeout
                     \/ WaitPid \/ ClosePidfd \/ Unblock
Meminfo    == GetEntry \/ Strtoll \/ CheckErrno
KillProc   == NoVictim \/ Prehook \/ KillWait \/ NotifyDbus \/ NotifyTooSoon
                \/ NotifyExt \/ Killed \/ KillFailed \/ Throttle
Sleep      == WakeUp \/ Interrupted \/ Resume
Daemon     == SpawnSubprocess \/ Meminfo \/ Enough \/ KernelOom \/ KillProc \/ Sleep
Handler    == HandlerStart \/ HandlerReap \/ HandlerReturn

\* exited: init inherits the helpers.
Stopped    == pc = "exited" /\ UNCHANGED vars

Next == Daemon \/ Handler \/ Stopped \/ \E c \in Child : Exec(c) \/ ChildExit(c)

Spec == Init /\ [][Next]_vars

\* The daemon runs, and a deliverable signal is delivered.
Fairness == WF_vars(Daemon) /\ WF_vars(Handler)

FairSpec == Spec /\ Fairness

----------------------------------------------------------------------------
(* Properties.                                                             *)

\* Every variable has the type its C counterpart has; past the fork there is
\* a helper to open a pidfd for, to poll and to wait for.
TypeOK ==
    /\ args \in OptionType
    /\ child \in [Child -> {"none", "forked", "run", "zombie"}]
    /\ blocked \in BOOLEAN /\ pending \in BOOLEAN /\ handler \in BOOLEAN
    /\ errno \in Errno /\ res \in Errno /\ saved \in Errno
    /\ pc \in PC /\ ret \in PC
    /\ pidfd \in BOOLEAN /\ rested \in BOOLEAN /\ sigs \in 0 .. 2
    /\ pid1 \in Child \cup {NoChild}
    /\ pc \in {"pidfd_open", "poll", "waitpid", "close"} => pid1 \in Child

\* signal() keeps no count of the helpers that have ended, but none is
\* forgotten: as long as there is a zombie, SIGCHLD is pending or
\* handle_sigchld() has not made its last waitpid() yet.
NoZombieForgotten ==
    \A c \in Child : child[c] = "zombie" => pending \/ handler

\* notify_spawn_subprocess(): "Prevent our SIGCHLD handler from reaping
\* children before we can": once poll() has reported the helper, it is there
\* to be waited for.
OwnChildReapable == pc = "waitpid" => child[pid1] = "zombie"

\* Every way out of notify_spawn_subprocess() unblocks SIGCHLD and closes the
\* pidfd, and the handler never runs inside it.
SpawnBalanced ==
    /\ blocked = InSpawn
    /\ pidfd => pc \in {"poll", "waitpid", "close"}
    /\ handler => ~InSpawn

\* A helper that has ended is reaped, unless earlyoom is gone.
ZombiesReaped ==
    \A c \in Child : child[c] = "zombie" ~> child[c] # "zombie" \/ pc = "exited"

\* kill_process() throttles itself with sleep(1) after a failure, which any
\* helper that ends may cut to nothing.  What is left is the adaptive sleep of
\* poll_loop(), which is resumed after a signal as long as errno says EINTR.  So
\* one signal never shortens the time between two attempts to kill: the sleep
\* has run to its end, or two were delivered within one such sleep.
RestBetweenKills == pc = "kill" => rested \/ sigs = 2

----------------------------------------------------------------------------
(* What the code and its service file say, and the code does not keep.     *)

\* earlyoom.service.in: "earlyoom never exits on it's own", here with a
\* meminfo file that is always well-formed.
NeverExits == pc # "exited"

\* main.c, poll_loop(): "Sleep a bit to give the kernel OOM killer time to do
\* its work": the nap of half a second ends when its time has passed.
KernelOomGetsTime == [][pc = "nap" /\ pc' # "nap" => WakeUp]_vars
=============================================================================
