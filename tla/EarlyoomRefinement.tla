------------------------- MODULE EarlyoomRefinement -------------------------
(***************************************************************************)
(* Earlyoom implements OomKiller: the program counters of main.c and       *)
(* kill.c as phases of a round.                                            *)
(***************************************************************************)
EXTENDS Earlyoom

SignalName(s) ==
    CASE s = SIGKILL -> "KILL" [] s = SIGTERM -> "TERM" [] OTHER -> "none"

\* A process is its pid and its incarnation.
Process == Pid \X Nat

Live == {<<p, proc[p].inc>> : p \in {q \in Pid : proc[q].st \in {"run", "zleader"}}}

\* The daemon at l with signal s.  With signal 0, in the self-test, no round is
\* going on.
PhaseAt(l, s) ==
    CASE l = "exited" -> "exited"
      [] l = "koom"   -> "kernel"
      [] l \in {"scan", "recheck"} /\ s # 0 -> "select"
      [] l \in {"kill", "prehook", "kill_wait", "pidfd", "kill1"} /\ s # 0 -> "armed"
      [] l \in {"loop", "kill2", "alive"} -> "wait"
      [] l \in {"close", "notify", "result"} /\ s # 0 -> "done"
      [] OTHER -> "watch"

Phase   == PhaseAt(pc, sig)
Demand  == IF Phase \in {"select", "armed", "wait", "done"} THEN SignalName(sig) ELSE "none"
Struck  == IF Phase \in {"armed", "wait", "done"} THEN hit ELSE {}
Outcome == IF Phase # "done" THEN "none" ELSE IF err = "ETIME" THEN "timeout" ELSE "over"

Killer ==
    INSTANCE OomKiller WITH
        live <- Live, level <- SignalName(lowmem_sig(mem)), phase <- Phase,
        demand <- Demand, struck <- Struck, outcome <- Outcome

\* poll_loop(), kill_process() and kill_wait() keep the promise of OomKiller:
\* whatever processes and memory do between their system calls, no signal is
\* sent unless a second look confirmed the first, none is escalated above the
\* SIGKILL limits, and a round reports success only over the dead.
RoundsKept == Killer!Spec
=============================================================================
