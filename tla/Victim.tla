------------------------------- MODULE Victim -------------------------------
(***************************************************************************)
(* What /proc shows of a process and how is_larger() (kill.c) compares the *)
(* process at hand with the victim found so far.                           *)
(*                                                                         *)
(* Regular expressions are abstracted to what they decide: a process       *)
(* carries the flags prefer, avoid and ignore, "its comm matches the       *)
(* --prefer (--avoid, --ignore) expression", and the options say whether   *)
(* such an expression was given.                                           *)
(***************************************************************************)
EXTENDS Integers

PROCINFO_FIELD_NOT_SET == -9999

OOM_SCORE_PREFER == 300
OOM_SCORE_AVOID  == -300
VMRSS_PREFER     == 3145728
VMRSS_AVOID      == -3145728
PageKiB          == 4          \* sysconf(_SC_PAGESIZE) / 1024

\* The attributes of a process that /proc and kill() expose.  reacts is the
\* set of signals that make it exit: {15, 9} for most, {9} for one that
\* handles or ignores SIGTERM, {} for one in uninterruptible sleep.  allowed
\* says whether earlyoom has the permission to signal it.
KindType ==
    [uid : Nat, ppid : Nat, oom_score : Nat, oom_score_adj : Int, rss : Nat,
     prefer : BOOLEAN, avoid : BOOLEAN, ignore : BOOLEAN,
     pgid : Nat, allowed : BOOLEAN, reacts : SUBSET {9, 15}]

\* States of a pid: unused; running; its main thread has exited while other
\* threads run on; a zombie without threads, not yet reaped by its parent.
ProcState == {"free", "run", "zleader", "zombie"}

\* procinfo_t, reduced to the fields is_larger() compares.
ProcInfo == [pid : Int, oom_score : Int, VmRSSkiB : Int]

empty_procinfo ==
    [pid |-> PROCINFO_FIELD_NOT_SET, oom_score |-> PROCINFO_FIELD_NOT_SET,
     VmRSSkiB |-> PROCINFO_FIELD_NOT_SET]

zero_procinfo == [pid |-> 0, oom_score |-> 0, VmRSSkiB |-> 0]

\* /proc/PID/stat reports no rss for a zombie main thread; oom_score still
\* counts the memory of the remaining threads and is 0 for a true zombie.
StatRss(k, st)  == IF st = "run" THEN k.rss ELSE 0
OomScore(k, st) == IF st = "zombie" THEN 0 ELSE k.oom_score

\* The regex adjustments: --prefer and --avoid move the value that is
\* sorted by, oom_score or (with --sort-by-rss) VmRSS.
Adjust(a, k, prefer_by, avoid_by) ==
    (IF a.prefer_regex /\ k.prefer THEN prefer_by ELSE 0)
      + (IF a.avoid_regex /\ k.avoid THEN avoid_by ELSE 0)

\* The fields of cur when is_larger() reaches the comparison.
procinfo(a, p, k, st) ==
    [pid |-> p,
     oom_score |-> OomScore(k, st) +
        (IF a.sort_by_rss THEN 0
         ELSE Adjust(a, k, OOM_SCORE_PREFER, OOM_SCORE_AVOID)),
     VmRSSkiB |-> StatRss(k, st) * PageKiB +
        (IF a.sort_by_rss THEN Adjust(a, k, VMRSS_PREFER, VMRSS_AVOID)
         ELSE 0)]

\* The early returns before the comparison: init and kthreadd, root's
\* processes (--ignore-root-user), kernel threads, --ignore.
Skipped(a, p, k) ==
    \/ p <= 2
    \/ a.ignore_root_user /\ k.uid = 0
    \/ k.ppid = 2
    \/ a.ignore_regex /\ k.ignore

\* (x1, x2) is greater than (y1, y2): the second number breaks ties.
Beats(x1, x2, y1, y2) == x1 > y1 \/ (x1 = y1 /\ x2 > y2)

ByScore(cur, victim) ==
    Beats(cur.oom_score, cur.VmRSSkiB, victim.oom_score, victim.VmRSSkiB)

ByRss(cur, victim) ==
    Beats(cur.VmRSSkiB, cur.oom_score, victim.VmRSSkiB, victim.oom_score)

\* With --sort-by-rss a value of VmRSS that is not positive, on either
\* side, makes is_larger() fall back to oom_score ("zombie main thread").
Larger(a, cur, victim) ==
    IF a.sort_by_rss /\ cur.VmRSSkiB > 0 /\ victim.VmRSSkiB > 0
    THEN ByRss(cur, victim)
    ELSE ByScore(cur, victim)

\* Processes that must never be chosen, whatever memory they use.
Protected(a, p, k) == Skipped(a, p, k) \/ k.oom_score_adj = -1000

\* Mutant: oom_score_adj = -1000 is not honoured.
is_larger_IgnoresAdj(a, victim, p, k, st) ==
    /\ st # "free"
    /\ ~Skipped(a, p, k)
    /\ Larger(a, procinfo(a, p, k, st), victim)

\* Mutant: a process whose main thread is a zombie (rss = 0) is passed over.
is_larger_SkipsZombieLeader(a, victim, p, k, st) ==
    /\ st = "run"
    /\ ~Protected(a, p, k)
    /\ Larger(a, procinfo(a, p, k, st), victim)

\* is_larger() for a process whose files under /proc can all be read.
is_larger(a, victim, p, k, st) ==
    /\ st # "free"
    /\ ~Skipped(a, p, k)
    /\ Larger(a, procinfo(a, p, k, st), victim)
    /\ k.oom_score_adj # -1000
=============================================================================
