----------------------------- MODULE Selection ------------------------------
(***************************************************************************)
(* find_largest_process() and is_larger() (kill.c), read by read.          *)
(*                                                                         *)
(* is_larger() fills the candidate cur lazily: the owner of /proc/PID, then *)
(* stat, oom_score, comm and oom_score_adj, one file after the other, each  *)
(* of which may show another process than the one before it if the pid was *)
(* reused in between, or be missing.  Earlyoom takes the reads of one      *)
(* process as one step; this module looks into that step.                  *)
(***************************************************************************)
EXTENDS Victim, FiniteSets

CONSTANTS
    Pid,       \* the numeric entries of /proc
    Self,      \* getpid()
    Table,     \* for each pid, what /proc/PID may show over time
    Args,      \* the option records, as far as is_larger() reads them
    Ascending  \* does readdir() return the pids in order, as procfs does?

Entry == [st : ProcState, kind : KindType]

SelectArgs ==
    [ignore_root_user : BOOLEAN, sort_by_rss : BOOLEAN, prefer_regex : BOOLEAN,
     avoid_regex : BOOLEAN, ignore_regex : BOOLEAN]

ASSUME SelectionAssumption ==
    /\ Pid \subseteq Nat \ {0} /\ Self \in Pid
    /\ Table \in [Pid -> SUBSET Entry]
    /\ Args \subseteq SelectArgs
    /\ Ascending \in BOOLEAN

VARIABLES
    proc,     \* what /proc/PID shows now
    args,     \* poll_loop_args_t
    pc,       \* the next read
    todo,     \* directory entries that readdir has not returned
    cur,      \* the candidate
    victim,   \* the largest process so far
    seen,     \* ghost: the candidates that were compared and not refused
    changed   \* ghost: the pids that changed since opendir

vars == <<proc, args, pc, todo, cur, victim, seen, changed>>

PC == {"readdir", "uid", "stat", "oom_score", "comm", "compare", "adj", "done"}

----------------------------------------------------------------------------
Init ==
    /\ proc \in {f \in [Pid -> UNION {Table[p] : p \in Pid}] :
                    \A p \in Pid : f[p] \in Table[p]}
    /\ args \in Args
    /\ pc = "readdir"
    /\ todo = Pid
    /\ cur = empty_procinfo /\ victim = empty_procinfo
    /\ seen = {} /\ changed = {}

\* A process exits, starts, loses its main thread, allocates memory, changes
\* its owner, name or oom_score_adj.
Change(p) ==
    /\ pc # "done"
    /\ \E e \in Table[p] : proc' = [proc EXCEPT ![p] = e]
    /\ changed' = changed \cup {p}
    /\ UNCHANGED <<args, pc, todo, cur, victim, seen>>

\* is_larger() returned false without a comparison, or lost it.
Drop == pc' = "readdir" /\ cur' = empty_procinfo /\ victim' = victim

Missing == proc[cur.pid].st = "free"

\* Mutant: the pid of the directory entry is not stored in cur.
Readdir_PidNotStored(p) ==
    /\ pc = "readdir" /\ p \in todo
    /\ Ascending => \A q \in todo : p <= q
    /\ todo' = todo \ {p}
    /\ IF p <= 2
       THEN Drop
       ELSE /\ pc' = IF args.ignore_root_user THEN "uid" ELSE "stat"
            /\ cur' = empty_procinfo
            /\ victim' = victim
    /\ UNCHANGED <<proc, args, seen, changed>>

\* The next directory entry; init and kthreadd are refused at once.
Readdir(p) ==
    /\ pc = "readdir" /\ p \in todo
    /\ Ascending => \A q \in todo : p <= q
    /\ todo' = todo \ {p}
    /\ IF p <= 2
       THEN Drop
       ELSE /\ pc' = IF args.ignore_root_user THEN "uid" ELSE "stat"
            /\ cur' = [empty_procinfo EXCEPT !.pid = p]
            /\ victim' = victim
    /\ UNCHANGED <<proc, args, seen, changed>>

\* get_uid(): only with --ignore-root-user.
ReadUid ==
    /\ pc = "uid"
    /\ IF Missing \/ proc[cur.pid].kind.uid = 0
       THEN Drop
       ELSE pc' = "stat" /\ UNCHANGED <<cur, victim>>
    /\ UNCHANGED <<proc, args, todo, seen, changed>>

\* parse_proc_pid_stat(): rss and the parent; kernel threads are refused.
ReadStat ==
    /\ pc = "stat"
    /\ LET e == proc[cur.pid] IN
       IF Missing \/ e.kind.ppid = 2
       THEN Drop
       ELSE /\ pc' = "oom_score"
            /\ cur' = [cur EXCEPT !.VmRSSkiB = StatRss(e.kind, e.st) * PageKiB]
            /\ victim' = victim
    /\ UNCHANGED <<proc, args, todo, seen, changed>>

\* get_oom_score().
ReadOomScore ==
    /\ pc = "oom_score"
    /\ LET e == proc[cur.pid] IN
       IF Missing
       THEN Drop
       ELSE /\ pc' = IF args.prefer_regex \/ args.avoid_regex \/ args.ignore_regex
                     THEN "comm" ELSE "compare"
            /\ cur' = [cur EXCEPT !.oom_score = OomScore(e.kind, e.st)]
            /\ victim' = victim
    /\ UNCHANGED <<proc, args, todo, seen, changed>>

\* get_comm(): only with a regular expression.
ReadComm ==
    /\ pc = "comm"
    /\ LET k == proc[cur.pid].kind IN
       IF Missing \/ (args.ignore_regex /\ k.ignore)
       THEN Drop
       ELSE /\ pc' = "compare"
            /\ cur' = IF args.sort_by_rss
                      THEN [cur EXCEPT !.VmRSSkiB =
                               @ + Adjust(args, k, VMRSS_PREFER, VMRSS_AVOID)]
                      ELSE [cur EXCEPT !.oom_score =
                               @ + Adjust(args, k, OOM_SCORE_PREFER, OOM_SCORE_AVOID)]
            /\ victim' = victim
    /\ UNCHANGED <<proc, args, todo, seen, changed>>

\* Mutant: the running maximum is raised before oom_score_adj is known.
Compare_RaisesEarly ==
    /\ pc = "compare"
    /\ IF Larger(args, cur, victim)
       THEN pc' = "adj" /\ victim' = [victim EXCEPT !.oom_score = cur.oom_score]
              /\ UNCHANGED <<cur, seen>>
       ELSE Drop /\ seen' = seen \cup {cur}
    /\ UNCHANGED <<proc, args, todo, changed>>

\* A candidate that is not larger is dropped before its oom_score_adj is read.
Compare ==
    /\ pc = "compare"
    /\ IF Larger(args, cur, victim)
       THEN pc' = "adj" /\ UNCHANGED <<cur, victim, seen>>
       ELSE Drop /\ seen' = seen \cup {cur}
    /\ UNCHANGED <<proc, args, todo, changed>>

\* Mutant: oom_score_adj is read, its value not looked at.
ReadAdj_Ignored ==
    /\ pc = "adj"
    /\ IF Missing
       THEN Drop /\ seen' = seen
       ELSE /\ victim' = cur /\ seen' = seen \cup {cur}
            /\ pc' = "readdir" /\ cur' = empty_procinfo
    /\ UNCHANGED <<proc, args, todo, changed>>

\* get_oom_score_adj(): the last refusal, then the candidate is the victim.
ReadAdj ==
    /\ pc = "adj"
    /\ IF Missing \/ proc[cur.pid].kind.oom_score_adj = -1000
       THEN Drop /\ seen' = seen
       ELSE /\ victim' = cur /\ seen' = seen \cup {cur}
            /\ pc' = "readdir" /\ cur' = empty_procinfo
    /\ UNCHANGED <<proc, args, todo, changed>>

\* The end of the directory and the test for "selected myself".
EndOfDir ==
    /\ pc = "readdir" /\ todo = {}
    /\ pc' = "done"
    /\ victim' = IF victim.pid = Self THEN zero_procinfo ELSE victim
    /\ UNCHANGED <<proc, args, todo, cur, seen, changed>>

\* find_largest_process() is called again.
Opendir ==
    /\ pc = "done"
    /\ pc' = "readdir"
    /\ todo' = Pid
    /\ cur' = empty_procinfo /\ victim' = empty_procinfo
    /\ seen' = {} /\ changed' = {}
    /\ UNCHANGED <<proc, args>>

Step == ReadUid \/ ReadStat \/ ReadOomScore \/ ReadComm \/ Compare \/ ReadAdj
          \/ EndOfDir \/ Opendir \/ \E p \in Pid : Readdir(p)

Next == Step \/ \E p \in Pid : Change(p)

Spec == Init /\ [][Next]_vars

----------------------------------------------------------------------------
(* Properties.                                                             *)

\* Every variable has the type its C counterpart has; the candidate is a pid
\* of the directory while is_larger() is reading its files.
TypeOK ==
    /\ proc \in [Pid -> Entry]
    /\ args \in SelectArgs
    /\ pc \in PC
    /\ todo \subseteq Pid
    /\ cur \in ProcInfo /\ victim \in ProcInfo
    /\ pc \notin {"readdir", "done"} => cur.pid \in Pid
    /\ seen \subseteq ProcInfo
    /\ changed \subseteq Pid

\* A process that find_largest_process() may return, and the values it is
\* judged by.
Eligible(p) == proc[p].st # "free" /\ ~Protected(args, p, proc[p].kind)
Info(p)     == procinfo(args, p, proc[p].kind, proc[p].st)

\* The fallback to oom_score within a --sort-by-rss scan was not needed.
Uniform == args.sort_by_rss => \A c \in seen : c.VmRSSkiB > 0

\* The lazy scan returns a process at least as large as every eligible
\* process that stood still while it ran, in whatever order readdir() lists
\* them and whatever the other processes do meanwhile; in particular it finds
\* a victim if there is one.
LargestStable ==
    pc = "done" /\ victim.pid # 0 /\ Uniform =>
        \A p \in Pid \ changed :
            Eligible(p) => victim.pid \in Pid /\ ~Larger(args, Info(p), victim)

\* A victim that stood still is one that is allowed to be killed, and is
\* reported with its true values: the reads of is_larger() fit together.
VictimGenuine ==
    pc = "done" /\ victim.pid \in Pid \ changed =>
        victim.pid # Self /\ Eligible(victim.pid) /\ victim = Info(victim.pid)

----------------------------------------------------------------------------
(* What the code says of itself, and does not keep.                        *)

\* MANPAGE.md, --avoid: "avoid killing processes whose comm name matches
\* REGEX": a matching process is not chosen while one with no match and with
\* memory to free is eligible.
AvoidHonoured ==
    pc = "done" /\ args.avoid_regex /\ changed = {} /\ victim.pid \in Pid
      /\ proc[victim.pid].kind.avoid =>
        ~ \E p \in Pid : /\ Eligible(p) /\ ~proc[p].kind.avoid
                         /\ Info(p).VmRSSkiB > victim.VmRSSkiB
=============================================================================
