---------------------------- MODULE MCEarlyoom ------------------------------
(***************************************************************************)
(* Small instances of Earlyoom for TLC: pid 3 is earlyoom, 4 and 5 are the *)
(* processes it may choose from.                                           *)
(***************************************************************************)
EXTENDS EarlyoomRefinement, TLC

User ==
    [uid |-> 1000, ppid |-> 1, oom_score |-> 700, oom_score_adj |-> 0,
     rss |-> 500, prefer |-> FALSE, avoid |-> FALSE, ignore |-> FALSE,
     pgid |-> 4, allowed |-> TRUE, reacts |-> {9, 15}]

Small    == [User EXCEPT !.oom_score = 400, !.rss = 100]
Stubborn == [User EXCEPT !.reacts = {9}]
Root     == [User EXCEPT !.uid = 0, !.oom_score = 900]
Foreign  == [User EXCEPT !.uid = 0, !.allowed = FALSE]
Adj1000  == [User EXCEPT !.oom_score_adj = -1000, !.oom_score = 0]
Ignored  == [User EXCEPT !.ignore = TRUE, !.oom_score = 900]

MCSelfKind == [User EXCEPT !.uid = 0, !.oom_score = 1, !.rss = 1, !.pgid = 3]
HugeSelf   == [MCSelfKind EXCEPT !.oom_score = 1000]

NoArgs ==
    [dryrun |-> FALSE, kill_process_group |-> FALSE, kernel_oom |-> FALSE,
     ignore_root_user |-> FALSE, sort_by_rss |-> FALSE,
     prefer_regex |-> FALSE, avoid_regex |-> FALSE, ignore_regex |-> FALSE,
     notify_ext |-> "none", kill_process_prehook |-> "none"]

\* Plenty of memory, SIGTERM level, SIGKILL level; swap is used up.
Plenty == [MemAvailablePercent |-> 50, SwapFreePercent |-> 0]
Term   == [MemAvailablePercent |-> 10, SwapFreePercent |-> 0]
Low    == [MemAvailablePercent |-> 5,  SwapFreePercent |-> 0]
MCReadings == {Plenty, Term, Low}

\* Instance "single": one pid besides earlyoom, run by several processes in
\* turn: an ordinary one, one that survives SIGTERM, one that earlyoom may
\* not signal and one that --ignore protects.
SinglePid   == {3, 4}
SingleKinds == 3 :> {} @@ 4 :> {User, Stubborn, Foreign, Ignored}
SingleArgs  ==
    {[NoArgs EXCEPT !.ignore_regex = TRUE],
     [NoArgs EXCEPT !.kill_process_prehook = "absolute", !.notify_ext = "relative"],
     [NoArgs EXCEPT !.dryrun = TRUE, !.kill_process_prehook = "relative"]}

ThreePids   == {3, 4, 5}

\* Instance "faults": failing reads of /proc, --kernel-oom, and protected
\* processes of every sort that are larger than the unprotected one.
FaultKinds == 3 :> {} @@ 4 :> {Small, Adj1000} @@ 5 :> {Root}
FaultArgs  ==
    {[NoArgs EXCEPT !.ignore_root_user = TRUE],
     [NoArgs EXCEPT !.kernel_oom = TRUE],
     [NoArgs EXCEPT !.kernel_oom = TRUE, !.dryrun = TRUE]}

\* Instance "live": a process that survives SIGTERM and a smaller one, in its
\* process group or in one of its own; with and without -g.
GroupArgs == {[NoArgs EXCEPT !.kill_process_group = TRUE]}
LiveKinds == 3 :> {} @@ 4 :> {Stubborn} @@ 5 :> {Small, [Small EXCEPT !.pgid = 5]}
LiveArgs  == {NoArgs} \cup GroupArgs

\* Instance "everybody": in a container, where what init starts stays in its
\* process group, a victim of that group and a process in one of its own.
InitGroup ==
    3 :> {} @@ 4 :> {[User EXCEPT !.pgid = 1]} @@ 5 :> {[Small EXCEPT !.pgid = 5]}
=============================================================================
