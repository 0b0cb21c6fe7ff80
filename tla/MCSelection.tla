---------------------------- MODULE MCSelection -----------------------------
(***************************************************************************)
(* Small instances of Selection for TLC.  Pid 2 is kthreadd, 3 is earlyoom. *)
(***************************************************************************)
EXTENDS Selection, TLC

User ==
    [uid |-> 1000, ppid |-> 1, oom_score |-> 700, oom_score_adj |-> 0,
     rss |-> 500, prefer |-> FALSE, avoid |-> FALSE, ignore |-> FALSE,
     pgid |-> 1, allowed |-> TRUE, reacts |-> {9, 15}]

Run(k)     == [st |-> "run", kind |-> k]
ZLeader(k) == [st |-> "zleader", kind |-> k]
Free       == [st |-> "free", kind |-> User]
Kthreadd   == [User EXCEPT !.uid = 0, !.ppid = 0, !.oom_score = 0, !.rss = 0]
Earlyoom   == [User EXCEPT !.uid = 0, !.oom_score = 600, !.rss = 1]

NoArgs ==
    [ignore_root_user |-> FALSE, sort_by_rss |-> FALSE, prefer_regex |-> FALSE,
     avoid_regex |-> FALSE, ignore_regex |-> FALSE]

\* Instance "scan": processes of every sort that is_larger() tells apart,
\* coming, going and changing while the directory is read.
ScanPid   == {2, 3, 4, 5}
ScanTable ==
    2 :> {Run(Kthreadd)} @@ 3 :> {Run(Earlyoom)}
      @@ 4 :> {Free, Run(User), Run([User EXCEPT !.oom_score_adj = -1000, !.oom_score = 900]),
               Run([User EXCEPT !.ignore = TRUE]), ZLeader(User),
               [st |-> "zombie", kind |-> User]}
      @@ 5 :> {Free, Run([User EXCEPT !.rss = 600]),
               Run([User EXCEPT !.avoid = TRUE, !.oom_score = 900]),
               Run([User EXCEPT !.prefer = TRUE, !.oom_score = 400]),
               Run([User EXCEPT !.uid = 0]), Run([User EXCEPT !.ppid = 2])}
ScanArgs  ==
    {NoArgs,
     [NoArgs EXCEPT !.ignore_root_user = TRUE, !.ignore_regex = TRUE],
     [NoArgs EXCEPT !.prefer_regex = TRUE, !.avoid_regex = TRUE],
     [NoArgs EXCEPT !.sort_by_rss = TRUE, !.prefer_regex = TRUE]}

\* Instance "avoid": --sort-by-rss with a process that matches --avoid.
AvoidTable ==
    3 :> {Run(Earlyoom)} @@ 4 :> {Run(User)}
      @@ 5 :> {Run([User EXCEPT !.avoid = TRUE, !.rss = 550, !.oom_score = 750])}
      @@ 6 :> {Free}
AvoidArgs  == {[NoArgs EXCEPT !.sort_by_rss = TRUE, !.avoid_regex = TRUE]}
FourPids   == {3, 4, 5, 6}
=============================================================================
