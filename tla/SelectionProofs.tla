-------------------------- MODULE SelectionProofs ---------------------------
(***************************************************************************)
(* Proofs about Selection: find_largest_process() over any directory, any  *)
(* processes and any changes between its reads.                            *)
(***************************************************************************)
EXTENDS Selection, TLAPS

----------------------------------------------------------------------------
(* Lemmas about the values that is_larger() compares.                      *)

LEMMA Values ==
    ASSUME NEW k \in KindType, NEW st, NEW a
    PROVE  /\ StatRss(k, st) * PageKiB \in Int
           /\ OomScore(k, st) \in Int /\ OomScore(k, st) >= 0
           /\ Adjust(a, k, VMRSS_PREFER, VMRSS_AVOID) \in Int
           /\ Adjust(a, k, OOM_SCORE_PREFER, OOM_SCORE_AVOID) \in Int
           /\ Adjust(a, k, OOM_SCORE_PREFER, OOM_SCORE_AVOID) >= -300
  <1>1. k.rss \in Nat /\ k.oom_score \in Nat
    BY DEF KindType
  <1>2. /\ StatRss(k, st) * PageKiB \in Int
        /\ OomScore(k, st) \in Int /\ OomScore(k, st) >= 0
    BY <1>1 DEF StatRss, OomScore, PageKiB
  <1>3. /\ Adjust(a, k, VMRSS_PREFER, VMRSS_AVOID) \in Int
        /\ Adjust(a, k, OOM_SCORE_PREFER, OOM_SCORE_AVOID) \in Int
        /\ Adjust(a, k, OOM_SCORE_PREFER, OOM_SCORE_AVOID) >= -300
    BY DEF Adjust, VMRSS_PREFER, VMRSS_AVOID, OOM_SCORE_PREFER, OOM_SCORE_AVOID
  <1> QED
    BY <1>2, <1>3

LEMMA EmptyType ==
    /\ empty_procinfo \in ProcInfo /\ zero_procinfo \in ProcInfo
    /\ empty_procinfo.pid \notin Pid /\ zero_procinfo.pid \notin Pid
    /\ zero_procinfo.pid = 0 /\ empty_procinfo.oom_score = -9999
    /\ empty_procinfo.VmRSSkiB = -9999
  BY SelectionAssumption
     DEF empty_procinfo, zero_procinfo, ProcInfo, PROCINFO_FIELD_NOT_SET

\* A candidate with a score is larger than no victim.
LEMMA LargerThanNone ==
    ASSUME NEW a, NEW c \in ProcInfo, c.oom_score >= -300
    PROVE  Larger(a, c, empty_procinfo)
  BY EmptyType DEF Larger, ByScore, Beats, ProcInfo

\* Among candidates that are judged by the same value, what is not larger than
\* the old victim is not larger than the new one.
LEMMA LargerTransitive ==
    ASSUME NEW a, NEW x \in ProcInfo, NEW y \in ProcInfo, NEW z \in ProcInfo,
           a.sort_by_rss => x.VmRSSkiB > 0 /\ y.VmRSSkiB > 0 /\ z.VmRSSkiB > 0,
           ~Larger(a, x, y), Larger(a, z, y)
    PROVE  ~Larger(a, x, z)
  BY DEF Larger, ByRss, ByScore, Beats, ProcInfo

LEMMA LargerIrreflexive ==
    ASSUME NEW a, NEW x \in ProcInfo PROVE ~Larger(a, x, x)
  BY DEF Larger, ByRss, ByScore, Beats, ProcInfo

----------------------------------------------------------------------------
(* Types.                                                                  *)

Reading == {"uid", "stat", "oom_score", "comm", "compare", "adj"}

\* The entry behind the candidate.
LEMMA CurEntry ==
    ASSUME TypeOK, pc \in Reading
    PROVE  cur.pid \in Pid /\ proc[cur.pid] \in Entry /\ proc[cur.pid].kind \in KindType
  BY DEF TypeOK, Entry, Reading

LEMMA TypeStep ==
    ASSUME TypeOK, [Next]_vars PROVE TypeOK'
  <1>1. CASE UNCHANGED vars
    BY <1>1 DEF vars, TypeOK
  <1>2. ASSUME NEW p \in Pid, Change(p) PROVE TypeOK'
    <2>1. PICK e \in Table[p] : proc' = [proc EXCEPT ![p] = e]
      BY <1>2 DEF Change
    <2>2. e \in Entry
      BY SelectionAssumption
    <2>3. proc' \in [Pid -> Entry] /\ changed' \subseteq Pid
      BY <1>2, <2>1, <2>2 DEF Change, TypeOK
    <2> QED
      BY <1>2, <2>3 DEF Change, TypeOK
  <1>3. ASSUME NEW p \in Pid, Readdir(p) PROVE TypeOK'
    <2>1. [empty_procinfo EXCEPT !.pid = p] \in ProcInfo
          /\ [empty_procinfo EXCEPT !.pid = p].pid = p
      BY SelectionAssumption DEF empty_procinfo, ProcInfo, PROCINFO_FIELD_NOT_SET
    <2>2. cur' \in ProcInfo /\ victim' \in ProcInfo /\ pc' \in PC
          /\ (pc' \notin {"readdir", "done"} => cur'.pid \in Pid)
      <3>1. CASE p <= 2
        BY <1>3, <3>1, EmptyType DEF Readdir, Drop, TypeOK, PC
      <3>2. CASE ~(p <= 2)
        <4>1. /\ cur' = [empty_procinfo EXCEPT !.pid = p] /\ victim' = victim
              /\ pc' \in {"uid", "stat"}
          BY <1>3, <3>2 DEF Readdir
        <4> QED
          BY <2>1, <4>1 DEF TypeOK, PC
      <3> QED
        BY <3>1, <3>2
    <2> QED
      BY <1>3, <2>2 DEF Readdir, TypeOK
  <1>4. CASE ReadUid \/ ReadStat \/ ReadOomScore \/ ReadComm \/ Compare \/ ReadAdj
    <2> DEFINE k == proc[cur.pid].kind
               st == proc[cur.pid].st
    <2>0. pc \in Reading /\ cur.pid \in Pid /\ k \in KindType
      BY <1>4, CurEntry DEF ReadUid, ReadStat, ReadOomScore, ReadComm, Compare, ReadAdj, Reading
    <2>1. UNCHANGED <<proc, args, todo, changed>>
      BY <1>4 DEF ReadUid, ReadStat, ReadOomScore, ReadComm, Compare, ReadAdj
    <2>2. /\ StatRss(k, st) * PageKiB \in Int
          /\ OomScore(k, st) \in Int
          /\ Adjust(args, k, VMRSS_PREFER, VMRSS_AVOID) \in Int
          /\ Adjust(args, k, OOM_SCORE_PREFER, OOM_SCORE_AVOID) \in Int
      BY <2>0, Values
    <2>3. /\ cur \in ProcInfo /\ victim \in ProcInfo /\ empty_procinfo \in ProcInfo
          /\ seen \subseteq ProcInfo
      BY EmptyType DEF TypeOK
    <2>4. pc' \in PC
      BY <1>4 DEF ReadUid, ReadStat, ReadOomScore, ReadComm, Compare, ReadAdj, Drop, PC
    <2>5. victim' \in ProcInfo /\ seen' \subseteq ProcInfo
      BY <1>4, <2>3 DEF ReadUid, ReadStat, ReadOomScore, ReadComm, Compare, ReadAdj, Drop
    <2>6. cur' \in ProcInfo /\ (pc' \notin {"readdir", "done"} => cur'.pid \in Pid)
      <3>1. CASE ReadUid \/ Compare \/ ReadAdj
        BY <2>0, <2>3, <3>1 DEF ReadUid, Compare, ReadAdj, Drop
      <3>2. CASE ReadStat
        BY <2>0, <2>2, <2>3, <3>2 DEF ReadStat, Drop, ProcInfo
      <3>3. CASE ReadOomScore
        BY <2>0, <2>2, <2>3, <3>3 DEF ReadOomScore, Drop, ProcInfo
      <3>4. CASE ReadComm
        BY <2>0, <2>2, <2>3, <3>4 DEF ReadComm, Drop, ProcInfo
      <3> QED
        BY <1>4, <3>1, <3>2, <3>3, <3>4
    <2> QED
      BY <2>1, <2>4, <2>5, <2>6 DEF TypeOK
  <1>5. CASE EndOfDir
    BY <1>5, EmptyType DEF EndOfDir, TypeOK, PC
  <1>6. CASE Opendir
    BY <1>6, EmptyType DEF Opendir, TypeOK, PC
  <1> QED
    BY <1>1, <1>2, <1>3, <1>4, <1>5, <1>6 DEF Next, Step

LEMMA InitType ==
    ASSUME Init PROVE TypeOK
  <1>1. proc \in [Pid -> Entry]
    <2>1. proc \in [Pid -> UNION {Table[p] : p \in Pid}]
      BY DEF Init
    <2>2. \A p \in Pid : proc[p] \in Entry
      BY SelectionAssumption DEF Init
    <2> QED
      BY <2>1, <2>2
  <1> QED
    BY <1>1, EmptyType, SelectionAssumption DEF Init, TypeOK, PC

\* Every variable of the scan keeps its type; while is_larger() reads its
\* files the candidate is an entry of the directory.
THEOREM SelectionTypes == Spec => []TypeOK
  <1>1. Init => TypeOK
    BY InitType
  <1>2. TypeOK /\ [Next]_vars => TypeOK'
    BY TypeStep
  <1> QED
    BY <1>1, <1>2, PTL DEF Spec

----------------------------------------------------------------------------
(* The inductive invariant.                                                *)

\* What the reads of a candidate that stands still have established so far.
ReadInv ==
    /\ pc \in Reading => cur.pid > 2
    /\ pc = "uid" => args.ignore_root_user
    /\ pc \in Reading /\ cur.pid \notin changed =>
          LET k  == proc[cur.pid].kind
              st == proc[cur.pid].st
          IN  /\ pc # "uid" /\ args.ignore_root_user => k.uid # 0
              /\ pc \in {"oom_score", "comm", "compare", "adj"} =>
                    st # "free" /\ k.ppid # 2
              /\ pc \in {"oom_score", "comm"} => cur.VmRSSkiB = StatRss(k, st) * PageKiB
              /\ pc = "comm" => cur.oom_score = OomScore(k, st)
              /\ pc \in {"compare", "adj"} =>
                    ~Skipped(args, cur.pid, k) /\ cur = Info(cur.pid)
    /\ pc = "comm" => cur.oom_score >= 0
    /\ pc \in {"compare", "adj"} => cur.oom_score >= -300
    /\ pc = "adj" => Larger(args, cur, victim)

\* Whoever stood still and may be killed was compared once its turn is over.
Compared(p) == p \notin todo /\ ~(pc \in Reading /\ cur.pid = p)
SeenInv ==
    /\ pc = "done" => todo = {}
    /\ \A p \in Pid \ changed : Compared(p) /\ Eligible(p) => Info(p) \in seen

\* Nothing that was compared is larger than the victim.
BestInv ==
    \/ pc = "done" /\ victim = zero_procinfo
    \/ victim = empty_procinfo /\ seen = {}
    \/ /\ victim \in seen /\ victim.pid \in Pid
       /\ Uniform => \A c \in seen : ~Larger(args, c, victim)

\* A victim that stood still is what it was read as.
GenuineInv ==
    /\ pc = "done" => victim.pid # Self
    /\ victim.pid \in Pid \ changed =>
          Eligible(victim.pid) /\ victim = Info(victim.pid)

ScanInv == TypeOK /\ ReadInv /\ SeenInv /\ BestInv /\ GenuineInv

----------------------------------------------------------------------------
(* It is preserved.                                                        *)

\* Processes change: nothing is claimed of those that did.
LEMMA InvChange ==
    ASSUME ScanInv, TypeOK', NEW p \in Pid, Change(p) PROVE ScanInv'
  <1>1. /\ UNCHANGED <<args, pc, todo, cur, victim, seen>>
        /\ changed' = changed \cup {p}
        /\ \A q \in Pid \ changed' : q \notin changed /\ proc'[q] = proc[q]
    BY DEF Change, ScanInv, TypeOK
  <1>2. \A q \in Pid \ changed' : (Eligible(q)' <=> Eligible(q)) /\ Info(q)' = Info(q)
    BY <1>1 DEF Eligible, Info
  <1>3. ReadInv'
    <2>1. pc \in Reading => cur.pid \in Pid
      BY CurEntry DEF ScanInv
    <2> QED
      BY <1>1, <1>2, <2>1 DEF ScanInv, ReadInv
  <1>4. SeenInv'
    BY <1>1, <1>2 DEF ScanInv, SeenInv, Compared
  <1>5. BestInv'
    BY <1>1 DEF ScanInv, BestInv, Uniform
  <1>6. GenuineInv'
    BY <1>1, <1>2 DEF ScanInv, GenuineInv
  <1> QED
    BY <1>3, <1>4, <1>5, <1>6 DEF ScanInv

\* Outside of the last two reads neither the victim nor what was compared
\* changes.
LEMMA InvSameVictim ==
    ASSUME ScanInv, UNCHANGED <<proc, args, victim, seen, changed>>,
           pc # "done", pc' # "done"
    PROVE  BestInv' /\ GenuineInv'
  <1>1. BestInv'
    BY DEF ScanInv, BestInv, Uniform
  <1>2. GenuineInv'
    BY DEF ScanInv, GenuineInv, Eligible, Info
  <1> QED
    BY <1>1, <1>2

LEMMA InvReaddir ==
    ASSUME ScanInv, TypeOK', NEW p \in Pid, Readdir(p) PROVE ScanInv'
  <1>1. /\ UNCHANGED <<proc, args, victim, seen, changed>> /\ pc = "readdir"
        /\ todo' = todo \ {p}
        /\ \/ p <= 2 /\ pc' = "readdir"
           \/ /\ ~(p <= 2) /\ pc' \in {"uid", "stat"}
              /\ pc' = "stat" => ~args.ignore_root_user
              /\ pc' = "uid" => args.ignore_root_user
              /\ cur'.pid = p
    BY DEF Readdir, Drop, empty_procinfo
  <1>2. BestInv' /\ GenuineInv'
    BY <1>1, InvSameVictim
  <1>3. p \in Int
    BY SelectionAssumption
  <1>4. ReadInv'
    BY <1>1, <1>3 DEF ReadInv, Reading
  <1>5. SeenInv'
    <2>1. p <= 2 => ~Eligible(p)
      BY DEF Eligible, Protected, Skipped
    <2>2. \A q \in Pid : (Eligible(q)' <=> Eligible(q)) /\ Info(q)' = Info(q)
      BY <1>1 DEF Eligible, Info
    <2>3. \A q \in Pid : Compared(q)' /\ Eligible(q) => Compared(q)
      BY <1>1, <2>1 DEF Compared, Reading
    <2> QED
      BY <1>1, <2>2, <2>3 DEF ScanInv, SeenInv
  <1> QED
    BY <1>2, <1>4, <1>5 DEF ScanInv

\* A candidate that is refused may not be killed, or has changed.
LEMMA InvDrop ==
    ASSUME ScanInv, UNCHANGED <<proc, args, todo, seen, changed>>, TypeOK',
           pc \in Reading, Drop, cur.pid \notin changed => ~Eligible(cur.pid)
    PROVE  ScanInv'
  <1>1. pc' = "readdir" /\ victim' = victim
    BY DEF Drop
  <1>2. BestInv' /\ GenuineInv'
    BY <1>1, InvSameVictim DEF Reading
  <1>3. ReadInv'
    BY <1>1 DEF ReadInv, Reading
  <1>4. SeenInv'
    <2>1. \A q \in Pid : (Eligible(q)' <=> Eligible(q)) /\ Info(q)' = Info(q)
      BY DEF Eligible, Info
    <2>2. \A q \in Pid \ changed : Compared(q)' /\ Eligible(q) => Compared(q)
      BY <1>1 DEF Compared, Reading
    <2> QED
      BY <1>1, <2>1, <2>2 DEF ScanInv, SeenInv
  <1> QED
    BY <1>2, <1>3, <1>4 DEF ScanInv

\* A candidate that passes a read stays the candidate.
LEMMA InvNextRead ==
    ASSUME ScanInv, UNCHANGED <<proc, args, todo, victim, seen, changed>>, TypeOK',
           pc \in Reading, pc' \in Reading, cur'.pid = cur.pid, ReadInv'
    PROVE  ScanInv'
  <1>1. BestInv' /\ GenuineInv'
    BY InvSameVictim DEF Reading
  <1>2. SeenInv'
    <2>1. \A q \in Pid : (Eligible(q)' <=> Eligible(q)) /\ Info(q)' = Info(q)
      BY DEF Eligible, Info
    <2>2. \A q \in Pid : Compared(q)' => Compared(q)
      BY DEF Compared
    <2> QED
      BY <2>1, <2>2 DEF ScanInv, SeenInv, Reading
  <1> QED
    BY <1>1, <1>2 DEF ScanInv

LEMMA InvUid ==
    ASSUME ScanInv, TypeOK', ReadUid PROVE ScanInv'
  <1>1. /\ UNCHANGED <<proc, args, todo, seen, changed>>
        /\ pc = "uid" /\ pc \in Reading /\ args.ignore_root_user
    BY DEF ReadUid, Reading, ScanInv, ReadInv
  <1>2. CASE Missing \/ proc[cur.pid].kind.uid = 0
    <2>1. ~Eligible(cur.pid)
      BY <1>1, <1>2 DEF Missing, Eligible, Protected, Skipped
    <2>2. Drop
      BY <1>2 DEF ReadUid
    <2> QED
      BY <1>1, <2>1, <2>2, InvDrop
  <1>3. CASE ~(Missing \/ proc[cur.pid].kind.uid = 0)
    <2>1. pc' = "stat" /\ cur' = cur /\ victim' = victim
      BY <1>3 DEF ReadUid
    <2>2. ReadInv'
      BY <1>1, <1>3, <2>1 DEF ScanInv, ReadInv, Reading
    <2> QED
      BY <1>1, <2>1, <2>2, InvNextRead DEF Reading
  <1> QED
    BY <1>2, <1>3

LEMMA InvStat ==
    ASSUME ScanInv, TypeOK', ReadStat PROVE ScanInv'
  <1> DEFINE k  == proc[cur.pid].kind
             st == proc[cur.pid].st
  <1>1. /\ UNCHANGED <<proc, args, todo, seen, changed>>
        /\ pc = "stat" /\ pc \in Reading
    BY DEF ReadStat, Reading
  <1>2. CASE Missing \/ k.ppid = 2
    <2>1. ~Eligible(cur.pid)
      BY <1>2 DEF Missing, Eligible, Protected, Skipped
    <2>2. Drop
      BY <1>2 DEF ReadStat
    <2> QED
      BY <1>1, <2>1, <2>2, InvDrop
  <1>3. CASE ~(Missing \/ k.ppid = 2)
    <2>1. /\ pc' = "oom_score" /\ victim' = victim
          /\ cur' = [cur EXCEPT !.VmRSSkiB = StatRss(k, st) * PageKiB]
      BY <1>3 DEF ReadStat
    <2>2. cur'.pid = cur.pid /\ cur'.VmRSSkiB = StatRss(k, st) * PageKiB
      BY <2>1 DEF ScanInv, TypeOK, ProcInfo
    <2>3. ReadInv'
      BY <1>1, <1>3, <2>1, <2>2 DEF ScanInv, ReadInv, Reading, Missing
    <2> QED
      BY <1>1, <2>1, <2>2, <2>3, InvNextRead DEF Reading
  <1> QED
    BY <1>2, <1>3

\* Without expressions the candidate is complete after oom_score.
LEMMA InvOomScore ==
    ASSUME ScanInv, TypeOK', ReadOomScore PROVE ScanInv'
  <1> DEFINE k  == proc[cur.pid].kind
             st == proc[cur.pid].st
  <1>1. /\ UNCHANGED <<proc, args, todo, seen, changed>>
        /\ pc = "oom_score" /\ pc \in Reading
    BY DEF ReadOomScore, Reading
  <1>2. CASE Missing
    <2>1. ~Eligible(cur.pid)
      BY <1>2 DEF Missing, Eligible
    <2>2. Drop
      BY <1>2 DEF ReadOomScore
    <2> QED
      BY <1>1, <2>1, <2>2, InvDrop
  <1>3. CASE ~Missing
    <2>1. /\ victim' = victim
          /\ cur' = [cur EXCEPT !.oom_score = OomScore(k, st)]
          /\ \/ pc' = "comm"
             \/ /\ pc' = "compare"
                /\ ~args.prefer_regex /\ ~args.avoid_regex /\ ~args.ignore_regex
      BY <1>3 DEF ReadOomScore
    <2>2. /\ cur'.pid = cur.pid /\ cur'.VmRSSkiB = cur.VmRSSkiB
          /\ cur'.oom_score = OomScore(k, st)
      BY <2>1 DEF ScanInv, TypeOK, ProcInfo
    <2>3. k \in KindType
      BY <1>1, CurEntry DEF ScanInv
    <2>4. OomScore(k, st) \in Int /\ OomScore(k, st) >= 0
      BY <2>3, Values
    <2>5. cur'.oom_score >= 0 /\ cur'.oom_score >= -300
      BY <2>2, <2>4
    <2>6. ASSUME pc' = "compare", cur.pid \notin changed
          PROVE  ~Skipped(args, cur.pid, k) /\ cur' = Info(cur.pid)
      <3>1. ~Skipped(args, cur.pid, k)
        <4>1. cur.pid > 2 /\ cur.pid \in Int
          BY <1>1 DEF ScanInv, ReadInv, TypeOK, ProcInfo
        <4> QED
          BY <1>1, <2>1, <2>6, <4>1 DEF ScanInv, ReadInv, Skipped
      <3>2. /\ Adjust(args, k, VMRSS_PREFER, VMRSS_AVOID) = 0
            /\ Adjust(args, k, OOM_SCORE_PREFER, OOM_SCORE_AVOID) = 0
        BY <2>1, <2>6 DEF Adjust
      <3>3. cur.VmRSSkiB = StatRss(k, st) * PageKiB /\ StatRss(k, st) * PageKiB \in Int
        BY <1>1, <2>3, <2>6, Values DEF ScanInv, ReadInv
      <3>4. cur' \in ProcInfo
        BY DEF TypeOK
      <3>5. Info(cur.pid) = [pid |-> cur.pid, oom_score |-> OomScore(k, st),
                             VmRSSkiB |-> StatRss(k, st) * PageKiB]
        BY <2>4, <3>2, <3>3 DEF Info, procinfo
      <3> QED
        BY <2>2, <3>1, <3>3, <3>4, <3>5 DEF ProcInfo
    <2>7. ReadInv'
      <3>1. cur.pid \notin changed => Info(cur.pid)' = Info(cur.pid)
        BY <1>1, <2>2 DEF Info
      <3> QED
        BY <1>1, <2>1, <2>2, <2>5, <2>6, <3>1 DEF ScanInv, ReadInv, Reading
    <2> QED
      BY <1>1, <2>1, <2>2, <2>7, InvNextRead DEF Reading
  <1> QED
    BY <1>2, <1>3

LEMMA InvComm ==
    ASSUME ScanInv, TypeOK', ReadComm PROVE ScanInv'
  <1> DEFINE k  == proc[cur.pid].kind
             st == proc[cur.pid].st
             byrss == Adjust(args, k, VMRSS_PREFER, VMRSS_AVOID)
             byscore == Adjust(args, k, OOM_SCORE_PREFER, OOM_SCORE_AVOID)
  <1>1. /\ UNCHANGED <<proc, args, todo, seen, changed>>
        /\ pc = "comm" /\ pc \in Reading
    BY DEF ReadComm, Reading
  <1>2. CASE Missing \/ (args.ignore_regex /\ k.ignore)
    <2>1. ~Eligible(cur.pid)
      BY <1>2 DEF Missing, Eligible, Protected, Skipped
    <2>2. Drop
      BY <1>2 DEF ReadComm
    <2> QED
      BY <1>1, <2>1, <2>2, InvDrop
  <1>3. CASE ~(Missing \/ (args.ignore_regex /\ k.ignore))
    <2>1. /\ victim' = victim /\ pc' = "compare"
          /\ cur' = IF args.sort_by_rss
                    THEN [cur EXCEPT !.VmRSSkiB = @ + byrss]
                    ELSE [cur EXCEPT !.oom_score = @ + byscore]
      BY <1>3 DEF ReadComm
    <2>2. cur \in ProcInfo /\ cur' \in ProcInfo
      BY DEF ScanInv, TypeOK
    <2>3. /\ cur'.pid = cur.pid
          /\ cur'.VmRSSkiB = IF args.sort_by_rss THEN cur.VmRSSkiB + byrss
                             ELSE cur.VmRSSkiB
          /\ cur'.oom_score = IF args.sort_by_rss THEN cur.oom_score
                              ELSE cur.oom_score + byscore
      BY <2>1, <2>2 DEF ProcInfo
    <2>4. k \in KindType
      BY <1>1, CurEntry DEF ScanInv
    <2>5. byrss \in Int /\ byscore \in Int /\ byscore >= -300
      BY <2>4, Values
    <2>6. cur'.oom_score >= -300
      <3>1. cur.oom_score \in Int /\ cur.oom_score >= 0
        BY <1>1, <2>2 DEF ScanInv, ReadInv, ProcInfo
      <3> QED
        BY <2>3, <2>5, <3>1
    <2>7. ASSUME cur.pid \notin changed
          PROVE  ~Skipped(args, cur.pid, k) /\ cur' = Info(cur.pid)
      <3>1. cur.pid > 2 /\ cur.pid \in Int
        BY <1>1, <2>2 DEF ScanInv, ReadInv, ProcInfo
      <3>2. ~Skipped(args, cur.pid, k)
        BY <1>1, <1>3, <2>7, <3>1 DEF ScanInv, ReadInv, Skipped
      <3>3. /\ cur.VmRSSkiB = StatRss(k, st) * PageKiB
            /\ cur.oom_score = OomScore(k, st)
        BY <1>1, <2>7 DEF ScanInv, ReadInv
      <3>4. StatRss(k, st) * PageKiB \in Int /\ OomScore(k, st) \in Int
        BY <2>4, Values
      <3>5. Info(cur.pid) =
              [pid |-> cur.pid,
               oom_score |-> OomScore(k, st) + (IF args.sort_by_rss THEN 0 ELSE byscore),
               VmRSSkiB |-> StatRss(k, st) * PageKiB
                              + (IF args.sort_by_rss THEN byrss ELSE 0)]
        BY DEF Info, procinfo
      <3>6. /\ cur'.oom_score
                 = OomScore(k, st) + (IF args.sort_by_rss THEN 0 ELSE byscore)
            /\ cur'.VmRSSkiB
                 = StatRss(k, st) * PageKiB + (IF args.sort_by_rss THEN byrss ELSE 0)
        BY <2>3, <3>3, <3>4
      <3> QED
        BY <2>2, <2>3, <3>2, <3>5, <3>6 DEF ProcInfo
    <2>8. ReadInv'
      <3>1. cur.pid \notin changed => Info(cur.pid)' = Info(cur.pid)
        BY <1>1, <2>3 DEF Info
      <3> QED
        BY <1>1, <2>1, <2>3, <2>6, <2>7, <3>1 DEF ScanInv, ReadInv, Reading
    <2> QED
      BY <1>1, <2>1, <2>3, <2>8, InvNextRead DEF Reading
  <1> QED
    BY <1>2, <1>3

\* The candidate is compared: what is left out is a candidate itself.
LEMMA InvSeen ==
    ASSUME ScanInv, UNCHANGED <<proc, args, todo, changed>>, pc \in {"compare", "adj"},
           pc' = "readdir", seen' = seen \cup {cur}
    PROVE  SeenInv' /\ ReadInv'
  <1>1. \A q \in Pid : (Eligible(q)' <=> Eligible(q)) /\ Info(q)' = Info(q)
    BY DEF Eligible, Info
  <1>2. cur.pid \notin changed => cur = Info(cur.pid)
    BY DEF ScanInv, ReadInv, Reading
  <1>3. ASSUME NEW q \in Pid \ changed, Compared(q)', Eligible(q)
        PROVE  Info(q) \in seen'
    <2>1. CASE q = cur.pid
      BY <1>2, <1>3, <2>1
    <2>2. CASE q # cur.pid
      BY <1>3, <2>2 DEF ScanInv, SeenInv, Compared
    <2> QED
      BY <2>1, <2>2
  <1>4. SeenInv'
    BY <1>1, <1>3 DEF SeenInv
  <1> QED
    BY <1>4 DEF ReadInv, Reading

LEMMA InvCompare ==
    ASSUME ScanInv, TypeOK', Compare PROVE ScanInv'
  <1>1. /\ UNCHANGED <<proc, args, todo, changed>>
        /\ pc = "compare" /\ pc \in Reading
    BY DEF Compare, Reading
  <1>2. CASE Larger(args, cur, victim)
    <2>1. pc' = "adj" /\ UNCHANGED <<cur, victim, seen>>
      BY <1>2 DEF Compare
    <2>2. ReadInv'
      BY <1>1, <1>2, <2>1 DEF ScanInv, ReadInv, Reading, Info
    <2> QED
      BY <1>1, <2>1, <2>2, InvNextRead DEF Reading
  <1>3. CASE ~Larger(args, cur, victim)
    <2>1. pc' = "readdir" /\ victim' = victim /\ seen' = seen \cup {cur}
      BY <1>3 DEF Compare, Drop
    <2>2. SeenInv' /\ ReadInv'
      BY <1>1, <2>1, InvSeen
    <2>3. victim # empty_procinfo
      BY <1>1, <1>3, LargerThanNone DEF ScanInv, TypeOK, ReadInv
    <2>4. /\ victim \in seen /\ victim.pid \in Pid
          /\ Uniform => \A c \in seen : ~Larger(args, c, victim)
      BY <1>1, <2>3 DEF ScanInv, BestInv
    <2>5. BestInv'
      BY <1>1, <1>3, <2>1, <2>4 DEF BestInv, Uniform
    <2>6. GenuineInv'
      BY <1>1, <2>1 DEF ScanInv, GenuineInv, Eligible, Info
    <2> QED
      BY <2>2, <2>5, <2>6 DEF ScanInv
  <1> QED
    BY <1>2, <1>3

\* The new victim is larger than the old one, and so than all before it.
LEMMA InvAdj ==
    ASSUME ScanInv, TypeOK', ReadAdj PROVE ScanInv'
  <1>1. /\ UNCHANGED <<proc, args, todo, changed>>
        /\ pc = "adj" /\ pc \in Reading
    BY DEF ReadAdj, Reading
  <1>2. CASE Missing \/ proc[cur.pid].kind.oom_score_adj = -1000
    <2>1. ~Eligible(cur.pid)
      BY <1>2 DEF Missing, Eligible, Protected
    <2>2. Drop /\ seen' = seen
      BY <1>2 DEF ReadAdj
    <2> QED
      BY <1>1, <2>1, <2>2, InvDrop
  <1>3. CASE ~(Missing \/ proc[cur.pid].kind.oom_score_adj = -1000)
    <2>1. pc' = "readdir" /\ victim' = cur /\ seen' = seen \cup {cur}
      BY <1>3 DEF ReadAdj
    <2>2. SeenInv' /\ ReadInv'
      BY <1>1, <2>1, InvSeen
    <2>3. cur \in ProcInfo /\ cur.pid \in Pid /\ seen \subseteq ProcInfo
      BY <1>1, CurEntry DEF ScanInv, TypeOK
    <2>4. ASSUME Uniform', NEW c \in seen' PROVE ~Larger(args, c, cur)
      <3>1. CASE c = cur
        BY <2>3, <3>1, LargerIrreflexive
      <3>2. CASE c \in seen
        <4>1. Uniform /\ victim \in seen /\ ~Larger(args, c, victim)
          BY <1>1, <2>1, <2>4, <3>2 DEF ScanInv, BestInv, Uniform
        <4>2. args.sort_by_rss => c.VmRSSkiB > 0 /\ victim.VmRSSkiB > 0 /\ cur.VmRSSkiB > 0
          BY <1>1, <2>1, <2>4, <3>2, <4>1 DEF Uniform
        <4>3. Larger(args, cur, victim)
          BY <1>1 DEF ScanInv, ReadInv
        <4> QED
          BY <2>3, <3>2, <4>1, <4>2, <4>3, LargerTransitive
      <3> QED
        BY <2>1, <2>4, <3>1, <3>2
    <2>5. BestInv'
      BY <1>1, <2>1, <2>3, <2>4 DEF BestInv
    <2>6. GenuineInv'
      BY <1>1, <1>3, <2>1 DEF ScanInv, ReadInv, GenuineInv, Eligible, Info, Missing, Protected
    <2> QED
      BY <2>2, <2>5, <2>6 DEF ScanInv
  <1> QED
    BY <1>2, <1>3

LEMMA InvDirectory ==
    ASSUME ScanInv, TypeOK', EndOfDir \/ Opendir PROVE ScanInv'
  <1>1. CASE EndOfDir
    <2>1. /\ UNCHANGED <<proc, args, todo, cur, seen, changed>>
          /\ pc = "readdir" /\ pc' = "done"
          /\ \/ victim.pid = Self /\ victim' = zero_procinfo
             \/ victim.pid # Self /\ victim' = victim
      BY <1>1 DEF EndOfDir
    <2>2. ReadInv' /\ SeenInv'
      BY <1>1, <2>1 DEF EndOfDir, ScanInv, ReadInv, SeenInv, Compared, Reading, Eligible, Info
    <2>3. BestInv'
      BY <2>1 DEF ScanInv, BestInv, Uniform
    <2>4. GenuineInv'
      BY <2>1, EmptyType, SelectionAssumption DEF ScanInv, GenuineInv, Eligible, Info
    <2> QED
      BY <2>2, <2>3, <2>4 DEF ScanInv
  <1>2. CASE Opendir
    <2>1. /\ pc' = "readdir" /\ todo' = Pid /\ seen' = {} /\ victim' = empty_procinfo
      BY <1>2 DEF Opendir
    <2>2. ReadInv' /\ SeenInv' /\ BestInv' /\ GenuineInv'
      BY <2>1, EmptyType DEF ReadInv, SeenInv, Compared, BestInv, GenuineInv, Reading
    <2> QED
      BY <2>2 DEF ScanInv
  <1> QED
    BY <1>1, <1>2

LEMMA InvStutter ==
    ASSUME ScanInv, UNCHANGED vars PROVE ScanInv'
  <1>1. ReadInv' /\ SeenInv'
    BY DEF vars, ScanInv, ReadInv, SeenInv, Compared, Eligible, Info
  <1>2. BestInv' /\ GenuineInv'
    BY DEF vars, ScanInv, BestInv, GenuineInv, Uniform, Eligible, Info
  <1>3. TypeOK'
    BY DEF vars, ScanInv, TypeOK
  <1> QED
    BY <1>1, <1>2, <1>3 DEF ScanInv

\* The invariant of the lazy scan that the theorems below rest on.
THEOREM ScanInvariant == Spec => []ScanInv
  <1>1. Init => ScanInv
    <2>1. ASSUME Init PROVE ReadInv /\ SeenInv /\ BestInv /\ GenuineInv
      BY <2>1, EmptyType
         DEF Init, ReadInv, SeenInv, Compared, BestInv, GenuineInv, Reading
    <2> QED
      BY <2>1, InitType DEF ScanInv
  <1>2. ScanInv /\ [Next]_vars => ScanInv'
    <2> SUFFICES ASSUME ScanInv, [Next]_vars PROVE ScanInv'
      OBVIOUS
    <2>1. TypeOK'
      BY TypeStep DEF ScanInv
    <2> QED
      BY <2>1, InvChange, InvReaddir, InvUid, InvStat, InvOomScore, InvComm, InvCompare,
         InvAdj, InvDirectory, InvStutter DEF Next, Step
  <1> QED
    BY <1>1, <1>2, PTL DEF Spec

\* However the directory is ordered and whatever changes during the scan, the
\* victim is at least as large as every process that may be killed and stood
\* still.
THEOREM LargestIsFound == Spec => []LargestStable
  <1>1. ScanInv => LargestStable
    <2> SUFFICES ASSUME ScanInv, pc = "done", victim.pid # 0, Uniform,
                        NEW p \in Pid \ changed, Eligible(p)
                 PROVE  victim.pid \in Pid /\ ~Larger(args, Info(p), victim)
      BY DEF LargestStable
    <2>1. Info(p) \in seen
      BY DEF ScanInv, SeenInv, Compared, Reading
    <2> QED
      BY <2>1, EmptyType DEF ScanInv, BestInv
  <1> QED
    BY <1>1, ScanInvariant, PTL

\* The values of a victim that stood still are its own, read from one and the
\* same process, and it passed every filter.
THEOREM VictimIsGenuine == Spec => []VictimGenuine
  <1>1. ScanInv => VictimGenuine
    BY DEF ScanInv, GenuineInv, VictimGenuine
  <1> QED
    BY <1>1, ScanInvariant, PTL
=============================================================================
