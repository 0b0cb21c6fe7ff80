-------------------------- MODULE PollTimerProofs ---------------------------
(***************************************************************************)
(* Proofs about PollTimer: for all limits, amounts of memory and swap,     *)
(* report intervals, tick lengths and times.                               *)
(***************************************************************************)
EXTENDS PollTimer, SequenceTheorems, TLAPS

USE DEF min_sleep, max_sleep, mem_fill_rate, swap_fill_rate

----------------------------------------------------------------------------
(* Lemmas about amounts.                                                   *)

LEMMA AboveType ==
    ASSUME NEW a \in Amount
    PROVE  /\ mem_above(a) \in Int /\ swap_above(a) \in Int
           /\ a.MemAvailableKiB \in Nat /\ a.AnonPagesKiB \in Nat /\ a.SwapFreeKiB \in Nat
  BY LimitsAssumption, PollTimerAssumption
     DEF Amount, mem_above, swap_above, UserMemTotalKiB

\* A sleep of ms milliseconds, e of them over: it is no longer than the times to
\* fill memory and swap together, and what is left of either time is covered by
\* what is above the SIGTERM limit (in KiB / 100) at the fill rate.
Covered(ms, e, a) ==
    \E tm, ts \in Nat :
        /\ ms <= tm + ts
        /\ tm > e => 600000 * (tm - e) <= mem_above(a)
        /\ ts > e => 80000 * (ts - e) <= swap_above(a)

\* A sleep longer than the shortest one is covered when it begins.
LEMMA SleepCovered ==
    ASSUME NEW a \in Amount
    PROVE  /\ sleep_time_ms(a) \in Int
           /\ 100 <= sleep_time_ms(a) /\ sleep_time_ms(a) <= 1000
           /\ sleep_time_ms(a) <= 100 \/ Covered(sleep_time_ms(a), 0, a)
           /\ low(a) => sleep_time_ms(a) = 100
  <1> DEFINE m == headroom_kib(mem_above(a)) \div mem_fill_rate
             s == headroom_kib(swap_above(a)) \div swap_fill_rate
             ms == sleep_time_ms(a)
  <1>1. m \in Nat /\ (m > 0 => 600000 * m <= mem_above(a))
    BY SMT, AboveType DEF headroom_kib
  <1>2. s \in Nat /\ (s > 0 => 80000 * s <= swap_above(a))
    BY SMT, AboveType DEF headroom_kib
  <1>3. ms = Clamp(m + s)
    BY DEF sleep_time_ms
  <1>4. low(a) => m = 0 /\ s = 0
    BY SMT, AboveType DEF low, headroom_kib
  <1> HIDE DEF m, s, ms
  <1>5. /\ ms \in Int /\ 100 <= ms /\ ms <= 1000
        /\ ms <= 100 \/ ms <= m + s
        /\ low(a) => ms = 100
    BY ONLY SMT, <1>1, <1>2, <1>3, <1>4 DEF Clamp, min_sleep, max_sleep
  <1>6. ms <= m + s => Covered(ms, 0, a)
    <2> SUFFICES ASSUME ms <= m + s PROVE Covered(ms, 0, a)
      OBVIOUS
    <2>1. /\ m > 0 => 600000 * (m - 0) <= mem_above(a)
          /\ s > 0 => 80000 * (s - 0) <= swap_above(a)
      BY ONLY SMT, <1>1, <1>2
    <2> QED
      BY SMT, <1>1, <1>2, <2>1 DEF Covered
  <1> QED
    BY <1>5, <1>6 DEF ms

\* While the workload runs for d milliseconds, at whatever it does, neither
\* memory nor swap falls faster than at its rate.
LEMMA WorkloadRate ==
    ASSUME mem \in Amount, NEW d \in Nat, NEW a \in Workload(d)
    PROVE  /\ a \in Amount
           /\ mem_above(a) >= mem_above(mem) - 600000 * d
           /\ swap_above(a) >= swap_above(mem) - 80000 * d
  <1> DEFINE M == mem.MemAvailableKiB
             S == mem.SwapFreeKiB
             X == Taken(mem_fill_rate, d, M)
             Y == Taken(swap_fill_rate, d, S)
  <1>1. \/ \E x \in X, y \in Y : a = Filled(x, y)
        \/ a \in Amounts /\ mem_above(a) >= mem_above(mem) /\ swap_above(a) >= swap_above(mem)
    BY DEF Workload
  <1>2. /\ mem_above(mem) \in Int /\ swap_above(mem) \in Int
        /\ M \in Nat /\ mem.AnonPagesKiB \in Nat /\ S \in Nat
        /\ S <= SwapTotalKiB
    BY AboveType, PollTimerAssumption DEF Amount
  <1>3. ASSUME NEW x \in X, NEW y \in Y, a = Filled(x, y)
        PROVE  /\ a \in Amount
               /\ mem_above(a) >= mem_above(mem) - 600000 * d
               /\ swap_above(a) >= swap_above(mem) - 80000 * d
    <2>1. x \in Nat /\ x <= M /\ x <= 6000 * d
      BY <1>2 DEF Taken
    <2>2. y \in Nat /\ y <= S /\ y <= 800 * d
      BY <1>2 DEF Taken
    <2>3. /\ a \in Amount
          /\ a.MemAvailableKiB = M - x /\ a.SwapFreeKiB = S - y
          /\ a.AnonPagesKiB = mem.AnonPagesKiB \/ a.AnonPagesKiB = mem.AnonPagesKiB + x
      <3> DEFINE anon == IF kernel THEN mem.AnonPagesKiB ELSE mem.AnonPagesKiB + x
      <3>1. /\ anon \in Nat /\ M - x \in Nat /\ S - y \in 0 .. SwapTotalKiB
            /\ anon = mem.AnonPagesKiB \/ anon = mem.AnonPagesKiB + x
        BY <1>2, <2>1, <2>2, PollTimerAssumption
      <3>2. a = [mem EXCEPT !.MemAvailableKiB = M - x, !.AnonPagesKiB = anon,
                            !.SwapFreeKiB = S - y]
        BY <1>3 DEF Filled
      <3> HIDE DEF anon, M, S, X, Y
      <3> QED
        BY ONLY <3>1, <3>2, mem \in Amount DEF Amount
    <2> HIDE DEF M, S, X, Y
    <2>4. mem_above(a) >= mem_above(mem) - 100 * x
      <3> DEFINE p == mem_term_percent
                 t == UserMemTotalKiB(mem)
      <3>1. p \in Nat /\ t \in Int
        BY <1>2, LimitsAssumption DEF UserMemTotalKiB, M
      <3>2. UserMemTotalKiB(a) = t \/ UserMemTotalKiB(a) = t - x
        BY <1>2, <2>1, <2>3 DEF UserMemTotalKiB, M
      <3>3. p * (t - x) = p * t - p * x /\ p * x >= 0 /\ p * t \in Int /\ p * x \in Int
        BY ONLY SMT, <3>1, <2>1
      <3>4. mem_above(mem) = 100 * M - p * t
        BY DEF mem_above, M
      <3>5. \/ mem_above(a) = 100 * (M - x) - p * t
            \/ mem_above(a) = 100 * (M - x) - p * (t - x)
        BY <3>2, <2>3 DEF mem_above
      <3> HIDE DEF p, t
      <3> QED
        BY ONLY SMT, <3>3, <3>4, <3>5, <1>2, <2>1
    <2>5. swap_above(a) = swap_above(mem) - 100 * y
      <3> DEFINE c == swap_term_percent * SwapTotalKiB
      <3>1. c \in Int
        BY LimitsAssumption, PollTimerAssumption
      <3>2. swap_above(a) = 100 * (S - y) - c /\ swap_above(mem) = 100 * S - c
        BY <2>3 DEF swap_above, S
      <3> HIDE DEF c
      <3> QED
        BY ONLY SMT, <1>2, <2>2, <3>1, <3>2
    <2>6. mem_above(a) \in Int /\ swap_above(a) \in Int
      BY <2>3, AboveType
    <2> QED
      BY ONLY SMT, <1>2, <2>1, <2>2, <2>3, <2>4, <2>5, <2>6, d \in Nat
  <1>4. CASE /\ a \in Amounts
             /\ mem_above(a) >= mem_above(mem) /\ swap_above(a) >= swap_above(mem)
    <2>1. a \in Amount
      BY <1>4, PollTimerAssumption
    <2>2. mem_above(a) \in Int /\ swap_above(a) \in Int
      BY <2>1, AboveType
    <2> HIDE DEF M, S, X, Y
    <2> QED
      BY ONLY SMT, <1>2, <1>4, <2>1, <2>2, d \in Nat
  <1> QED
    BY SMT, <1>1, <1>3, <1>4

\* After d more milliseconds the sleep is still covered.
LEMMA CoveredLater ==
    ASSUME NEW a \in Amount, NEW b \in Amount, NEW ms \in Int, NEW e \in Nat, NEW d \in Nat,
           mem_above(b) >= mem_above(a) - 600000 * d,
           swap_above(b) >= swap_above(a) - 80000 * d,
           Covered(ms, e, a)
    PROVE  Covered(ms, e + d, b)
  <1>1. PICK tm \in Nat, ts \in Nat : /\ ms <= tm + ts
                                      /\ tm > e => 600000 * (tm - e) <= mem_above(a)
                                      /\ ts > e => 80000 * (ts - e) <= swap_above(a)
    BY SMT DEF Covered
  <1>2. /\ mem_above(a) \in Int /\ swap_above(a) \in Int
        /\ mem_above(b) \in Int /\ swap_above(b) \in Int
    BY AboveType
  <1>3. PICK f \in Nat : f = e + d
    OBVIOUS
  <1>4. tm > f => 600000 * (tm - f) <= mem_above(b)
    BY SMT, <1>1, <1>2, <1>3
  <1>5. ts > f => 80000 * (ts - f) <= swap_above(b)
    BY SMT, <1>1, <1>2, <1>3
  <1>6. Covered(ms, f, b)
    BY SMT, <1>1, <1>4, <1>5 DEF Covered
  <1> QED
    BY ONLY SMT, <1>3, <1>6

\* When memory is low, at least half of a covered sleep is over.
LEMMA CoveredLow ==
    ASSUME NEW a \in Amount, NEW ms \in Int, NEW e \in Nat, Covered(ms, e, a), low(a)
    PROVE  ms <= 2 * e
  <1>1. PICK tm \in Nat, ts \in Nat : /\ ms <= tm + ts
                                      /\ tm > e => 600000 * (tm - e) <= mem_above(a)
                                      /\ ts > e => 80000 * (ts - e) <= swap_above(a)
    BY SMT DEF Covered
  <1>2. /\ mem_above(a) \in Int /\ swap_above(a) \in Int
        /\ mem_above(a) <= 0 /\ swap_above(a) <= 0
    BY AboveType DEF low
  <1> QED
    BY SMT, <1>1, <1>2

----------------------------------------------------------------------------
(* The inductive invariant.                                                *)

TypeInv ==
    /\ now \in Nat /\ mem \in Amount /\ args \in OptionType
    /\ pc \in {"poll", "select", "kill", "sleep", "nap"}
    /\ sleep_ms \in 0 .. max_sleep /\ left \in Nat
    /\ report_countdown_ms \in Int
    /\ prev_notify \in Nat /\ since \in Nat /\ quiet \in Nat
    /\ helper \in BOOLEAN /\ cut \in Nat
    /\ notes \in Seq(Nat)

\* A sleep is short, or covered for as long as it lasts; the sleep after a kill
\* is a short one.
WakeInv ==
    /\ pc = "sleep" => /\ left <= sleep_ms
                       /\ sleep_ms <= min_sleep \/ Covered(sleep_ms, sleep_ms - left, mem)
    /\ pc = "kill" => sleep_ms = min_sleep

\* prev_notify is the second of the last notification, and no two
\* notifications are in the same second.
NoteInv ==
    /\ Len(notes) <= 3
    /\ \A i \in 1 .. Len(notes) - 1 : notes[i] \div 1000 < notes[i + 1] \div 1000
    /\ Len(notes) > 0 => prev_notify = notes[Len(notes)] \div 1000

\* What has been counted down lies between the time slept without low memory
\* and the time since the last report with what was cut off the sleeps, as long
\* as the int has not wrapped.  Only helpers cut sleeps.
CountInv ==
    LET counted == args.report_interval_ms - report_countdown_ms
        slept   == IF pc = "sleep" THEN sleep_ms - left ELSE 0
    IN /\ pc = "sleep" => left <= sleep_ms
       /\ pc \in {"select", "kill", "nap"} => quiet = 0
       /\ args.report_interval_ms > 0 /\ since + cut <= IntMax =>
            /\ 0 <= counted /\ quiet <= counted + slept /\ counted + slept <= since + cut
            /\ quiet + (IF pc = "sleep" THEN left ELSE 0) <= args.report_interval_ms + max_sleep

CutInv == helper \/ cut > 0 => args.helpers

TimerInv == TypeInv /\ WakeInv /\ NoteInv /\ CountInv /\ CutInv

LEMMA TimerInit == Init => TimerInv
  <1> SUFFICES ASSUME Init PROVE TimerInv
    OBVIOUS
  <1>1. args \in OptionType /\ mem \in Amount
    BY PollTimerAssumption DEF Init
  <1>2. args.report_interval_ms \in 0 .. IntMax
    BY <1>1 DEF OptionType
  <1>3. notes \in Seq(Nat) /\ Len(notes) = 0
    BY DEF Init
  <1>4. TypeInv
    <2>1. helper \in BOOLEAN
      BY DEF Init
    <2>2. /\ now \in Nat /\ sleep_ms \in 0 .. 1000 /\ left \in Nat /\ report_countdown_ms \in Int
          /\ prev_notify \in Nat /\ since \in Nat /\ quiet \in Nat /\ cut \in Nat
          /\ pc = "poll"
      BY SMT, <1>2, PollTimerAssumption DEF Init
    <2> QED
      BY <1>1, <1>3, <2>1, <2>2 DEF TypeInv
  <1>5. WakeInv /\ NoteInv
    BY SMT, <1>3 DEF Init, WakeInv, NoteInv
  <1>6. CountInv
    BY <1>2, PollTimerAssumption DEF Init, CountInv
  <1>7. CutInv
    BY DEF Init, CutInv
  <1> QED
    BY <1>4, <1>5, <1>6, <1>7 DEF TimerInv

----------------------------------------------------------------------------
(* What a step does to time and memory.                                    *)

LEMMA PassEffect ==
    ASSUME TypeInv, NEW d \in Nat, Pass(d)
    PROVE  /\ now' = now + d /\ since' = since + d
           /\ now' \in Nat /\ since' \in Nat /\ mem' \in Amount
           /\ mem_above(mem') >= mem_above(mem) - 600000 * d
           /\ swap_above(mem') >= swap_above(mem) - 80000 * d
  <1>1. mem \in Amount /\ mem' \in Workload(d) /\ now \in Nat /\ since \in Nat
    BY DEF TypeInv, Pass
  <1>2. /\ mem' \in Amount
        /\ mem_above(mem') >= mem_above(mem) - 600000 * d
        /\ swap_above(mem') >= swap_above(mem) - 80000 * d
    BY ONLY SMT, <1>1, WorkloadRate, d \in Nat
  <1> QED
    BY SMT, <1>1, <1>2 DEF Pass

\* A sleep or a nap goes on for at most what is left of it.
LEMMA AsleepEffect ==
    ASSUME TypeInv, Asleep
    PROVE  \E d \in Nat :
             /\ d <= left /\ left' = left - d /\ Pass(d)
             /\ quiet' = IF pc = "sleep" THEN quiet + d ELSE quiet
  <1> DEFINE d == IF left < Tick THEN left ELSE Tick
  <1>1. d \in Nat /\ d <= left
    BY PollTimerAssumption DEF TypeInv
  <1> QED
    BY <1>1 DEF Asleep

\* The loop falls asleep for a time that sleep_time_ms() returned.
LEMMA SleepTimes ==
    ASSUME TypeInv
    PROVE  /\ sleep_time_ms(mem) \in Nat
           /\ 100 <= sleep_time_ms(mem) /\ sleep_time_ms(mem) <= 1000
           /\ sleep_time_ms(mem) <= 100 \/ Covered(sleep_time_ms(mem), 0, mem)
           /\ low(mem) => sleep_time_ms(mem) = 100
  <1>1. mem \in Amount
    BY DEF TypeInv
  <1> QED
    BY ONLY SMT, <1>1, SleepCovered

LEMMA SecondsType == \A t \in Nat : t \div 1000 \in Nat
  OBVIOUS

\* The last notifications, with t added and the oldest of four left out.
Noted(t) == SubSeq(Append(notes, t), IF Len(notes) = 3 THEN 2 ELSE 1, Len(notes) + 1)

LEMMA NotedProperties ==
    ASSUME notes \in Seq(Nat), NEW t \in Nat
    PROVE  LET k == IF Len(notes) = 3 THEN 1 ELSE 0 IN
           /\ Noted(t) \in Seq(Nat) /\ Len(Noted(t)) = Len(notes) + 1 - k
           /\ \A i \in 1 .. Len(notes) - k : Noted(t)[i] = notes[i + k]
           /\ Noted(t)[Len(notes) + 1 - k] = t
  <1> DEFINE n == Len(notes)
             s == Append(notes, t)
             k == IF n = 3 THEN 1 ELSE 0
  <1>1. /\ s \in Seq(Nat) /\ Len(s) = n + 1 /\ s[n + 1] = t
        /\ \A i \in 1 .. n : s[i] = notes[i]
    BY AppendProperties
  <1>2. n \in Nat /\ k \in Nat /\ Noted(t) = SubSeq(s, 1 + k, n + 1)
    BY DEF Noted
  <1> HIDE DEF s, n, k
  <1>3. k <= n
    BY <1>2 DEF k
  <1>4. /\ Noted(t) \in Seq(Nat) /\ Len(Noted(t)) = n + 1 - k
        /\ \A i \in 1 .. n + 1 - k : Noted(t)[i] = s[k + i]
    <2>1. /\ 1 + k \in 1 .. Len(s) + 1 /\ n + 1 \in (1 + k) - 1 .. Len(s)
      BY <1>1, <1>2, <1>3
    <2> QED
      BY <1>1, <1>2, <1>3, <2>1, SubSeqProperties
  <1>5. /\ \A i \in 1 .. n - k : Noted(t)[i] = notes[i + k]
        /\ Noted(t)[n + 1 - k] = t
    BY <1>1, <1>2, <1>3, <1>4
  <1> QED
    BY <1>4, <1>5 DEF k, n

LEMMA TimerTypeStep == ASSUME TypeInv, [Next]_vars PROVE TypeInv'
  <1> USE DEF TypeInv
  <1>1. ASSUME PollEnough PROVE TypeInv'
    <2>1. sleep_time_ms(mem) \in Nat /\ sleep_time_ms(mem) <= 1000 /\ args.report_interval_ms \in Int
      BY SMT, SleepTimes DEF OptionType
    <2>2. report_countdown_ms' \in Int /\ since' \in Nat /\ quiet' \in Nat /\ cut' \in Nat
      BY <1>1, <2>1 DEF PollEnough, reports
    <2>3. sleep_ms' \in 0 .. 1000 /\ left' \in Nat /\ pc' = "sleep"
      <3>1. FallAsleep(sleep_time_ms(mem))
        BY <1>1 DEF PollEnough
      <3> QED
        BY ONLY <2>1, <3>1 DEF FallAsleep
    <2>4. /\ now' = now /\ mem' = mem /\ args' = args /\ prev_notify' = prev_notify
          /\ notes' = notes /\ helper' = helper
      BY <1>1 DEF PollEnough, clock, const, dry
    <2> QED
      BY <2>2, <2>3, <2>4
  <1>2. ASSUME PollKernelOom PROVE TypeInv'
    BY <1>2 DEF PollKernelOom, clock, const, dry
  <1>3. ASSUME PollLow PROVE TypeInv'
    BY <1>3 DEF PollLow, clock, const, timer, dry
  <1>4. ASSUME Recheck PROVE TypeInv'
    <2>1. sleep_time_ms(mem) \in Nat /\ sleep_time_ms(mem) <= 1000
      BY SMT, SleepTimes
    <2>2. sleep_ms' \in 0 .. 1000 /\ left' \in Nat /\ pc' \in {"kill", "sleep"}
      <3>1. \/ pc' = "kill" /\ sleep_ms' = sleep_time_ms(mem) /\ left' = left
            \/ pc' = "sleep" /\ sleep_ms' = sleep_time_ms(mem) /\ left' = sleep_time_ms(mem)
        BY <1>4 DEF Recheck, FallAsleep
      <3>2. left \in Nat
        OBVIOUS
      <3> QED
        BY ONLY <2>1, <3>1, <3>2
    <2>3. /\ now' = now /\ mem' = mem /\ args' = args /\ prev_notify' = prev_notify
          /\ notes' = notes /\ report_countdown_ms' = report_countdown_ms
          /\ since' = since /\ quiet' = quiet /\ cut' = cut /\ helper' = helper
      BY <1>4 DEF Recheck, clock, const, dry, reports
    <2> QED
      BY <2>2, <2>3
  <1>5. ASSUME KillDone PROVE TypeInv'
    <2>1. PICK d \in {0, Tick} : Pass(d)
      BY <1>5 DEF KillDone
    <2>2. now' \in Nat /\ since' \in Nat /\ mem' \in Amount
      BY SMT, <2>1, PassEffect, PollTimerAssumption
    <2>3. prev_notify' \in Nat /\ notes' \in Seq(Nat)
      <3>1. CASE notes' = Noted(now') /\ prev_notify' = now' \div 1000
        <4>1. notes \in Seq(Nat)
          OBVIOUS
        <4>2. Noted(now') \in Seq(Nat)
          BY ONLY <2>2, <4>1, NotedProperties
        <4>3. now' \div 1000 \in Nat
          <5> DEFINE t == now'
          <5>1. t \in Nat
            BY ONLY <2>2
          <5> HIDE DEF t
          <5>2. t \div 1000 \in Nat
            BY ONLY <5>1
          <5> QED
            BY ONLY <5>2 DEF t
        <4> QED
          BY ONLY Zenon, <3>1, <4>2, <4>3
      <3>2. CASE UNCHANGED dry
        BY <3>2 DEF dry
      <3> QED
        BY <1>5, <3>1, <3>2 DEF KillDone, Notify, Noted
    <2> QED
      BY <1>5, <2>2, <2>3 DEF KillDone, FallAsleep, const
  <1>6. ASSUME WakeUp PROVE TypeInv'
    <2>1. report_countdown_ms' \in Int /\ cut' \in Nat /\ left' \in Nat /\ pc' = "poll"
      BY SMT, <1>6, PollTimerAssumption DEF WakeUp, Wrap
    <2>2. helper' \in BOOLEAN
      BY <1>6 DEF WakeUp
    <2> QED
      BY <1>6, <2>1, <2>2 DEF WakeUp, clock, const, dry
  <1>7. ASSUME NapDone PROVE TypeInv'
    BY <1>7 DEF NapDone, clock, const, reports, dry
  <1>8. ASSUME Asleep PROVE TypeInv'
    <2>1. PICK d \in Nat : /\ d <= left /\ left' = left - d /\ Pass(d)
                           /\ quiet' = IF pc = "sleep" THEN quiet + d ELSE quiet
      BY <1>8, AsleepEffect
    <2>2. now' \in Nat /\ since' \in Nat /\ mem' \in Amount
      BY SMT, <2>1, PassEffect
    <2> QED
      BY <1>8, <2>1, <2>2 DEF Asleep, const, dry
  <1>9. ASSUME UNCHANGED vars PROVE TypeInv'
    BY <1>9 DEF vars, clock, const, timer, reports, dry
  <1> QED
    BY <1>1, <1>2, <1>3, <1>4, <1>5, <1>6, <1>7, <1>8, <1>9 DEF Next, PollLoop, Horizon

----------------------------------------------------------------------------
(* The sleep is covered.                                                   *)

\* Falling asleep by the reading of this moment.
LEMMA CoveredSleep ==
    ASSUME TypeInv, mem' = mem, FallAsleep(sleep_time_ms(mem)) PROVE WakeInv'
  <1> DEFINE ms == sleep_time_ms(mem)
  <1>1. ms \in Nat /\ (ms <= 100 \/ Covered(ms, 0, mem))
    BY ONLY SMT, SleepTimes, TypeInv
  <1>2. left' = ms /\ sleep_ms' = ms /\ pc' = "sleep"
    BY DEF FallAsleep
  <1> HIDE DEF ms
  <1>3. left' <= sleep_ms' /\ sleep_ms' - left' = 0
    BY ONLY SMT, <1>1, <1>2
  <1>4. sleep_ms' <= 100 \/ Covered(sleep_ms', sleep_ms' - left', mem')
    BY <1>1, <1>2, <1>3
  <1> QED
    BY <1>2, <1>3, <1>4 DEF WakeInv

LEMMA WakeStep == ASSUME TypeInv, WakeInv, [Next]_vars PROVE WakeInv'
  <1>1. ASSUME PollEnough PROVE WakeInv'
    <2>1. mem' = mem /\ FallAsleep(sleep_time_ms(mem))
      BY <1>1 DEF PollEnough, clock
    <2> QED
      BY ONLY SMT, <2>1, CoveredSleep, TypeInv
  <1>2. ASSUME PollKernelOom \/ PollLow \/ WakeUp \/ NapDone PROVE WakeInv'
    <2>1. pc' \notin {"sleep", "kill"}
      BY <1>2 DEF PollKernelOom, PollLow, WakeUp, NapDone
    <2> QED
      BY ONLY SMT, <2>1 DEF WakeInv
  <1>3. ASSUME Recheck PROVE WakeInv'
    <2>1. mem' = mem
      BY <1>3 DEF Recheck, clock
    <2>2. CASE low(mem)
      <3>1. pc' = "kill" /\ sleep_ms' = sleep_time_ms(mem)
        BY <1>3, <2>2 DEF Recheck
      <3>2. sleep_time_ms(mem) = 100
        BY ONLY SMT, TypeInv, <2>2, SleepTimes
      <3> QED
        BY ONLY SMT, <3>1, <3>2 DEF WakeInv
    <2>3. CASE ~low(mem)
      <3>1. FallAsleep(sleep_time_ms(mem))
        BY <1>3, <2>3 DEF Recheck
      <3> QED
        BY ONLY SMT, <2>1, <3>1, CoveredSleep, TypeInv
    <2> QED
      BY ONLY <2>2, <2>3
  <1>4. ASSUME KillDone PROVE WakeInv'
    <2>1. pc = "kill" /\ left' = sleep_ms /\ sleep_ms' = sleep_ms /\ pc' = "sleep"
      BY <1>4 DEF KillDone, FallAsleep
    <2>2. sleep_ms = 100
      BY ONLY SMT, <2>1, WakeInv DEF WakeInv
    <2> QED
      BY ONLY SMT, <2>1, <2>2 DEF WakeInv
  <1>5. ASSUME Asleep PROVE WakeInv'
    <2>1. pc \in {"sleep", "nap"} /\ pc' = pc /\ sleep_ms' = sleep_ms
      BY <1>5 DEF Asleep
    <2>2. PICK d \in Nat : d <= left /\ left' = left - d /\ Pass(d)
      BY <1>5, AsleepEffect
    <2>3. /\ mem \in Amount /\ mem' \in Amount
          /\ mem_above(mem') >= mem_above(mem) - 600000 * d
          /\ swap_above(mem') >= swap_above(mem) - 80000 * d
      BY ONLY SMT, <2>2, PassEffect, TypeInv, d \in Nat DEF TypeInv
    <2>4. left \in Nat /\ sleep_ms \in Nat
      BY DEF TypeInv
    <2>5. CASE pc = "sleep"
      <3> DEFINE e == sleep_ms - left
      <3>1. left <= sleep_ms /\ (sleep_ms <= 100 \/ Covered(sleep_ms, e, mem))
        BY <2>5 DEF WakeInv
      <3>2. e \in Nat /\ left' <= sleep_ms /\ sleep_ms - left' = e + d /\ sleep_ms \in Int
        BY ONLY SMT, <2>2, <2>4, <3>1, d \in Nat
      <3> HIDE DEF e
      <3>3. sleep_ms <= 100 \/ Covered(sleep_ms, e + d, mem')
        BY ONLY SMT, <2>3, <3>1, <3>2, CoveredLater, d \in Nat
      <3> QED
        BY <2>1, <2>5, <3>2, <3>3 DEF WakeInv
    <2>6. CASE pc # "sleep"
      BY <2>1, <2>6 DEF WakeInv
    <2> QED
      BY <2>5, <2>6
  <1>6. ASSUME UNCHANGED vars PROVE WakeInv'
    <2>1. pc' = pc /\ left' = left /\ sleep_ms' = sleep_ms /\ mem' = mem
      BY <1>6 DEF vars, timer, clock
    <2> QED
      BY <2>1 DEF WakeInv
  <1> QED
    BY <1>1, <1>2, <1>3, <1>4, <1>5, <1>6 DEF Next, PollLoop, Horizon

----------------------------------------------------------------------------
(* Notifications.                                                          *)

LEMMA NoteStep == ASSUME TypeInv, TypeInv', NoteInv, [Next]_vars PROVE NoteInv'
  <1>1. ASSUME notes' = Noted(now'), prev_notify' = now' \div 1000, ~TooSoon
        PROVE  NoteInv'
    <2> DEFINE t == now'
               n == Len(notes)
               k == IF n = 3 THEN 1 ELSE 0
               q == notes'
    <2>1. t \in Nat /\ notes \in Seq(Nat) /\ n \in Nat /\ n <= 3 /\ k \in {0, 1} /\ k <= n
      <3>1. now' \in Nat /\ notes \in Seq(Nat)
        BY DEF TypeInv
      <3>2. Len(notes) <= 3
        BY DEF NoteInv
      <3>3. n \in Nat
        BY ONLY <3>1
      <3>4. t \in Nat
        BY ONLY <3>1
      <3> HIDE DEF n, t
      <3>5. k \in {0, 1} /\ k <= n
        BY ONLY <3>3
      <3> QED
        BY <3>1, <3>2, <3>3, <3>4, <3>5 DEF n
    <2>2. /\ q \in Seq(Nat) /\ Len(q) = n + 1 - k
          /\ \A i \in 1 .. n - k : q[i] = notes[i + k]
          /\ q[n + 1 - k] = t
      BY <1>1, <2>1, NotedProperties
    <2>3. n > 0 => notes[n] \div 1000 < t \div 1000 /\ notes[n] \in Nat
      <3>1. t \div 1000 - prev_notify >= 1
        <4>1. prev_notify \in Nat /\ ~(t \div 1000 - prev_notify < 1)
          BY <1>1 DEF TooSoon, TypeInv
        <4> HIDE DEF t
        <4> QED
          BY ONLY <2>1, <4>1
      <3> QED
        BY <2>1, <3>1 DEF NoteInv
    <2>4. \A i \in 1 .. n - 1 : notes[i] \div 1000 < notes[i + 1] \div 1000
      BY DEF NoteInv
    <2>5. prev_notify' = t \div 1000
      BY <1>1
    <2> HIDE DEF t, n, k, q
    <2>6. Len(q) <= 3
      BY <2>1, <2>2 DEF k
    <2>7. ASSUME NEW i \in 1 .. Len(q) - 1 PROVE q[i] \div 1000 < q[i + 1] \div 1000
      <3>1. CASE i = n - k
        BY <2>1, <2>2, <2>3, <3>1
      <3>2. CASE i < n - k
        <4>1. q[i] = notes[i + k] /\ q[i + 1] = notes[i + k + 1] /\ i + k \in 1 .. n - 1
          BY <2>1, <2>2, <3>2
        <4> QED
          BY <2>4, <4>1
      <3> QED
        BY <2>1, <2>2, <3>1, <3>2
    <2>8. prev_notify' = q[Len(q)] \div 1000
      BY <2>2, <2>5
    <2> QED
      BY <2>6, <2>7, <2>8 DEF NoteInv, q
  <1>2. ASSUME UNCHANGED dry PROVE NoteInv'
    BY <1>2 DEF dry, NoteInv
  <1>3. \/ UNCHANGED dry
        \/ notes' = Noted(now') /\ prev_notify' = now' \div 1000 /\ ~TooSoon
    <2>1. CASE KillDone
      BY <2>1 DEF KillDone, Notify, Noted
    <2> QED
      BY <2>1 DEF Next, PollLoop, PollEnough, PollKernelOom, PollLow, Recheck, WakeUp, NapDone,
                  Asleep, Horizon, vars
  <1> QED
    BY <1>1, <1>2, <1>3

----------------------------------------------------------------------------
(* Reports.                                                                *)

LEMMA CountTypes ==
    ASSUME TypeInv
    PROVE  /\ args.report_interval_ms \in Nat /\ args.report_interval_ms <= IntMax
           /\ IntMax \in Nat /\ report_countdown_ms \in Int
           /\ sleep_ms \in Nat /\ sleep_ms <= 1000 /\ left \in Nat
           /\ since \in Nat /\ quiet \in Nat /\ cut \in Nat
  BY PollTimerAssumption DEF TypeInv, OptionType

LEMMA CountStep == ASSUME TypeInv, CountInv, [Next]_vars PROVE CountInv'
  <1> DEFINE ms == sleep_time_ms(mem)
  <1>1. ASSUME PollEnough PROVE CountInv'
    <2>1. pc = "poll" /\ pc' = "sleep" /\ args' = args /\ sleep_ms' = ms /\ left' = ms
      BY <1>1 DEF PollEnough, FallAsleep, const
    <2>2. ms \in Nat /\ ms <= 1000
      BY ONLY SMT, TypeInv, SleepTimes
    <2>3. \/ /\ report_countdown_ms' = args.report_interval_ms
             /\ since' = 0 /\ quiet' = 0 /\ cut' = 0
          \/ /\ args.report_interval_ms = 0 \/ ~(report_countdown_ms <= 0)
             /\ report_countdown_ms' = report_countdown_ms
             /\ since' = since /\ quiet' = quiet /\ cut' = cut
      BY <1>1 DEF PollEnough, reports
    <2> HIDE DEF ms
    <2> QED
      BY ONLY SMT, CountTypes, TypeInv, CountInv, <2>1, <2>2, <2>3 DEF CountInv
  <1>2. ASSUME PollKernelOom \/ PollLow PROVE CountInv'
    <2>1. /\ pc = "poll" /\ pc' \in {"nap", "select"} /\ args' = args
          /\ report_countdown_ms' = report_countdown_ms /\ since' = since /\ quiet' = 0
          /\ cut' = cut
      BY <1>2 DEF PollKernelOom, PollLow, const
    <2> QED
      BY ONLY SMT, CountTypes, TypeInv, CountInv, <2>1 DEF CountInv
  <1>3. ASSUME Recheck PROVE CountInv'
    <2>1. /\ pc = "select" /\ args' = args
          /\ report_countdown_ms' = report_countdown_ms /\ since' = since /\ quiet' = quiet
          /\ cut' = cut
          /\ pc' = "kill" \/ (pc' = "sleep" /\ sleep_ms' = ms /\ left' = ms)
      BY <1>3 DEF Recheck, FallAsleep, const, reports
    <2>2. ms \in Nat /\ ms <= 1000
      BY ONLY SMT, TypeInv, SleepTimes
    <2> HIDE DEF ms
    <2> QED
      BY ONLY SMT, CountTypes, TypeInv, CountInv, <2>1, <2>2 DEF CountInv
  <1>4. ASSUME KillDone PROVE CountInv'
    <2>1. /\ pc = "kill" /\ args' = args /\ pc' = "sleep"
          /\ sleep_ms' = sleep_ms /\ left' = sleep_ms
          /\ report_countdown_ms' = report_countdown_ms /\ quiet' = quiet /\ cut' = cut
      BY <1>4 DEF KillDone, FallAsleep, const
    <2>2. PICK d \in {0, Tick} : Pass(d)
      BY <1>4 DEF KillDone
    <2>3. d \in Nat /\ since' = since + d
      BY <2>2, PollTimerAssumption DEF Pass
    <2> QED
      BY ONLY SMT, CountTypes, TypeInv, CountInv, <2>1, <2>3 DEF CountInv
  <1>5. ASSUME WakeUp PROVE CountInv'
    <2>1. /\ pc = "sleep" /\ args' = args /\ pc' = "poll"
          /\ since' = since /\ quiet' = quiet /\ cut' = cut + left
          /\ report_countdown_ms' = Wrap(report_countdown_ms - sleep_ms)
      BY <1>5 DEF WakeUp, const
    <2>2. args.report_interval_ms > 0 /\ since + cut' <= IntMax
             => report_countdown_ms' = report_countdown_ms - sleep_ms
      BY ONLY SMT, CountTypes, TypeInv, CountInv, <2>1 DEF CountInv, Wrap
    <2> QED
      BY ONLY SMT, CountTypes, TypeInv, CountInv, <2>1, <2>2 DEF CountInv
  <1>6. ASSUME NapDone PROVE CountInv'
    <2>1. /\ pc = "nap" /\ args' = args /\ pc' = "poll"
          /\ report_countdown_ms' = report_countdown_ms /\ since' = since /\ quiet' = quiet
          /\ cut' = cut
      BY <1>6 DEF NapDone, const, reports
    <2> QED
      BY ONLY SMT, CountTypes, TypeInv, CountInv, <2>1 DEF CountInv
  <1>7. ASSUME Asleep PROVE CountInv'
    <2>1. /\ pc \in {"sleep", "nap"} /\ args' = args /\ pc' = pc /\ sleep_ms' = sleep_ms
          /\ report_countdown_ms' = report_countdown_ms /\ cut' = cut
      BY <1>7 DEF Asleep, const
    <2>2. PICK d \in Nat : /\ d <= left /\ left' = left - d /\ Pass(d)
                           /\ quiet' = IF pc = "sleep" THEN quiet + d ELSE quiet
      BY <1>7, AsleepEffect
    <2>3. since' = since + d
      BY <2>2 DEF Pass
    <2> QED
      BY ONLY SMT, CountTypes, TypeInv, CountInv, <2>1, <2>2, <2>3, d \in Nat DEF CountInv
  <1>8. ASSUME UNCHANGED vars PROVE CountInv'
    BY <1>8 DEF vars, const, timer, reports, CountInv
  <1> QED
    BY <1>1, <1>2, <1>3, <1>4, <1>5, <1>6, <1>7, <1>8 DEF Next, PollLoop, Horizon

LEMMA CutStep == ASSUME TypeInv, CutInv, [Next]_vars PROVE CutInv'
  <1>1. args' = args
    BY DEF Next, PollLoop, PollEnough, PollKernelOom, PollLow, Recheck, KillDone, WakeUp, NapDone,
           Asleep, Horizon, vars, const
  <1>2. CASE WakeUp
    <2>1. helper' => helper
      BY <1>2 DEF WakeUp
    <2>2. cut' > 0 => cut > 0 \/ helper
      <3>1. cut' = cut + left /\ (left = 0 \/ helper) /\ cut \in Nat
        BY <1>2 DEF WakeUp, TypeInv
      <3>2. CASE left = 0
        BY ONLY SMT, <3>1, <3>2
      <3> QED
        BY <3>1, <3>2
    <2> QED
      BY <1>1, <2>1, <2>2 DEF CutInv
  <1>3. CASE ~WakeUp
    <2>1. helper' => helper \/ args.helpers
      BY <1>3 DEF Next, PollLoop, PollEnough, PollKernelOom, PollLow, Recheck, KillDone, NapDone,
                  Asleep, Horizon, vars
    <2>2. cut' = cut \/ cut' = 0
      BY <1>3 DEF Next, PollLoop, PollEnough, PollKernelOom, PollLow, Recheck, KillDone, NapDone,
                  Asleep, Horizon, vars, reports
    <2>3. cut' > 0 => cut > 0
      BY ONLY SMT, <2>2
    <2> QED
      BY <1>1, <2>1, <2>3 DEF CutInv
  <1> QED
    BY <1>2, <1>3

\* The countdown is reset by a report only, and then it is at zero.
LEMMA ReportStep ==
    ASSUME TypeInv, CountInv, [Next]_vars
    PROVE  since' = 0 => since' = since \/ since + cut >= args.report_interval_ms
  <1>1. CASE PollEnough
    <2>1. /\ pc = "poll"
          /\ report_countdown_ms <= 0 \/ since' = since
      BY <1>1 DEF PollEnough, reports
    <2> QED
      BY ONLY SMT, CountTypes, TypeInv, CountInv, <2>1 DEF CountInv
  <1>2. CASE KillDone \/ Asleep
    <2>1. PICK d \in Nat : since' = since + d
      <3>1. CASE KillDone
        BY <3>1, PollTimerAssumption DEF KillDone, Pass
      <3>2. CASE Asleep
        BY <3>2, AsleepEffect DEF Pass
      <3> QED
        BY <1>2, <3>1, <3>2
    <2> QED
      BY ONLY SMT, CountTypes, TypeInv, <2>1, d \in Nat
  <1>3. CASE PollKernelOom \/ PollLow \/ Recheck \/ WakeUp \/ NapDone \/ UNCHANGED vars
    BY <1>3 DEF PollKernelOom, PollLow, Recheck, WakeUp, NapDone, vars, reports
  <1> QED
    BY <1>1, <1>2, <1>3 DEF Next, PollLoop, Horizon

----------------------------------------------------------------------------
(* Theorems.                                                               *)

\* The inductive invariant of poll_loop() against the clock.
THEOREM TimerInvariant == Spec => []TimerInv
  <1>1. TimerInv /\ [Next]_vars => TimerInv'
    <2> SUFFICES ASSUME TimerInv, [Next]_vars PROVE TimerInv'
      OBVIOUS
    <2>1. TypeInv /\ WakeInv /\ NoteInv /\ CountInv /\ CutInv
      BY DEF TimerInv
    <2>2. TypeInv'
      BY <2>1, TimerTypeStep
    <2> QED
      BY <2>1, <2>2, WakeStep, NoteStep, CountStep, CutStep DEF TimerInv
  <1> QED
    BY <1>1, TimerInit, PTL DEF Spec

\* sleep_time_ms() and poll_loop(): at the rates it expects, with memory and swap
\* filling up at once or in any order, memory is never low for longer than
\* min_sleep or half of the sleep before it is read again, for all limits and
\* sizes of memory and swap.
THEOREM LowMemoryIsNoticed == Spec => []NoticesByHalf
  <1>1. TimerInv => NoticesByHalf
    <2> SUFFICES ASSUME TimerInv, pc = "sleep", low(mem)
                 PROVE  left <= 100 \/ 2 * left <= sleep_ms
      BY DEF NoticesByHalf
    <2> DEFINE e == sleep_ms - left
    <2>1. mem \in Amount /\ left \in Nat /\ sleep_ms \in Nat
      BY DEF TimerInv, TypeInv
    <2>2. left <= sleep_ms /\ (sleep_ms <= 100 \/ Covered(sleep_ms, e, mem))
      BY DEF TimerInv, WakeInv
    <2>3. e \in Nat /\ left = sleep_ms - e /\ sleep_ms \in Int
      BY ONLY SMT, <2>1, <2>2
    <2> HIDE DEF e
    <2>4. Covered(sleep_ms, e, mem) => sleep_ms <= 2 * e
      BY <2>1, <2>3, CoveredLow
    <2> QED
      BY ONLY SMT, <2>1, <2>2, <2>3, <2>4
  <1> QED
    BY <1>1, TimerInvariant, PTL

\* notify_process_killed(), "At most 1 notification per second when --dryrun is
\* active": of three in a row the first and the last are more than a second
\* apart, whenever the loop polls and however long the hooks take.
THEOREM NotificationsAreLimited == Spec => []NotifyRate
  <1>1. TimerInv => NotifyRate
    <2> SUFFICES ASSUME TimerInv, Len(notes) = 3 PROVE notes[3] - notes[1] > 1000
      BY DEF NotifyRate
    <2>1. notes[1] \in Nat /\ notes[2] \in Nat /\ notes[3] \in Nat
      <3>1. notes \in Seq(Nat)
        BY DEF TimerInv, TypeInv
      <3>2. 1 \in 1 .. Len(notes) /\ 2 \in 1 .. Len(notes) /\ 3 \in 1 .. Len(notes)
        BY ONLY SMT, Len(notes) = 3
      <3> QED
        BY ONLY <3>1, <3>2, ElementOfSeq
    <2>2. /\ notes[1] \div 1000 < notes[2] \div 1000
          /\ notes[2] \div 1000 < notes[3] \div 1000
      BY DEF TimerInv, NoteInv
    <2> QED
      BY ONLY SMT, <2>1, <2>2
  <1> QED
    BY <1>1, TimerInvariant, PTL

\* poll_loop(), -r: at most the interval and one sleep are slept without a
\* report, and none comes earlier before its interval is over than by what
\* helpers cut off the sleeps, for all intervals an int can hold, as long as the
\* int has not gone through its whole range.
THEOREM ReportsKeepSchedule == Spec => ReportsOnSchedule
  <1>1. TimerInv => (args.report_interval_ms > 0 /\ since + cut <= IntMax
                       => quiet <= args.report_interval_ms + max_sleep)
    <2> SUFFICES ASSUME TimerInv, args.report_interval_ms > 0, since + cut <= IntMax
                 PROVE  quiet <= args.report_interval_ms + 1000
      OBVIOUS
    <2>1. TypeInv /\ CountInv
      BY DEF TimerInv
    <2> QED
      BY SMT, <2>1, CountTypes DEF CountInv
  <1>2. TimerInv => (cut > 0 => args.helpers)
    BY DEF TimerInv, CutInv
  <1>3. TimerInv /\ [Next]_vars
          => [since' = 0 => since' = since \/ since + cut >= args.report_interval_ms]_vars
    BY ReportStep DEF TimerInv
  <1> QED
    BY <1>1, <1>2, <1>3, TimerInvariant, PTL DEF Spec, ReportsOnSchedule
=============================================================================
