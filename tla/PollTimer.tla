------------------------------ MODULE PollTimer -----------------------------
(***************************************************************************)
(* poll_loop() against the clock (main.c): how long it sleeps, whether it  *)
(* can sleep through low memory, when it prints reports, and how often a   *)
(* dry run notifies (notify_process_killed() in kill.c).                   *)
(*                                                                         *)
(* Times are milliseconds, amounts KiB.  Percentages are compared as       *)
(* fractions, without the rounding of doubles.                             *)
(***************************************************************************)
EXTENDS Limits, Sequences

CONSTANTS
    SwapTotalKiB,
    Amounts,   \* memory situations that a run starts from or returns to
    Options,   \* the option records
    Tick,      \* bound: the workload changes its mind at most once per Tick
    Start,     \* when poll_loop() is entered, in ms since boot
    MaxTime,   \* bound: how far the clock runs
    MaxCut,    \* bound: the time cut off the sleeps between two reports
    IntMax     \* bound: the largest int (2147483647 in C)

Amount == [MemAvailableKiB : Nat, AnonPagesKiB : Nat, SwapFreeKiB : 0 .. SwapTotalKiB]
\* helpers: -n, -N or -P was given.
OptionType == [report_interval_ms : 0 .. IntMax, dryrun : BOOLEAN, kernel_oom : BOOLEAN,
               helpers : BOOLEAN]

ASSUME PollTimerAssumption ==
    /\ SwapTotalKiB \in Nat
    /\ Amounts \subseteq Amount
    /\ Options \subseteq OptionType
    /\ Tick \in Nat \ {0} /\ Start \in Nat /\ MaxTime \in Nat
    /\ MaxCut \in Nat /\ IntMax \in Nat

VARIABLES
    now,        \* CLOCK_MONOTONIC
    mem,        \* what /proc/meminfo would show
    kernel,     \* does the workload allocate kernel memory?
    args,       \* poll_loop_args_t
    pc,         \* "poll", "select", "kill", "sleep" or "nap"
    sleep_ms,   \* the length of this sleep, from the last reading
    left,       \* what is left of the sleep or nap
    report_countdown_ms,
    prev_notify,   \* seconds of the last notification of a dry run
    helper,     \* may a helper program be running?
    since,      \* ghost: time since the last report
    cut,        \* ghost: time cut off the sleeps since then
    quiet,      \* ghost: time slept since the last report or low reading
    notes       \* ghost: when the last three notifications were sent

const   == <<args, kernel>>
clock   == <<now, mem>>
timer   == <<sleep_ms, left>>
reports == <<report_countdown_ms, since, cut, quiet>>
dry     == <<prev_notify, notes>>
vars    == <<const, clock, pc, timer, helper, reports, dry>>

----------------------------------------------------------------------------
(* Amounts.                                                                *)

UserMemTotalKiB(a) == a.MemAvailableKiB + a.AnonPagesKiB

\* 100 * KiB above the SIGTERM limits.
mem_above(a)  == 100 * a.MemAvailableKiB - mem_term_percent * UserMemTotalKiB(a)
swap_above(a) == 100 * a.SwapFreeKiB - swap_term_percent * SwapTotalKiB

\* lowmem_sig() is not 0.  Without swap its percentage is 0.
low(a) == mem_above(a) <= 0 /\ swap_above(a) <= 0

----------------------------------------------------------------------------
(* sleep_time_ms().                                                        *)

mem_fill_rate  == 6000
swap_fill_rate == 800
min_sleep == 100
max_sleep == 1000

headroom_kib(above) == IF above < 0 THEN 0 ELSE above \div 100

Clamp(ms) ==
    IF ms < min_sleep THEN min_sleep ELSE IF ms > max_sleep THEN max_sleep ELSE ms

\* Mutant: the distance to the SIGKILL limits is used.
sleep_time_ms_KillLimits(a) ==
    Clamp(headroom_kib(100 * a.MemAvailableKiB - mem_kill_percent * UserMemTotalKiB(a))
             \div mem_fill_rate
          + headroom_kib(100 * a.SwapFreeKiB - swap_kill_percent * SwapTotalKiB)
             \div swap_fill_rate)

sleep_time_ms(a) ==
    Clamp(headroom_kib(mem_above(a)) \div mem_fill_rate
          + headroom_kib(swap_above(a)) \div swap_fill_rate)

----------------------------------------------------------------------------
(* Time and the workload.                                                  *)

\* What goes from free KiB in d milliseconds: nothing, or as much as the rate allows.
Taken(rate, d, free) == {0, IF rate * d < free THEN rate * d ELSE free}

\* x KiB of memory are taken, as user pages or in the kernel, and y of swap.
Filled(x, y) == [mem EXCEPT !.MemAvailableKiB = @ - x,
                            !.AnonPagesKiB = IF kernel THEN @ ELSE @ + x,
                            !.SwapFreeKiB = @ - y]

\* In d milliseconds a workload takes memory and pushes pages out to swap, each
\* at the rate sleep_time_ms() expects or not at all; or it ends and leaves more
\* of both.
Workload(d) ==
    {Filled(x, y) : x \in Taken(mem_fill_rate, d, mem.MemAvailableKiB),
                    y \in Taken(swap_fill_rate, d, mem.SwapFreeKiB)}
    \cup {a \in Amounts : mem_above(a) >= mem_above(mem) /\ swap_above(a) >= swap_above(mem)}

Pass(d) ==
    /\ now + d <= MaxTime
    /\ now' = now + d
    /\ mem' \in Workload(d)
    /\ since' = since + d

\* Time passes in nanosleep(); it may also end early (WakeUp, NapDone).
Asleep ==
    /\ pc \in {"sleep", "nap"} /\ left > 0
    /\ LET d == IF left < Tick THEN left ELSE Tick IN
       /\ Pass(d)
       /\ left' = left - d
       /\ quiet' = IF pc = "sleep" THEN quiet + d ELSE quiet
    /\ UNCHANGED <<const, pc, sleep_ms, helper, report_countdown_ms, cut, dry>>

\* The end of the time modelled.
Horizon == now + Tick > MaxTime /\ UNCHANGED vars

----------------------------------------------------------------------------
(* poll_loop().                                                            *)

\* An int that falls below its range comes out at the top.
Wrap(n) == IF n < -IntMax - 1 THEN n + 2 * (IntMax + 1) ELSE n

FallAsleep(ms) == sleep_ms' = ms /\ left' = ms /\ pc' = "sleep"

\* Mutant: the interval is added to what is left of the countdown.
PollEnough_CatchesUp ==
    /\ pc = "poll" /\ ~low(mem)
    /\ IF args.report_interval_ms # 0 /\ report_countdown_ms <= 0
       THEN /\ report_countdown_ms' = report_countdown_ms + args.report_interval_ms
            /\ since' = 0 /\ cut' = 0 /\ quiet' = 0
       ELSE UNCHANGED reports
    /\ FallAsleep(sleep_time_ms(mem))
    /\ UNCHANGED <<clock, const, helper, dry>>

\* Enough memory: report, if the time has come, and sleep.
PollEnough ==
    /\ pc = "poll" /\ ~low(mem)
    /\ IF args.report_interval_ms # 0 /\ report_countdown_ms <= 0
       THEN /\ report_countdown_ms' = args.report_interval_ms
            /\ since' = 0 /\ cut' = 0 /\ quiet' = 0
       ELSE UNCHANGED reports
    /\ FallAsleep(sleep_time_ms(mem))
    /\ UNCHANGED <<clock, const, helper, dry>>

\* --kernel-oom: a notification, a nap that the countdown does not see, then a
\* new reading.
PollKernelOom ==
    /\ pc = "poll" /\ low(mem) /\ args.kernel_oom
    /\ quiet' = 0
    /\ helper' = (helper \/ args.helpers)
    /\ left' = 500 /\ pc' = "nap"
    /\ UNCHANGED <<clock, const, sleep_ms, report_countdown_ms, since, cut, dry>>

PollLow ==
    /\ pc = "poll" /\ low(mem) /\ ~args.kernel_oom
    /\ quiet' = 0
    /\ pc' = "select"
    /\ UNCHANGED <<clock, const, timer, helper, report_countdown_ms, since, cut, dry>>

\* The second reading decides on the kill and on the sleep.
Recheck ==
    /\ pc = "select"
    /\ IF low(mem)
       THEN pc' = "kill" /\ sleep_ms' = sleep_time_ms(mem) /\ left' = left
       ELSE FallAsleep(sleep_time_ms(mem))
    /\ UNCHANGED <<clock, const, helper, reports, dry>>

\* NOTIFY_RATELIMIT: whole seconds are compared.
TooSoon == now' \div 1000 - prev_notify < 1

\* Mutant: the time of the notification is not kept.
Notify_NotKept ==
    IF args.dryrun /\ ~TooSoon
    THEN /\ notes' = SubSeq(Append(notes, now'), IF Len(notes) = 3 THEN 2 ELSE 1, Len(notes) + 1)
         /\ prev_notify' = prev_notify
    ELSE UNCHANGED dry

\* notify_process_killed() in a dry run.
Notify ==
    IF args.dryrun /\ ~TooSoon
    THEN /\ notes' = SubSeq(Append(notes, now'), IF Len(notes) = 3 THEN 2 ELSE 1, Len(notes) + 1)
         /\ prev_notify' = now' \div 1000
    ELSE UNCHANGED dry

\* kill_process(): the pre-hook and kill_wait() take some time, then the dry
\* run notifies.  Helpers are left running.  The sleep goes by the reading from
\* before the kill.
KillDone ==
    /\ pc = "kill"
    /\ \E d \in {0, Tick} : Pass(d)
    /\ Notify
    /\ helper' = (helper \/ args.helpers)
    /\ FallAsleep(sleep_ms)
    /\ UNCHANGED <<const, report_countdown_ms, cut, quiet>>

\* The end of the adaptive sleep: its time has passed; or SIGCHLD interrupted it
\* and a second one, after the last helper has ended, leaves ECHILD in errno,
\* with which it is not resumed (module Subprocess).  All of it is counted down.
WakeUp ==
    /\ pc = "sleep" /\ (left = 0 \/ (helper /\ cut + left <= MaxCut))
    /\ cut' = cut + left /\ left' = 0
    /\ helper' = (helper /\ left = 0)
    /\ report_countdown_ms' = Wrap(report_countdown_ms - sleep_ms)
    /\ pc' = "poll"
    /\ UNCHANGED <<clock, const, sleep_ms, since, quiet, dry>>

\* The end of the nap; a helper that ends cuts it short.
NapDone ==
    /\ pc = "nap" /\ (left = 0 \/ helper)
    /\ left' = 0 /\ pc' = "poll"
    /\ UNCHANGED <<clock, const, sleep_ms, helper, reports, dry>>

Init ==
    /\ now = Start
    /\ mem \in Amounts /\ kernel \in BOOLEAN
    /\ args \in Options
    /\ pc = "poll" /\ sleep_ms = 0 /\ left = 0
    /\ report_countdown_ms = 0
    /\ prev_notify = 0 /\ notes = <<>>
    /\ helper = FALSE
    /\ since = args.report_interval_ms /\ cut = 0 /\ quiet = 0

PollLoop == PollEnough \/ PollKernelOom \/ PollLow \/ Recheck \/ KillDone
              \/ WakeUp \/ NapDone

Next == PollLoop \/ Asleep \/ Horizon

Spec == Init /\ [][Next]_vars

----------------------------------------------------------------------------
(* Properties.                                                             *)

\* sleep_time_ms() adds the times to fill memory and swap, so it is too long if
\* both fill up at once.  At the rates it expects it is never more than twice too
\* long: if memory gets low during a sleep, in whatever order or mix memory,
\* kernel memory and swap fill up, the loop wakes within min_sleep, or half of
\* the sleep is already over; also after a kill, when it goes by an old reading.
NoticesByHalf ==
    pc = "sleep" /\ low(mem) => left <= min_sleep \/ 2 * left <= sleep_ms

\* MANPAGE.md, -r: "the actual interval may be up to 1 second longer than the
\* setting", although the countdown runs on while memory is low and is not
\* stopped by -r 0.  It is shorter only by what was cut off the sleeps, which
\* are counted down in full, and only helper programs cut them.  The exception
\* is the width of the int: a countdown that has fallen through its whole range
\* is far from zero again.
ReportsOnSchedule ==
    /\ [](args.report_interval_ms > 0 /\ since + cut <= IntMax
            => quiet <= args.report_interval_ms + max_sleep)
    /\ [](cut > 0 => args.helpers)
    /\ [][since' = 0 => since' = since \/ since + cut >= args.report_interval_ms]_vars

\* kill.c: "At most 1 notification per second when --dryrun is active".  Whole
\* seconds are compared, so two may be close to each other, but of three in a
\* row the first and the last are more than a second apart, at any poll rate.
NotifyRate == Len(notes) = 3 => notes[3] - notes[1] > 1000
=============================================================================
