# A TLA+ model of earlyoom

earlyoom is a daemon that watches available memory and free swap and, when
both fall to a limit, sends SIGTERM or SIGKILL to the largest process.  This
directory holds TLA+ modules translated from its C source, TLC configurations
that check them on small instances, and TLAPS proofs for all instances.

## Inventory

| Part | Code | State | Operations |
|---|---|---|---|
| Poll loop and limits | `main.c` `poll_loop`, `lowmem_sig`, `sleep_time_ms` | limits, last reading, report countdown | read meminfo, decide, re-read, dispatch, report, sleep |
| Startup self-tests | `main.c` `startup_selftests` | options | check the sysrq trigger, dry run with signal 0, check script paths |
| Victim selection | `kill.c` `find_largest_process`, `is_larger` | victim so far, candidate | one directory entry, up to five reads per entry |
| Kill and wait | `kill.c` `kill_process`, `kill_wait`, `kill_release`; `meminfo.c` `is_alive` | target, pidfd, round counter, outcome | signal, escalate, check, time out |
| Kernel OOM trigger | `kill.c` `trigger_kernel_oom` | | check permission, write the trigger |
| Helpers and SIGCHLD | `kill.c` `notify_spawn_subprocess` and callers; `main.c` `handle_sigchld` | signal mask, children, errno, time of the last notification | spawn, poll, reap |
| Command line and start | `main.c` `main`, `set_oom_score_adj`; `msg.c` `parse_term_kill_tuple`, `parse_part` | options, limits, sizes | parse, merge, compile, raise priority, lock memory, exit |
| meminfo reader | `meminfo.c` `parse_meminfo`, `get_entry`, `available_guesstimate` | file handle, warning given | open, read, parse, compute |
| /proc/PID readers | `proc_pid.c`, `meminfo.c` `get_comm`, `get_cmdline`...; `kill.c` `fill_informative_fields` | `procinfo_t` buffers | read, parse, strip |
| UTF-8 repair | `msg.c` `fix_truncated_utf8` | | cut a broken character |
| Logging, service files, packaging | `msg.c`, `*.in` | | output, configuration |

How they interact: `main` parses the options, runs the self-tests and enters
`poll_loop`, which calls the selection and then `kill_process`.  All of this is
one thread.  What makes it hard is the rest of the system:

- the process table changes between any two system calls.  Processes exit, are
  reaped, their pids are reused, main threads die before their threads, group
  members come and go.  earlyoom holds a *number* from the scan to the kill;
- memory moves while the scan and the wait loop run;
- the SIGCHLD handler interrupts the thread anywhere and shares `errno` with it;
- reads of `/proc`, `fork` and `pidfd_open` fail exactly when memory is short.

What each part has to guarantee:

- poll loop: a kill rests on a reading that is low after the victim is known;
- selection: a largest eligible process is returned, never a protected one;
- kill and wait: success is not reported while the victim lives, the wait is
  bounded, the descriptor is not leaked, a dry run harms nobody;
- helpers: no zombie is forgotten, no helper is reaped by the wrong hand, SIGCHLD
  is never left blocked;
- command line: the limits are ordered and not zero, the lower of percentage and
  size counts, and a bad line ends with the documented exit code;
- timing: low memory is noticed before a sleep has gone on for much longer,
  reports and notifications keep their rates;
- readers: the values come from the right line or field whatever a process
  calls itself, and no name or command line ends in half a character.

The hazards in `PROJECT.json` name the lines where each of these could fail.

## Modules

| Module | Models |
|---|---|
| `Limits` | the four percentages and `lowmem_sig` |
| `Victim` | what `/proc` shows of a process; `is_larger` as a function |
| `Earlyoom` | the daemon: self-tests, poll loop, scan, `kill_process`, `kill_wait`, `trigger_kernel_oom`, `is_alive`, against a process table and a memory level |
| `Selection` | `find_largest_process` and `is_larger` read by read |
| `Subprocess` | helpers, SIGCHLD, `errno` |
| `CommandLine` | `main` up to `poll_loop`: options, parsing, merge, regular expressions, priority, what the self-tests take away, exit codes |
| `PollTimer` | `poll_loop` against the clock: `sleep_time_ms`, report countdown, notification limit |
| `ProcFiles` | the text of meminfo, stat, comm and cmdline, and what is made of it |
| `OomKiller` | abstract: the rounds earlyoom promises |
| `EarlyoomRefinement` | `Earlyoom` as an implementation of `OomKiller` |
| `EarlyoomProofs`, `EarlyoomSafety` | theorems about `Earlyoom` |
| `RefinementProofs` | the theorem that `Earlyoom` implements `OomKiller`, and what follows from it |
| `SelectionProofs`, `SubprocessProofs`, `CommandLineProofs`, `PollTimerProofs`, `ProcFilesProofs` | theorems about the module of that name |
| `MCEarlyoom`, `MCSelection`, `MCSubprocess`, `MCCommandLine`, `MCPollTimer`, `MCProcFiles` | instances for TLC |

`Earlyoom` extends `Limits` and `Victim`; `Selection` extends `Victim` too and
looks into the step that `Earlyoom` takes per directory entry.  `ProcFiles`
looks into the reads of `Selection`, `Subprocess` into the helpers that
`Earlyoom` starts, `PollTimer` into its sleeps.

### State and code

`Earlyoom`: `args` is `poll_loop_args_t`; `m`, `sig`, `victim` are the local
variables of `poll_loop`; `pid`, `pidfd`, `i` those of `kill_wait`; `err` is
its result together with the errno it leaves.  `pc` names the place in the
code.  `proc` and `mem` are the kernel's.  Each pid carries an incarnation
number, so that "the same number, another process" can be told; `vinc` and
`hit` are ghosts that record the incarnation of the victim and the
`<<pid, incarnation>>` pairs signalled in this round.  `kill(2)` is modelled with its
special targets: `t > 0` a process, `t < -1` a group, `0` the caller's group,
`-1` everybody but init and the caller.

One step is a stretch of code with at most one system call whose result
depends on the environment; environment steps interleave everywhere.
`ReadMeminfo` clears `hit`, as a new round begins.

`Selection`: `pc` is the next file to read; `seen` and `changed` are ghosts:
the candidates that were compared, and the pids that changed since `opendir`.
A regular expression is reduced to whether it matches the process.

`Subprocess`: `blocked`, `pending` and `handler` are the signal's state; the
daemon's own steps require that the handler is not running.  `get_entry` is
three steps because the handler can run between `errno = 0`, `strtoll` and the
test.  So is the way out of the adaptive sleep: a signal ends `nanosleep` with
EINTR (`Interrupted`), `errno` is tested (`Resume`), and in between the handler of
a second signal may replace it by ECHILD.

`KillWait` of `Subprocess` is `Earlyoom`'s whole wait loop, reduced to its
result; `rested` and `sigs` are ghosts: an adaptive sleep has run to its end
since, and how many signals (up to two) were delivered in the present one.

`CommandLine`: `argv` is the command line as far as `getopt_long` has gone, one
item per option with its argument; `limits`, `size` and `have` are the local
variables of `main`, `flags` and `text` the members of `poll_loop_args_t` that
the other options set.  Numbers are fixed-point with two decimals, NaN is a
value that compares false with everything.  Parts of the argument text are
values, not strings; all text that is refused is `Bad`.  A size becomes a
percentage by division rounded up, so that, as with doubles, only zero bytes
are zero percent.  `startup_selftests` works on the same structure before
`poll_loop` gets it: it drops `--kernel-oom` when the trigger cannot be written,
and a `-N` or `-P` whose path is relative (the arguments in `Relative`).

`PollTimer`: time in milliseconds, amounts in KiB, both as in the code;
percentages are compared by cross-multiplication, without the rounding of
doubles.  The workload allocates user or kernel memory and fills swap, one or
both at once, each at the rate `sleep_time_ms` is written for, or frees some,
and changes its mind every `Tick`.  While a `helper` may be running a sleep can end
early, the way `Subprocess` shows, and the countdown still takes all of it.
`since`, `cut`, `quiet` and `notes` are ghosts.

`ProcFiles`: a byte is a number below 256 and a decimal number one token above,
so that brackets, spaces and bytes of a character are what they are and digits
are not spelled out.  `buf` is `name[]` with `cmdline[]` right behind it, as in
`procinfo_t`, so that the write to `out[n - 1]` with `n = 0` lands where it
lands in memory.  A process (`Process`) has a name and a command line in UTF-8,
which is a predicate on bytes, and as many numbers in `stat` as the kernel
prints; it may end between any two reads.  `sscanf` is modelled by the words of
the text: the k-th number is the k-th byte that is not a space.  A line of
meminfo has its label in words, so that `SwapCached` ends with `Cached`.  meminfo
and the files of a process start from separate initial states, as they share
nothing.

### Refinement

`OomKiller` knows no system calls: a round is *watch*, *select* (low memory was
seen), *armed* (it was seen again with the victim known), *wait* and *done*, or
goes to the kernel.  Its processes come and go at will.  What it forbids is to
strike without the second look, to turn SIGTERM into SIGKILL above the SIGKILL
limits, to leave *wait* with outcome *over* while someone struck is alive, and
to end a round any other way.  `EarlyoomRefinement` maps `pc` and `sig` to the
phase, `hit` to `struck`, running processes with their incarnation to `live`,
`lowmem_sig` of the current memory to `level`, and the `err` of `kill_wait` to
`outcome`.  The self-test with signal 0 stays in *watch*.

Mutants, operators such as `Loop_OffByOne` next to the definition they change,
are the plausible errors that show that each property can fail.

## Runs

Passing:

| Run | Checks | Instance |
|---|---|---|
| `KillSingle` | types; only a timeout leaves survivors; protected processes; dry run; the pidfd neither leaked nor closed too early; the refinement `RoundsKept`, which has the second reading | one pid besides earlyoom, two incarnations, four sorts of process, three option sets, two rounds of the wait loop |
| `KillFaults` | protected processes; dry run | failing reads of `/proc`, `--kernel-oom`, an earlyoom that is the largest process |
| `KillLive` | only a timeout leaves survivors, with and without `-g`; `kill_wait` returns; pressure is relieved; the refinement with groups | fairness; a process that survives SIGTERM and another one, in its group or not |
| `Scan` | types; a largest process; true values | four pids in any order, six sorts of process, four option sets |
| `Helpers` | types; zombies remembered and reaped; own child; balance; a rest between kills, unless two signals hit one sleep | fairness; three helpers, all options |
| `CommandLine` | order, zero, lower value; options as given, less what the self-tests take away; exit codes | all lines of up to three items of every option, with valid, boundary and bad values, with and without swap |
| `Timer` | low memory noticed by half of a sleep; report interval; notification rate | 1.6 s, 9 GB of memory and 400 MB of swap filling one by one or together, a workload that decides every 100 ms, sleeps cut by helpers |
| `Text` | meminfo; stat fields; name; command line | 65 meminfo files, 22 fields of stat or too few, all names of up to four and command lines of up to five characters of one to four bytes, brackets and spaces, a process ending in between |

Violations, each a statement of the documentation that the code does not keep
(the finding in `PROJECT.json` quotes it):

| Run | Statement | What happens |
|---|---|---|
| `RssAvoid` | `--avoid` | with `--sort-by-rss` the rss of the avoided process turns negative, which switches the comparison to the unadjusted oom_score |
| `ErrnoFatal` | never exits on its own | ECHILD left in `errno` by the SIGCHLD handler looks like a bad number |
| `NapCut` | the kernel's OOM killer is given time | the end of earlyoom's own dbus-send interrupts the nap |
| `GroupAll` | `-g` kills the victim's group | a victim in group 1 makes it `kill(-1)` |

### Noted while modelling

Behaviour that follows from the models and that a reader of the documentation
may not expect; no run is spent on it:

- `poll_loop` sends the signal of its first reading; the second one only
  decides whether to go on (`main.c:572`), so SIGKILL may be sent when memory
  is back above the SIGKILL limits.
- The victim is signalled by number even where a pidfd is open (`kill.c:291`):
  a process that took over the pid is hit, whatever protects it.
  `ProtectedUnlessReused` is what is left, for processes whose name, owner and
  `oom_score_adj` do not change after the scan.
- With `-g` the victim's group may contain earlyoom, which then ends itself
  (`kill.c:330`; `README.md:323` says it never does).
- Between the two limits a victim that survives SIGTERM is chosen in every
  round, and nobody else is tried (`README.md:156`).
- `-N` runs after failures and timeouts too (`kill.c:695`), and only EPERM leads
  to the second of sleep (`kill.c:710`), which a helper that ends may cut short,
  as it may the naps of the wait loop.  What remains is the adaptive sleep, and
  that is resumed only while `errno` is EINTR (`main.c:581`): a second SIGCHLD
  handled before the test, with no helper left, leaves ECHILD and ends it.  Hence
  the exception in `RestBetweenKills`; without it TLC finds a kill right after
  another.  The countdown takes the whole sleep all the same (`main.c:583`), so
  a report may come early by what was cut (`cut` in `ReportsOnSchedule`).  The
  handler may also overwrite `errno` before `kill_process` saves it, so that EPERM
  is not recognised.
- In a dry run `-n` and `-N` are limited to one per second, `-P` is not.
- `sleep_time_ms` adds the times that memory and swap take to fill
  (`main.c:509`), which is right if they fill one after the other.  If both fill at
  once, memory is low after the longer of the two times, and up to half of the
  sleep, half a second, is still to come, where `main.c:489` has no "low memory
  event" missed.  `NoticesByHalf` is what holds; with `min_sleep` alone on its right
  side TLC finds a counterexample in the `Timer` run.
- `report_countdown_ms` wraps after 24.8 days of low memory or of `-r 0`
  without a report.
- An empty `/proc/PID/cmdline` writes a NUL before its buffer, onto the last
  byte of `name[]`, which is NUL already (`NameRight`).  `get_cmdline` strips the
  last byte also when it is no terminator, and `fix_truncated_utf8` leaves
  strings of fewer than three bytes alone.
- A victim that cannot be signalled, or that SIGKILL does not end, is selected
  again and again; hence the condition `NobodyInTheWay` of `PressureRelieved`.
- With `--sort-by-rss` a single process with a zombie main thread makes the
  comparison intransitive; hence the condition `Uniform` of `LargestStable`.
- `parse_part` accepts `nan`; hence the condition `NumbersOnly` in
  `CommandLine`. `-S` with a positive value is fatal without swap, where
  `MANPAGE.md:281` has it ignored and the defaults used: the upper limit of the
  parser is then zero, and the branch that ignores the option (`main.c:251`) is
  reached with `nan` only. `ExitTellsReason` leaves these lines out. `-r` takes
  text for 0. A bad expression that a later one of the same option replaces is
  never compiled. Exit code 6 (a bad expression) is
  missing from the man page, 7 and 105 are never used, and `set_oom_score_adj`
  returns -1 where its caller expects an errno. The comment at `msg.c:165` has
  term and kill the wrong way round, and the upper limit of `-M` (`main.c:238`)
  is 101 percent of memory.

### Bounds

- `MaxInc`: processes per pid.  Two let a pid be reused once, between any two
  steps; whoever comes third is in the same situation as the second.
- `WaitRounds` stands for the 100 rounds of `kill_wait`.  Two rounds have a
  first, a second and a last one; the escalation may come in each.
- `Readings`: one above both limits, one between, one below.
- `Child`: three helpers can end within one delivery of SIGCHLD; when all are
  in use the model's `fork` fails, which the code has to handle anyway.
- `MaxOpts`: three options are enough for a repeated option and a merge.
- `PollTimer`: from 1.8 s to 3.4 s the clock passes two full seconds, where the
  notification limit is decided; `min_sleep` is one `Tick` and `max_sleep` ten,
  so both ends of the adaptive sleep and the steps between happen.  `IntMax` is
  1350 instead of 2147483647, which lets the countdown wrap within the run.
  `MaxCut`, the time cut off the sleeps between two reports, is 400 ms: part of a
  long sleep or several short ones.
- `CommLen` and `PATH_LEN` stand for 15 and 256: a name of four bytes can be
  cut inside a character of two, three or four bytes, or not at all, and so
  can a command line in a buffer of eight.

The proofs have none of these bounds.

### Fairness

`Earlyoom`: weak fairness of the daemon's steps (it is a runnable process) and
of `Die`, the end of a process with a pending signal it does not ignore.  No
fairness for anything other processes do on their own: no exit, no reaping.
`Subprocess`: weak fairness of the daemon and of the delivery and execution of
an unblocked signal.  Helpers need not end.  The other modules have safety
properties only.

Deadlock is checked in every run.  `Subprocess`, `CommandLine`, `ProcFiles` and
`PollTimer` state their final states with a stuttering step (`Stopped`, `Done`,
`Horizon`); in `Earlyoom` the environment outlives the daemon.

## Proofs

The proofs have no bounds on the number of processes, helpers, options, rounds,
pid reuses, amounts or times.  They rest on the named assumptions of the modules
(`LimitsAssumption`, `EarlyoomAssumption`, `SelectionAssumption`,
`SubprocessAssumption`, `CommandLineAssumption`, `PollTimerAssumption`,
`ProcFilesAssumption`, `MeminfoAssumption`, `ProcessAssumption`), which say
what the constants are and which TLC evaluates in the runs, and on nothing
else, except where the table says so.

The last two say what the readers take for granted of the kernel and of other
processes.  `MeminfoAssumption`: in every file the first line that ends with one
of the names earlyoom looks for is the line of that name, if there is one (the
kernel prints `Cached` before `SwapCached`), and shared memory is no more than
what is cached; lines may be missing and others may stand between, except that a file with
`SwapCached` has `Cached` too.
`ProcessAssumption`: names and command lines are UTF-8, and a command line that
is not empty ends with a NUL.  Of names that are not UTF-8, and of a command line
that a process overwrote without a terminator, the properties say nothing.
`ProcFilesAssumption`: the kernel keeps at least three bytes of a name, and the
buffer holds what it keeps, a newline and a NUL (15 and 256 in Linux and
earlyoom).

| Theorem | States |
|---|---|
| **`EarlyoomProofs`, `EarlyoomSafety`** | |
| `TypeCorrect` | `TypeOK` |
| `SafeInvariant` | the inductive invariant `SafeInv` |
| `DryrunIsHarmless` | `DryrunHarmless` |
| `ProtectedAreSpared` | `ProtectedUnlessReused` |
| `SurvivorsOnlyAfterTimeout` | `OnlyTimeoutLeavesSurvivors`, assuming `~ProcMayFail` |
| `PidfdNeverLeaks` | `PidfdBalanced`, assuming `~ProcMayFail` |
| **`RefinementProofs`** | |
| `EarlyoomKeepsRounds` | `RoundsKept`, that is `OomKiller`'s specification, assuming `~ProcMayFail` |
| `RoundsPromise` | `OomKiller`'s specification implies its `RoundPromise` |
| `EarlyoomPromises` | so `Earlyoom` keeps `RoundPromise`, assuming `~ProcMayFail` |
| **`SelectionProofs`** | |
| `SelectionTypes` | `TypeOK` |
| `ScanInvariant` | the inductive invariant `ScanInv` |
| `LargestIsFound` | `LargestStable` |
| `VictimIsGenuine` | `VictimGenuine` |
| **`SubprocessProofs`** | |
| `SubprocessInvariant` | the inductive invariant `SubprocessInv` |
| `SubprocessTypes` | `TypeOK` |
| `ZombiesRemembered` | `NoZombieForgotten` |
| `SpawnLeavesNoTrace` | `SpawnBalanced` |
| `OwnChildIsReaped` | `OwnChildReapable` |
| `RestedBeforeKill` | `RestBetweenKills` |
| **`CommandLineProofs`** | |
| `CommandInvariant` | the inductive invariant `CommandInv` |
| `LimitsAreOrdered` | `KillNeverAboveTerm` |
| `TermIsPositive` | `TermNeverZero` |
| `LowerIsUsed` | `LowerValueUsed` |
| `ArgsAreTheLine` | `ArgsMatchLine` |
| `ExitHasReason` | `ExitTellsReason` |
| **`PollTimerProofs`** | |
| `TimerInvariant` | the inductive invariant `TimerInv` |
| `LowMemoryIsNoticed` | `NoticesByHalf` |
| `NotificationsAreLimited` | `NotifyRate` |
| `ReportsKeepSchedule` | `ReportsOnSchedule` |
| **`ProcFilesProofs`** | |
| `ProcessInvariant` | the inductive invariant `ProcessInv` |
| `StatIsRight` | `StatFieldsRight` |
| `NameIsRight` | `NameRight` |
| `CmdlineIsRight` | `CmdlineRight` |
| `MeminfoIsRight` | `MeminfoRight` |

### The arguments

`Earlyoom`.  `TypeOK` is inductive with two facts about control: `kill_wait` is
called with a victim, and the counter is below its bound inside the loop
(`TypeInv`).  The safety properties are not inductive: they speak of the end of
a round, and what they need is known at its start.  `SafeInv` carries it along:

- `SelfInv`: earlyoom is running with its own attributes, so that `kill(0)`
  reaches it and the wait loop is never entered with target 0 (for which
  `is_alive` would look at `/proc/0`);
- `QuietInv`: nobody was signalled before the first `kill()` of a round, in a
  dry run or with signal 0;
- `HitInv`: incarnations only grow, so what is gone stays gone
  (`GoneStable`);
- `LinkInv`: in the wait loop whoever was signalled is gone or still a target
  that may be signalled.  It survives environment steps because a process
  leaves the set of targets only by being reaped (`LinkedStable`), and it is
  what makes a failing second `kill()` and a negative answer of `is_alive`
  conclusive (`KillErrNone`, `NotAliveGone`);
- `VictimInv`: the victim, unless its pid was reused, passed the filters of
  `is_larger`, and without `-g` it is the only target.

`PidfdBalanced` needs `PidfdInv`, the places where the descriptor can be open, and
`OnlyTimeoutLeavesSurvivors` for the step that closes it.

`~ProcMayFail` is needed: `is_alive` takes any failure to open
`/proc/PID/stat` for the end of the process.

Refinement.  One lemma per action says to which step of `OomKiller` it maps.  The
mapping needs `SafeInv` where a round ends as *over*, and `SigInv` (the self-test
has signal 0, a second reading does not) at the two places where the phase
depends on the signal.  `RoundPromise` is then a fact about `OomKiller` alone (with
the outcome *none* until a round is done), and what `Earlyoom` inherits: the dead
stay dead while the result is on its way from `kill_wait` to `poll_loop`.

`Selection`.  `is_larger` reads a candidate's files one by one and stops at the
first that decides, while processes change.  `ReadInv` says for each place what
the reads so far have established about a candidate that did not change
(`changed` is the ghost that tells); `SeenInv` that every eligible process that
stood still was compared once its turn was over; `BestInv` that nothing
compared is larger than the victim.  The last one needs that the comparison is
transitive, which is why `LargestStable` has the condition `Uniform`.

`Subprocess`.  `SpawnBalanced` and `NoZombieForgotten` are inductive together: a
zombie is either unseen by a handler that is still to run, or SIGCHLD is
pending.  `OwnInv` adds that between `fork` and `waitpid` the helper is there,
because only the handler could reap it and the signal is blocked; `RestInv`
that after an attempt to kill every way to the next one leads through a sleep,
also through the helpers, which return to where they were called (`Site`), and
that this sleep is resumed after its first signal, since `errno` is still EINTR
at the test when no second one came.

`CommandLine`.  `StoreInv` and `ArgsInv` say of every prefix of the line that the
variables of `main` are what its last option of each kind asks for, less what
the self-tests have taken away once they have run.  The merge
is then one step, for which `LimitInv` needs that a percentage of a sound pair
of sizes is sound.  `EndInv` has the first item that ends the program as the last
of the line, and else the reason for the codes 4 and 5.  The statements about limits have the condition `NumbersOnly` (no
`nan`), without which the code does not keep them.  `LimitsAreOrdered` is what
`LimitsAssumption` takes for granted in `Earlyoom` and `PollTimer`.

`PollTimer`.  A sleep is the sum of two times, one for memory and one for swap.
`Covered` says of both that as much of them as lies ahead is covered by what
memory, or swap, has above its SIGTERM limit, at the rate at which it fills.  It
holds of the reading that decides the sleep (`SleepCovered`, with both integer
divisions and the clamp), and it is kept as time passes (`CoveredLater`) because
neither falls faster (`WorkloadRate`): user pages leave the total as it is, kernel
memory lowers the total and with it the limit, and swap counts on its own.  When
memory is low nothing is above a limit, so both times are over, and with them at
least half of their sum (`CoveredLow`).  `WakeInv` carries this through the sleep;
after a kill the old reading was a low one, so the sleep is the shortest.
`NoteInv`: no two notifications are in the same second.  `CountInv`: what was
counted down lies between the time slept without low memory and the time since
the last report with what was cut off the sleeps, which is also why the
subtraction cannot leave the int before that time does.  `CutInv`: without helper
programs nothing is cut.

`ProcFiles`.  What is to be proved is about texts of any length, but none of it
needs more of induction than that a non-empty set of naturals has a least
element (`LeastExists`).

- `LastCharacter` is the heart of `fix_truncated_utf8`: cut UTF-8 anywhere, and
  its last three bytes tell where the last whole character ends, in exactly the
  cases the code tells apart.  A cut after one or two bytes, which the code does
  not repair, is always between two characters: only the end of the text can
  make a string that short.  `Repaired` carries this to the buffer, and
  `StringLocal` says that a string depends on no byte after its NUL, so that
  neither read disturbs the other string; for the empty command line this needs
  that the byte before `cmdline[]` is NUL already (`EmptyCmdline`).
- `ProcessInv` says when each buffer is filled: after `FillName` the name is there
  unless the process is gone, and a round of `-d` always passes through both
  fills.  A process that ends only ever loses what was not yet read.
- `StatParsed`: after the last bracket every second byte is a word, and counting
  them (`EveryOther`) says which one `sscanf` stores.  Whatever stands in the name
  is before that bracket.
- `EntryIs`: the first line that ends with a name and the first line with that
  label are the same one, by the order of the kernel's lines.

TLC finds each inductive invariant to hold on the instances of the runs too,
`SafeInv` also on one with two pids and `-g`.

### Only model-checked

- Liveness: `KillWaitReturns`, `PressureRelieved`, `ZombiesReaped`.  They rest on
  fairness, which the prover does not handle.
- The four violations, which are counterexamples.

## Not modelled

Output: `logger`, `warn`, `info`, `debug`, `fatal`'s message, `print_mem_stats`, the
text of notifications and the environment variables of the helpers.  They
change no state of the daemon; that `fatal` exits is part of the actions that
call it.  `prctl`, which clears ambient capabilities.  The matching of regular
expressions, which is the C library's.  The conversion of `nan` and of values
beyond an int by `-r`.  `process_mrelease`, which frees memory earlier and changes
nothing that is modelled.  The service files, the packaging, the tests and
`contrib`, which are not part of the daemon.  That a process changes its process
group, owner or `oom_score_adj` after the scan is part of `Selection`, not of
`Earlyoom`, where these attributes are fixed for an incarnation.

## State of the project

All parts of the daemon that keep or change state are modelled, and every
invariant and safety property of the passing runs is a theorem.  What a later
version of the code would have to be compared with is the map in `PROJECT.json`.
What could be added:

1. names that are not UTF-8 and command lines without a terminator, for which a
   specification of what should be logged would have to be agreed on first;
2. process groups, owners and `oom_score_adj` that change in `Earlyoom` as they do
   in `Selection`;
3. liveness, once the prover handles fairness.
