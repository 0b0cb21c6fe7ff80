---------------------------- MODULE CommandLine -----------------------------
(***************************************************************************)
(* main() (main.c) up to poll_loop(): the options one by one, the tuples   *)
(* of -m, -s, -M and -S (parse_term_kill_tuple() and parse_part() in       *)
(* msg.c), the merge of percentages with sizes, the regular expressions,   *)
(* priority, what the self-tests change in the arguments (what they run is *)
(* in module Earlyoom) and memory lock.                                    *)
(*                                                                         *)
(* Numbers are fixed-point: a value v stands for v / Scale percent, KiB or *)
(* seconds.  strtod() also accepts "nan", with which every comparison is   *)
(* false.                                                                  *)
(***************************************************************************)
EXTENDS Integers, Sequences

CONSTANTS
    MemTotalKiB, SwapTotals,  \* meminfo at startup: memory; swap, one of a set
    Items,                    \* what may stand on the command line
    Relative,                 \* arguments that do not begin with "/"
    MaxOpts                   \* bound: items on the command line

Scale == 100
NaN   == -1000000   \* stands for the double that strtod("nan") returns
None  == -1000001   \* no argument, or no part2 in it
Bad   == -1000002   \* text that is no number, or out of range for strtod;
                    \* or no regular expression

Limit   == {"m", "s", "M", "S"}
Flag    == {"n", "g", "d", "p", "ignore-root-user", "sort-by-rss", "dryrun",
            "kernel-oom", "syslog"}
Text    == {"N", "P", "prefer", "avoid", "ignore"}
Regex   == {"prefer", "avoid", "ignore"}
Ignored == {"k", "i"}
Other   == {"r", "v", "h", "?", "extra"}

\* An option with its argument; "?" is one that getopt_long() rejects, "extra"
\* an argument that belongs to no option.  "-r nan", whose conversion to an int
\* is undefined, is left out.
Item == [opt : Limit, part1 : Int, part2 : Int]
          \cup [opt : Flag \cup Text \cup Ignored \cup Other, arg : Int \ {NaN}]

ASSUME CommandLineAssumption ==
    /\ MemTotalKiB \in Nat \ {0} /\ SwapTotals \subseteq Nat
    /\ Items \subseteq Item
    /\ MaxOpts \in Nat

VARIABLES
    pc,      \* "start", "getopt", "regcomp", "priority", "adj", "selftest",
             \* "lock", "running", "exit"
    argv,    \* the command line as far as it was read
    SwapTotalKiB,
    limits,  \* mem/swap term/kill percentages of poll_loop_args_t
    size,    \* mem/swap term/kill KiB of -M and -S
    have,    \* have_m, have_s, have_M, have_S
    flags,   \* the flags that were set
    text,    \* the arguments of the options in Text
    report_interval_ms,
    raised,  \* setpriority() and set_oom_score_adj() that worked
    code     \* exit code

tuples == <<limits, size, have>>
other  == <<flags, text, report_interval_ms>>
vars   == <<pc, argv, SwapTotalKiB, tuples, other, raised, code>>

----------------------------------------------------------------------------
(* Doubles.                                                                *)

less(x, y) == x # NaN /\ y # NaN /\ x < y
half(x)    == IF x = NaN THEN NaN ELSE x \div 2
min(x, y)  == IF less(x, y) THEN x ELSE y

\* 100 * kib / total, in percent; rounded up, so that, as with doubles, only
\* nothing is 0 percent.
percent(kib, total) == IF kib = NaN THEN NaN ELSE -((-(100 * kib)) \div total)

----------------------------------------------------------------------------
(* msg.c.                                                                  *)

\* parse_part(): is there an error message?
PartErr(val, upper_limit) ==
    val = Bad \/ less(upper_limit * Scale, val) \/ less(val, 0)

\* Mutant: term below kill is left as it is.
parse_term_kill_tuple_NoSwap(part1, part2, upper_limit) ==
    LET kill == IF part2 = None THEN half(part1) ELSE part2
    IN [term |-> part1, kill |-> kill,
        err  |-> \/ PartErr(part1, upper_limit)
                 \/ part2 # None /\ PartErr(part2, upper_limit)
                 \/ kill = 0 /\ part1 = 0]

\* "term[,kill]": kill defaults to half of term, and lifts term to itself.
parse_term_kill_tuple(part1, part2, upper_limit) ==
    LET kill == IF part2 = None THEN half(part1) ELSE part2
        term == IF less(part1, kill) THEN kill ELSE part1
    IN [term |-> term, kill |-> kill,
        err  |-> \/ PartErr(part1, upper_limit)
                 \/ part2 # None /\ PartErr(part2, upper_limit)
                 \/ kill = 0 /\ term = 0]

----------------------------------------------------------------------------
(* main().                                                                 *)

Pair(t, k) == [term |-> t, kill |-> k]

Init ==
    /\ pc = "start" /\ argv = <<>>
    /\ SwapTotalKiB \in SwapTotals
    /\ limits = [mem |-> Pair(10 * Scale, 5 * Scale), swap |-> Pair(10 * Scale, 5 * Scale)]
    /\ size = [mem |-> Pair(0, 0), swap |-> Pair(0, 0)]
    /\ have = {} /\ flags = {}
    /\ text = [o \in Text |-> None]
    /\ report_interval_ms = 1000
    /\ raised = {} /\ code = 0

fatal(c) == code' = c /\ pc' = "exit"

\* main() enters /proc.
ChdirFails ==
    /\ pc = "start"
    /\ fatal(4)
    /\ UNCHANGED <<argv, SwapTotalKiB, tuples, other, raised>>

Chdir ==
    /\ pc = "start"
    /\ pc' = "getopt"
    /\ UNCHANGED <<argv, SwapTotalKiB, tuples, other, raised, code>>

\* The upper limits main() passes for each option.
upper_limit(o) ==
    CASE o = "m" -> 99
      [] o = "s" -> 100
      [] o = "M" -> (MemTotalKiB * 100) \div 99
      [] o = "S" -> (SwapTotalKiB * 100) \div 99

Which(o) == IF o \in {"m", "M"} THEN "mem" ELSE "swap"

\* The next round of the getopt loop.
Getopt(i) ==
    /\ pc = "getopt" /\ Len(argv) < MaxOpts
    /\ argv' = Append(argv, i)
    /\ UNCHANGED <<SwapTotalKiB, raised>>

tuple(i) == parse_term_kill_tuple(i.part1, i.part2, upper_limit(i.opt))

\* -m, -s, -M or -S with a bad value.
LimitFatal(i) ==
    /\ i.opt \in Limit /\ Getopt(i) /\ tuple(i).err
    /\ fatal(IF Which(i.opt) = "mem" THEN 15 ELSE 16)
    /\ UNCHANGED <<tuples, other>>

\* -m, -s: percentages, stored at once.  -M, -S: sizes, merged at the end;
\* -S is ignored without swap.
LimitAccept(i) ==
    /\ i.opt \in Limit /\ Getopt(i) /\ ~tuple(i).err
    /\ LET pair == Pair(tuple(i).term, tuple(i).kill)
           w == Which(i.opt) IN
       IF i.opt = "S" /\ SwapTotalKiB = 0
       THEN UNCHANGED tuples
       ELSE /\ have' = have \cup {i.opt}
            /\ limits' = IF i.opt \in {"m", "s"} THEN [limits EXCEPT ![w] = pair] ELSE limits
            /\ size' = IF i.opt \in {"M", "S"} THEN [size EXCEPT ![w] = pair] ELSE size
    /\ UNCHANGED <<pc, other, code>>

\* Mutant: the break after case 'n' is missing.
SetFlag_FallsThrough(i) ==
    /\ i.opt \in Flag /\ Getopt(i)
    /\ flags' = flags \cup {i.opt} \cup IF i.opt = "n" THEN {"g"} ELSE {}
    /\ UNCHANGED <<pc, tuples, text, report_interval_ms, code>>

\* Options that switch something on.
SetFlag(i) ==
    /\ i.opt \in Flag /\ Getopt(i)
    /\ flags' = flags \cup {i.opt}
    /\ UNCHANGED <<pc, tuples, text, report_interval_ms, code>>

\* Options that keep a pointer to their argument.
SetText(i) ==
    /\ i.opt \in Text /\ Getopt(i)
    /\ text' = [text EXCEPT ![i.opt] = i.arg]
    /\ UNCHANGED <<pc, tuples, flags, report_interval_ms, code>>

\* -r: strtof() takes text that is no number for 0; milliseconds are cut off.
ReportInterval(i) ==
    LET seconds == IF i.arg = Bad THEN 0 ELSE i.arg IN
    /\ i.opt = "r" /\ Getopt(i)
    /\ IF seconds < 0
       THEN fatal(14) /\ UNCHANGED report_interval_ms
       ELSE /\ report_interval_ms' = (seconds * 1000) \div Scale
            /\ UNCHANGED <<pc, code>>
    /\ UNCHANGED <<tuples, flags, text>>

\* -k and -i, and an argument that getopt_long() leaves for the end.
Skip(i) ==
    /\ i.opt \in Ignored \cup {"extra"} /\ Getopt(i)
    /\ UNCHANGED <<pc, tuples, other, code>>

\* -v, -h and an unknown option.
Leave(i) ==
    /\ i.opt \in {"v", "h", "?"} /\ Getopt(i)
    /\ fatal(IF i.opt = "?" THEN 13 ELSE 0)
    /\ UNCHANGED <<tuples, other>>

\* The limit w after the merge: the lower of percentage and size if both were
\* given, the size if only that was.
Merged(w, small, big, total) ==
    LET t == percent(size[w].term, total)
        k == percent(size[w].kill, total)
    IN IF big \notin have THEN limits[w]
       ELSE IF small \in have
       THEN Pair(min(limits[w].term, t), min(limits[w].kill, k))
       ELSE Pair(t, k)

Extra == \E i \in DOMAIN argv : argv[i].opt = "extra"

\* optind < argc at the end of the command line.
ExtraArgument ==
    /\ pc = "getopt" /\ Extra
    /\ fatal(13)
    /\ UNCHANGED <<argv, SwapTotalKiB, tuples, other, raised>>

\* Mutant: a size always replaces the percentage.
Merge_LastWins ==
    /\ pc = "getopt" /\ ~Extra
    /\ pc' = "regcomp"
    /\ limits' = [limits EXCEPT !["mem"] =
                     IF "M" \in have THEN Pair(percent(size["mem"].term, MemTotalKiB),
                                               percent(size["mem"].kill, MemTotalKiB))
                     ELSE @]
    /\ UNCHANGED <<argv, SwapTotalKiB, size, have, other, raised, code>>

\* Mutant: sizes are merged in although there was no -M.
Merge_NoHave ==
    /\ pc = "getopt" /\ ~Extra
    /\ pc' = "regcomp"
    /\ limits' = [limits EXCEPT !["mem"] =
                     Pair(min(@.term, percent(size["mem"].term, MemTotalKiB)),
                          min(@.kill, percent(size["mem"].kill, MemTotalKiB)))]
    /\ UNCHANGED <<argv, SwapTotalKiB, size, have, other, raised, code>>

\* The end of the command line.
Merge ==
    /\ pc = "getopt" /\ ~Extra
    /\ pc' = "regcomp"
    /\ limits' = [mem  |-> Merged("mem", "m", "M", MemTotalKiB),
                  swap |-> Merged("swap", "s", "S", SwapTotalKiB)]
    /\ UNCHANGED <<argv, SwapTotalKiB, size, have, other, raised, code>>

\* Mutant: the result of the last regcomp() is not checked.
Regcomp_Unchecked ==
    /\ pc = "regcomp"
    /\ IF \E o \in Regex \ {"ignore"} : text[o] = Bad
       THEN fatal(6)
       ELSE pc' = (IF "p" \in flags THEN "priority" ELSE "selftest") /\ code' = code
    /\ UNCHANGED <<argv, SwapTotalKiB, tuples, other, raised>>

\* The expressions that are left are compiled.
Regcomp ==
    /\ pc = "regcomp"
    /\ IF \E o \in Regex : text[o] = Bad
       THEN fatal(6)
       ELSE pc' = (IF "p" \in flags THEN "priority" ELSE "selftest") /\ code' = code
    /\ UNCHANGED <<argv, SwapTotalKiB, tuples, other, raised>>

\* -p: setpriority(); main() goes on if it fails.
SetPriority ==
    /\ pc = "priority"
    /\ raised' \in {raised, raised \cup {"nice"}}
    /\ pc' = "adj"
    /\ UNCHANGED <<argv, SwapTotalKiB, tuples, other, code>>

\* set_oom_score_adj(): open, write and close, each of which may fail.
SetOomScoreAdj ==
    /\ pc = "adj"
    /\ raised' \in {raised, raised \cup {"oom_score_adj"}}
    /\ pc' = "selftest"
    /\ UNCHANGED <<argv, SwapTotalKiB, tuples, other, code>>

\* Mutant: the path of the pre-hook is not checked.
Selftests_KeepsPrehook ==
    /\ pc = "selftest"
    /\ flags' \in {flags, flags \ {"kernel-oom"}}
    /\ text' = [text EXCEPT !["N"] = IF @ \in Relative THEN None ELSE @]
    /\ pc' = "lock"
    /\ UNCHANGED <<argv, SwapTotalKiB, tuples, report_interval_ms, raised, code>>

\* startup_selftests(): --kernel-oom is given up if the trigger may not be
\* written to; scripts without an absolute path are disabled.
Selftests ==
    /\ pc = "selftest"
    /\ flags' \in {flags, flags \ {"kernel-oom"}}
    /\ text' = [o \in Text |-> IF o \in {"N", "P"} /\ text[o] \in Relative
                               THEN None ELSE text[o]]
    /\ pc' = "lock"
    /\ UNCHANGED <<argv, SwapTotalKiB, tuples, report_interval_ms, raised, code>>

\* find_largest_process() in the self-test cannot open /proc.
SelftestFails ==
    /\ pc = "selftest" /\ "kernel-oom" \notin flags
    /\ fatal(5)
    /\ UNCHANGED <<argv, SwapTotalKiB, tuples, other, raised>>

\* mlockall(), whose failure is only reported.
Mlockall ==
    /\ pc = "lock"
    /\ pc' = "running"
    /\ UNCHANGED <<argv, SwapTotalKiB, tuples, other, raised, code>>

\* poll_loop() never changes the limits.
Stopped == pc \in {"running", "exit"} /\ UNCHANGED vars

Option(i) == LimitFatal(i) \/ LimitAccept(i) \/ SetFlag(i) \/ SetText(i)
               \/ ReportInterval(i) \/ Skip(i) \/ Leave(i)

Next ==
    \/ Chdir \/ ChdirFails
    \/ \E i \in Items : Option(i)
    \/ ExtraArgument \/ Merge \/ Regcomp \/ SetPriority \/ SetOomScoreAdj
    \/ Selftests \/ SelftestFails \/ Mlockall
    \/ Stopped

Spec == Init /\ [][Next]_vars

----------------------------------------------------------------------------
(* Properties.                                                             *)

Given(o) == {i \in DOMAIN argv : argv[i].opt = o}

\* The last item of an option that was given.
Final(o) == argv[CHOOSE i \in Given(o) : \A j \in Given(o) : j <= i]

\* "nan" was not given: strtod() takes it and no range check refuses it, but
\* no order can be expected of it.
NumbersOnly ==
    \A o \in Limit : \A i \in Given(o) : NaN \notin {argv[i].part1, argv[i].part2}

\* The limits poll_loop() starts with are ordered as lowmem_sig() and the
\* escalation in kill_wait() need them: a reading at the SIGKILL limits is
\* always at the SIGTERM limits too.  (This is LimitsAssumption of Limits.)
KillNeverAboveTerm ==
    pc = "running" /\ NumbersOnly =>
        \A w \in {"mem", "swap"} : ~less(limits[w].term, limits[w].kill)

\* No combination of options leaves a SIGTERM limit of zero, with which
\* earlyoom would only act when nothing at all is left.
TermNeverZero ==
    pc = "running" /\ NumbersOnly => \A w \in {"mem", "swap"} : limits[w].term # 0

\* The pair that an item asks for, in percent.
Asked(i, total) ==
    LET kill == IF i.part2 = None THEN i.part1 \div 2 ELSE i.part2
        term == IF i.part1 < kill THEN kill ELSE i.part1
    IN IF i.opt \in {"m", "s"} THEN Pair(term, kill)
       ELSE Pair(percent(term, total), percent(kill, total))

\* The lower of what the last -m (-s) and the last -M (-S) ask for.
Lower(t, small, big, total) ==
    LET asked == {Asked(Final(o), total)[t] : o \in {x \in {small, big} : Given(x) # {}}}
        limit == limits[Which(small)][t]
    IN IF asked = {} THEN limit = (IF t = "term" THEN 10 ELSE 5) * Scale
       ELSE limit \in asked /\ \A x \in asked : limit <= x

\* MANPAGE.md: "If you pass both -M and -m, the lower value is used", for
\* both limits of the pair, memory and swap alike, and in whatever order and
\* however often the options come: the last of each counts; with neither, the
\* default.
LowerValueUsed ==
    pc = "running" /\ NumbersOnly =>
        \A t \in {"term", "kill"} :
            Lower(t, "m", "M", MemTotalKiB) /\ Lower(t, "s", "S", SwapTotalKiB)

\* What poll_loop() is called with is what the command line says, read as a
\* whole: a flag if it stands anywhere, of the others the last, the default
\* where there is none; the priority is only touched with -p.  The self-tests
\* may take --kernel-oom away, never add it, and leave of -N and -P what MANPAGE.md
\* asks for: "Must be an absolute path".
ArgsMatchLine ==
    pc = "running" =>
        /\ \A o \in Flag \ {"kernel-oom"} : o \in flags <=> Given(o) # {}
        /\ "kernel-oom" \in flags => Given("kernel-oom") # {}
        /\ \A o \in Text :
              text[o] = IF \/ Given(o) = {}
                           \/ o \in {"N", "P"} /\ Final(o).arg \in Relative
                        THEN None ELSE Final(o).arg
        /\ report_interval_ms = IF Given("r") = {} THEN 1000
                                ELSE IF Final("r").arg = Bad THEN 0 ELSE 10 * Final("r").arg
        /\ raised # {} => Given("p") # {}

\* An item that MANPAGE.md, EXIT STATUS, gives an exit code for, and the code.
OutOfRange(i) ==
    LET parts == {i.part1} \cup ({i.part2} \ {None})
    IN Bad \in parts \/ parts = {0}
         \/ \E v \in parts : v < 0 \/ v > upper_limit(i.opt) * Scale

Ends(i) == IF i.opt \in Limit THEN OutOfRange(i)
           ELSE i.opt \in {"v", "h", "?"} \/ (i.opt = "r" /\ i.arg < 0 /\ i.arg # Bad)

EXIT_STATUS(i) ==
    CASE i.opt \in {"v", "h"} -> 0 [] i.opt = "?" -> 13 [] i.opt = "r" -> 14
      [] i.opt \in {"m", "M"} -> 15 [] i.opt \in {"s", "S"} -> 16

BadRegex == \E o \in Regex : Given(o) # {} /\ Final(o).arg = Bad

\* The program exits at the first item of the command line that asks for it,
\* with the code of that item; an extra argument and a bad expression come
\* after all options; with none of them, earlyoom runs, unless /proc cannot be
\* entered (4) or scanned (5).  Lines with -S where there is no swap are
\* left out: MANPAGE.md has the option ignored, the code exits with 16 before it
\* would ignore it.
ExitTellsReason ==
    NumbersOnly /\ (SwapTotalKiB = 0 => Given("S") = {}) =>
        LET ends == {i \in DOMAIN argv : Ends(argv[i])}
            fine == ends = {} /\ ~Extra /\ ~BadRegex
        IN /\ pc = "exit" => \/ ends = {Len(argv)} /\ code = EXIT_STATUS(argv[Len(argv)])
                             \/ ends = {} /\ Extra /\ code = 13
                             \/ ends = {} /\ ~Extra /\ BadRegex /\ code = 6
                             \/ argv = <<>> /\ code = 4
                             \/ fine /\ code = 5
           /\ pc = "running" => fine
=============================================================================
