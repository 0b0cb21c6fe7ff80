------------------------- MODULE CommandLineProofs --------------------------
(***************************************************************************)
(* Proofs about CommandLine: for every command line, of any length, over   *)
(* any items, and every amount of memory and swap.                         *)
(***************************************************************************)
EXTENDS CommandLine, TLAPS

USE DEF Scale

----------------------------------------------------------------------------
(* Lemmas about numbers and tuples.                                        *)

\* The stand-ins for what is no number are none of the numbers in range.
LEMMA Marks ==
    /\ NaN \in Int /\ None \in Int /\ Bad \in Int
    /\ NaN < 0 /\ None < 0 /\ Bad < 0
    /\ NaN # None /\ NaN # Bad /\ None # Bad
  BY SMT DEF NaN, None, Bad

\* The pair that an item asks for, before it is taken in percent.
WantedKill(i) == IF i.part2 = None THEN i.part1 \div 2 ELSE i.part2
WantedTerm(i) == IF i.part1 < WantedKill(i) THEN WantedKill(i) ELSE i.part1
Wanted(i)     == Pair(WantedTerm(i), WantedKill(i))

\* A pair of limits that lowmem_sig() can work with.
Sound(q) ==
    q.term \in Int /\ q.kill \in Int /\ 0 <= q.kill /\ q.kill <= q.term /\ 0 < q.term

\* The tuple of an item without "nan": refused if it is out of range, a sound
\* pair otherwise.
LEMMA TupleMeaning ==
    ASSUME NEW i, i.part1 \in Int, i.part2 \in Int,
           NaN # i.part1, NaN # i.part2, NEW u \in Nat
    PROVE  LET t     == parse_term_kill_tuple(i.part1, i.part2, u)
               parts == {i.part1} \cup ({i.part2} \ {None})
           IN /\ t.err <=> \/ Bad \in parts \/ parts = {0}
                           \/ \E v \in parts : v < 0 \/ v > u * Scale
              /\ ~t.err => /\ Pair(t.term, t.kill) = Wanted(i)
                           /\ Sound(Wanted(i))
                           /\ WantedTerm(i) <= u * Scale
  <1> DEFINE p1 == i.part1
             p2 == i.part2
             t == parse_term_kill_tuple(p1, p2, u)
             kill == IF p2 = None THEN half(p1) ELSE p2
             term == IF less(p1, kill) THEN kill ELSE p1
             parts == {p1} \cup ({p2} \ {None})
             outside == \/ Bad \in parts \/ parts = {0}
                        \/ \E v \in parts : v < 0 \/ v > u * Scale
  <1>1. /\ t.err <=> \/ PartErr(p1, u)
                     \/ p2 # None /\ PartErr(p2, u)
                     \/ kill = 0 /\ term = 0
        /\ t.term = term /\ t.kill = kill
    BY DEF parse_term_kill_tuple
  <1>0. u * Scale \in Nat /\ u * Scale # NaN
    BY Marks
  <1>2. /\ PartErr(p1, u) <=> p1 = Bad \/ p1 < 0 \/ p1 > u * Scale
        /\ PartErr(p2, u) <=> p2 = Bad \/ p2 < 0 \/ p2 > u * Scale
    BY <1>0, Marks DEF PartErr, less
  <1>3. CASE PartErr(p1, u)
    <2>1. outside
      BY <1>2, <1>3
    <2> QED
      BY <1>1, <1>3, <2>1
  <1>4. CASE p2 # None /\ PartErr(p2, u)
    <2>1. outside
      BY <1>2, <1>4
    <2> QED
      BY <1>1, <1>4, <2>1
  <1>5. CASE ~PartErr(p1, u) /\ ~(p2 # None /\ PartErr(p2, u))
    <2>1. /\ p1 # Bad /\ 0 <= p1 /\ p1 <= u * Scale
          /\ p2 # None => p2 # Bad /\ 0 <= p2 /\ p2 <= u * Scale
      BY <1>2, <1>5
    <2>2. /\ kill = WantedKill(i) /\ kill \in Int /\ 0 <= kill /\ kill <= u * Scale
          /\ p2 = None => kill <= p1 /\ (p1 = 0 => kill = 0)
      BY <1>0, <2>1, Marks DEF WantedKill, half
    <2>3. term = WantedTerm(i) /\ term \in Int /\ kill <= term /\ term <= u * Scale /\ p1 <= term
      BY <1>0, <2>1, <2>2, Marks DEF WantedTerm, less
    <2>4. kill = 0 /\ term = 0 <=> p1 = 0 /\ (p2 = None \/ p2 = 0)
      BY <1>0, <2>1, <2>2, <2>3, Marks DEF less, half
    <2>5. outside <=> p1 = 0 /\ (p2 = None \/ p2 = 0)
      <3>1. parts = {0} <=> p1 = 0 /\ (p2 = None \/ p2 = 0)
        OBVIOUS
      <3>2. Bad \notin parts /\ \A v \in parts : ~(v < 0) /\ ~(v > u * Scale)
        BY <2>1
      <3> QED
        BY <3>1, <3>2
    <2>6. ~t.err => Sound(Wanted(i))
      BY <1>1, <2>2, <2>3 DEF Sound, Wanted, Pair
    <2>7. Pair(t.term, t.kill) = Wanted(i)
      BY <1>1, <2>2, <2>3 DEF Wanted, Pair
    <2> QED
      BY <1>1, <1>5, <2>3, <2>4, <2>5, <2>6, <2>7
  <1> QED
    BY <1>3, <1>4, <1>5

\* Division by a positive total keeps the order, and nothing else is 0.
LEMMA PercentOrder ==
    ASSUME NEW x \in Nat, NEW y \in Nat, NEW total \in Nat \ {0}, x <= y
    PROVE  /\ percent(x, total) \in Int /\ 0 <= percent(x, total)
           /\ percent(x, total) <= percent(y, total)
           /\ 0 < x => 0 < percent(x, total)
  <1> DEFINE a == -(100 * x)
             b == -(100 * y)
  <1>1. a \in Int /\ b \in Int /\ b <= a /\ a <= 0 /\ (0 < x => a < 0)
    OBVIOUS
  <1> HIDE DEF a, b
  <1>2. a \div total \in Int /\ b \div total \in Int
    BY <1>1
  <1>3. a \div total <= 0 /\ (a < 0 => a \div total < 0)
    BY <1>1
  <1>4. b \div total <= a \div total
    BY <1>1
  <1>5. percent(x, total) = -(a \div total) /\ percent(y, total) = -(b \div total)
    BY Marks DEF percent, a, b
  <1> QED
    BY <1>1, <1>2, <1>3, <1>4, <1>5

----------------------------------------------------------------------------
(* Lemmas about items and the command line.                                *)

LEMMA ItemFields ==
    ASSUME NEW i \in Item
    PROVE  /\ i.opt \in Limit => i.part1 \in Int /\ i.part2 \in Int
           /\ i.opt \notin Limit => i.arg \in Int /\ i.arg # NaN
           /\ i.opt \in Limit \cup Flag \cup Text \cup Ignored \cup Other
  BY DEF Item, Limit, Flag, Text, Ignored, Other

\* What reading one more item changes.
LEMMA Appended ==
    ASSUME argv \in Seq(Item), NEW i \in Item, argv' = Append(argv, i)
    PROVE  /\ argv' \in Seq(Item) /\ Len(argv') = Len(argv) + 1 /\ argv'[Len(argv')] = i
           /\ DOMAIN argv' = DOMAIN argv \cup {Len(argv')} /\ Len(argv') \notin DOMAIN argv
           /\ \A n \in DOMAIN argv : argv'[n] = argv[n] /\ n <= Len(argv)
           /\ \A n \in DOMAIN argv : n \in Int
           /\ Len(argv) \in Nat
  OBVIOUS

\* The option o has a last occurrence if it has one at all.
HasLast(o) == Given(o) # {} => \E n \in Given(o) : \A j \in Given(o) : j <= n

LEMMA GivenAppended ==
    ASSUME argv \in Seq(Item), NEW i \in Item, argv' = Append(argv, i), NEW o
    PROVE  Given(o)' = IF i.opt = o THEN Given(o) \cup {Len(argv')} ELSE Given(o)
  BY Appended DEF Given

LEMMA FinalAppended ==
    ASSUME argv \in Seq(Item), NEW i \in Item, argv' = Append(argv, i), NEW o, HasLast(o)
    PROVE  /\ HasLast(o)'
           /\ i.opt = o => Given(o)' # {} /\ Final(o)' = i
           /\ i.opt # o => Given(o)' = Given(o) /\ (Given(o) # {} => Final(o)' = Final(o))
  <1>1. Given(o) \subseteq DOMAIN argv
    BY DEF Given
  <1>2. CASE i.opt = o
    <2>1. Given(o)' = Given(o) \cup {Len(argv')}
      BY <1>2, GivenAppended
    <2>2. /\ Len(argv') \in Given(o)' /\ \A j \in Given(o)' : j <= Len(argv') /\ j \in Int
          /\ Len(argv') \in Int
      BY <1>1, <2>1, Appended
    <2>3. (CHOOSE n \in Given(o)' : \A j \in Given(o)' : j <= n) = Len(argv')
      BY <2>2
    <2>4. Final(o)' = i
      BY <2>3, Appended DEF Final
    <2> QED
      BY <1>2, <2>2, <2>4 DEF HasLast
  <1>3. CASE i.opt # o
    <2>1. Given(o)' = Given(o)
      BY <1>3, GivenAppended
    <2>2. ASSUME Given(o) # {} PROVE Final(o)' = Final(o)
      <3>1. PICK n \in Given(o) : \A j \in Given(o) : j <= n
        BY <2>2 DEF HasLast
      <3>2. (CHOOSE x \in Given(o) : \A j \in Given(o) : j <= x) \in Given(o)
        BY <3>1
      <3> QED
        BY <1>1, <2>1, <3>2, Appended DEF Final
    <2> QED
      BY <1>3, <2>1, <2>2 DEF HasLast
  <1> QED
    BY <1>2, <1>3

\* The last occurrence is an item of the option.
LEMMA FinalItem ==
    ASSUME argv \in Seq(Item), NEW o, HasLast(o), Given(o) # {}
    PROVE  Final(o) \in Item /\ Final(o).opt = o /\ \E n \in Given(o) : Final(o) = argv[n]
  <1> DEFINE l == CHOOSE n \in Given(o) : \A j \in Given(o) : j <= n
  <1>1. l \in Given(o)
    BY DEF HasLast
  <1>2. Final(o) = argv[l]
    BY DEF Final
  <1> HIDE DEF l
  <1>3. l \in DOMAIN argv /\ argv[l].opt = o
    BY <1>1 DEF Given
  <1> QED
    BY <1>1, <1>2, <1>3

\* The rest of the line had no "nan", and neither has the new item.
LEMMA NumbersAppended ==
    ASSUME argv \in Seq(Item), NEW i \in Item, argv' = Append(argv, i), NumbersOnly'
    PROVE  NumbersOnly /\ (i.opt \in Limit => NaN # i.part1 /\ NaN # i.part2)
  <1>1. NumbersOnly
    BY GivenAppended, Appended DEF NumbersOnly, Given
  <1>2. ASSUME i.opt \in Limit PROVE NaN # i.part1 /\ NaN # i.part2
    <2>1. Len(argv') \in Given(i.opt)'
      BY GivenAppended
    <2> QED
      BY <1>2, <2>1, Appended DEF NumbersOnly
  <1> QED
    BY <1>1, <1>2

LEMMA UpperLimits ==
    ASSUME SwapTotalKiB \in Nat
    PROVE  /\ upper_limit("m") = 99 /\ upper_limit("s") = 100
           /\ upper_limit("M") = (MemTotalKiB * 100) \div 99
           /\ upper_limit("S") = (SwapTotalKiB * 100) \div 99
  BY DEF upper_limit

LEMMA UpperLimitType ==
    ASSUME SwapTotalKiB \in Nat, NEW o \in Limit
    PROVE  upper_limit(o) \in Nat
  <1>1. (MemTotalKiB * 100) \div 99 \in Nat /\ (SwapTotalKiB * 100) \div 99 \in Nat
    BY CommandLineAssumption
  <1> QED
    BY <1>1, UpperLimits DEF Limit

LEMMA SameUpperLimit ==
    ASSUME SwapTotalKiB' = SwapTotalKiB, NEW o
    PROVE  upper_limit(o)' = upper_limit(o)
  BY DEF upper_limit

----------------------------------------------------------------------------
(* The inductive invariant.                                                *)

Opts  == Limit \cup Flag \cup Text \cup Ignored \cup Other
After == {"regcomp", "priority", "adj", "selftest", "lock", "running"}

LineInv ==
    /\ argv \in Seq(Item) /\ SwapTotalKiB \in Nat
    /\ pc \in {"start", "getopt", "exit"} \cup After
    /\ pc = "start" => argv = <<>>
    /\ \A o \in Opts : HasLast(o)
    /\ DOMAIN limits = {"mem", "swap"} /\ DOMAIN size = {"mem", "swap"}
    /\ DOMAIN text = Text

\* Flags, texts and the interval are what the line read so far says, but for
\* what the self-tests take away.
Tested      == {"lock", "running"}
Disabled(o) == o \in {"N", "P"} /\ Final(o).arg \in Relative

ArgsInv ==
    /\ pc # "exit" =>
          /\ \A o \in Flag : o \in flags => Given(o) # {}
          /\ \A o \in Flag \ {"kernel-oom"} : Given(o) # {} => o \in flags
          /\ \A o \in Text : text[o] = IF Given(o) = {} \/ (pc \in Tested /\ Disabled(o))
                                     THEN None ELSE Final(o).arg
          /\ report_interval_ms = IF Given("r") = {} THEN 1000
                                  ELSE IF Final("r").arg = Bad THEN 0 ELSE 10 * Final("r").arg
    /\ raised # {} \/ pc \in {"priority", "adj"} => "p" \in flags

\* So are percentages and sizes, up to the merge; an accepted pair is sound.
Stored(w, small, big) ==
    /\ small \in have <=> Given(small) # {}
    /\ big \in have <=> Given(big) # {}
    /\ Given(small) = {} => limits[w] = Pair(10 * Scale, 5 * Scale)
    /\ Given(small) # {} => limits[w] = Wanted(Final(small)) /\ Sound(Wanted(Final(small)))
    /\ Given(big) # {} => size[w] = Wanted(Final(big)) /\ Sound(Wanted(Final(big)))

StoreInv ==
    pc \in {"start", "getopt"} /\ NumbersOnly =>
        /\ Stored("mem", "m", "M") /\ Stored("swap", "s", "S")
        /\ Given("S") # {} => SwapTotalKiB > 0

\* After the merge the limits are final.
LimitInv ==
    pc \in After /\ NumbersOnly =>
        /\ Sound(limits["mem"]) /\ Sound(limits["swap"])
        /\ \A t \in {"term", "kill"} :
              Lower(t, "m", "M", MemTotalKiB) /\ Lower(t, "s", "S", SwapTotalKiB)

\* The program goes on only over items that do not end it, and exits with the
\* code that its reason has.
EndsAt == {n \in DOMAIN argv : Ends(argv[n])}

Told ==
    \/ EndsAt = {Len(argv)} /\ code = EXIT_STATUS(argv[Len(argv)])
    \/ EndsAt = {} /\ Extra /\ code = 13
    \/ EndsAt = {} /\ ~Extra /\ BadRegex /\ code = 6
    \/ argv = <<>> /\ code = 4
    \/ EndsAt = {} /\ ~Extra /\ ~BadRegex /\ code = 5

EndInv ==
    NumbersOnly =>
        /\ pc # "exit" => \A n \in DOMAIN argv : ~Ends(argv[n])
        /\ pc \in After => ~Extra
        /\ pc \in After \ {"regcomp"} => ~BadRegex
        /\ pc = "exit" => Told

----------------------------------------------------------------------------
(* The line.                                                               *)

\* What a line that is not read on keeps.
LEMMA SameLine ==
    ASSUME argv' = argv, SwapTotalKiB' = SwapTotalKiB
    PROVE  /\ \A o : Given(o)' = Given(o) /\ Final(o)' = Final(o) /\ (HasLast(o)' <=> HasLast(o))
           /\ NumbersOnly' <=> NumbersOnly
           /\ Extra' <=> Extra
           /\ BadRegex' <=> BadRegex
           /\ \A i : Ends(i)' <=> Ends(i)
  <1>1. \A o : Given(o)' = Given(o) /\ Final(o)' = Final(o) /\ (HasLast(o)' <=> HasLast(o))
    BY DEF Given, Final, HasLast
  <1>2. /\ NumbersOnly' <=> NumbersOnly
        /\ Extra' <=> Extra
        /\ BadRegex' <=> BadRegex
    BY <1>1 DEF NumbersOnly, Extra, BadRegex
  <1>3. \A i : Ends(i)' <=> Ends(i)
    BY SameUpperLimit DEF Ends, OutOfRange
  <1> QED
    BY <1>1, <1>2, <1>3

\* Every action either reads one more item or leaves the line alone.
LEMMA Steps ==
    ASSUME [Next]_vars
    PROVE  /\ SwapTotalKiB' = SwapTotalKiB
           /\ \/ \E i \in Items : Option(i) /\ Getopt(i)
              \/ argv' = argv /\ ~\E i \in Items : Option(i)
  <1>1. \A i \in Items : Option(i) => Getopt(i)
    BY DEF Option, LimitFatal, LimitAccept, SetFlag, SetText, ReportInterval, Skip, Leave
  <1>2. CASE ~\E i \in Items : Option(i)
    BY <1>2 DEF Next, vars, Chdir, ChdirFails, ExtraArgument, Merge, Regcomp, SetPriority,
                SetOomScoreAdj, Selftests, SelftestFails, Mlockall, Stopped
  <1> QED
    BY <1>1, <1>2 DEF Getopt

LEMMA LineStep ==
    ASSUME LineInv, [Next]_vars PROVE LineInv'
  <1>1. ASSUME NEW i \in Items, Option(i), Getopt(i) PROVE LineInv'
    <2>1. /\ i \in Item /\ argv' = Append(argv, i) /\ SwapTotalKiB' = SwapTotalKiB
          /\ pc = "getopt" /\ argv \in Seq(Item)
      BY <1>1, CommandLineAssumption DEF Getopt, LineInv
    <2>2. argv' \in Seq(Item) /\ \A o \in Opts : HasLast(o)'
      BY <2>1, Appended, FinalAppended DEF LineInv
    <2>3. pc' \in {"getopt", "exit"}
      BY <1>1, <2>1 DEF Option, LimitFatal, LimitAccept, SetFlag, SetText, ReportInterval,
                        Skip, Leave, fatal
    <2>4. /\ DOMAIN limits' = {"mem", "swap"} /\ DOMAIN size' = {"mem", "swap"}
          /\ DOMAIN text' = Text
      BY <1>1 DEF Option, LimitFatal, LimitAccept, SetFlag, SetText, ReportInterval,
                  Skip, Leave, tuples, other, LineInv
    <2> QED
      BY <2>1, <2>2, <2>3, <2>4 DEF LineInv
  <1>2. CASE argv' = argv /\ ~\E i \in Items : Option(i)
    <2>1. SwapTotalKiB' = SwapTotalKiB /\ \A o \in Opts : HasLast(o)'
      BY <1>2, Steps, SameLine DEF LineInv
    <2>2. /\ pc' \in {"start", "getopt", "exit"} \cup After
          /\ pc' = "start" => pc = "start"
      BY <1>2 DEF Next, vars, Chdir, ChdirFails, ExtraArgument, Merge, Regcomp, SetPriority,
                  SetOomScoreAdj, Selftests, SelftestFails, Mlockall, Stopped, fatal, After, LineInv
    <2>3. /\ DOMAIN limits' = {"mem", "swap"} /\ DOMAIN size' = {"mem", "swap"}
          /\ DOMAIN text' = Text
      BY <1>2 DEF Next, vars, Chdir, ChdirFails, ExtraArgument, Merge, Regcomp, SetPriority,
                  SetOomScoreAdj, Selftests, SelftestFails, Mlockall, Stopped, tuples, other,
                  LineInv
    <2> QED
      BY <1>2, <2>1, <2>2, <2>3 DEF LineInv
  <1> QED
    BY <1>1, <1>2, Steps

\* An item is read.
LEMMA ReadItem ==
    ASSUME LineInv, NEW i \in Items, Getopt(i)
    PROVE  /\ i \in Item /\ argv \in Seq(Item) /\ argv' = Append(argv, i)
           /\ SwapTotalKiB \in Nat /\ SwapTotalKiB' = SwapTotalKiB
           /\ pc = "getopt" /\ raised' = raised
           /\ i.opt \in Opts
           /\ \A o \in Opts :
                 /\ i.opt = o => Given(o)' # {} /\ Final(o)' = i
                 /\ i.opt # o => Given(o)' = Given(o)
                                /\ (Given(o) # {} => Final(o)' = Final(o))
  <1>1. /\ i \in Item /\ argv \in Seq(Item) /\ argv' = Append(argv, i)
        /\ \A o \in Opts : HasLast(o)
    BY CommandLineAssumption DEF LineInv, Getopt
  <1> QED
    BY <1>1, FinalAppended, ItemFields DEF LineInv, Getopt, Opts

----------------------------------------------------------------------------
(* Flags, texts and the interval.                                          *)

LEMMA ArgsOption ==
    ASSUME LineInv, ArgsInv, NEW i \in Items, Option(i), Getopt(i) PROVE ArgsInv'
  <1>0. /\ pc = "getopt" /\ raised' = raised /\ i \in Item
        /\ \A o \in Flag \cup Text \cup {"r"} :
              /\ i.opt = o => Given(o)' # {} /\ Final(o)' = i
              /\ i.opt # o => Given(o)' = Given(o)
                             /\ (Given(o) # {} => Final(o)' = Final(o))
    BY ReadItem DEF Opts, Other
  <1>1. CASE SetFlag(i)
    <2>1. /\ flags' = flags \cup {i.opt} /\ i.opt \in Flag
          /\ UNCHANGED <<pc, text, report_interval_ms>>
      BY <1>1 DEF SetFlag
    <2>2. /\ \A o \in Flag : o \in flags' => Given(o)' # {}
          /\ \A o \in Flag \ {"kernel-oom"} : Given(o)' # {} => o \in flags'
      BY <1>0, <2>1 DEF ArgsInv
    <2>3. i.opt \notin Text \cup {"r"}
      BY <2>1 DEF Flag, Text
    <2>4. /\ \A o \in Text : Given(o)' = Given(o) /\ (Given(o) # {} => Final(o)' = Final(o))
          /\ Given("r")' = Given("r") /\ (Given("r") # {} => Final("r")' = Final("r"))
      BY <1>0, <2>3
    <2> QED
      BY <1>0, <2>1, <2>2, <2>4 DEF ArgsInv, Tested
  <1>2. CASE SetText(i)
    <2>1. /\ text' = [text EXCEPT ![i.opt] = i.arg] /\ i.opt \in Text
          /\ UNCHANGED <<pc, flags, report_interval_ms>> /\ DOMAIN text = Text
      BY <1>2 DEF SetText, LineInv
    <2>2. i.opt \notin Flag \cup {"r"}
      BY <2>1 DEF Flag, Text
    <2>3. ASSUME NEW o \in Text
          PROVE  text'[o] = IF Given(o)' = {} THEN None ELSE Final(o)'.arg
      BY <1>0, <2>1 DEF ArgsInv, Tested
    <2>4. /\ \A o \in Flag : Given(o)' = Given(o)
          /\ Given("r")' = Given("r") /\ (Given("r") # {} => Final("r")' = Final("r"))
      BY <1>0, <2>2
    <2> QED
      BY <1>0, <2>1, <2>3, <2>4 DEF ArgsInv, Tested
  <1>3. CASE ReportInterval(i)
    <2>1. /\ i.opt = "r" /\ UNCHANGED <<flags, text>>
          /\ \/ pc' = "exit"
             \/ /\ pc' = pc
                /\ report_interval_ms' = ((IF i.arg = Bad THEN 0 ELSE i.arg) * 1000) \div Scale
      BY <1>3 DEF ReportInterval, fatal
    <2>2. i.opt \notin Flag \cup Text
      BY <2>1 DEF Flag, Text
    <2>3. \A o \in Flag \cup Text :
             Given(o)' = Given(o) /\ (Given(o) # {} => Final(o)' = Final(o))
      BY <1>0, <2>2
    <2>4. i.arg \in Int
      BY <1>0, <2>1, ItemFields DEF Limit
    <2>5. pc' # "exit" =>
            report_interval_ms' = IF Given("r")' = {} THEN 1000
                                  ELSE IF Final("r")'.arg = Bad THEN 0
                                  ELSE 10 * Final("r")'.arg
      BY <1>0, <2>1, <2>4
    <2> QED
      BY <1>0, <2>1, <2>3, <2>5 DEF ArgsInv, Tested
  <1>4. CASE LimitFatal(i) \/ LimitAccept(i) \/ Skip(i) \/ Leave(i)
    <2>1. /\ i.opt \in Limit \cup Ignored \cup {"extra", "v", "h", "?"}
          /\ UNCHANGED <<flags, text, report_interval_ms>> /\ pc' \in {"exit", "getopt"}
      BY <1>0, <1>4 DEF LimitFatal, LimitAccept, Skip, Leave, other, fatal
    <2>2. i.opt \notin Flag \cup Text \cup {"r"}
      BY <2>1 DEF Flag, Text, Limit, Ignored
    <2>3. \A o \in Flag \cup Text \cup {"r"} :
             Given(o)' = Given(o) /\ (Given(o) # {} => Final(o)' = Final(o))
      BY <1>0, <2>2
    <2> QED
      BY <1>0, <2>1, <2>3 DEF ArgsInv, Tested
  <1> QED
    BY <1>1, <1>2, <1>3, <1>4 DEF Option

LEMMA ArgsStep ==
    ASSUME LineInv, ArgsInv, [Next]_vars PROVE ArgsInv'
  <1>1. ASSUME argv' = argv, ~\E i \in Items : Option(i), ~Selftests PROVE ArgsInv'
    <2>1. /\ UNCHANGED <<flags, text, report_interval_ms>>
          /\ pc' # "exit" => pc # "exit" \/ UNCHANGED vars
          /\ pc' # "exit" => (pc' \in Tested <=> pc \in Tested)
          /\ raised' # {} \/ pc' \in {"priority", "adj"} =>
                \/ raised # {} \/ pc \in {"priority", "adj"} \/ "p" \in flags
      BY <1>1 DEF Next, vars, Chdir, ChdirFails, ExtraArgument, Merge, Regcomp, SetPriority,
                  SetOomScoreAdj, SelftestFails, Mlockall, Stopped, fatal, other, Tested
    <2>2. pc' # "exit" => pc # "exit"
      BY <2>1 DEF vars
    <2>3. \A o : Given(o)' = Given(o) /\ Final(o)' = Final(o)
      BY <1>1, Steps, SameLine
    <2>4. ASSUME NEW o \in Text, pc' # "exit"
          PROVE  text'[o] = IF Given(o)' = {} \/ (pc' \in Tested /\ Disabled(o)')
                            THEN None ELSE Final(o)'.arg
      <3>1. text[o] = IF Given(o) = {} \/ (pc \in Tested /\ Disabled(o))
                      THEN None ELSE Final(o).arg
        BY <2>2, <2>4 DEF ArgsInv
      <3>2. Given(o)' = Given(o) /\ Final(o)' = Final(o)
        BY <2>3
      <3>3. Disabled(o)' <=> Disabled(o)
        BY <3>2 DEF Disabled
      <3>4. text'[o] = text[o] /\ (pc' \in Tested <=> pc \in Tested)
        BY <2>1, <2>4
      <3> QED
        BY <3>1, <3>2, <3>3, <3>4
    <2>5. pc' # "exit" =>
            /\ \A o \in Flag : o \in flags' => Given(o)' # {}
            /\ \A o \in Flag \ {"kernel-oom"} : Given(o)' # {} => o \in flags'
            /\ report_interval_ms' = IF Given("r")' = {} THEN 1000
                                     ELSE IF Final("r")'.arg = Bad THEN 0
                                     ELSE 10 * Final("r")'.arg
      BY <2>1, <2>2, <2>3 DEF ArgsInv
    <2>6. raised' # {} \/ pc' \in {"priority", "adj"} => "p" \in flags'
      BY <2>1 DEF ArgsInv
    <2> QED
      BY <2>4, <2>5, <2>6 DEF ArgsInv
  <1>2. ASSUME Selftests PROVE ArgsInv'
    <2>1. /\ pc = "selftest" /\ pc' = "lock" /\ argv' = argv /\ SwapTotalKiB' = SwapTotalKiB
          /\ flags' \in {flags, flags \ {"kernel-oom"}}
          /\ report_interval_ms' = report_interval_ms /\ raised' = raised
          /\ text' = [o \in Text |-> IF o \in {"N", "P"} /\ text[o] \in Relative
                                     THEN None ELSE text[o]]
      BY <1>2 DEF Selftests
    <2>2. \A o : Given(o)' = Given(o) /\ Final(o)' = Final(o)
      BY <2>1, SameLine
    <2>3. /\ \A o \in Flag : o \in flags' => Given(o)' # {}
          /\ \A o \in Flag \ {"kernel-oom"} : Given(o)' # {} => o \in flags'
          /\ raised' # {} => "p" \in flags'
      BY <2>1, <2>2 DEF ArgsInv
    <2>4. ASSUME NEW o \in Text
          PROVE  text'[o] = IF Given(o)' = {} \/ Disabled(o)' THEN None ELSE Final(o)'.arg
      <3>1. text[o] = IF Given(o) = {} THEN None ELSE Final(o).arg
        BY <2>1 DEF ArgsInv, Tested
      <3>2. text'[o] = IF o \in {"N", "P"} /\ text[o] \in Relative THEN None ELSE text[o]
        BY <2>1
      <3>3. Disabled(o)' <=> o \in {"N", "P"} /\ Final(o).arg \in Relative
        BY <2>2 DEF Disabled
      <3> QED
        BY <2>2, <3>1, <3>2, <3>3
    <2> QED
      BY <2>1, <2>2, <2>3, <2>4 DEF ArgsInv, Tested
  <1> QED
    BY <1>1, <1>2, Steps, ArgsOption

----------------------------------------------------------------------------
(* The limits.                                                             *)

\* The tuple of an item that stands on a line without "nan".
LEMMA TupleOfItem ==
    ASSUME LineInv, NEW i \in Items, Getopt(i), i.opt \in Limit, NumbersOnly'
    PROVE  /\ tuple(i).err <=> OutOfRange(i)
           /\ ~tuple(i).err =>
                 /\ Pair(tuple(i).term, tuple(i).kill) = Wanted(i) /\ Sound(Wanted(i))
                 /\ i.opt = "S" => SwapTotalKiB > 0
  <1>1. /\ i \in Item /\ argv \in Seq(Item) /\ argv' = Append(argv, i) /\ SwapTotalKiB \in Nat
    BY ReadItem
  <1>2. i.part1 \in Int /\ i.part2 \in Int /\ NaN # i.part1 /\ NaN # i.part2
    BY <1>1, ItemFields, NumbersAppended
  <1>3. upper_limit(i.opt) \in Nat
    BY <1>1, UpperLimitType
  <1>4. /\ tuple(i).err <=> OutOfRange(i)
        /\ ~tuple(i).err =>
              /\ Pair(tuple(i).term, tuple(i).kill) = Wanted(i) /\ Sound(Wanted(i))
              /\ WantedTerm(i) <= upper_limit(i.opt) * Scale
    BY <1>2, <1>3, TupleMeaning DEF tuple, OutOfRange
  <1>5. ASSUME i.opt = "S", SwapTotalKiB = 0, ~tuple(i).err PROVE FALSE
    <2>1. upper_limit("S") = (0 * 100) \div 99
      BY <1>1, <1>5, UpperLimits
    <2>2. upper_limit("S") = 0
      BY <2>1
    <2>3. WantedTerm(i) <= 0 /\ Wanted(i).term = WantedTerm(i)
      BY <1>4, <1>5, <2>2 DEF Wanted, Pair
    <2> QED
      BY <1>4, <1>5, <2>3 DEF Sound
  <1> QED
    BY <1>1, <1>4, <1>5

\* An item of another option leaves the pair alone.
LEMMA StoredSame ==
    ASSUME NEW w, NEW small, NEW big, Stored(w, small, big),
           UNCHANGED <<limits, size, have>>,
           \A o \in {small, big} :
               Given(o)' = Given(o) /\ (Given(o) # {} => Final(o)' = Final(o))
    PROVE  Stored(w, small, big)'
  BY DEF Stored

LEMMA StoreAccept ==
    ASSUME LineInv, StoreInv, NumbersOnly', NEW i \in Items, LimitAccept(i), Getopt(i)
    PROVE  /\ Stored("mem", "m", "M")' /\ Stored("swap", "s", "S")'
           /\ Given("S")' # {} => SwapTotalKiB' > 0
  <1>1. /\ i.opt \in Limit /\ ~tuple(i).err
    BY DEF LimitAccept
  <1>2. /\ Pair(tuple(i).term, tuple(i).kill) = Wanted(i) /\ Sound(Wanted(i))
        /\ i.opt = "S" => SwapTotalKiB > 0
    BY <1>1, TupleOfItem
  <1>3. /\ have' = have \cup {i.opt}
        /\ limits' = IF i.opt \in {"m", "s"} THEN [limits EXCEPT ![Which(i.opt)] = Wanted(i)]
                     ELSE limits
        /\ size' = IF i.opt \in {"M", "S"} THEN [size EXCEPT ![Which(i.opt)] = Wanted(i)]
                   ELSE size
    <2>1. ~(i.opt = "S" /\ SwapTotalKiB = 0)
      BY <1>2 DEF LineInv
    <2> QED
      BY <1>2, <2>1 DEF LimitAccept
  <1>4. NumbersOnly /\ pc = "getopt" /\ SwapTotalKiB' = SwapTotalKiB
    BY ReadItem, NumbersAppended
  <1>5. /\ Stored("mem", "m", "M") /\ Stored("swap", "s", "S")
        /\ Given("S") # {} => SwapTotalKiB > 0
    BY <1>4 DEF StoreInv
  <1>6. \A o \in Limit :
          /\ i.opt = o => Given(o)' # {} /\ Final(o)' = i
          /\ i.opt # o => Given(o)' = Given(o)
                         /\ (Given(o) # {} => Final(o)' = Final(o))
    BY ReadItem DEF Opts
  <1>7. DOMAIN limits = {"mem", "swap"} /\ DOMAIN size = {"mem", "swap"}
    BY DEF LineInv
  <1>8. Given("S")' # {} => SwapTotalKiB' > 0
    BY <1>2, <1>4, <1>5, <1>6 DEF Limit
  <1>9. /\ "m" \in Limit /\ "M" \in Limit /\ "s" \in Limit /\ "S" \in Limit
        /\ Which("m") = "mem" /\ Which("M") = "mem"
        /\ Which("s") = "swap" /\ Which("S") = "swap"
    BY DEF Limit, Which
  <1>10. CASE i.opt = "m"
    <2>1. /\ limits'["mem"] = Wanted(i) /\ limits'["swap"] = limits["swap"] /\ size' = size
          /\ Given("m")' # {} /\ Final("m")' = i
          /\ \A o \in {"M", "s", "S"} :
                Given(o)' = Given(o) /\ (Given(o) # {} => Final(o)' = Final(o))
      BY <1>3, <1>6, <1>7, <1>9, <1>10
    <2> QED
      BY <1>2, <1>3, <1>5, <1>8, <1>10, <2>1 DEF Stored
  <1>11. CASE i.opt = "M"
    <2>1. /\ size'["mem"] = Wanted(i) /\ size'["swap"] = size["swap"] /\ limits' = limits
          /\ Given("M")' # {} /\ Final("M")' = i
          /\ \A o \in {"m", "s", "S"} :
                Given(o)' = Given(o) /\ (Given(o) # {} => Final(o)' = Final(o))
      BY <1>3, <1>6, <1>7, <1>9, <1>11
    <2> QED
      BY <1>2, <1>3, <1>5, <1>8, <1>11, <2>1 DEF Stored
  <1>12. CASE i.opt = "s"
    <2>1. /\ limits'["swap"] = Wanted(i) /\ limits'["mem"] = limits["mem"] /\ size' = size
          /\ Given("s")' # {} /\ Final("s")' = i
          /\ \A o \in {"M", "m", "S"} :
                Given(o)' = Given(o) /\ (Given(o) # {} => Final(o)' = Final(o))
      BY <1>3, <1>6, <1>7, <1>9, <1>12
    <2> QED
      BY <1>2, <1>3, <1>5, <1>8, <1>12, <2>1 DEF Stored
  <1>13. CASE i.opt = "S"
    <2>1. /\ size'["swap"] = Wanted(i) /\ size'["mem"] = size["mem"] /\ limits' = limits
          /\ Given("S")' # {} /\ Final("S")' = i
          /\ \A o \in {"m", "s", "M"} :
                Given(o)' = Given(o) /\ (Given(o) # {} => Final(o)' = Final(o))
      BY <1>3, <1>6, <1>7, <1>9, <1>13
    <2> QED
      BY <1>2, <1>3, <1>5, <1>8, <1>13, <2>1 DEF Stored
  <1> QED
    BY <1>1, <1>10, <1>11, <1>12, <1>13 DEF Limit

LEMMA StoreStep ==
    ASSUME LineInv, StoreInv, [Next]_vars PROVE StoreInv'
  <1> SUFFICES ASSUME pc' \in {"start", "getopt"}, NumbersOnly'
               PROVE  /\ Stored("mem", "m", "M")' /\ Stored("swap", "s", "S")'
                      /\ Given("S")' # {} => SwapTotalKiB' > 0
    BY DEF StoreInv
  <1>1. ASSUME NEW i \in Items, Option(i), Getopt(i), ~LimitAccept(i)
        PROVE  /\ Stored("mem", "m", "M")' /\ Stored("swap", "s", "S")'
               /\ Given("S")' # {} => SwapTotalKiB' > 0
    <2>1. UNCHANGED <<limits, size, have>> /\ i.opt \notin Limit
      BY <1>1 DEF Option, LimitFatal, SetFlag, SetText, ReportInterval, Skip, Leave, tuples,
                  fatal, Flag, Text, Ignored, Limit
    <2>2. NumbersOnly /\ pc = "getopt" /\ SwapTotalKiB' = SwapTotalKiB
      BY <1>1, ReadItem, NumbersAppended
    <2>3. \A o \in {"m", "M", "s", "S"} :
            Given(o)' = Given(o) /\ (Given(o) # {} => Final(o)' = Final(o))
      BY <1>1, <2>1, ReadItem DEF Opts, Limit
    <2> QED
      BY <2>1, <2>2, <2>3, StoredSame DEF StoreInv
  <1>2. ASSUME argv' = argv, ~\E i \in Items : Option(i)
        PROVE  /\ Stored("mem", "m", "M")' /\ Stored("swap", "s", "S")'
               /\ Given("S")' # {} => SwapTotalKiB' > 0
    <2>1. UNCHANGED <<limits, size, have>> /\ pc \in {"start", "getopt"}
      BY <1>2 DEF Next, vars, Chdir, ChdirFails, ExtraArgument, Merge, Regcomp, SetPriority,
                  SetOomScoreAdj, Selftests, SelftestFails, Mlockall, Stopped, fatal, tuples
    <2>2. /\ \A o : Given(o)' = Given(o) /\ Final(o)' = Final(o)
          /\ NumbersOnly /\ SwapTotalKiB' = SwapTotalKiB
      BY <1>2, Steps, SameLine
    <2> QED
      BY <2>1, <2>2, StoredSame DEF StoreInv
  <1> QED
    BY <1>1, <1>2, Steps, StoreAccept

\* The lower of two sound pairs is sound.
LEMMA LowerSound ==
    ASSUME NEW q, NEW r, Sound(q), Sound(r)
    PROVE  LET p == Pair(min(q.term, r.term), min(q.kill, r.kill))
           IN /\ Sound(p)
              /\ p.term \in {q.term, r.term} /\ p.term <= q.term /\ p.term <= r.term
              /\ p.kill \in {q.kill, r.kill} /\ p.kill <= q.kill /\ p.kill <= r.kill
  BY Marks DEF Sound, Pair, min, less

LEMMA PercentSound ==
    ASSUME NEW q, Sound(q), NEW total \in Nat \ {0}
    PROVE  Sound(Pair(percent(q.term, total), percent(q.kill, total)))
  <1>1. q.term \in Nat /\ q.kill \in Nat /\ q.kill <= q.term /\ 0 < q.term
    BY DEF Sound
  <1>2. /\ percent(q.kill, total) \in Int /\ 0 <= percent(q.kill, total)
        /\ percent(q.kill, total) <= percent(q.term, total)
    BY <1>1, PercentOrder
  <1>3. percent(q.term, total) \in Int /\ 0 < percent(q.term, total)
    BY <1>1, PercentOrder
  <1> QED
    BY <1>2, <1>3 DEF Sound, Pair

\* The merge of the stored percentages and sizes of memory or swap.
LEMMA MergeLower ==
    ASSUME LineInv, argv' = argv, SwapTotalKiB' = SwapTotalKiB,
           NEW w, NEW small, NEW big, NEW total,
           small \in {"m", "s"}, big \in {"M", "S"}, Which(small) = w,
           Stored(w, small, big), Given(big) # {} => total \in Nat \ {0},
           limits'[w] = Merged(w, small, big, total)
    PROVE  Sound(limits'[w]) /\ \A t \in {"term", "kill"} : Lower(t, small, big, total)'
  <1> DEFINE limit == limits'[w]
             asked(t) == {Asked(Final(o), total)[t] :
                            o \in {x \in {small, big} : Given(x) # {}}}
             q == Wanted(Final(small))
             r == Pair(percent(Wanted(Final(big)).term, total),
                       percent(Wanted(Final(big)).kill, total))
  <1>1. ASSUME NEW t \in {"term", "kill"}
        PROVE  Lower(t, small, big, total)' <=>
                 IF asked(t) = {} THEN limit[t] = (IF t = "term" THEN 10 ELSE 5) * Scale
                 ELSE limit[t] \in asked(t) /\ \A x \in asked(t) : limit[t] <= x
    <2>1. \A o : Given(o)' = Given(o) /\ Final(o)' = Final(o)
      BY SameLine
    <2> QED
      BY <2>1 DEF Lower
  <1>2. Given(small) # {} => Final(small).opt = small /\ Asked(Final(small), total) = q
    <2>1. small \in Opts
      BY DEF Opts, Limit
    <2>2. Given(small) # {} => Final(small).opt = small
      BY <2>1, FinalItem DEF LineInv
    <2> QED
      BY <2>2 DEF Asked, Wanted, WantedTerm, WantedKill
  <1>3. Given(big) # {} => Final(big).opt = big /\ Asked(Final(big), total) = r
    <2>1. big \in Opts
      BY DEF Opts, Limit
    <2>2. Given(big) # {} => Final(big).opt = big
      BY <2>1, FinalItem DEF LineInv
    <2>3. Given(big) # {} => Final(big).opt \notin {"m", "s"}
      BY <2>2
    <2> QED
      BY <2>2, <2>3 DEF Asked, Wanted, WantedTerm, WantedKill, Pair
  <1>4. small \in have <=> Given(small) # {}
    BY DEF Stored
  <1>5. big \in have <=> Given(big) # {}
    BY DEF Stored
  <1>6. Given(small) # {} => limits[w] = q /\ Sound(q)
    BY DEF Stored
  <1>7. Given(big) # {} => size[w] = Wanted(Final(big)) /\ Sound(r)
    BY PercentSound DEF Stored
  <1>8. CASE Given(small) = {} /\ Given(big) = {}
    <2>1. limit = Pair(10 * Scale, 5 * Scale)
      BY <1>5, <1>8 DEF Merged, Stored
    <2>2. asked("term") = {} /\ asked("kill") = {}
      BY <1>8
    <2>3. limit["term"] = 10 * Scale /\ limit["kill"] = 5 * Scale /\ Sound(limit)
      BY <2>1 DEF Pair, Sound
    <2> QED
      BY <1>1, <2>2, <2>3
  <1>9. CASE Given(small) # {} /\ Given(big) = {}
    <2>1. limit = q /\ Sound(limit)
      BY <1>5, <1>6, <1>9 DEF Merged
    <2>2. \A t \in {"term", "kill"} : asked(t) = {q[t]}
      BY <1>2, <1>9
    <2>3. \A t \in {"term", "kill"} : limit[t] = q[t] /\ limit[t] \in Int
      BY <2>1 DEF Sound
    <2> HIDE DEF q, r
    <2>4. \A t \in {"term", "kill"} : limit[t] \in asked(t) /\ \A x \in asked(t) : limit[t] <= x
      BY <2>2, <2>3
    <2> QED
      BY <1>1, <2>1, <2>4
  <1>10. CASE Given(small) = {} /\ Given(big) # {}
    <2>1. limit = r /\ Sound(limit)
      BY <1>4, <1>5, <1>7, <1>10 DEF Merged
    <2>2. \A t \in {"term", "kill"} : asked(t) = {r[t]}
      BY <1>3, <1>10
    <2>3. \A t \in {"term", "kill"} : limit[t] = r[t] /\ limit[t] \in Int
      BY <2>1 DEF Sound
    <2> HIDE DEF q, r
    <2>4. \A t \in {"term", "kill"} : limit[t] \in asked(t) /\ \A x \in asked(t) : limit[t] <= x
      BY <2>2, <2>3
    <2> QED
      BY <1>1, <2>1, <2>4
  <1>11. CASE Given(small) # {} /\ Given(big) # {}
    <2>1. limit = Pair(min(q.term, r.term), min(q.kill, r.kill))
      BY <1>4, <1>5, <1>6, <1>7, <1>11 DEF Merged, Pair
    <2>2. \A t \in {"term", "kill"} : asked(t) = {q[t], r[t]}
      BY <1>2, <1>3, <1>11
    <2> HIDE DEF q, r
    <2>3. /\ Sound(limit)
          /\ limit.term \in {q.term, r.term} /\ limit.term <= q.term /\ limit.term <= r.term
          /\ limit.kill \in {q.kill, r.kill} /\ limit.kill <= q.kill /\ limit.kill <= r.kill
      BY <1>6, <1>7, <1>11, <2>1, LowerSound
    <2>4. \A t \in {"term", "kill"} : limit[t] \in asked(t) /\ \A x \in asked(t) : limit[t] <= x
      BY <2>2, <2>3
    <2> QED
      BY <1>1, <2>3, <2>4
  <1> QED
    BY <1>8, <1>9, <1>10, <1>11

LEMMA LimitStep ==
    ASSUME LineInv, StoreInv, LimitInv, [Next]_vars PROVE LimitInv'
  <1> SUFFICES ASSUME pc' \in After, NumbersOnly'
               PROVE  /\ Sound(limits["mem"])' /\ Sound(limits["swap"])'
                      /\ \A t \in {"term", "kill"} :
                            /\ Lower(t, "m", "M", MemTotalKiB)'
                            /\ Lower(t, "s", "S", SwapTotalKiB)'
    BY DEF LimitInv
  <1>1. argv' = argv /\ SwapTotalKiB' = SwapTotalKiB
    BY Steps DEF Option, LimitFatal, LimitAccept, SetFlag, SetText, ReportInterval, Skip,
                 Leave, Getopt, fatal, After
  <1>2. NumbersOnly
    BY <1>1, SameLine
  <1>3. CASE Merge
    <2>1. /\ pc = "getopt"
          /\ limits'["mem"] = Merged("mem", "m", "M", MemTotalKiB)
          /\ limits'["swap"] = Merged("swap", "s", "S", SwapTotalKiB)
      BY <1>3 DEF Merge
    <2>2. /\ Stored("mem", "m", "M") /\ Stored("swap", "s", "S")
          /\ Given("S") # {} => SwapTotalKiB \in Nat \ {0}
          /\ MemTotalKiB \in Nat \ {0}
      BY <1>2, <2>1, CommandLineAssumption DEF StoreInv, LineInv
    <2>3. Which("m") = "mem" /\ Which("s") = "swap"
      BY DEF Which
    <2>4. /\ Sound(limits'["mem"])
          /\ \A t \in {"term", "kill"} : Lower(t, "m", "M", MemTotalKiB)'
      BY <1>1, <2>1, <2>2, <2>3, MergeLower
    <2>5. /\ Sound(limits'["swap"])
          /\ \A t \in {"term", "kill"} : Lower(t, "s", "S", SwapTotalKiB)'
      <3>1. PICK total : total = SwapTotalKiB
        OBVIOUS
      <3>2. /\ Sound(limits'["swap"])
            /\ \A t \in {"term", "kill"} : Lower(t, "s", "S", total)'
        BY <1>1, <2>1, <2>2, <2>3, <3>1, MergeLower
      <3> QED
        BY <1>1, <3>1, <3>2 DEF Lower
    <2> QED
      BY <2>4, <2>5
  <1>4. CASE ~Merge
    <2>1. limits' = limits /\ pc \in After
      BY <1>4 DEF Next, vars, Chdir, ChdirFails, ExtraArgument, Regcomp, SetPriority,
                  SetOomScoreAdj, Selftests, SelftestFails, Mlockall, Stopped, fatal, tuples,
                  After, Option, LimitFatal, LimitAccept, SetFlag, SetText, ReportInterval,
                  Skip, Leave, Getopt
    <2>2. \A o : Given(o)' = Given(o) /\ Final(o)' = Final(o)
      BY <1>1, SameLine
    <2>3. ASSUME NEW t \in {"term", "kill"}
          PROVE  /\ Lower(t, "m", "M", MemTotalKiB)' <=> Lower(t, "m", "M", MemTotalKiB)
                 /\ Lower(t, "s", "S", SwapTotalKiB)' <=> Lower(t, "s", "S", SwapTotalKiB)
      BY <1>1, <2>1, <2>2 DEF Lower
    <2> QED
      BY <1>2, <2>1, <2>3 DEF LimitInv
  <1> QED
    BY <1>3, <1>4

----------------------------------------------------------------------------
(* Exits.                                                                  *)

LEMMA ExitCodes ==
    ASSUME NEW i
    PROVE  /\ i.opt \in {"v", "h"} => EXIT_STATUS(i) = 0
           /\ i.opt = "?" => EXIT_STATUS(i) = 13
           /\ i.opt = "r" => EXIT_STATUS(i) = 14
           /\ i.opt \in {"m", "M"} => EXIT_STATUS(i) = 15
           /\ i.opt \in {"s", "S"} => EXIT_STATUS(i) = 16
  <1>1. i.opt \in {"v", "h"} => EXIT_STATUS(i) = 0
    BY DEF EXIT_STATUS
  <1>2. i.opt = "?" => EXIT_STATUS(i) = 13
    BY DEF EXIT_STATUS
  <1>3. i.opt = "r" => EXIT_STATUS(i) = 14
    BY DEF EXIT_STATUS
  <1>4. i.opt \in {"m", "M"} => EXIT_STATUS(i) = 15
    BY DEF EXIT_STATUS
  <1>5. i.opt \in {"s", "S"} => EXIT_STATUS(i) = 16
    BY DEF EXIT_STATUS
  <1> QED
    BY <1>1, <1>2, <1>3, <1>4, <1>5

\* An item ends the program if and only if it is one that does.
LEMMA ItemEnds ==
    ASSUME LineInv, NEW i \in Items, Option(i), Getopt(i), NumbersOnly'
    PROVE  \/ pc' = "getopt" /\ ~Ends(i)
           \/ pc' = "exit" /\ Ends(i) /\ code' = EXIT_STATUS(i)
  <1>0. pc = "getopt" /\ i \in Item
    BY ReadItem
  <1>1. CASE LimitFatal(i)
    <2>1. /\ i.opt \in Limit /\ tuple(i).err /\ pc' = "exit"
          /\ code' = IF Which(i.opt) = "mem" THEN 15 ELSE 16
      BY <1>1 DEF LimitFatal, fatal
    <2>2. Ends(i)
      BY <2>1, TupleOfItem DEF Ends
    <2> QED
      BY <2>1, <2>2, ExitCodes DEF Limit, Which
  <1>2. CASE LimitAccept(i)
    <2>1. i.opt \in Limit /\ ~tuple(i).err /\ pc' = pc
      BY <1>2 DEF LimitAccept
    <2> QED
      BY <1>0, <2>1, TupleOfItem DEF Ends
  <1>3. CASE SetFlag(i) \/ SetText(i) \/ Skip(i)
    <2>1. i.opt \in Flag \cup Text \cup Ignored \cup {"extra"} /\ pc' = pc
      BY <1>3 DEF SetFlag, SetText, Skip
    <2>2. i.opt \notin Limit \cup {"v", "h", "?", "r"}
      BY <2>1 DEF Flag, Text, Ignored, Limit
    <2> QED
      BY <1>0, <2>1, <2>2 DEF Ends
  <1>4. CASE ReportInterval(i)
    <2>1. /\ i.opt = "r" /\ i.opt \notin Limit
          /\ IF (IF i.arg = Bad THEN 0 ELSE i.arg) < 0
             THEN code' = 14 /\ pc' = "exit" ELSE pc' = pc
      BY <1>4 DEF ReportInterval, fatal, Limit
    <2>2. Ends(i) <=> i.arg < 0 /\ i.arg # Bad
      BY <2>1 DEF Ends
    <2> QED
      BY <1>0, <2>1, <2>2, ExitCodes, ItemFields
  <1>5. CASE Leave(i)
    <2>1. /\ i.opt \in {"v", "h", "?"} /\ i.opt \notin Limit /\ pc' = "exit"
          /\ code' = IF i.opt = "?" THEN 13 ELSE 0
      BY <1>5 DEF Leave, fatal, Limit
    <2> QED
      BY <2>1, ExitCodes DEF Ends
  <1> QED
    BY <1>1, <1>2, <1>3, <1>4, <1>5 DEF Option

LEMMA EndOption ==
    ASSUME LineInv, EndInv, NEW i \in Items, Option(i), Getopt(i) PROVE EndInv'
  <1> SUFFICES ASSUME NumbersOnly'
               PROVE  /\ pc' # "exit" => \A n \in DOMAIN argv' : ~Ends(argv[n])'
                      /\ pc' \notin After
                      /\ pc' = "exit" => Told'
    BY DEF EndInv
  <1>1. /\ argv \in Seq(Item) /\ i \in Item /\ argv' = Append(argv, i)
        /\ pc = "getopt" /\ SwapTotalKiB' = SwapTotalKiB
    BY ReadItem
  <1>2. NumbersOnly
    BY <1>1, NumbersAppended
  <1>3. \A n \in DOMAIN argv : ~Ends(argv[n])
    BY <1>1, <1>2 DEF EndInv
  <1>4. \A x : Ends(x)' <=> Ends(x)
    BY <1>1, SameUpperLimit DEF Ends, OutOfRange
  <1>5. /\ DOMAIN argv' = DOMAIN argv \cup {Len(argv')} /\ argv'[Len(argv')] = i
        /\ \A n \in DOMAIN argv : argv'[n] = argv[n]
    BY <1>1, Appended
  <1>6. CASE pc' = "getopt" /\ ~Ends(i)
    <2>1. \A n \in DOMAIN argv' : ~Ends(argv'[n])
      BY <1>3, <1>5, <1>6
    <2>2. \A n \in DOMAIN argv' : ~Ends(argv[n])'
      BY <1>1, <2>1, SameUpperLimit DEF Ends, OutOfRange
    <2> QED
      BY <1>6, <2>2 DEF After
  <1>7. CASE pc' = "exit" /\ Ends(i) /\ code' = EXIT_STATUS(i)
    <2>1. \A n \in DOMAIN argv' : Ends(argv'[n]) <=> n = Len(argv')
      BY <1>3, <1>5, <1>7, <1>1, Appended
    <2>2. \A n \in DOMAIN argv' : Ends(argv[n])' <=> n = Len(argv')
      <3>1. ASSUME NEW n \in DOMAIN argv' PROVE Ends(argv[n])' <=> Ends(argv'[n])
        <4>1. upper_limit(argv[n].opt)' = upper_limit(argv'[n].opt)
          BY <1>1 DEF upper_limit
        <4> QED
          BY <4>1 DEF Ends, OutOfRange
      <3> QED
        BY <2>1, <3>1
    <2>3. EndsAt' = {Len(argv')}
      BY <1>5, <2>2 DEF EndsAt
    <2>4. code' = EXIT_STATUS(argv[Len(argv)])'
      BY <1>5, <1>7
    <2> QED
      BY <1>7, <2>3, <2>4 DEF Told, After
  <1> QED
    BY <1>6, <1>7, ItemEnds

LEMMA EndStep ==
    ASSUME LineInv, ArgsInv, EndInv, [Next]_vars PROVE EndInv'
  <1>1. ASSUME argv' = argv, ~\E i \in Items : Option(i), NumbersOnly'
        PROVE  /\ pc' # "exit" => \A n \in DOMAIN argv' : ~Ends(argv[n])'
               /\ pc' \in After => ~Extra'
               /\ pc' \in After \ {"regcomp"} => ~BadRegex'
               /\ pc' = "exit" => Told'
    <2>0. SwapTotalKiB' = SwapTotalKiB
      BY Steps
    <2>1. /\ NumbersOnly /\ (Extra' <=> Extra) /\ (BadRegex' <=> BadRegex)
      BY <1>1, <2>0, SameLine
    <2>2. EndsAt' = EndsAt /\ \A n \in DOMAIN argv : Ends(argv[n])' <=> Ends(argv[n])
      BY <1>1, <2>0, SameUpperLimit DEF EndsAt, Ends, OutOfRange
    <2>3. pc # "exit" => ((\E o \in Regex : text[o] = Bad) <=> BadRegex)
      BY Marks DEF ArgsInv, Disabled, BadRegex, Regex, Text
    <2>4. CASE UNCHANGED <<pc, code>>
      BY <1>1, <2>1, <2>2, <2>4 DEF EndInv, Told
    <2>5. CASE Chdir \/ ChdirFails
      <3>1. argv = <<>> /\ pc' \in {"getopt", "exit"} /\ (pc' = "exit" => code' = 4)
        BY <2>5 DEF Chdir, ChdirFails, fatal, LineInv
      <3> QED
        BY <1>1, <3>1 DEF After, Told
    <2>6. CASE ExtraArgument
      <3>1. pc = "getopt" /\ pc' = "exit" /\ Extra /\ code' = 13
        BY <2>6 DEF ExtraArgument, fatal
      <3>2. EndsAt = {}
        BY <2>1, <3>1 DEF EndInv, EndsAt
      <3> QED
        BY <2>1, <2>2, <3>1, <3>2 DEF Told, After
    <2>7. CASE Merge
      <3>1. pc = "getopt" /\ pc' = "regcomp" /\ ~Extra
        BY <2>7 DEF Merge
      <3> QED
        BY <1>1, <2>1, <2>2, <3>1 DEF EndInv
    <2>8. CASE Regcomp
      <3>1. pc = "regcomp" /\ IF BadRegex THEN pc' = "exit" /\ code' = 6
                              ELSE pc' \in {"priority", "selftest"}
        <4>1. pc = "regcomp" /\ (pc # "exit" => ((\E o \in Regex : text[o] = Bad) <=> BadRegex))
          BY <2>3, <2>8 DEF Regcomp
        <4>2. CASE BadRegex
          BY <2>8, <4>1, <4>2 DEF Regcomp, fatal
        <4>3. CASE ~BadRegex
          BY <2>8, <4>1, <4>3 DEF Regcomp
        <4> QED
          BY <4>1, <4>2, <4>3
      <3>2. EndsAt = {} /\ ~Extra /\ \A n \in DOMAIN argv : ~Ends(argv[n])
        BY <2>1, <3>1 DEF EndInv, EndsAt, After
      <3> QED
        BY <1>1, <2>1, <2>2, <3>1, <3>2 DEF Told, After
    <2>9. CASE SetPriority \/ SetOomScoreAdj \/ Selftests \/ Mlockall
      <3>1. pc \in After \ {"regcomp"} /\ pc' \in After
        BY <2>9 DEF SetPriority, SetOomScoreAdj, Selftests, Mlockall, After
      <3> QED
        BY <1>1, <2>1, <2>2, <3>1 DEF EndInv, After
    <2>10. CASE SelftestFails
      <3>1. pc = "selftest" /\ pc' = "exit" /\ code' = 5
        BY <2>10 DEF SelftestFails, fatal
      <3>2. EndsAt = {} /\ ~Extra /\ ~BadRegex
        BY <2>1, <3>1 DEF EndInv, EndsAt, After
      <3> QED
        BY <2>1, <2>2, <3>1, <3>2 DEF Told, After
    <2>11. Stopped \/ UNCHANGED vars => UNCHANGED <<pc, code>>
      BY DEF Stopped, vars
    <2> QED
      BY <1>1, <2>4, <2>5, <2>6, <2>7, <2>8, <2>9, <2>10, <2>11 DEF Next
  <1> QED
    BY <1>1, Steps, EndOption DEF EndInv

----------------------------------------------------------------------------
(* The theorems.                                                           *)

CommandInv == LineInv /\ ArgsInv /\ StoreInv /\ LimitInv /\ EndInv

LEMMA CommandInit ==
    ASSUME Init PROVE CommandInv
  <1>1. /\ argv = <<>> /\ pc = "start" /\ SwapTotalKiB \in Nat
        /\ have = {} /\ flags = {} /\ raised = {} /\ report_interval_ms = 1000
        /\ \A o \in Text : text[o] = None
    BY CommandLineAssumption DEF Init
  <1>2. \A o : Given(o) = {}
    BY <1>1 DEF Given
  <1>3. LineInv
    BY <1>1, <1>2 DEF Init, LineInv, HasLast
  <1>4. ArgsInv
    BY <1>1, <1>2 DEF ArgsInv
  <1>5. StoreInv
    BY <1>1, <1>2 DEF Init, StoreInv, Stored
  <1>6. LimitInv /\ EndInv
    BY <1>1 DEF LimitInv, EndInv, After
  <1> QED
    BY <1>3, <1>4, <1>5, <1>6 DEF CommandInv

\* The invariant of main() that the theorems below rest on.
THEOREM CommandInvariant == Spec => []CommandInv
  <1>1. Init => CommandInv
    BY CommandInit
  <1>2. CommandInv /\ [Next]_vars => CommandInv'
    BY LineStep, ArgsStep, StoreStep, LimitStep, EndStep DEF CommandInv
  <1> QED
    BY <1>1, <1>2, PTL DEF Spec

\* No command line without "nan" lets poll_loop() start with a SIGKILL limit
\* above the SIGTERM limit.
THEOREM LimitsAreOrdered == Spec => []KillNeverAboveTerm
  <1>1. CommandInv => KillNeverAboveTerm
    BY DEF CommandInv, LimitInv, After, KillNeverAboveTerm, Sound, less
  <1> QED
    BY <1>1, CommandInvariant, PTL

\* None leaves a SIGTERM limit of zero.
THEOREM TermIsPositive == Spec => []TermNeverZero
  <1>1. CommandInv => TermNeverZero
    BY DEF CommandInv, LimitInv, After, TermNeverZero, Sound
  <1> QED
    BY <1>1, CommandInvariant, PTL

\* Of percentage and size the lower is used, of several the last.
THEOREM LowerIsUsed == Spec => []LowerValueUsed
  <1>1. CommandInv => LowerValueUsed
    BY DEF CommandInv, LimitInv, After, LowerValueUsed
  <1> QED
    BY <1>1, CommandInvariant, PTL

\* poll_loop() is called with what the whole line says, less what the
\* self-tests take away: --kernel-oom, and scripts without an absolute path.
THEOREM ArgsAreTheLine == Spec => []ArgsMatchLine
  <1>1. CommandInv => ArgsMatchLine
    <2> SUFFICES ASSUME CommandInv, pc = "running" PROVE ArgsMatchLine
      BY DEF ArgsMatchLine
    <2>1. "p" \in Flag /\ "kernel-oom" \in Flag
      BY DEF Flag
    <2> QED
      BY <2>1 DEF CommandInv, ArgsInv, ArgsMatchLine, Tested, Disabled
  <1> QED
    BY <1>1, CommandInvariant, PTL

\* main() exits at the first item that asks for it, with its code, and runs
\* only if there is none.
THEOREM ExitHasReason == Spec => []ExitTellsReason
  <1>1. CommandInv => ExitTellsReason
    <2> SUFFICES ASSUME CommandInv, NumbersOnly
                 PROVE  /\ pc = "exit" => Told
                        /\ pc = "running" => EndsAt = {} /\ ~Extra /\ ~BadRegex
      BY DEF ExitTellsReason, Told, EndsAt
    <2> QED
      BY DEF CommandInv, EndInv, EndsAt, After
  <1> QED
    BY <1>1, CommandInvariant, PTL
=============================================================================
