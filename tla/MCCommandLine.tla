---------------------------- MODULE MCCommandLine ---------------------------
(* Small instances of CommandLine for TLC. *)
EXTENDS CommandLine

\* Percentages, KiB or seconds; a negative number, text and "nan".
MCTuples ==
    {<<1000, None>>, <<1000, 200>>, <<200, 1000>>, <<0, None>>, <<0, 200>>,
     <<10000, None>>, <<1000, 10100>>, <<-100, None>>, <<200, Bad>>, <<NaN, None>>}

MCItems ==
    {[opt |-> o, part1 |-> t[1], part2 |-> t[2]] : o \in Limit, t \in MCTuples}
      \cup [opt : Flag \cup Ignored \cup (Other \ {"r"}), arg : {None}]
      \cup [opt : Regex, arg : {1, Bad}]
      \cup [opt : {"N", "P"}, arg : {1, 2}]
      \cup [opt : {"r"}, arg : {0, 50, Bad, -100}]

MCSwapTotals == {0, 50}
=============================================================================
