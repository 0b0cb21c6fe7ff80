----------------------------- MODULE ProcFiles ------------------------------
(***************************************************************************)
(* What earlyoom makes of the text under /proc: meminfo (meminfo.c),       *)
(* PID/stat (proc_pid.c), PID/comm and PID/cmdline (meminfo.c, with the    *)
(* repair of cut UTF-8 in msg.c), in the order in which is_larger() and    *)
(* fill_informative_fields() (kill.c) read the files of one process.       *)
(*                                                                         *)
(* Text is a sequence of bytes; a decimal number in it is one token, Num(n), *)
(* and a line of meminfo is a record.                                      *)
(***************************************************************************)
EXTENDS Integers, Sequences, FiniteSets, SequencesExt

CONSTANTS
    Meminfos,   \* contents of /proc/meminfo, over kernels and situations
    Processes,  \* what there is to read about a process
    Options,    \* the option records
    CommLen,    \* bound: bytes the kernel keeps of a name (15 in Linux)
    PATH_LEN    \* bound: length of name[] and cmdline[] (256 in meminfo.h)

ASSUME ProcFilesAssumption ==
    /\ CommLen \in Nat /\ CommLen >= 3 /\ PATH_LEN \in Nat /\ PATH_LEN > CommLen + 1
    /\ Options \subseteq [regex : BOOLEAN, debug : BOOLEAN]

VARIABLES
    pc,        \* "meminfo"; "stat", "comm", "name", "cmdline", "done"; "exit"
    fd,        \* is the static FILE* of parse_meminfo() open?
    guesstimate_warned,
    meminfo,   \* the file that parse_meminfo() read last
    m,         \* meminfo_t
    code,      \* exit code of fatal()
    proc,      \* the process behind the pid: its files
    args,      \* is there a --prefer, --avoid or --ignore?  Is -d given?
    stat,      \* pid_stat_t, and whether it was parsed
    buf,       \* name[] and, right after it, cmdline[], of procinfo_t
    fills      \* calls of fill_informative_fields() to come

system  == <<fd, guesstimate_warned, meminfo, m, code>>
process == <<proc, args, stat, buf, fills>>
vars    == <<pc, system, process>>

----------------------------------------------------------------------------
(* meminfo.c: parse_meminfo().  A label is a sequence of words: the line   *)
(* "SwapCached:" ends with what strstr() looks for as "Cached:".           *)

Unreadable == <<>>   \* no file, a read error, or no bytes
ENODATA == 61

\* Mutant: the last line that fits.
get_entry_Last(name, lines) ==
    LET i == SelectLastInSeq(lines, LAMBDA l : IsSuffix(name, l.label))
    IN IF i = 0 THEN -ENODATA ELSE lines[i].kib

\* strstr(): the first line that ends with name.
get_entry(name, lines) ==
    LET i == SelectInSeq(lines, LAMBDA l : IsSuffix(name, l.label))
    IN IF i = 0 THEN -ENODATA ELSE lines[i].kib

Fatal == {<<"Mem", "Total">>, <<"Swap", "Total">>, <<"Anon", "Pages">>, <<"Swap", "Free">>}
Guess == {<<"Cached">>, <<"Mem", "Free">>, <<"Buffers">>, <<"Shmem">>}

\* get_entry_fatal(): an entry that is missing ends the program.
Lacks(names, lines) == \E l \in names : get_entry(l, lines) < 0

available_guesstimate(lines) ==
    get_entry(<<"Mem", "Free">>, lines) + get_entry(<<"Cached">>, lines)
      + get_entry(<<"Buffers">>, lines) - get_entry(<<"Shmem">>, lines)

NeedsGuess(lines) == get_entry(<<"Mem", "Available">>, lines) < 0

\* What parse_meminfo() takes for granted: the first line that ends with a name
\* is the line of that name, no value is negative, and shared memory is part of
\* what is cached.
KernelOrder(lines) ==
    /\ lines \in Seq([label : Seq(STRING), kib : Nat])
    /\ \A l \in Fatal \cup Guess \cup {<<"Mem", "Available">>} : \A i \in DOMAIN lines :
          IsSuffix(l, lines[i].label) => \E j \in 1 .. i : lines[j].label = l
    /\ \A i, j \in DOMAIN lines :
          lines[i].label = <<"Cached">> /\ lines[j].label = <<"Shmem">>
             => lines[j].kib <= lines[i].kib

ASSUME MeminfoAssumption == \A lines \in Meminfos : KernelOrder(lines)

\* A percentage is kept as a fraction, <<100 * part, whole>>.
meminfo_t(lines) ==
    LET available == IF NeedsGuess(lines) THEN available_guesstimate(lines)
                     ELSE get_entry(<<"Mem", "Available">>, lines)
        user == available + get_entry(<<"Anon", "Pages">>, lines)
        swap == get_entry(<<"Swap", "Total">>, lines)
    IN [MemTotalKiB |-> get_entry(<<"Mem", "Total">>, lines),
        SwapTotalKiB |-> swap,
        UserMemTotalKiB |-> user,
        MemAvailablePercent |-> <<100 * available, user>>,
        SwapFreePercent |-> IF swap > 0
                            THEN <<100 * get_entry(<<"Swap", "Free">>, lines), swap>>
                            ELSE <<0, 1>>]

Fail(c) == code' = c /\ pc' = "exit" /\ UNCHANGED <<guesstimate_warned, m>>

\* parse_meminfo(): the file is opened once and read again each time.
parse_meminfo(lines) ==
    /\ pc = "meminfo"
    /\ meminfo' = lines
    /\ \/ ~fd /\ lines = Unreadable /\ fd' = fd /\ Fail(102)
       \/ fd' = TRUE /\ lines = Unreadable /\ Fail(103)
       \/ /\ fd' = TRUE /\ lines # Unreadable
          /\ IF Lacks(Fatal, lines) \/ (NeedsGuess(lines) /\ Lacks(Guess, lines))
             THEN Fail(104)
             ELSE /\ m' = meminfo_t(lines)
                  /\ guesstimate_warned' = (guesstimate_warned \/ NeedsGuess(lines))
                  /\ UNCHANGED <<code, pc>>
    /\ UNCHANGED process

----------------------------------------------------------------------------
(* proc_pid.c: parse_proc_pid_stat().                                      *)

Num(n)   == 1000 + n
IsNum(t) == t >= 1000
SP    == 32
Open  == 40
Close == 41

NoFile == <<-1>>   \* open or read fails: the process is gone

Least(a, b) == IF a < b THEN a ELSE b

\* The kernel cuts a name to CommLen bytes.
Cut(text) == SubSeq(text, 1, Least(CommLen, Len(text)))

\* "pid (comm) S ppid pgrp ...", fields separated by spaces.
StatFile(p) ==
    <<Num(0), SP, Open>> \o Cut(p.title) \o <<Close, SP, p.state>>
      \o [i \in 1 .. 2 * Len(p.fields) |-> IF i % 2 = 1 THEN SP ELSE Num(p.fields[i \div 2])]

NoStat == [ok |-> FALSE, state |-> 0, ppid |-> 0, num_threads |-> 0, rss |-> 0]

\* Where the words of text are, from position i on, and the k-th of them.
Words(text, i) == {w \in i .. Len(text) : text[w] # SP}
IsWord(text, i, k, w) ==
    w \in Words(text, i) /\ Cardinality({v \in Words(text, i) : v <= w}) = k

\* sscanf() reads n numbers from position i on: the first n words are numbers.
Scans(text, i, n) ==
    \E w \in Words(text, i) :
        IsWord(text, i, n, w) /\ \A v \in Words(text, i) : v <= w => IsNum(text[v])

After(text, bracket) ==
    LET field(k) == text[CHOOSE w \in Words(text, bracket + 3) : IsWord(text, bracket + 3, k, w)]
                      - Num(0)
    IN IF bracket = 0 \/ Len(text) < bracket + 2 \/ ~Scans(text, bracket + 3, 21) THEN NoStat
       ELSE [ok |-> TRUE, state |-> text[bracket + 2], ppid |-> field(1),
             num_threads |-> field(17), rss |-> field(21)]

\* Mutant: strchr(), the first closing bracket.
parse_proc_pid_stat_buf_First(text) ==
    After(text, SelectInSeq(text, LAMBDA t : t = Close))

\* strrchr(): the state stands two bytes after the last closing bracket.
parse_proc_pid_stat_buf(text) ==
    After(text, SelectLastInSeq(text, LAMBDA t : t = Close))

----------------------------------------------------------------------------
(* msg.c and meminfo.c: C strings in buf.                                  *)

NUL == 0
NL  == 10
name    == 0          \* offsets in buf
cmdline == PATH_LEN

strlen(b, out) ==
    LET ends == {i \in DOMAIN b : i >= out /\ b[i] = NUL}
    IN IF ends = {} THEN 2 * PATH_LEN - out ELSE Min(ends) - out

\* The string that starts at out.
String(b, out) == [i \in 1 .. strlen(b, out) |-> b[out + i - 1]]

\* Mutant: the test for a cut 4-byte sequence is missing.
fix_truncated_utf8_NoFour(b, out) ==
    LET e == out + strlen(b, out) - 3
    IN IF strlen(b, out) < 3 \/ b[e + 2] < 128 THEN b
       ELSE IF (b[e + 2] \div 64) % 2 = 1 THEN [b EXCEPT ![e + 2] = NUL]
       ELSE IF b[e + 1] >= 224 THEN [b EXCEPT ![e + 1] = NUL]
       ELSE b

\* The last three bytes: ASCII; the start of a sequence; the middle of one of
\* three (or four) bytes; the third byte of four.
fix_truncated_utf8(b, out) ==
    LET e == out + strlen(b, out) - 3
    IN IF strlen(b, out) < 3 \/ b[e + 2] < 128 THEN b
       ELSE IF (b[e + 2] \div 64) % 2 = 1 THEN [b EXCEPT ![e + 2] = NUL]
       ELSE IF b[e + 1] >= 224 THEN [b EXCEPT ![e + 1] = NUL]
       ELSE IF b[e] >= 240 THEN [b EXCEPT ![e] = NUL]
       ELSE b

\* fread() of at most k bytes to out.
fread(b, out, k, file) ==
    [i \in DOMAIN b |-> IF i - out + 1 \in 1 .. Least(k, Len(file))
                        THEN file[i - out + 1] ELSE b[i]]

\* The rest of get_comm() and get_cmdline(): out[n - 1] = 0, where n = 0
\* reaches the byte before out, and the repair.
Strip(b, out, n) == fix_truncated_utf8([b EXCEPT ![out + n - 1] = NUL], out)

get_comm(b, file) ==
    LET n == Least(PATH_LEN - 1, Len(file))
    IN IF file = NoFile \/ n < 1 THEN b
       ELSE Strip(fread(b, name, PATH_LEN - 1, file), name, n)

\* Mutant: the arguments are not joined.
get_cmdline_NotJoined(b, file) ==
    LET n == Least(PATH_LEN - 1, Len(file))
    IN IF file = NoFile THEN b
       ELSE Strip(fread(b, cmdline, PATH_LEN - 1, file), cmdline, n)

get_cmdline(b, file) ==
    LET n == Least(PATH_LEN - 1, Len(file))
    IN IF file = NoFile THEN b
       ELSE Strip(fread(b, cmdline, PATH_LEN - 1, ReplaceAll(file, NUL, SP)), cmdline, n)

----------------------------------------------------------------------------
(* The files of a process, and the order in which they are read.           *)

\* UTF-8: the bytes below 128 are characters, a longer character is a first
\* byte that tells its width and the bytes of 128 to 191 that follow.
Lead(x)  == x < 128 \/ x >= 192
Width(x) == IF x < 128 THEN 1 ELSE IF x < 224 THEN 2 ELSE IF x < 240 THEN 3 ELSE 4

UTF8(t) ==
    \A i \in DOMAIN t :
        /\ \E k \in 0 .. 3 : /\ k < i /\ Lead(t[i - k]) /\ k < Width(t[i - k])
                            /\ \A j \in i - k + 1 .. i : ~Lead(t[j])
        /\ Lead(t[i]) => /\ i + Width(t[i]) - 1 <= Len(t)
                         /\ \A j \in i + 1 .. i + Width(t[i]) - 1 : ~Lead(t[j])

\* A process: its name and command line in bytes, as it gave them, the state and
\* the numbers after it in stat, and whether it still runs.  A command line ends
\* with a NUL, if it is not empty.
Process ==
    {p \in [title : Seq(1 .. 247), cmdline : Seq(0 .. 247), state : 65 .. 122,
            fields : Seq(Nat), st : {"run", "zombie", "gone"}] :
        /\ UTF8(p.title) /\ UTF8(p.cmdline)
        /\ p.cmdline # <<>> => Last(p.cmdline) = NUL}

ASSUME ProcessAssumption == \A p \in Processes : p \in Process /\ p.st = "run"

\* The kernel adds a newline to the name in comm.  A zombie has no command line.
CommFile(p)    == IF p.st = "gone" THEN NoFile ELSE Append(Cut(p.title), NL)
CmdlineFile(p) == IF p.st = "run" THEN p.cmdline ELSE IF p.st = "zombie" THEN <<>> ELSE NoFile

\* The process ends, and is reaped, while its files are being read.
Exit ==
    /\ pc \in {"comm", "name", "cmdline"} /\ proc.st # "gone"
    /\ proc' = [proc EXCEPT !.st = IF @ = "run" THEN "zombie" ELSE "gone"]
    /\ UNCHANGED <<pc, system, args, stat, buf, fills>>

\* is_larger() is through: debug_print_procinfo() fills in cur, and
\* find_largest_process() the victim.
Judged(larger) ==
    /\ fills' = (IF args.debug THEN 1 ELSE 0) + (IF larger THEN 1 ELSE 0)
    /\ pc' = IF fills' = 0 THEN "done" ELSE "name"

\* is_larger(): stat, and comm if there is a regular expression.  The process
\* may be refused or beaten for other reasons (module Selection).
ReadStat ==
    /\ pc = "stat"
    /\ stat' = parse_proc_pid_stat_buf(StatFile(proc))
    /\ \/ stat'.ok /\ args.regex /\ pc' = "comm" /\ fills' = fills
       \/ stat'.ok /\ ~args.regex /\ Judged(TRUE)
       \/ Judged(FALSE)
    /\ UNCHANGED <<system, proc, args, buf>>

ReadComm ==
    /\ pc = "comm"
    /\ buf' = get_comm(buf, CommFile(proc))
    /\ \/ CommFile(proc) # NoFile /\ Judged(TRUE)
       \/ Judged(FALSE)
    /\ UNCHANGED <<system, proc, args, stat>>

\* fill_informative_fields(): what is still empty is read.
FillName ==
    /\ pc = "name"
    /\ buf' = IF strlen(buf, name) = 0 THEN get_comm(buf, CommFile(proc)) ELSE buf
    /\ pc' = "cmdline"
    /\ UNCHANGED <<system, proc, args, stat, fills>>

FillCmdline ==
    /\ pc = "cmdline"
    /\ buf' = IF strlen(buf, cmdline) = 0 THEN get_cmdline(buf, CmdlineFile(proc)) ELSE buf
    /\ fills' = fills - 1
    /\ pc' = IF fills' = 0 THEN "done" ELSE "name"
    /\ UNCHANGED <<system, proc, args, stat>>

Nobody == [title |-> <<>>, cmdline |-> <<>>, state |-> 82, fields |-> <<>>, st |-> "gone"]

\* The two kinds of files have nothing to do with each other.
Init ==
    /\ fd = FALSE /\ guesstimate_warned = FALSE
    /\ meminfo = Unreadable /\ m = <<>> /\ code = 0
    /\ \/ pc = "meminfo" /\ proc = Nobody
       \/ pc = "stat" /\ proc \in Processes
    /\ args \in Options
    /\ stat = NoStat
    /\ buf = [i \in 0 .. 2 * PATH_LEN - 1 |-> NUL]
    /\ fills = 0

Done == pc \in {"done", "exit"} /\ UNCHANGED vars

Next ==
    \/ \E lines \in Meminfos \cup {Unreadable} : parse_meminfo(lines)
    \/ ReadStat \/ ReadComm \/ FillName \/ FillCmdline \/ Exit \/ Done

Spec == Init /\ [][Next]_vars

----------------------------------------------------------------------------
(* Properties.                                                             *)

\* The value of the line with exactly this label, or 0.
Line(label) ==
    LET i == SelectInSeq(meminfo, LAMBDA l : l.label = label)
    IN IF i = 0 THEN 0 ELSE meminfo[i].kib

Has(label) == \E i \in DOMAIN meminfo : meminfo[i].label = label

\* parse_meminfo(): "This function either returns valid data or kills the
\* process with a fatal error": whatever lines the kernel leaves out, the
\* percentages come from the lines of these names alone, though strstr() finds
\* names within names, and no error code takes part in the sum.
MeminfoRight ==
    LET available == IF Has(<<"Mem", "Available">>) THEN Line(<<"Mem", "Available">>)
                     ELSE Line(<<"Mem", "Free">>) + Line(<<"Cached">>)
                            + Line(<<"Buffers">>) - Line(<<"Shmem">>)
    IN pc = "meminfo" /\ meminfo # Unreadable =>
         /\ m.MemAvailablePercent = <<100 * available, available + Line(<<"Anon", "Pages">>)>>
         /\ available >= 0
         /\ IF Line(<<"Swap", "Total">>) = 0 THEN m.SwapFreePercent[1] = 0
            ELSE m.SwapFreePercent = <<100 * Line(<<"Swap", "Free">>), Line(<<"Swap", "Total">>)>>

\* parse_proc_pid_stat_buf(): a process may put brackets, spaces and letters
\* into its name: it is still found, with its own parent, threads, rss and
\* state, and cannot pass for another; a file that is too short is refused.
StatFieldsRight ==
    pc \notin {"meminfo", "exit", "stat"} =>
        stat = IF Len(proc.fields) < 21 THEN NoStat
               ELSE [ok |-> TRUE, state |-> proc.state, ppid |-> proc.fields[1],
                     num_threads |-> proc.fields[17], rss |-> proc.fields[21]]

\* The longest run of whole characters that fits into n bytes.
Whole(t, n) ==
    SubSeq(t, 1, Max({e \in 0 .. Least(n, Len(t)) : e = Len(t) \/ Lead(t[e + 1])}))

\* The name that regular expressions see and that is logged and handed to the
\* -N and -P programs is the process's own, cut between two characters:
\* neither the kernel's cut, nor an empty command line, for which get_cmdline()
\* writes before its buffer, leaves half a character or changes the name.
NameRight ==
    /\ String(buf, name) \in {<<>>, Whole(proc.title, CommLen)}
    /\ pc = "done" /\ args.debug /\ proc.st # "gone" =>
          String(buf, name) = Whole(proc.title, CommLen)

\* The logged command line is the arguments joined by spaces, cut between two
\* characters before the buffer ends, or nothing if the process is a zombie.
CmdlineRight ==
    LET text == ReplaceAll(proc.cmdline, NUL, SP)
        line == IF text = <<>> THEN <<>> ELSE Whole(text, Least(PATH_LEN - 2, Len(text) - 1))
    IN /\ String(buf, cmdline) \in {<<>>, line}
       /\ pc = "done" /\ args.debug /\ proc.st = "run" => String(buf, cmdline) = line
=============================================================================
