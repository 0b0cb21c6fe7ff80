---------------------------- MODULE MCProcFiles -----------------------------
(***************************************************************************)
(* Small instances of ProcFiles for TLC: names of up to four bytes in      *)
(* buffers of eight.                                                       *)
(***************************************************************************)
EXTENDS ProcFiles

Entry(label, kib) == [label |-> label, kib |-> kib]

\* The lines of /proc/meminfo that matter here, in the kernel's order;
\* MemAvailable came with Linux 3.14, Shmem with 2.6.32.
Kernel(with, avail, free, swap, anon) ==
    SelectSeq(
      <<Entry(<<"Mem", "Total">>, 100), Entry(<<"Mem", "Free">>, free),
        Entry(<<"Mem", "Available">>, avail), Entry(<<"Buffers">>, 3),
        Entry(<<"Cached">>, 20), Entry(<<"Swap", "Cached">>, 7),
        Entry(<<"Swap", "Total">>, swap), Entry(<<"Swap", "Free">>, swap \div 2),
        Entry(<<"Anon", "Pages">>, anon), Entry(<<"Shmem">>, 5),
        Entry(<<"Shmem", "Huge", "Pages">>, 1)>>,
      LAMBDA l : /\ l.label = <<"Mem", "Available">> => "MemAvailable" \in with
                 /\ l.label = <<"Shmem">> => "Shmem" \in with)

MCMeminfos ==
    {Kernel(with, avail, free, swap, anon) :
        with \in SUBSET {"MemAvailable", "Shmem"}, avail \in {0, 30},
        free \in {0, 10}, swap \in {0, 40}, anon \in {1, 60}}
      \cup {<<Entry(<<"Mem", "Total">>, 100)>>}

A     == <<65>>
Two   == <<195, 128>>
Three == <<226, 130, 130>>
Four  == <<240, 159, 130, 130>>
Zero  == <<NUL>>

UpTo(S, k) == UNION {[1 .. i -> S] : i \in 0 .. k}

Titles == UpTo({A, <<Open>>, <<Close>>, <<SP>>, Two, Three, Four}, 4)
            \cup {<<<<Close>>, <<SP>>, <<82>>, <<SP>>>>}
Lines  == {<<>>} \cup {Append(l, Zero) : l \in UpTo({A, Zero, Two, Three, Four}, 5)}

\* Field i holds the number i; the second file is cut off.
Full  == [i \in 1 .. 22 |-> i]
Short == [i \in 1 .. 20 |-> i]

\* title and line are sequences of characters.
Proc(title, line, fields) ==
    [title |-> FlattenSeq(title), cmdline |-> FlattenSeq(line), state |-> 82,
     fields |-> fields, st |-> "run"]

MCProcesses ==
    {Proc(t, <<A, Zero>>, Full) : t \in Titles}
      \cup {Proc(<<Four>>, l, Full) : l \in Lines}
      \cup {Proc(t, <<>>, Short) : t \in {<<A>>, <<<<Close>>, A>>}}

MCOptions == [regex : BOOLEAN, debug : BOOLEAN]
=============================================================================
