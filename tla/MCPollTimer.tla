---------------------------- MODULE MCPollTimer -----------------------------
(***************************************************************************)
(* Small instances of PollTimer for TLC: 9 GB of user memory and 400 MB of *)
(* swap, so that 50 ms at the expected rates are 1/30 and 1/10 of them.    *)
(***************************************************************************)
EXTENDS PollTimer

Left(avail, free) ==
    [MemAvailableKiB |-> avail, AnonPagesKiB |-> 9000000 - avail, SwapFreeKiB |-> free]

\* Most of memory and all swap; and 400 ms above the limits in both.
MCAmounts == {Left(6900000, 400000), Left(3300000, 360000)}

Run(interval, dryrun, koom, helpers) ==
    [report_interval_ms |-> interval, dryrun |-> dryrun, kernel_oom |-> koom,
     helpers |-> helpers]
MCOptions == {Run(300, FALSE, TRUE, TRUE), Run(0, FALSE, FALSE, FALSE),
              Run(300, TRUE, FALSE, FALSE), Run(300, FALSE, FALSE, TRUE)}
=============================================================================
