------------------------------- MODULE Limits -------------------------------
(***************************************************************************)
(* The memory limits of earlyoom and the decision lowmem_sig() takes from  *)
(* a reading of /proc/meminfo (main.c).  A reading is the pair of          *)
(* percentages that parse_meminfo() computes; the limits are the four      *)
(* percentages main() stores in poll_loop_args_t.                          *)
(***************************************************************************)
EXTENDS Integers

CONSTANTS
    mem_term_percent, mem_kill_percent,    \* "-m PERCENT[,KILL_PERCENT]"
    swap_term_percent, swap_kill_percent   \* "-s PERCENT[,KILL_PERCENT]"

\* What parse_term_kill_tuple() leaves in the limits: KILL never exceeds TERM.
ASSUME LimitsAssumption ==
    /\ mem_term_percent \in Nat /\ mem_kill_percent \in Nat
    /\ swap_term_percent \in Nat /\ swap_kill_percent \in Nat
    /\ mem_kill_percent <= mem_term_percent
    /\ swap_kill_percent <= swap_term_percent

SIGKILL == 9
SIGTERM == 15

\* meminfo_t, reduced to the two fields the decisions read.
Reading == [MemAvailablePercent : Nat, SwapFreePercent : Nat]

\* Both memory and swap are at or below the SIGKILL limits: the test of
\* lowmem_sig(), repeated in the wait loop of kill_wait().
AtKill(m) ==
    /\ m.MemAvailablePercent <= mem_kill_percent
    /\ m.SwapFreePercent <= swap_kill_percent

AtTerm(m) ==
    /\ m.MemAvailablePercent <= mem_term_percent
    /\ m.SwapFreePercent <= swap_term_percent

lowmem_sig(m) ==
    IF AtKill(m) THEN SIGKILL ELSE IF AtTerm(m) THEN SIGTERM ELSE 0
=============================================================================
