----------------------------- MODULE OomKiller ------------------------------
(***************************************************************************)
(* What earlyoom promises, without saying how: it works in rounds.  A      *)
(* round starts when memory is low, strikes only if memory is still low    *)
(* once a victim is chosen, sends SIGKILL after SIGTERM only when memory   *)
(* has dropped to the SIGKILL limits, and ends with everyone it struck     *)
(* gone, unless it reports a timeout.  The processes and the memory level  *)
(* are not under its control.                                              *)
(***************************************************************************)
CONSTANT Process   \* everything that ever runs; nothing runs twice

VARIABLES
    live,     \* the processes that are running
    level,    \* the signal memory calls for
    phase,    \* of the round
    demand,   \* the signal of this round
    struck,   \* who was signalled in this round
    outcome   \* of a round that is over

vars == <<live, level, phase, demand, struck, outcome>>
self == <<phase, demand, struck, outcome>>

Signal  == {"none", "TERM", "KILL"}
Phase   == {"watch", "select", "armed", "wait", "done", "kernel", "exited"}
Outcome == {"none", "over", "timeout"}

Quiet == demand' = "none" /\ struck' = {} /\ outcome' = "none"

Init ==
    /\ live \subseteq Process /\ level \in Signal
    /\ phase = "watch" /\ demand = "none" /\ struck = {} /\ outcome = "none"

\* Processes start and end and memory moves; no process comes back.
World ==
    /\ live' \subseteq Process /\ level' \in Signal
    /\ struck \cap live' \subseteq live
    /\ UNCHANGED self

Notice ==
    /\ phase = "watch" /\ level # "none"
    /\ phase' = "select" /\ demand' = level
    /\ UNCHANGED <<live, level, struck, outcome>>

\* The second look, with the victim known.
Recovered ==
    /\ phase = "select" /\ level = "none"
    /\ phase' = "watch" /\ Quiet
    /\ UNCHANGED <<live, level>>

Arm ==
    /\ phase = "select" /\ level # "none"
    /\ phase' = "armed"
    /\ UNCHANGED <<live, level, demand, struck, outcome>>

\* There is nobody to kill.
GiveUp ==
    /\ phase = "armed"
    /\ phase' = "watch" /\ Quiet
    /\ UNCHANGED <<live, level>>

\* A dry run, or a victim that is gone or out of reach.
Spare ==
    /\ phase = "armed"
    /\ phase' = "done" /\ outcome' = "over"
    /\ UNCHANGED <<live, level, demand, struck>>

Strike ==
    /\ phase \in {"armed", "wait"}
    /\ phase' = "wait"
    /\ struck \subseteq struck' /\ struck' \subseteq Process
    /\ UNCHANGED <<live, level, demand, outcome>>

Escalate ==
    /\ phase = "wait" /\ demand = "TERM" /\ level = "KILL"
    /\ demand' = "KILL"
    /\ UNCHANGED <<live, level, phase, struck, outcome>>

Over ==
    /\ phase = "wait" /\ struck \cap live = {}
    /\ phase' = "done" /\ outcome' = "over"
    /\ UNCHANGED <<live, level, demand, struck>>

Expire ==
    /\ phase = "wait"
    /\ phase' = "done" /\ outcome' = "timeout"
    /\ UNCHANGED <<live, level, demand, struck>>

Return ==
    /\ phase = "done"
    /\ phase' = "watch" /\ Quiet
    /\ UNCHANGED <<live, level>>

\* The kernel's OOM killer is asked instead, which picks its own victim.
Delegate ==
    /\ phase = "watch" /\ level # "none"
    /\ phase' = "kernel"
    /\ UNCHANGED <<live, level, demand, struck, outcome>>

Delegated ==
    /\ phase = "kernel"
    /\ phase' = "watch"
    /\ UNCHANGED <<live, level, demand, struck, outcome>>

\* Killed, or ended by a fatal error.
Exit ==
    /\ phase' = "exited" /\ Quiet
    /\ UNCHANGED <<live, level>>

Next ==
    \/ World \/ Notice \/ Recovered \/ Arm \/ GiveUp \/ Spare \/ Strike
    \/ Escalate \/ Over \/ Expire \/ Return \/ Delegate \/ Delegated \/ Exit

Spec == Init /\ [][Next]_vars

----------------------------------------------------------------------------
\* What a caller of kill_process() may rely on, now and for the rest of the
\* round: a round that is reported over leaves nobody it struck alive, though
\* processes come and go until the report is read, and a round that has not
\* come to its first strike has struck nobody.
RoundPromise ==
    /\ outcome = "over" => struck \cap live = {}
    /\ phase \notin {"wait", "done"} => struck = {}
=============================================================================
