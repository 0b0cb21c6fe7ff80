---------------------------- MODULE MCSubprocess ----------------------------
(* Small instances of Subprocess for TLC. *)
EXTENDS Subprocess

NoOptions ==
    [notify |-> FALSE, notify_ext |-> FALSE, kill_process_prehook |-> FALSE,
     kernel_oom |-> FALSE, dryrun |-> FALSE]

\* With --kernel-oom -N and -P start nothing.
AllOptions    == {o \in OptionType : o.kernel_oom => ~o.notify_ext /\ ~o.kill_process_prehook}
KernelOption  == {[NoOptions EXCEPT !.kernel_oom = TRUE, !.notify = TRUE]}
PrehookOption == {[NoOptions EXCEPT !.kill_process_prehook = TRUE]}
=============================================================================
