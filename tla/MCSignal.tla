------------------------------ MODULE MCSignal ------------------------------
(* Instances of Signal for TLC.                                             *)
EXTENDS Signal, TLC

CONSTANTS shell, job

\* SIGINT, SIGKILL, SIGSEGV, SIGCHLD, SIGCONT, SIGTSTP
mcSigs == {2, 9, 11, 17, 18, 20}

\* A shell and its job: Ctrl-Z, SIGCONT and SIGKILL for one or both.
JobControlled ==
    [parent |-> (shell :> None) @@ (job :> shell), sent |-> {9, 18, 20}, caught |-> {}, set |-> {},
     masked |-> {}, faults |-> {}, calls |-> {"wait", "sleep"}, frames |-> 0]

\* A process that installs handlers, resets and nests them, and blocks signals.
Handling ==
    [parent |-> (job :> None), sent |-> {2, 9}, caught |-> {2, 11}, set |-> Handlers,
     masked |-> {2, 9}, faults |-> {11}, calls |-> {"pause"}, frames |-> 2]

mcPrograms == {JobControlled, Handling}
=============================================================================
