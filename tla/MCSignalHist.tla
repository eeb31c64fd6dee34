---------------------------- MODULE MCSignalHist ----------------------------
(* Signal with a history of the job-control signals, for what the comment at  *)
(* signal.c:79-81 says about SIGCONT.                                       *)
EXTENDS MCSignal

VARIABLE contd      \* per process: was the last such signal sent a SIGCONT?
hvars == <<vars, contd>>

mcJobAlone == {[JobControlled EXCEPT !.parent = (job :> None), !.calls = {"sleep"}]}

HInit == Init /\ contd = [p \in Procs |-> FALSE]
After(T, s) == [p \in Procs |-> IF p \in T /\ s = SIGCONT THEN TRUE
                                ELSE IF p \in T /\ default_stop(s) THEN FALSE
                                ELSE contd[p]]
HNext == \/ \E s \in prog.sent, T \in {{p} : p \in Live} :
               Kill(T, s) /\ contd' = After(T, s) /\ prog' = prog
         \/ \E p \in Procs : /\ \/ KernelStep(p) \/ Program(p)
                                \/ Interrupt(p) \/ SleepEnds(p)
                             /\ UNCHANGED <<contd, prog>>
HSpec == HInit /\ [][HNext]_hvars

\* signal.c:79-80: SIGCONT continues a process in any case, and cancels the stop
\* signals that wait.  So nobody is stopped by a signal sent before a SIGCONT.
ContBeatsEarlierStop ==
    \A p \in Procs : proc[p].state = "STOPPED" => ~contd[p]
=============================================================================
