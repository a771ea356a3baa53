-------------------------------- MODULE Soak --------------------------------
(***************************************************************************)
(* What a stress subtest of shimtest promises, whatever it hammers the     *)
(* shim with.  A soak iterates until it is stopped: by a failed iteration, *)
(* or because the test deadline is near.  A failure that arrives after the *)
(* stop is cleanup noise; one that arrived before it must be in the        *)
(* verdict.  StressTransfer, StressExec and StressSandbox are shown to      *)
(* implement this module.  The lifecycle soak does not: it is failed by    *)
(* the late failure of a sub-test as well.                                 *)
(***************************************************************************)

VARIABLES stopped,   \* no iteration of the soak may begin any more
          failed,    \* an iteration failed before the stop
          verdict    \* of the test: "none" while it runs

vars == <<stopped, failed, verdict>>

Verdicts == {"none", "pass", "fail", "skip"}

Init == stopped = FALSE /\ failed = FALSE /\ verdict = "none"

\* The test gives up for a reason that is not an iteration: the setup skips
\* or fails, or a check that follows the soak (memory, mounts) does.
Abort ==
    /\ verdict = "none" /\ ~failed
    /\ verdict' \in {"skip", "fail"}
    /\ stopped' \in {stopped, TRUE}
    /\ UNCHANGED failed

\* An iteration fails while the soak is on.  That is also a reason to stop.
Fail ==
    /\ verdict = "none" /\ ~stopped
    /\ failed' = TRUE
    /\ stopped' \in BOOLEAN
    /\ UNCHANGED verdict

Stop ==
    /\ ~stopped
    /\ stopped' = TRUE
    /\ UNCHANGED <<failed, verdict>>

\* Nothing turns a recorded failure into a pass.
End ==
    /\ verdict = "none" /\ stopped
    /\ verdict' = IF failed THEN "fail" ELSE "pass"
    /\ UNCHANGED <<stopped, failed>>

Next == Abort \/ Fail \/ Stop \/ End

Spec == Init /\ [][Next]_vars
=============================================================================
