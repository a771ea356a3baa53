----------------------------- MODULE StressLoop -----------------------------
(***************************************************************************)
(* runStress (stress_suite.go), the loop under every stress subtest: call  *)
(* fn until it fails or the outer context is done.  fn gets a context of   *)
(* its own, so a cancelled outer context does not interrupt a call that is *)
(* in flight; it is looked at only before a call and after a failed one.   *)
(***************************************************************************)

CONSTANT VMHost   \* runtime.GOOS is "windows" or "darwin"

ASSUME VMHostAssumption == VMHost \in BOOLEAN

\* What fn returns: nil, an error that is context.DeadlineExceeded, any other.
FnErrors == {"timeout", "error"}
FnResults == {"nil"} \cup FnErrors

\* Mutant of RunStressStep: the race check forgotten.
RunStressStepNoRace(ctxDone, err) ==
    CASE err = "nil"                      -> "iterate"
      [] VMHost /\ err = "timeout"        -> "iterate"
      [] OTHER                            -> "return"

\* The decision after a call: go round again, leave the loop with a nil
\* error, or return the error.
RunStressStep(ctxDone, err) ==
    CASE err = "nil"                              -> "iterate"
      [] err # "nil" /\ ctxDone                   -> "break"
      [] err = "timeout" /\ ~ctxDone /\ VMHost    -> "iterate"
      [] OTHER                                    -> "return"
=============================================================================
