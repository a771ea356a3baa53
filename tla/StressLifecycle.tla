-------------------------- MODULE StressLifecycle ---------------------------
(***************************************************************************)
(* StressSuite.testLifecycle and doFullLifecycle (stress_suite.go): every  *)
(* iteration of the runStress loop is a sub-test that starts a shim, takes *)
(* one container from Create to Delete and asks the shim to shut down.     *)
(* The helpers of the sub-test fail it with Fatal, which ends its          *)
(* goroutine; the RPCs return an error that doFullLifecycle wraps.  The    *)
(* leak check that StressSuite.Run registers looks for shims at the end.   *)
(***************************************************************************)
EXTENDS StressLoop, Naturals, Sequences

VARIABLES main,       \* where the test goroutine is
          stage,      \* index in Stages of the step the sub-test is at
          iterErr,    \* what doFullLifecycle returned
          tFailed,    \* a sub-test failed, which marks its parent failed
          timer,      \* of the stressCtx deadline: "none", "set" or "fired"
          shim,       \* the shim process of the iteration
          strays,     \* in which states shims of earlier iterations still run
          runErr,     \* what runStress returned
          verdict,    \* of the test
          suite,      \* what the leak check makes of it
          failed      \* history: an iteration failed

vars == <<main, stage, iterErr, tFailed, timer, shim, strays,
          runErr, verdict, suite, failed>>
outer == <<strays, runErr, verdict, suite, failed>>
iterVars == <<stage, iterErr, tFailed, shim>>

\* ctx.Err() != nil, by the deadline.  Without a -test.timeout there is none.
expired == timer = "fired"

\* Mutant of Stages: the container is left for the shim to clean up.
StagesNoShutdown == <<"setup", "create", "start", "output", "wait", "delete">>

\* setup: the helpers, up to a connected client.  output: poll stdout for the
\* echoed word, at most stressIterationTimeout.  The rest are RPCs.
Stages == <<"setup", "create", "start", "output", "wait", "delete", "shutdown">>
At(s) == main = "iter" /\ stage <= Len(Stages) /\ Stages[stage] = s

Init ==
    /\ main = "ctx" /\ stage = 1 /\ iterErr = "nil"
    /\ tFailed = FALSE /\ timer \in {"none", "set"} /\ shim = "absent" /\ strays = {}
    /\ runErr = "nil" /\ verdict = "none" /\ suite = "none" /\ failed = FALSE

stressCtx ==
    /\ main = "ctx"
    /\ \/ timer = "set" /\ verdict' = "skip" /\ main' = "ended"
       \/ main' = "loop" /\ UNCHANGED verdict
    /\ UNCHANGED <<iterVars, timer, strays, runErr, suite, failed>>

Expire ==
    /\ timer = "set" /\ main \in {"loop", "iter", "returned"}
    /\ timer' = "fired"
    /\ UNCHANGED <<main, iterVars, outer>>

\* Mutant of LoopTest: a loop that never looks at its context.
LoopTestDeaf ==
    /\ main = "loop" /\ main' = "iter" /\ stage' = 1 /\ iterErr' = "nil"
    /\ UNCHANGED <<tFailed, timer, shim, outer>>

\* for ctx.Err() == nil: t.Run begins a sub-test.
LoopTest ==
    /\ main = "loop"
    /\ IF expired
       THEN main' = "report" /\ UNCHANGED <<stage, iterErr>>
       ELSE main' = "iter" /\ stage' = 1 /\ iterErr' = "nil"
    /\ UNCHANGED <<tFailed, timer, shim, outer>>
-----------------------------------------------------------------------------
\* Mutant of Advance: a step is skipped.
AdvanceTwice == stage' = stage + 2

Advance == stage' = stage + 1

\* Mutant of SubFails: the parent test does not hear of it, as if the iteration
\* did not run under t.Run.
SubFailsUnheard(e) ==
    /\ iterErr' = e /\ UNCHANGED tFailed
    /\ main' = "returned"

\* The sub-test fails, which fails its parent, and is over with the shim as it
\* is: the cleanup that startShim registers runs the shim binary's delete, not
\* a Shutdown.
SubFails(e) ==
    /\ iterErr' = e /\ tFailed' = TRUE
    /\ main' = "returned"

\* shimSetup, createOCISpec, createIOFifos, startShim, connectShim.
Setup ==
    /\ At("setup")
    /\ \/ Advance /\ shim' = "up" /\ UNCHANGED <<main, iterErr, tFailed>>
       \/ SubFails("nil") /\ shim' \in {"absent", "up"} /\ UNCHANGED stage
    /\ UNCHANGED <<timer, outer>>

\* Create, Start, Wait and Delete, under a context without a deadline, and the
\* poll for the output, which gives up by itself.
Step(s) ==
    /\ At(s)
    /\ \/ Advance /\ UNCHANGED <<main, iterErr, tFailed>>
       \/ SubFails("error") /\ UNCHANGED stage
    /\ UNCHANGED <<shim, timer, outer>>

\* An answer to Shutdown, or a connection closed by the exiting shim, is fine;
\* any other error, such as the timeout of shutCtx, is not.  Nothing here shows
\* that the process is gone: "asked" is a shim that answered and still runs.
Shutdown ==
    /\ At("shutdown")
    /\ \/ Advance /\ shim' \in {"asked", "down"} /\ UNCHANGED <<main, iterErr, tFailed>>
       \/ \E e \in FnErrors : SubFails(e) /\ shim' \in {"up", "down"} /\ UNCHANGED stage
    /\ UNCHANGED <<timer, outer>>

\* doFullLifecycle went through to its end.
Through == stage > Len(Stages)

\* It returned nil: t.Run is ok.
SubPasses ==
    /\ main = "iter" /\ Through
    /\ main' = "returned"
    /\ UNCHANGED <<iterVars, timer, outer>>
-----------------------------------------------------------------------------
\* if !ok { return iterErr }, and what runStress makes of it.  A shim that is
\* still there stays behind.
FnReturned ==
    /\ main = "returned"
    /\ LET next == RunStressStep(expired, iterErr)
       IN  /\ main' = IF next = "iterate" THEN "loop" ELSE "report"
           /\ runErr' = IF next = "return" THEN iterErr ELSE "nil"
    /\ strays' = strays \cup ({shim} \cap {"up", "asked"}) /\ shim' = "absent"
    /\ failed' = (failed \/ ~Through)
    /\ UNCHANGED <<stage, iterErr, tFailed, timer, verdict, suite>>

\* External: a shim that stayed behind goes after all.  The other shims that are
\* in the same state may or may not be gone with it.
StrayExits ==
    /\ main # "checked"
    /\ \E s \in strays : strays' = strays \ {s}
    /\ UNCHANGED <<main, iterVars, timer, runErr, verdict, suite, failed>>

\* if err != nil { t.Fatalf }; a failed sub-test has failed the test as well.
Report ==
    /\ main = "report"
    /\ main' = "ended"
    /\ verdict' = IF runErr # "nil" \/ tFailed THEN "fail" ELSE "pass"
    /\ UNCHANGED <<iterVars, timer, strays, runErr, suite, failed>>

\* Mutant of Leaked: the check belongs to an iteration and sees its own shim.
LeakedInIteration == shim \in {"up", "asked"}

\* pidDiff(before, after): shims that were started since Run began.
Leaked == strays # {}

\* The cleanup that registerShimLeakCheck registers, when the subtests are over.
LeakCheck ==
    /\ main = "ended"
    /\ main' = "checked"
    /\ suite' = IF verdict = "fail" \/ Leaked THEN "fail" ELSE "pass"
    /\ UNCHANGED <<iterVars, timer, strays, runErr, verdict, failed>>

Wait == Step("wait")
Calls == Step("create") \/ Step("start") \/ Step("delete")
Local == Setup \/ Step("output") \/ Shutdown \/ SubPasses
Main == stressCtx \/ LoopTest \/ FnReturned \/ Report \/ LeakCheck

Ended == main = "checked" /\ UNCHANGED vars

Next == Main \/ Local \/ Calls \/ Wait \/ Expire \/ StrayExits \/ Ended

Spec == Init /\ [][Next]_vars

\* The test goroutine runs, and everything it bounds by a timeout returns.
\* Nothing makes a shim answer an RPC without a deadline.
FairSpec == Spec /\ WF_vars(Main) /\ WF_vars(Local) /\ WF_vars(Expire)

\* ... except that it is a conforming one.
AnsweringSpec == FairSpec /\ WF_vars(Calls \/ Wait)
-----------------------------------------------------------------------------
TypeOK ==
    /\ main \in {"ctx", "loop", "iter", "returned", "report", "ended", "checked"}
    /\ stage \in 1..Len(Stages) + 1
    /\ iterErr \in FnResults /\ runErr \in FnResults
    /\ tFailed \in BOOLEAN
    /\ timer \in {"none", "set", "fired"}
    /\ shim \in {"absent", "up", "asked", "down"} /\ strays \subseteq {"up", "asked"}
    /\ suite \in {"none", "pass", "fail"} /\ failed \in BOOLEAN
    /\ verdict \in {"none", "pass", "fail", "skip"}

over == main \in {"ended", "checked"}

\* Shims do not pile up unseen over the iterations.  One that stayed behind
\* without an answer to Shutdown has failed the test; one that answered and
\* stayed has not, but then the suite does not pass while it runs.
NoSilentPileUp ==
    /\ "up" \in strays => tFailed
    /\ suite = "pass" => strays = {}

\* A sub-test that fails has failed the test for good, whatever came of the loop:
\* also one that fails in a helper, of which runStress does not hear and after
\* which it goes on, and one whose error runStress forgives, as it says at
\* stress_suite.go:1063-1067 of an error after the deadline and at 1083-1088 of a
\* stalled host.  What runStress forgives, t.Run has not.
EveryFailureFails == failed /\ over => verdict = "fail"

\* The deadline ends the test, if the shim answers.  Under FairSpec alone it does
\* not: Create, Start, Wait and Delete have no timeout, and the deadline does not
\* reach the context they are called under.
StopEnds == expired ~> over
=============================================================================
