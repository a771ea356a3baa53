--------------------------- MODULE StressSandbox ----------------------------
(***************************************************************************)
(* StressSuite.testSandbox (stress_sandbox_linux.go): one sandbox, one     *)
(* runStress loop on the test goroutine.  An iteration creates and starts  *)
(* N member containers one after the other, waits for all of them in       *)
(* goroutines, and releases them one after the other.  An error leaves the *)
(* iteration where it is, so members may be left over; what is tracked of  *)
(* them in env.containers is left to the cleanup of startSandboxShim.      *)
(*                                                                         *)
(* The shim is external.  A call that returns an error may have had its    *)
(* effect or not.                                                          *)
(***************************************************************************)
EXTENDS StressLoop, Naturals

CONSTANT N      \* stressSandboxConcurrency

ASSUME NAssumption == N \in Nat \ {0}
ASSUME LinuxOnly == ~VMHost

VARIABLES main,       \* where the test goroutine is
          next,       \* the member a sequential loop of fn is at
          member,     \* the members of the iteration, in the shim
          tracked,    \* env.containers
          asked,      \* members that a Delete was sent for
          waiter,     \* the goroutines that Wait
          errs,       \* what they return
          timer,      \* of the stressCtx deadline: "none", "set" or "fired"
          runErr,     \* what fn, and then runStress, returned
          sandbox,    \* the sandbox and its shim: "absent", "up", "stopping" or "down"
          grown,      \* t.Errorf: the memory of the shim grew
          verdict

shimVars == <<member, tracked, asked>>
waitVars == <<waiter, errs>>
vars == <<main, next, shimVars, waitVars, timer, runErr, sandbox, grown, verdict>>

Members == 1..N
MemberStates == {"none", "created", "running", "stopped", "deleted"}

\* ctx.Err() != nil, by the deadline.  Without a -test.timeout there is none.
expired == timer = "fired"

Init ==
    /\ main = "start" /\ next = 1
    /\ member = [j \in Members |-> "none"] /\ tracked = {} /\ asked = {}
    /\ waiter = [j \in Members |-> "off"] /\ errs = [j \in Members |-> "nil"]
    /\ timer \in {"none", "set"} /\ runErr = "nil"
    /\ sandbox = "absent" /\ grown = FALSE /\ verdict = "none"
-----------------------------------------------------------------------------
Leave(v) == verdict' = v /\ main' = "cleanup"

\* buildShimImages, startSandboxShim.  What fails before the sandbox has been
\* started has no cleanup.
startSandboxShim ==
    /\ main = "start"
    /\ \/ sandbox' = "up" /\ main' = "probe" /\ UNCHANGED verdict
       \/ sandbox' \in {"absent", "up"} /\ verdict' = "fail" /\ main' = "ended"
    /\ UNCHANGED <<next, shimVars, waitVars, timer, runErr, grown>>

\* The probe container is created, read, awaited and released.  Then
\* stressCtx, which skips when too little time is left.
probe ==
    /\ main = "probe"
    /\ \/ main' = "loop" /\ UNCHANGED verdict
       \/ Leave("fail")
       \/ timer = "set" /\ Leave("skip")
    /\ UNCHANGED <<next, shimVars, waitVars, timer, runErr, sandbox, grown>>

Expire ==
    /\ timer = "set" /\ main \notin {"start", "probe", "cleanup", "ended"}
    /\ timer' = "fired"
    /\ UNCHANGED <<main, next, shimVars, waitVars, runErr, sandbox, grown, verdict>>
-----------------------------------------------------------------------------
(* fn: three loops over the members. *)

\* Mutant of LoopTest: a loop that never looks at its context.
LoopTestDeaf ==
    /\ main = "loop"
    /\ main' = "create" /\ next' = 1
    /\ member' = [j \in Members |-> "none"] /\ asked' = {}
    /\ errs' = [j \in Members |-> "nil"] /\ waiter' = [j \in Members |-> "off"]
    /\ UNCHANGED <<tracked, timer, runErr, sandbox, grown, verdict>>

\* for ctx.Err() == nil.  Every iteration has members of its own.
LoopTest ==
    /\ main = "loop"
    /\ IF expired
       THEN main' = "report" /\ UNCHANGED <<next, member, asked, waitVars>>
       ELSE /\ main' = "create" /\ next' = 1
            /\ member' = [j \in Members |-> "none"] /\ asked' = {}
            /\ errs' = [j \in Members |-> "nil"] /\ waiter' = [j \in Members |-> "off"]
    /\ UNCHANGED <<tracked, timer, runErr, sandbox, grown, verdict>>

Return(e) == runErr' = e /\ main' = "returned"

\* createSandboxContainerFast, up to Task.Create.  Its helpers may end the test
\* with Fatal.
Create ==
    /\ main = "create"
    /\ \/ member' = [member EXCEPT ![next] = "created"] /\ main' = "startTask"
          /\ UNCHANGED <<runErr, verdict>>
       \/ /\ member' \in {member, [member EXCEPT ![next] = "created"]}
          /\ Return("error") /\ UNCHANGED verdict
       \/ Leave("fail") /\ UNCHANGED <<member, runErr>>
    /\ UNCHANGED <<next, tracked, asked, waitVars, timer, sandbox, grown>>

\* Mutant of Track: the last container of an iteration is forgotten.
TrackForgets == IF next = N THEN tracked ELSE tracked \cup {next}

\* env.containers = append(env.containers, cid)
Track == tracked \cup {next}

\* Task.Start; the last member started, the goroutines begin.
Start ==
    /\ main = "startTask"
    /\ \/ /\ member' = [member EXCEPT ![next] = "running"]
          /\ tracked' = Track
          /\ IF next = N
             THEN main' = "wait" /\ waiter' = [j \in Members |-> "run"] /\ UNCHANGED next
             ELSE main' = "create" /\ next' = next + 1 /\ UNCHANGED waiter
          /\ UNCHANGED runErr
       \/ /\ member' \in {member, [member EXCEPT ![next] = "running"]}
          /\ Return("error")
          /\ UNCHANGED <<next, tracked, waiter>>
    /\ UNCHANGED <<asked, errs, timer, sandbox, grown, verdict>>

\* A goroutine's Wait answers when its member has stopped, with the exit
\* status; or fails; or its timeout passes.
WaitReturns(j) ==
    /\ waiter[j] = "run"
    /\ \E e \in FnResults : /\ e = "nil" => member[j] = "stopped"
                            /\ errs' = [errs EXCEPT ![j] = e]
    /\ waiter' = [waiter EXCEPT ![j] = "done"]
    /\ UNCHANGED <<main, next, shimVars, timer, runErr, sandbox, grown, verdict>>

\* Mutant of FirstErr: only the first member's error is looked at.
FirstErrOnly == errs[1]

\* wg.Wait() returns; the first error in the order of the members.
WgDone == \A j \in Members : waiter[j] = "done"
FirstErr ==
    IF \A j \in Members : errs[j] = "nil" THEN "nil"
    ELSE errs[CHOOSE j \in Members : errs[j] # "nil" /\ \A k \in 1..j - 1 : errs[k] = "nil"]

Collect ==
    /\ main = "wait" /\ WgDone
    /\ IF FirstErr = "nil" THEN main' = "release" /\ next' = 1 /\ UNCHANGED runErr
                           ELSE Return(FirstErr) /\ UNCHANGED next
    /\ UNCHANGED <<shimVars, waitVars, timer, sandbox, grown, verdict>>

\* Mutants of Released: the loop stops one short; it does not stop.
ReleasedOneShort == next >= N - 1
ReleasedNever == FALSE

\* The last member has been released.
Released == next = N

\* releaseSandboxContainer: Delete, and the container is no longer tracked,
\* whatever Delete said.
Release ==
    /\ main = "release"
    /\ asked' = asked \cup {next} /\ tracked' = tracked \ {next}
    /\ \/ /\ member' = [member EXCEPT ![next] = "deleted"]
          /\ IF Released THEN main' = "loop" /\ UNCHANGED next
                         ELSE next' = next + 1 /\ UNCHANGED main
          /\ UNCHANGED runErr
       \/ /\ member' \in {member, [member EXCEPT ![next] = "deleted"]}
          /\ Return("error")
          /\ UNCHANGED next
    /\ UNCHANGED <<waitVars, timer, sandbox, grown, verdict>>

\* fn failed: runStress looks at the outer context and decides.
FnFailed ==
    /\ main = "returned"
    /\ LET then == RunStressStep(expired, runErr)
       IN  /\ main' = IF then = "iterate" THEN "loop" ELSE "report"
           /\ runErr' = IF then = "return" THEN runErr ELSE "nil"
    /\ UNCHANGED <<next, shimVars, waitVars, timer, sandbox, grown, verdict>>
-----------------------------------------------------------------------------
\* t.Fatalf on an error; then the memory of the shim, if it can be read.
Report ==
    /\ main = "report"
    /\ \/ runErr # "nil" /\ Leave("fail") /\ UNCHANGED grown
       \/ runErr = "nil" /\ main' = "stop" /\ grown' \in BOOLEAN /\ UNCHANGED verdict
    /\ UNCHANGED <<next, shimVars, waitVars, timer, runErr, sandbox>>

\* StopSandbox and ShutdownSandbox; half a second later the mounts of a shim
\* that still runs may be found.
StopSandbox ==
    /\ main = "stop"
    /\ sandbox' \in {"up", "stopping", "down"}
    /\ \/ Leave(IF grown THEN "fail" ELSE "pass")
       \/ sandbox' # "down" /\ Leave("fail")
    /\ UNCHANGED <<next, shimVars, waitVars, timer, runErr, grown>>

\* The cleanup: Kill, Wait and Delete for what is tracked, then the sandbox.
shutdownSandboxShim ==
    /\ main = "cleanup" /\ main' = "ended"
    /\ asked' = asked \cup tracked
    /\ sandbox' \in {sandbox, "down"}
    /\ UNCHANGED <<next, member, tracked, waitVars, timer, runErr, grown, verdict>>

\* The container process ends.
Exit(j) ==
    /\ member[j] = "running" /\ member' = [member EXCEPT ![j] = "stopped"]
    /\ UNCHANGED <<main, next, tracked, asked, waitVars, timer, runErr, sandbox, grown, verdict>>

\* Create, Start and Delete have no timeout.
Calls == Create \/ Start \/ Release \/ StopSandbox
Local == startSandboxShim \/ probe \/ LoopTest \/ Collect \/ FnFailed \/ Report
         \/ shutdownSandboxShim

Ended == main = "ended" /\ UNCHANGED vars

Next == Local \/ Calls \/ Expire \/ Ended \/ (\E j \in Members : WaitReturns(j) \/ Exit(j))

Spec == Init /\ [][Next]_vars

\* Goroutines run, a Wait has its timeout, and the shim answers.
FairSpec == Spec /\ WF_vars(Local) /\ WF_vars(Calls) /\ WF_vars(Expire)
                 /\ \A j \in Members : WF_vars(WaitReturns(j))
-----------------------------------------------------------------------------
TypeOK ==
    /\ main \in {"start", "probe", "loop", "create", "startTask", "wait", "release",
                 "returned", "report", "stop", "cleanup", "ended"}
    /\ next \in Members
    /\ member \in [Members -> MemberStates]
    /\ tracked \subseteq Members /\ asked \subseteq Members
    /\ waiter \in [Members -> {"off", "run", "done"}]
    /\ errs \in [Members -> FnResults] /\ runErr \in FnResults
    /\ timer \in {"none", "set", "fired"}
    /\ sandbox \in {"absent", "up", "stopping", "down"}
    /\ grown \in BOOLEAN /\ verdict \in {"none", "pass", "fail", "skip"}

\* Nothing of an iteration is left in the sandbox.
Clean == tracked = {} /\ \A j \in Members : member[j] \in {"none", "deleted"}

\* Members do not pile up: no iteration begins, and the soak is not ended by its
\* deadline, with a member of an earlier one in the sandbox or tracked.
NoMemberPileUp == main = "loop" => Clean

\* Wherever an iteration was left, a Delete has been sent for every member whose
\* Start had been answered, by releaseSandboxContainer or by the cleanup.
MembersAskedToGo ==
    main = "ended" => \A j \in Members : (j < next \/ waiter[j] # "off") => j \in asked

\* No iteration begins after one in which a member's Wait failed, whichever
\* it was.
FailFast ==
    [][main = "loop" /\ main' = "create" => \A j \in Members : errs[j] = "nil"]_vars

\* testSandbox implements the promise of Soak.
soak == INSTANCE Soak
          WITH stopped <- expired \/ main \in {"report", "stop", "cleanup", "ended"},
               failed <- main \in {"report", "cleanup", "ended"} /\ runErr # "nil"
ImplementsSoak == soak!Spec

\* The deadline ends the test, after at most one more iteration.
StopEnds == expired ~> main = "ended"
=============================================================================
