----------------------------- MODULE StressExec -----------------------------
(***************************************************************************)
(* StressSuite.testExec (stress_suite.go): one shim, one runStress loop on *)
(* the test goroutine.  Every iteration starts a goroutine per exec slot,  *)
(* waits for all of them and takes the first error; a sampler goroutine    *)
(* execs in the same container until the outer context is done.  The test  *)
(* joins the sampler before it looks at the result.                        *)
(***************************************************************************)
EXTENDS StressLoop, Naturals

CONSTANTS Slots,         \* the exec goroutines of an iteration
          KindCount,     \* stressExecKindCount
          NoOne          \* firstErr is nil

ASSUME SlotsAssumption == Slots # {} /\ NoOne \notin Slots
ASSUME KindCountAssumption == KindCount \in Nat \ {0}

VARIABLES main,       \* where the test goroutine is
          shim,       \* the shim process
          deferred,   \* shutdownShim has been deferred
          timer,      \* of the stressCtx deadline: "none", "set" or "fired"
          kind,       \* what the current iteration execs
          exec,       \* where each exec goroutine is
          execErr,    \* the error an exec goroutine holds
          round,      \* the kind an exec goroutine runs
          firstErr,   \* the iteration's atomic pointer: the slot that set it
          runErr,     \* what fn, and then runStress, returned
          sampler,    \* where the sampler is
          verdict

vars == <<main, shim, deferred, timer, kind, exec, execErr, round, firstErr,
          runErr, sampler, verdict>>
execVars == <<exec, execErr, round, firstErr>>

\* ctx.Err() != nil, by the deadline.  Without a -test.timeout there is none.
expired == timer = "fired"

Init ==
    /\ main = "env" /\ shim = "absent" /\ deferred = FALSE /\ timer \in {"none", "set"}
    /\ kind = KindCount - 1
    /\ exec = [j \in Slots |-> "off"]
    /\ execErr = [j \in Slots |-> "nil"]
    /\ round = [j \in Slots |-> 0]
    /\ firstErr = NoOne /\ runErr = "nil"
    /\ sampler = "off" /\ verdict = "none"
-----------------------------------------------------------------------------
Leave(v) == verdict' = v /\ main' = "defers"

\* newShimEnv, and shutdownShim deferred right after it.
newShimEnv ==
    /\ main = "env"
    /\ \/ shim' = "up" /\ deferred' = TRUE /\ main' = "probe" /\ UNCHANGED verdict
       \/ shim' \in {"absent", "up"} /\ Leave("fail") /\ UNCHANGED deferred
    /\ UNCHANGED <<timer, kind, execVars, runErr, sampler>>

\* No pid or no RSS skips the test; the guest memory reading may fail.  Then
\* stressCtx, which skips when too little time is left, and the sampler starts.
Prepare ==
    /\ main = "probe"
    /\ \/ Leave("skip") /\ UNCHANGED sampler
       \/ Leave("fail") /\ UNCHANGED sampler    \* marshal exec spec
       \/ main' = "loop" /\ sampler' = "select" /\ UNCHANGED verdict
    /\ UNCHANGED <<shim, deferred, timer, kind, execVars, runErr>>

Expire ==
    /\ timer = "set"
    /\ main \in {"loop", "iterate", "returned", "join"}
    /\ timer' = "fired"
    /\ UNCHANGED <<main, shim, deferred, kind, execVars, runErr, sampler, verdict>>
-----------------------------------------------------------------------------
\* The select of the sampler: ctx.Done ends it, the ticker starts a
\* readGuestMem, whose exec is bounded by its own timeout.
SamplerTick ==
    /\ sampler = "select"
    /\ sampler' = "exec"
    /\ UNCHANGED <<main, shim, deferred, timer, kind, execVars, runErr, verdict>>
SamplerRead ==
    /\ sampler = "exec"
    /\ sampler' = "select"
    /\ UNCHANGED <<main, shim, deferred, timer, kind, execVars, runErr, verdict>>
\* Mutant of SamplerStop: the select has no case for ctx.Done.
SamplerStopNever == sampler = "off" /\ expired /\ UNCHANGED vars

SamplerStop ==
    /\ sampler = "select" /\ expired
    /\ sampler' = "done"
    /\ UNCHANGED <<main, shim, deferred, timer, kind, execVars, runErr, verdict>>
-----------------------------------------------------------------------------
\* Mutant of NextKind: no modulo.
NextKindUnwrapped == kind + 1

\* iter % stressExecKindCount, the iterations being counted from 0.
NextKind == (kind + 1) % KindCount

\* The top of runStress, and fn's beginning: the next kind in turn, one
\* goroutine per slot, a fresh error pointer.
Iterate ==
    /\ main = "loop"
    /\ IF expired
       THEN main' = "join" /\ UNCHANGED <<kind, execVars>>
       ELSE /\ main' = "iterate"
            /\ kind' = NextKind
            /\ exec' = [j \in Slots |-> "run"]
            /\ execErr' = [j \in Slots |-> "nil"]
            /\ round' = [j \in Slots |-> kind']
            /\ firstErr' = NoOne
    /\ UNCHANGED <<shim, deferred, timer, runErr, sampler, verdict>>

\* runOneExec, runExecBurstexit or runExecRoundTrip returns, within its timeout.
ExecReturns(j) ==
    /\ exec[j] = "run"
    /\ \E e \in FnResults :
         /\ execErr' = [execErr EXCEPT ![j] = e]
         /\ exec' = [exec EXCEPT ![j] = IF e = "nil" THEN "done" ELSE "swap"]
    /\ UNCHANGED <<main, shim, deferred, timer, kind, round, firstErr, runErr,
                   sampler, verdict>>

\* Mutant of SwapFirstErr: the error of an exec is stored only if it is not
\* a timeout.
SwapSomeErr(j) == IF execErr[j] = "timeout" THEN firstErr ELSE j

\* firstErr.CompareAndSwap(nil, &e)
SwapFirstErr(j) == IF firstErr = NoOne THEN j ELSE firstErr

\* ... and then the deferred wg.Done.
ExecFails(j) ==
    /\ exec[j] = "swap"
    /\ firstErr' = SwapFirstErr(j)
    /\ exec' = [exec EXCEPT ![j] = "done"]
    /\ UNCHANGED <<main, shim, deferred, timer, kind, execErr, round, runErr,
                   sampler, verdict>>

\* Mutant of WgDone: the counter is short of one goroutine (an Add inside it).
WgDoneEarly == \E j \in Slots : exec[j] = "done"

\* wg.Wait() returns.
WgDone == \A j \in Slots : exec[j] = "done"

\* fn returns the first error, or nil.
FnReturns ==
    /\ main = "iterate" /\ WgDone
    /\ runErr' = IF firstErr = NoOne THEN "nil" ELSE execErr[firstErr]
    /\ main' = IF firstErr = NoOne THEN "loop" ELSE "returned"
    /\ UNCHANGED <<shim, deferred, timer, kind, execVars, sampler, verdict>>

\* fn failed: runStress looks at the outer context and decides.
FnFailed ==
    /\ main = "returned"
    /\ LET next == RunStressStep(expired, runErr)
       IN  /\ main' = IF next = "iterate" THEN "loop" ELSE "join"
           /\ runErr' = IF next = "return" THEN runErr ELSE "nil"
    /\ UNCHANGED <<shim, deferred, timer, kind, execVars, sampler, verdict>>

\* <-samplerDone
SamplerJoined == sampler = "done"

\* Then the last readings; an error is fatal, and so is grown memory.
Report ==
    /\ main = "join" /\ SamplerJoined
    /\ \/ runErr # "nil" /\ Leave("fail")
       \/ runErr = "nil" /\ \E v \in {"pass", "fail"} : Leave(v)
    /\ UNCHANGED <<shim, deferred, timer, kind, execVars, runErr, sampler>>

\* The deferred cancel and shutdownShim, best effort.
Defers ==
    /\ main = "defers"
    /\ main' = "ended"
    /\ IF deferred THEN shim' \in {"up", "down"} ELSE UNCHANGED shim
    /\ UNCHANGED <<deferred, timer, kind, execVars, runErr, sampler, verdict>>

Main == newShimEnv \/ Prepare \/ Iterate \/ FnReturns \/ FnFailed \/ Report \/ Defers
Exec(j) == ExecReturns(j) \/ ExecFails(j)
Sampler == SamplerTick \/ SamplerRead \/ SamplerStop

Ended == main = "ended" /\ UNCHANGED vars

Next == Main \/ Expire \/ Sampler \/ (\E j \in Slots : Exec(j)) \/ Ended

Spec == Init /\ [][Next]_vars

\* Goroutines that can run do; every exec has its own timeout.  Go's select
\* picks among ready cases at random, so a context that stays done is chosen
\* in the end: strong fairness of SamplerStop.
FairSpec == Spec /\ WF_vars(Main) /\ WF_vars(Expire) /\ WF_vars(Sampler)
                 /\ SF_vars(SamplerStop)
                 /\ \A j \in Slots : WF_vars(Exec(j))
-----------------------------------------------------------------------------
TypeOK ==
    /\ main \in {"env", "probe", "loop", "iterate", "returned", "join", "defers", "ended"}
    /\ shim \in {"absent", "up", "down"}
    /\ deferred \in BOOLEAN /\ timer \in {"none", "set", "fired"}
    /\ kind \in 0..KindCount - 1
    /\ exec \in [Slots -> {"off", "run", "swap", "done"}]
    /\ execErr \in [Slots -> FnResults]
    /\ round \in [Slots -> 0..KindCount - 1]
    /\ firstErr \in Slots \cup {NoOne}
    /\ runErr \in FnResults
    /\ sampler \in {"off", "select", "exec", "done"}
    /\ verdict \in {"none", "pass", "fail", "skip"}

\* runStress ended with an error.
RunFailed == main \in {"join", "defers", "ended"} /\ runErr # "nil"

\* An exec's error that no platform excuses.
Hard(e) == e = "error" \/ (e = "timeout" /\ ~VMHost)

\* The soak does not go on past a failed exec: no iteration begins after one
\* in which an exec failed, whichever of the goroutines it was and whatever
\* the others returned (firstErr, wg, the decision of runStress).
FailFast ==
    [][main = "loop" /\ main' = "iterate" => \A j \in Slots : ~Hard(execErr[j])]_vars

\* No exec of the test outlives what it belongs to: an iteration's runs with the
\* kind of that iteration and is over when fn returns (wg.Wait), and the
\* deferred shutdownShim finds none in flight, nor the sampler's (<-samplerDone).
NoExecOutlives ==
    /\ \A j \in Slots : exec[j] \in {"run", "swap"} => main = "iterate" /\ round[j] = kind
    /\ main \in {"defers", "ended"} => sampler \in {"off", "done"}

\* testExec implements the promise of Soak.
soak == INSTANCE Soak WITH stopped <- expired \/ main \in {"join", "defers", "ended"},
                           failed <- RunFailed
ImplementsSoak == soak!Spec

\* Once the deadline fires the test ends: the sampler sees it, and so does the
\* loop after at most one more iteration.
StopEnds == expired ~> main = "ended"
=============================================================================
