--------------------------- MODULE StressTransfer ---------------------------
(***************************************************************************)
(* StressSuite.testTransfer (stress_suite.go): one goroutine per transfer  *)
(* subtest loops in runStress against a shared shim; the first to fail     *)
(* cancels the others; the test goroutine collects one result from each    *)
(* through a buffered channel, gives its verdict, and only then runs its   *)
(* deferred calls, which shut the shim down.                               *)
(***************************************************************************)
EXTENDS StressLoop, Naturals, Sequences, FiniteSets

CONSTANTS Subtests,      \* the goroutines: stat, write, read
          NoOne          \* firstErrName before a failure was received

ASSUME SubtestsAssumption == IsFiniteSet(Subtests) /\ Subtests # {} /\ NoOne \notin Subtests

VARIABLES main,        \* where the test goroutine is
          shim,        \* the shim process
          deferred,    \* shutdownShim has been deferred
          timer,       \* of the stressCtx deadline: "none", "set" or "fired"
          cancelled,   \* runCancel was called
          pc,          \* where each subtest goroutine is
          err,         \* the error a subtest goroutine holds
          results,     \* the channel
          received,    \* the subtests whose result was received
          firstErr,    \* firstErrName
          verdict,
          early        \* history: subtests whose call failed before the stop

vars == <<main, shim, deferred, timer, cancelled, pc, err, results,
          received, firstErr, verdict, early>>
workerVars == <<pc, err, results, early>>
mainVars == <<main, shim, deferred, received, firstErr, verdict>>

\* ctx.Err() != nil, by the deadline.  Without a -test.timeout there is none.
expired == timer = "fired"

\* runCtx.Err() != nil
ctxDone == expired \/ cancelled

Init ==
    /\ main = "env" /\ shim = "absent" /\ deferred = FALSE
    /\ timer \in {"none", "set"} /\ cancelled = FALSE
    /\ pc = [w \in Subtests |-> "idle"]
    /\ err = [w \in Subtests |-> "nil"]
    /\ results = <<>> /\ received = {} /\ firstErr = NoOne
    /\ verdict = "none" /\ early = {}
-----------------------------------------------------------------------------
\* t.Fatal or t.Skip: the rest of the function is abandoned.
Leave(v) == verdict' = v /\ main' = "defers"

\* newShimEnv: shimSetup or startShim fails before there is a shim; Create
\* or Start fails with the shim running and nothing deferred.
newShimEnv ==
    /\ main = "env"
    /\ \/ shim' = "up" /\ main' = "probe" /\ UNCHANGED verdict
       \/ shim' \in {"absent", "up"} /\ Leave("fail")
    /\ UNCHANGED <<deferred, timer, cancelled, received, firstErr, workerVars>>

\* The probe answers Unimplemented (skip), or not; then shutdownShim is deferred.
skipIfNoTransfer ==
    /\ main = "probe"
    /\ \/ Leave("skip") /\ UNCHANGED deferred
       \/ main' = "ctx" /\ deferred' = TRUE /\ UNCHANGED verdict
    /\ UNCHANGED <<shim, timer, cancelled, received, firstErr, workerVars>>

\* Without a deadline the context is only cancelled by its owner; with one,
\* too little time left skips the test.
stressCtx ==
    /\ main = "ctx"
    /\ \/ timer = "set" /\ Leave("skip")
       \/ main' = "setup" /\ UNCHANGED verdict
    /\ UNCHANGED <<shim, deferred, timer, cancelled, received, firstErr, workerVars>>

\* The read pool is written and read back; then every goroutine is started.
transferStressSubtests ==
    /\ main = "setup"
    /\ \/ Leave("fail") /\ UNCHANGED pc
       \/ main' = "collect" /\ pc' = [w \in Subtests |-> "loop"] /\ UNCHANGED verdict
    /\ UNCHANGED <<shim, deferred, timer, cancelled, received, firstErr,
                   err, results, early>>

\* The deadline of stressCtx, a timer of its own.
Expire ==
    /\ timer = "set"
    /\ main \in {"setup", "collect"}
    /\ timer' = "fired"
    /\ UNCHANGED <<mainVars, workerVars, cancelled>>
-----------------------------------------------------------------------------
\* for ctx.Err() == nil: call fn, or fall out of the loop with a nil error.
LoopTest(w) ==
    /\ pc[w] = "loop"
    /\ pc' = [pc EXCEPT ![w] = IF ctxDone THEN "send" ELSE "call"]
    /\ UNCHANGED <<mainVars, timer, cancelled, err, results, early>>

\* fn returns.  Its own context, bounded by stressIterationTimeout, makes it.
FnReturns(w) ==
    /\ pc[w] = "call"
    /\ \E e \in FnResults :
         /\ err' = [err EXCEPT ![w] = e]
         /\ pc' = [pc EXCEPT ![w] = IF e = "nil" THEN "loop" ELSE "error"]
         /\ early' = IF e # "nil" /\ ~ctxDone THEN early \cup {w} ELSE early
    /\ UNCHANGED <<mainVars, timer, cancelled, results>>

\* The outer context is looked at after the call came back with an error, so
\* it may have been cancelled, or expired, in between.
FnFailed(w) ==
    /\ pc[w] = "error"
    /\ LET next == RunStressStep(ctxDone, err[w])
       IN  /\ pc' = [pc EXCEPT ![w] = CASE next = "iterate" -> "loop"
                                        [] next = "break"   -> "send"
                                        [] next = "return"  -> "cancel"]
           /\ err' = [err EXCEPT ![w] = IF next = "return" THEN @ ELSE "nil"]
    /\ UNCHANGED <<mainVars, timer, cancelled, results, early>>

\* Mutant of runCancel: the error is kept to itself.
runCancelForgotten(w) ==
    /\ pc[w] = "cancel"
    /\ pc' = [pc EXCEPT ![w] = "send"]
    /\ UNCHANGED <<mainVars, timer, cancelled, err, results, early>>

runCancel(w) ==
    /\ pc[w] = "cancel"
    /\ cancelled' = TRUE
    /\ pc' = [pc EXCEPT ![w] = "send"]
    /\ UNCHANGED <<mainVars, timer, err, results, early>>

\* Mutant of Send: the goroutine does not end with its result.
SendOnAndOn(w) ==
    /\ pc[w] = "send"
    /\ results' = Append(results, w)
    /\ UNCHANGED <<mainVars, timer, cancelled, pc, err, early>>

\* results <- result{...}, a channel with room for every subtest.
Send(w) ==
    /\ pc[w] = "send"
    /\ Len(results) < Cardinality(Subtests)
    /\ results' = Append(results, w)
    /\ pc' = [pc EXCEPT ![w] = "done"]
    /\ UNCHANGED <<mainVars, timer, cancelled, err, early>>

Worker(w) == LoopTest(w) \/ FnReturns(w) \/ FnFailed(w) \/ runCancel(w) \/ Send(w)
-----------------------------------------------------------------------------
\* Mutants of CollectAll: the loop gives up at the first error; it runs one
\* round short.
CollectUntilError == received = Subtests \/ firstErr # NoOne
CollectOneShort == Cardinality(received) + 1 >= Cardinality(Subtests)

\* i < len(subtests) no longer holds.
CollectAll == Cardinality(received) = Cardinality(Subtests)

\* r := <-results
Receive ==
    /\ main = "collect" /\ ~CollectAll
    /\ results # <<>>
    /\ received' = received \cup {Head(results)}
    /\ firstErr' = IF err[Head(results)] # "nil" /\ firstErr = NoOne
                   THEN Head(results) ELSE firstErr
    /\ results' = Tail(results)
    /\ UNCHANGED <<main, shim, deferred, verdict, timer, cancelled, pc, err, early>>

\* if firstErr != nil { t.Fatalf }
Report ==
    /\ main = "collect" /\ CollectAll
    /\ Leave(IF firstErr = NoOne THEN "pass" ELSE "fail")
    /\ UNCHANGED <<shim, deferred, timer, cancelled, received, firstErr, workerVars>>

\* The deferred runCancel, cancel and shutdownShim.  The last is best effort:
\* a shim that does not answer Shutdown in time survives it.
Defers ==
    /\ main = "defers"
    /\ main' = "ended"
    /\ cancelled' = TRUE
    /\ IF deferred THEN shim' \in {"up", "down"} ELSE UNCHANGED shim
    /\ UNCHANGED <<deferred, timer, received, firstErr, verdict, workerVars>>

Main == newShimEnv \/ skipIfNoTransfer \/ stressCtx \/ transferStressSubtests
        \/ Receive \/ Report \/ Defers

Ended == main = "ended" /\ UNCHANGED vars

Next == Main \/ Expire \/ (\E w \in Subtests : Worker(w)) \/ Ended

Spec == Init /\ [][Next]_vars

\* The Go scheduler runs every goroutine that can run, the timer fires, and
\* FnReturns is bounded by the call's own timeout.
FairSpec == Spec /\ WF_vars(Main) /\ WF_vars(Expire)
                 /\ \A w \in Subtests : WF_vars(Worker(w))
-----------------------------------------------------------------------------
Stages == {"env", "probe", "ctx", "setup", "collect", "defers", "ended"}

TypeOK ==
    /\ main \in Stages
    /\ shim \in {"absent", "up", "down"}
    /\ deferred \in BOOLEAN /\ timer \in {"none", "set", "fired"} /\ cancelled \in BOOLEAN
    /\ pc \in [Subtests -> {"idle", "loop", "call", "error", "cancel", "send", "done"}]
    /\ err \in [Subtests -> FnResults]
    /\ results \in Seq(Subtests) /\ Len(results) <= Cardinality(Subtests)
    /\ received \in SUBSET Subtests /\ early \in SUBSET Subtests
    /\ firstErr \in Subtests \cup {NoOne}
    /\ verdict \in {"none", "pass", "fail", "skip"}

\* The goroutine left its loop with an error.
Failed(w) == pc[w] \in {"cancel", "send", "done"} /\ err[w] # "nil"

(***************************************************************************)
(* Safety.                                                                 *)
(***************************************************************************)

\* A failure that made runStress return an error is in the verdict: it is
\* not lost in the channel, behind another result, or to the deadline that
\* fires between the failure and the verdict (testTransfer, firstErr).
FailureReported == verdict \in {"pass", "skip"} => \A w \in Subtests : ~Failed(w)

\* The subtest that the verdict blames failed while the soak was on: an error
\* that comes back after the deadline, or after another subtest cancelled the
\* run, is not reported (the deadline race of runStress).
BlamedInTime == firstErr # NoOne => firstErr \in early /\ Failed(firstErr)

\* The deferred shutdownShim never pulls the shim from under a transfer: once
\* the test leaves its body, no subtest goroutine is running.
QuiescentShutdown ==
    main \in {"defers", "ended"} => \A w \in Subtests : pc[w] \in {"idle", "done"}

\* testTransfer implements the promise of Soak.
soak == INSTANCE Soak WITH stopped <- ctxDone,
                           failed <- \E w \in Subtests : Failed(w)
ImplementsSoak == soak!Spec

(***************************************************************************)
(* Liveness, under FairSpec.                                               *)
(***************************************************************************)

\* A failure or the deadline ends the test: the subtests that are told to
\* stop do, and the test goroutine does not wait for one that never answers.
StopEnds == ((\E w \in Subtests : Failed(w)) \/ expired) ~> main = "ended"
=============================================================================
