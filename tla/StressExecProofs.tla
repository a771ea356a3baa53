-------------------------- MODULE StressExecProofs --------------------------
(***************************************************************************)
(* Proofs about StressExec, for every set of exec slots, any number of     *)
(* kinds and, but for FailsFast, either kind of host.                      *)
(***************************************************************************)
EXTENDS StressExec, TLAPS

(***************************************************************************)
(* The inductive invariant.                                                *)
(***************************************************************************)

\* An exec goroutine runs only while fn waits for it, with the kind of its
\* iteration; none before the first.
Running == \A j \in Slots :
    /\ exec[j] \in {"run", "swap"} => main = "iterate" /\ round[j] = kind
    /\ main \in {"env", "probe"} => exec[j] = "off"

\* A goroutine that goes to the error pointer has an error.
Held == \A j \in Slots :
    /\ exec[j] \in {"off", "run"} => execErr[j] = "nil"
    /\ exec[j] = "swap" => execErr[j] # "nil"

\* The pointer names a goroutine that failed; unset, none that is done has.
First ==
    /\ firstErr # NoOne => execErr[firstErr] # "nil"
    /\ firstErr = NoOne => \A j \in Slots : exec[j] = "done" => execErr[j] = "nil"

\* The sampler is started after the setup and joined before the verdict.
Sampling ==
    /\ main \in {"env", "probe"} => sampler = "off"
    /\ main \in {"defers", "ended"} => sampler \in {"off", "done"}

\* What runStress has in hand.  Only a VM host goes on after an error.
Outcome ==
    /\ main \in {"env", "probe", "loop", "iterate"} => runErr = "nil"
    /\ main = "returned" => runErr \in FnErrors
    /\ main = "join" => runErr # "nil" \/ expired
    /\ main = "loop" /\ ~VMHost => \A j \in Slots : execErr[j] = "nil"
    /\ verdict = "none" <=> main \notin {"defers", "ended"}

IInv == TypeOK /\ Running /\ Held /\ First /\ Sampling /\ Outcome
-----------------------------------------------------------------------------
\* runStress returns an error only while the context is live, forgives one
\* after it, and goes on after one on a VM host only.
LEMMA ErrorStep ==
    ASSUME NEW done, NEW e \in FnErrors
    PROVE  /\ RunStressStep(done, e) \in {"iterate", "break", "return"}
           /\ RunStressStep(done, e) = "return" => ~done
           /\ RunStressStep(done, e) = "break" => done
           /\ RunStressStep(done, e) = "iterate" => VMHost
<1>1. CASE done
  BY <1>1 DEF RunStressStep, FnErrors
<1>2. CASE ~done /\ VMHost
  BY <1>2 DEF RunStressStep, FnErrors
<1>3. CASE ~done /\ ~VMHost
  BY <1>3 DEF RunStressStep, FnErrors
<1>4. QED
  BY <1>1, <1>2, <1>3

\* The kinds are taken in turn.
LEMMA NextKindInRange ==
    ASSUME kind \in 0..KindCount - 1 PROVE NextKind \in 0..KindCount - 1
BY KindCountAssumption DEF NextKind

\* What a step keeps that leaves the execs alone and is not in an iteration.
LEMMA Kept ==
    ASSUME IInv, UNCHANGED <<exec, execErr, round, firstErr, kind>>,
           main = "iterate" => main' = "iterate",
           main' \in {"env", "probe"} => main \in {"env", "probe"}
    PROVE  Running' /\ Held' /\ First'
BY DEF IInv, Running, Held, First

LEMMA InitIInv == Init => IInv
<1> SUFFICES ASSUME Init PROVE IInv
  OBVIOUS
<1>1. TypeOK
  <2>1. kind \in 0..KindCount - 1 /\ round \in [Slots -> 0..KindCount - 1]
    BY KindCountAssumption DEF Init
  <2>2. exec \in [Slots -> {"off", "run", "swap", "done"}] /\ execErr \in [Slots -> FnResults]
    BY DEF Init, FnResults
  <2>3. QED
    BY <2>1, <2>2 DEF Init, TypeOK, FnResults
<1>2. Running /\ Held /\ First
  BY DEF Init, Running, Held, First
<1>3. Sampling /\ Outcome
  BY DEF Init, Sampling, Outcome
<1>4. QED
  BY <1>1, <1>2, <1>3 DEF IInv

\* Steps of the test goroutine outside an iteration.
LEMMA MainIInv ==
    ASSUME IInv, newShimEnv \/ Prepare \/ Report \/ Defers
    PROVE  IInv'
<1>1. /\ UNCHANGED <<exec, execErr, round, firstErr, kind, runErr, timer>>
      /\ main # "iterate" /\ (main' = "probe" => main = "env") /\ main' # "env"
  BY DEF newShimEnv, Prepare, Report, Defers, Leave, execVars
<1>2. TypeOK'
  BY <1>1 DEF IInv, TypeOK, newShimEnv, Prepare, Report, Defers, Leave
<1>3. Sampling'
  BY DEF IInv, Sampling, newShimEnv, Prepare, Report, Defers, Leave, SamplerJoined
<1>4. Outcome'
  <2>1. CASE newShimEnv
    BY <1>1, <2>1 DEF IInv, Outcome, newShimEnv, Leave
  <2>2. CASE Prepare
    <3>1. main' = "loop" => \A j \in Slots : execErr[j] = "nil"
      BY <2>2 DEF IInv, Prepare, Held, TypeOK, Running
    <3>2. QED
      BY <1>1, <2>2, <3>1 DEF IInv, Outcome, Prepare, Leave
  <2>3. CASE Report \/ Defers
    BY <1>1, <2>3 DEF IInv, Outcome, Report, Defers, Leave
  <2>4. QED
    BY <2>1, <2>2, <2>3
<1>5. QED
  BY <1>1, <1>2, <1>3, <1>4, Kept DEF IInv

\* The deadline and the sampler touch nothing of the loop.
LEMMA BesideIInv ==
    ASSUME IInv, Expire \/ Sampler PROVE IInv'
<1>1. UNCHANGED <<main, exec, execErr, round, firstErr, kind, runErr, verdict>>
  BY DEF Expire, Sampler, SamplerTick, SamplerRead, SamplerStop, execVars
<1>2. TypeOK'
  BY <1>1 DEF IInv, TypeOK, Expire, Sampler, SamplerTick, SamplerRead, SamplerStop
<1>3. Sampling'
  BY <1>1 DEF IInv, Sampling, Expire, Sampler, SamplerTick, SamplerRead, SamplerStop
<1>4. expired => expired'
  BY DEF expired, Expire, Sampler, SamplerTick, SamplerRead, SamplerStop
<1>5. Outcome'
  BY <1>1, <1>4 DEF IInv, Outcome
<1>6. QED
  BY <1>1, <1>2, <1>3, <1>5, Kept DEF IInv

\* A new iteration has goroutines, errors and a pointer of its own.
LEMMA IterateIInv == ASSUME IInv, Iterate PROVE IInv'
<1>1. CASE expired
  <2>1. /\ UNCHANGED <<exec, execErr, round, firstErr, kind, runErr, timer, sampler, shim, deferred, verdict>>
        /\ main = "loop" /\ main' = "join"
    BY <1>1 DEF Iterate, execVars
  <2>2. TypeOK' /\ Sampling' /\ Outcome'
    BY <1>1, <2>1 DEF IInv, TypeOK, Sampling, Outcome, expired
  <2>3. QED
    BY <2>1, <2>2, Kept DEF IInv
<1>2. CASE ~expired
  <2>1. /\ main = "loop" /\ main' = "iterate" /\ kind' = NextKind /\ firstErr' = NoOne
        /\ exec' = [j \in Slots |-> "run"] /\ execErr' = [j \in Slots |-> "nil"]
        /\ round' = [j \in Slots |-> kind']
        /\ UNCHANGED <<shim, deferred, timer, runErr, sampler, verdict>>
    BY <1>2 DEF Iterate
  <2>2. kind' \in 0..KindCount - 1
    BY <2>1, NextKindInRange DEF IInv, TypeOK
  <2>3. TypeOK'
    <3>1. /\ exec' \in [Slots -> {"off", "run", "swap", "done"}]
          /\ execErr' \in [Slots -> FnResults] /\ round' \in [Slots -> 0..KindCount - 1]
      BY <2>1, <2>2 DEF FnResults
    <3>2. QED
      BY <2>1, <2>2, <3>1 DEF IInv, TypeOK
  <2>4. Running' /\ Held' /\ First'
    BY <2>1 DEF Running, Held, First
  <2>5. Sampling' /\ Outcome'
    BY <2>1 DEF IInv, Sampling, Outcome
  <2>6. QED
    BY <2>3, <2>4, <2>5 DEF IInv
<1>3. QED
  BY <1>1, <1>2

LEMMA ExecReturnsIInv == ASSUME IInv, NEW j \in Slots, ExecReturns(j) PROVE IInv'
<1>1. PICK e \in FnResults :
         /\ execErr' = [execErr EXCEPT ![j] = e]
         /\ exec' = [exec EXCEPT ![j] = IF e = "nil" THEN "done" ELSE "swap"]
  BY DEF ExecReturns
<1>2. /\ exec[j] = "run" /\ main = "iterate"
      /\ UNCHANGED <<main, shim, deferred, timer, kind, round, firstErr, runErr, sampler, verdict>>
  BY DEF ExecReturns, IInv, Running
<1>3. TypeOK'
  BY <1>1, <1>2 DEF IInv, TypeOK
<1>4. Running' /\ Held'
  BY <1>1, <1>2 DEF IInv, TypeOK, Running, Held
<1>5. First'
  <2>1. firstErr # NoOne => firstErr \in Slots /\ firstErr # j
    BY <1>2 DEF IInv, TypeOK, First, Held
  <2>2. QED
    BY <1>1, <1>2, <2>1 DEF IInv, TypeOK, First
<1>6. Sampling' /\ Outcome'
  BY <1>2 DEF IInv, Sampling, Outcome, expired
<1>7. QED
  BY <1>3, <1>4, <1>5, <1>6 DEF IInv

LEMMA ExecFailsIInv == ASSUME IInv, NEW j \in Slots, ExecFails(j) PROVE IInv'
<1>1. /\ exec[j] = "swap" /\ main = "iterate" /\ execErr[j] # "nil"
      /\ firstErr' = IF firstErr = NoOne THEN j ELSE firstErr
      /\ exec' = [exec EXCEPT ![j] = "done"]
      /\ UNCHANGED <<main, shim, deferred, timer, kind, execErr, round, runErr, sampler, verdict>>
  BY DEF ExecFails, SwapFirstErr, IInv, Running, Held
<1>2. firstErr' # NoOne
  BY <1>1, SlotsAssumption
<1>3. TypeOK'
  BY <1>1 DEF IInv, TypeOK
<1>4. Running' /\ Held' /\ First'
  BY <1>1, <1>2 DEF IInv, TypeOK, Running, Held, First
<1>5. Sampling' /\ Outcome'
  BY <1>1 DEF IInv, Sampling, Outcome, expired
<1>6. QED
  BY <1>3, <1>4, <1>5 DEF IInv

\* Without an error in the pointer none of the execs, which are all done, failed.
LEMMA FnReturnsIInv == ASSUME IInv, FnReturns PROVE IInv'
<1>1. /\ main = "iterate" /\ \A j \in Slots : exec[j] = "done"
      /\ runErr' = IF firstErr = NoOne THEN "nil" ELSE execErr[firstErr]
      /\ main' = IF firstErr = NoOne THEN "loop" ELSE "returned"
      /\ UNCHANGED <<shim, deferred, timer, kind, exec, execErr, round, firstErr, sampler, verdict>>
  BY DEF FnReturns, WgDone, execVars
<1>2. runErr' \in FnResults /\ (firstErr # NoOne => runErr' \in FnErrors)
  BY <1>1 DEF IInv, TypeOK, First, FnResults
<1>3. TypeOK'
  BY <1>1, <1>2 DEF IInv, TypeOK
<1>4. Running' /\ Held' /\ First'
  BY <1>1 DEF IInv, Running, Held, First
<1>5. Sampling' /\ Outcome'
  BY <1>1, <1>2 DEF IInv, Sampling, Outcome, First
<1>6. QED
  BY <1>3, <1>4, <1>5 DEF IInv

LEMMA FnFailedIInv == ASSUME IInv, FnFailed PROVE IInv'
<1> DEFINE step == RunStressStep(expired, runErr)
<1>1. /\ main = "returned" /\ runErr \in FnErrors
      /\ main' = IF step = "iterate" THEN "loop" ELSE "join"
      /\ runErr' = IF step = "return" THEN runErr ELSE "nil"
      /\ UNCHANGED <<shim, deferred, timer, kind, exec, execErr, round, firstErr, sampler, verdict>>
  BY DEF FnFailed, IInv, Outcome, execVars
<1>2. /\ step \in {"iterate", "break", "return"}
      /\ step = "break" => expired
      /\ step = "iterate" => VMHost
  BY <1>1, ErrorStep
<1> HIDE DEF step
<1>3. TypeOK'
  BY <1>1, <1>2 DEF IInv, TypeOK, FnResults
<1>4. Sampling'
  BY <1>1 DEF IInv, Sampling
<1>5. Outcome'
  BY <1>1, <1>2 DEF IInv, Outcome, expired, FnErrors
<1>6. QED
  BY <1>1, <1>3, <1>4, <1>5, Kept DEF IInv

LEMMA NextIInv == IInv /\ [Next]_vars => IInv'
<1> SUFFICES ASSUME IInv, [Next]_vars PROVE IInv'
  OBVIOUS
<1>1. CASE Main
  BY <1>1, MainIInv, IterateIInv, FnReturnsIInv, FnFailedIInv DEF Main
<1>2. CASE Expire \/ Sampler
  BY <1>2, BesideIInv
<1>3. ASSUME NEW j \in Slots, Exec(j) PROVE IInv'
  BY <1>3, ExecReturnsIInv, ExecFailsIInv DEF Exec
<1>4. CASE UNCHANGED vars
  <2>1. TypeOK' /\ Sampling' /\ Outcome'
    BY <1>4 DEF IInv, TypeOK, Sampling, Outcome, vars, expired
  <2>2. QED
    BY <1>4, <2>1, Kept DEF IInv, vars
<1>5. CASE Ended
  BY <1>4, <1>5 DEF Ended
<1>6. QED
  BY <1>1, <1>2, <1>3, <1>4, <1>5 DEF Next

LEMMA Invariance == Spec => []IInv
BY InitIInv, NextIInv, PTL DEF Spec
-----------------------------------------------------------------------------
(***************************************************************************)
(* The theorems.                                                           *)
(***************************************************************************)

\* The state of testExec keeps its types; the kind of an iteration stays below
\* stressExecKindCount however many iterations there are.
THEOREM TypeCorrect == Spec => []TypeOK
<1>1. IInv => TypeOK
  BY DEF IInv
<1>2. QED
  BY Invariance, <1>1, PTL

\* However many goroutines there are: no exec of an iteration is running when the
\* next one begins or when the shim is shut down, nor is the sampler's.
THEOREM ExecsDoNotOutlive == Spec => []NoExecOutlives
<1>1. IInv => NoExecOutlives
  BY DEF IInv, Running, Sampling, NoExecOutlives
<1>2. QED
  BY Invariance, <1>1, PTL

\* On Linux, no iteration begins after one with a failed exec, whichever of the
\* goroutines it was.
THEOREM FailsFast == ASSUME ~VMHost PROVE Spec => FailFast
<1>1. IInv /\ [Next]_vars
        => [main = "loop" /\ main' = "iterate" => \A j \in Slots : ~Hard(execErr[j])]_vars
  BY DEF IInv, Outcome, Hard
<1>2. QED
  BY Invariance, <1>1, PTL DEF Spec, FailFast
-----------------------------------------------------------------------------
(* Refinement. *)

Over == expired \/ main \in {"join", "defers", "ended"}

\* A step that leaves failure and verdict alone either stops the soak or stutters.
LEMMA StopImplements ==
    ASSUME RunFailed' = RunFailed, verdict' = verdict, Over => Over'
    PROVE  [soak!Next]_soak!vars
<1>1. CASE ~Over /\ Over'
  BY <1>1 DEF soak!Next, soak!Stop, Over, RunFailed
<1>2. CASE ~(~Over /\ Over')
  <2>1. Over' = Over
    BY <1>2 DEF Over, expired
  <2>2. UNCHANGED soak!vars
    BY <2>1 DEF soak!vars, Over, RunFailed
  <2>3. QED
    BY <2>2
<1>3. QED
  BY <1>1, <1>2

\* A verdict that no iteration gave.
LEMMA AbortImplements ==
    ASSUME IInv, main \notin {"defers", "ended"}, runErr = "nil", runErr' = "nil",
           verdict' \in {"skip", "fail"}, main' = "defers"
    PROVE  [soak!Next]_soak!vars
<1>1. verdict = "none" /\ ~RunFailed /\ ~RunFailed'
  BY DEF IInv, Outcome, RunFailed
<1>2. RunFailed' = RunFailed /\ Over' = TRUE
  BY <1>1 DEF RunFailed, Over
<1>3. soak!Abort
  BY <1>1, <1>2 DEF soak!Abort, RunFailed, Over
<1>4. QED
  BY <1>3 DEF soak!Next

\* The error that runStress returns came before the deadline; one that it forgives
\* did not, or came from a VM.
LEMMA FnFailedImplements == ASSUME IInv, FnFailed PROVE [soak!Next]_soak!vars
<1> DEFINE step == RunStressStep(expired, runErr)
<1>1. /\ main = "returned" /\ runErr \in FnErrors /\ verdict = "none"
      /\ main' = IF step = "iterate" THEN "loop" ELSE "join"
      /\ runErr' = IF step = "return" THEN runErr ELSE "nil"
      /\ UNCHANGED <<timer, verdict>>
  BY DEF FnFailed, IInv, Outcome
<1>2. step \in {"iterate", "break", "return"} /\ (step = "return" => ~expired)
  BY <1>1, ErrorStep
<1> HIDE DEF step
<1>3. CASE step = "return"
  <2>1. RunFailed' = TRUE /\ Over' = TRUE /\ ~Over
    BY <1>1, <1>2, <1>3 DEF RunFailed, Over, FnErrors
  <2>2. soak!Fail
    BY <1>1, <2>1 DEF soak!Fail, RunFailed, Over
  <2>3. QED
    BY <2>2 DEF soak!Next
<1>4. CASE step # "return"
  <2>1. RunFailed' = RunFailed
    BY <1>1, <1>4 DEF RunFailed
  <2>2. Over => Over'
    BY <1>1, <1>4 DEF Over, expired
  <2>3. QED
    BY <1>1, <2>1, <2>2, StopImplements
<1>5. QED
  BY <1>3, <1>4

LEMMA ReportImplements == ASSUME IInv, Report PROVE [soak!Next]_soak!vars
<1>1. /\ main = "join" /\ main' = "defers" /\ verdict = "none" /\ runErr' = runErr
      /\ verdict' \in {"pass", "fail"} /\ (runErr # "nil" => verdict' = "fail")
  BY DEF Report, Leave, IInv, Outcome
<1>2. CASE runErr = "nil" /\ verdict' = "fail"
  BY <1>1, <1>2, AbortImplements
<1>3. CASE ~(runErr = "nil" /\ verdict' = "fail")
  <2>1. RunFailed' = RunFailed /\ Over = TRUE /\ Over' = TRUE
    BY <1>1 DEF RunFailed, Over
  <2>2. verdict' = IF RunFailed THEN "fail" ELSE "pass"
    BY <1>1, <1>3 DEF RunFailed
  <2>3. soak!End
    BY <1>1, <2>1, <2>2 DEF soak!End, RunFailed, Over
  <2>4. QED
    BY <2>3 DEF soak!Next
<1>4. QED
  BY <1>2, <1>3

LEMMA NextImplements == IInv /\ [Next]_vars => [soak!Next]_soak!vars
<1> SUFFICES ASSUME IInv, [Next]_vars PROVE [soak!Next]_soak!vars
  OBVIOUS
<1>1. CASE newShimEnv \/ Prepare
  <2>1. /\ main \in {"env", "probe"} /\ UNCHANGED <<timer, runErr>>
        /\ \/ main' \in {"probe", "loop"} /\ verdict' = verdict
           \/ main' = "defers" /\ verdict' \in {"skip", "fail"}
    BY <1>1 DEF newShimEnv, Prepare, Leave
  <2>2. runErr = "nil"
    BY <2>1 DEF IInv, Outcome
  <2>3. CASE main' = "defers"
    BY <2>1, <2>2, <2>3, AbortImplements
  <2>4. CASE main' # "defers"
    <3>1. RunFailed' = RunFailed /\ verdict' = verdict /\ (Over => Over')
      BY <2>1, <2>2, <2>4 DEF RunFailed, Over, expired
    <3>2. QED
      BY <3>1, StopImplements
  <2>5. QED
    BY <2>3, <2>4
<1>2. CASE Iterate \/ FnReturns
  <2>1. /\ main \in {"loop", "iterate"} /\ UNCHANGED <<timer, verdict>>
        /\ \/ main' \in {"loop", "iterate", "returned"}
           \/ main' = "join" /\ runErr' = runErr
    BY <1>2 DEF Iterate, FnReturns
  <2>2. runErr = "nil"
    BY <2>1 DEF IInv, Outcome
  <2>3. RunFailed' = RunFailed /\ (Over => Over')
    BY <2>1, <2>2 DEF RunFailed, Over, expired
  <2>4. QED
    BY <2>1, <2>3, StopImplements
<1>3. CASE Defers
  <2>1. RunFailed' = RunFailed /\ verdict' = verdict /\ Over'
    BY <1>3 DEF Defers, RunFailed, Over
  <2>2. QED
    BY <2>1, StopImplements
<1>4. CASE Expire
  <2>1. RunFailed' = RunFailed /\ verdict' = verdict /\ Over'
    BY <1>4 DEF Expire, RunFailed, Over, expired
  <2>2. QED
    BY <2>1, StopImplements
<1>5. CASE (\E j \in Slots : Exec(j)) \/ Sampler \/ Ended \/ UNCHANGED vars
  <2>1. UNCHANGED <<main, runErr, timer, verdict>>
    BY <1>5 DEF Exec, ExecReturns, ExecFails, Sampler, SamplerTick, SamplerRead, SamplerStop,
                Ended, vars
  <2>2. RunFailed' = RunFailed /\ (Over => Over')
    BY <2>1 DEF RunFailed, Over, expired
  <2>3. QED
    BY <2>1, <2>2, StopImplements
<1>6. QED
  BY <1>1, <1>2, <1>3, <1>4, <1>5, FnFailedImplements, ReportImplements DEF Next, Main

LEMMA InitImplements == Init => soak!Init
BY DEF Init, soak!Init, expired, RunFailed

\* testExec keeps the promise of Soak, for any number of goroutines and kinds, on
\* either kind of host.
THEOREM ExecImplementsSoak == Spec => ImplementsSoak
BY InitImplements, NextImplements, Invariance, PTL DEF Spec, ImplementsSoak, soak!Spec
=============================================================================
