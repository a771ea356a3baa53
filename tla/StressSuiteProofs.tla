------------------------- MODULE StressSuiteProofs --------------------------
(***************************************************************************)
(* Proofs about StressSuite.Run, for every number of subtests, every       *)
(* deadline, every buffer and whatever time the steps take (StressSuite),  *)
(* and about the subtest that it runs first, on either kind of host        *)
(* (StressLifecycle).                                                      *)
(***************************************************************************)
EXTENDS StressLifecycle, StressSuite, TLAPS

(***************************************************************************)
(* StressSuite.  With the types BufferHolds is inductive: setups and       *)
(* teardowns move both of its sides, and an iteration begins before        *)
(* SoakEnd, so that the longest one so far covers it.                      *)
(***************************************************************************)
SuiteIInv == SuiteTypeOK /\ BufferHolds

\* What a subtest spends on its setup or teardown is a time.
LEMMA OwnNat == \A i : Own(i) \subseteq Nat
BY DurationsAssumption DEF Own

\* The subtest ends with the clock where BufferHolds wants it.
LEMMA FinishIInv ==
    ASSUME SuiteIInv, at <= Count, NEW o \in {"soaked", "skipped", "failed"}, Finish(o),
           now' \in Nat, longest' \in Nat, chores' \in Nat, BufferHolds'
    PROVE  SuiteIInv'
<1>1. at' \in 1..Count + 1 /\ step' = "begin"
  BY CountAssumption DEF Finish, SuiteIInv, SuiteTypeOK
<1>2. outcome' \in [1..Count -> {"none", "soaked", "failed", "skipped"}]
  BY DEF Finish, SuiteIInv, SuiteTypeOK
<1>3. QED
  BY <1>1, <1>2 DEF SuiteIInv, SuiteTypeOK

\* A setup or a teardown moves the clock and its bound alike.
LEMMA ChoreHolds ==
    ASSUME SuiteIInv, NEW d \in Nat, Chore(d), longest' = longest
    PROVE  now' \in Nat /\ longest' \in Nat /\ chores' \in Nat /\ BufferHolds'
<1>1. /\ now \in Nat /\ longest \in Nat /\ chores \in Nat
      /\ now' = now + d /\ chores' = chores + d
  BY DEF Chore, SuiteIInv, SuiteTypeOK
<1>2. QED
  BY <1>1, TimeAssumption DEF SuiteIInv, BufferHolds

\* Begin and Prepare only add chores.
LEMMA BeginIInv == ASSUME SuiteIInv, Begin PROVE SuiteIInv'
<1>1. PICK setup \in Own(at) :
        \/ /\ Chore(setup) /\ step' = "prepare"
           /\ UNCHANGED <<at, outcome>>
        \/ \E teardown \in Own(at), o \in {"skipped", "failed"} :
             Chore(setup + teardown) /\ Finish(o)
  BY DEF Begin
<1>2. at <= Count /\ longest' = longest /\ setup \in Nat
  BY OwnNat DEF Begin, MoreSubtests
<1>3. CASE Chore(setup) /\ step' = "prepare" /\ UNCHANGED <<at, outcome>>
  BY <1>2, <1>3, ChoreHolds DEF SuiteIInv, SuiteTypeOK
<1>4. CASE \E teardown \in Own(at), o \in {"skipped", "failed"} :
             Chore(setup + teardown) /\ Finish(o)
  <2>1. PICK teardown \in Own(at), o \in {"skipped", "failed"} :
               Chore(setup + teardown) /\ Finish(o)
    BY <1>4
  <2>2. setup + teardown \in Nat
    BY <1>2, OwnNat
  <2>3. QED
    BY <1>2, <2>1, <2>2, ChoreHolds, FinishIInv
<1>5. QED
  BY <1>1, <1>3, <1>4

LEMMA PrepareIInv == ASSUME SuiteIInv, at <= Count, Prepare PROVE SuiteIInv'
<1>1. PICK setup \in {0} \cup Own(at) :
        \/ Chore(setup) /\ step' = "soak" /\ UNCHANGED <<at, outcome>>
        \/ /\ \E teardown \in Own(at) : Chore(setup + teardown)
           /\ Finish("failed")
  BY DEF Prepare
<1>2. longest' = longest /\ setup \in Nat
  BY OwnNat DEF Prepare
<1>3. CASE Chore(setup) /\ step' = "soak" /\ UNCHANGED <<at, outcome>>
  BY <1>2, <1>3, ChoreHolds DEF SuiteIInv, SuiteTypeOK
<1>4. CASE (\E teardown \in Own(at) : Chore(setup + teardown)) /\ Finish("failed")
  <2>1. PICK teardown \in Own(at) : Chore(setup + teardown)
    BY <1>4
  <2>2. setup + teardown \in Nat
    BY <1>2, OwnNat
  <2>3. QED
    BY <1>2, <1>4, <2>1, <2>2, ChoreHolds, FinishIInv
<1>5. QED
  BY <1>1, <1>3, <1>4

\* An iteration that began before e ends before e plus its own time.
LEMMA PastTheEnd ==
    ASSUME NEW n \in Int, NEW d \in Int, NEW l \in Int, NEW c \in Int, NEW e \in Int,
           n < e, d <= l, 0 <= c
    PROVE  n + d <= e + l + c
OBVIOUS

LEMMA PastTheEndTorn ==
    ASSUME NEW n \in Int, NEW d \in Int, NEW l \in Int, NEW c \in Int, NEW e \in Int,
           NEW t \in Int, n < e, d <= l, 0 <= c
    PROVE  n + d + t <= e + l + (c + t)
OBVIOUS

\* An iteration begins before the end of the soak, so the longest one so far, of
\* which it may be the one, bounds what it adds.
LEMMA IterateIInv == ASSUME SuiteIInv, at <= Count, Iterate PROVE SuiteIInv'
<1>1. PICK d \in Durations :
         /\ longest' = IF d > longest THEN d ELSE longest
         /\ \/ now' = now + d /\ UNCHANGED <<at, step, outcome, chores>>
            \/ /\ \E teardown \in Own(at) : now' = now + d + teardown /\ chores' = chores + teardown
               /\ Finish("failed")
  BY DEF Iterate
<1>2. /\ now \in Nat /\ longest \in Nat /\ chores \in Nat /\ d \in Nat
      /\ now < Deadline - SoakBuffer
  BY DurationsAssumption DEF Iterate, SoakEnd, SuiteIInv, SuiteTypeOK
<1>3. longest' \in Nat /\ d <= longest'
  BY <1>1, <1>2
<1>4. SoakBuffer < Deadline /\ now + d < Deadline - SoakBuffer + d
  BY <1>2, TimeAssumption
<1>5. CASE now' = now + d /\ UNCHANGED <<at, step, outcome, chores>>
  <2>1. now + d <= (Deadline - SoakBuffer) + longest' + chores
    <3>1. Deadline - SoakBuffer \in Int /\ 0 <= chores
      BY <1>2, TimeAssumption
    <3>2. QED
      BY <1>2, <1>3, <3>1, PastTheEnd
  <2>2. BufferHolds'
    BY <1>4, <1>5, <2>1 DEF BufferHolds
  <2>3. now' \in Nat
    BY <1>2, <1>5
  <2>4. QED
    BY <1>3, <1>5, <2>2, <2>3 DEF SuiteIInv, SuiteTypeOK
<1>6. CASE /\ \E teardown \in Own(at) : now' = now + d + teardown /\ chores' = chores + teardown
           /\ Finish("failed")
  <2>1. PICK teardown \in Own(at) : now' = now + d + teardown /\ chores' = chores + teardown
    BY <1>6
  <2>2. teardown \in Nat
    BY OwnNat
  <2>3. now' \in Nat /\ chores' \in Nat
    BY <1>2, <2>1, <2>2
  <2>4. now + d + teardown <= (Deadline - SoakBuffer) + longest' + (chores + teardown)
    <3>1. Deadline - SoakBuffer \in Int /\ 0 <= chores
      BY <1>2, TimeAssumption
    <3>2. QED
      BY <1>2, <1>3, <2>2, <3>1, PastTheEndTorn
  <2>5. BufferHolds'
    BY <1>4, <2>1, <2>4 DEF BufferHolds
  <2>6. QED
    BY <1>3, <1>6, <2>3, <2>5, FinishIInv
<1>7. QED
  BY <1>1, <1>5, <1>6

LEMMA SoakOverIInv == ASSUME SuiteIInv, at <= Count, SoakOver PROVE SuiteIInv'
<1>1. PICK teardown \in Own(at) : Chore(teardown)
  BY DEF SoakOver
<1>2. teardown \in Nat /\ longest' = longest /\ Finish("soaked")
  BY OwnNat DEF SoakOver
<1>3. QED
  BY <1>1, <1>2, ChoreHolds, FinishIInv

\* A subtest is under way only if there is one.
InSubtest == step # "begin" => at <= Count

LEMMA SuiteInitIInv == SuiteInit => SuiteIInv /\ InSubtest
<1> SUFFICES ASSUME SuiteInit PROVE SuiteIInv /\ InSubtest
  OBVIOUS
<1>1. SuiteTypeOK
  <2>1. outcome \in [1..Count -> {"none", "soaked", "failed", "skipped"}]
    BY DEF SuiteInit
  <2>2. QED
    BY <2>1, CountAssumption DEF SuiteInit, SuiteTypeOK
<1>2. BufferHolds
  BY TimeAssumption DEF SuiteInit, BufferHolds
<1>3. QED
  BY <1>1, <1>2 DEF SuiteInit, SuiteIInv, InSubtest

LEMMA SuiteNextIInv == SuiteIInv /\ InSubtest /\ [SuiteNext]_suiteVars => SuiteIInv' /\ InSubtest'
<1> SUFFICES ASSUME SuiteIInv, InSubtest, [SuiteNext]_suiteVars PROVE SuiteIInv' /\ InSubtest'
  OBVIOUS
<1>1. CASE Begin
  BY <1>1, BeginIInv DEF Begin, MoreSubtests, Finish, InSubtest
<1>2. CASE Prepare
  BY <1>2, PrepareIInv DEF Prepare, Finish, InSubtest
<1>3. CASE Iterate
  BY <1>3, IterateIInv DEF Iterate, Finish, InSubtest
<1>4. CASE SoakOver
  BY <1>4, SoakOverIInv DEF SoakOver, Finish, InSubtest
<1>5. CASE UNCHANGED suiteVars
  BY <1>5 DEF SuiteIInv, SuiteTypeOK, BufferHolds, InSubtest, suiteVars
<1>6. CASE SuiteEnded
  BY <1>5, <1>6 DEF SuiteEnded
<1>7. QED
  BY <1>1, <1>2, <1>3, <1>4, <1>5, <1>6 DEF SuiteNext
-----------------------------------------------------------------------------
\* Run keeps its clock, its position and the outcomes in their types.
THEOREM SuiteTypeCorrect == SuiteSpec => []SuiteTypeOK
<1>1. SuiteIInv => SuiteTypeOK
  BY DEF SuiteIInv
<1>2. QED
  BY SuiteInitIInv, SuiteNextIInv, <1>1, PTL DEF SuiteSpec

\* However long the steps take, and whatever the deadline: what the suite spends
\* of stressSoakBuffer (stressCtx, runStress) is one iteration, and its setups and
\* teardowns.
THEOREM SuiteKeepsBuffer == SuiteSpec => []BufferHolds
<1>1. SuiteIInv => BufferHolds
  BY DEF SuiteIInv
<1>2. QED
  BY SuiteInitIInv, SuiteNextIInv, <1>1, PTL DEF SuiteSpec
-----------------------------------------------------------------------------
(* StressLifecycle: the inductive invariant. *)

\* A shim that an iteration leaves behind has failed it, or answered Shutdown:
\* until the last step it is "up", and only that step ends without a failure.
Dismissed ==
    /\ main \in {"ctx", "loop", "report", "ended", "checked"} => shim = "absent"
    /\ main \in {"iter", "returned"} /\ Through => shim \in {"asked", "down"}
    /\ main = "returned" => Through \/ tFailed
    /\ "up" \in strays => tFailed

\* A failed iteration has marked the test failed, and that is its verdict.
Marked ==
    /\ failed => tFailed
    /\ over => verdict \in {"skip", IF runErr # "nil" \/ tFailed THEN "fail" ELSE "pass"}
    /\ verdict = "skip" \/ main = "ctx" => ~failed
    /\ main \in {"ctx", "loop", "iter", "returned", "report"} => verdict = "none"

\* The leak check comes last.
Checked ==
    /\ main # "checked" => suite = "none"
    /\ suite = "pass" => strays = {}

IInv == TypeOK /\ Dismissed /\ Marked /\ Checked
-----------------------------------------------------------------------------
\* The steps of an iteration, by their numbers.
LEMMA StageNumbers ==
    /\ Len(Stages) = 7
    /\ \A s : At(s) => main = "iter" /\ stage <= 7 /\ Stages[stage] = s
    /\ stage \in 1..8 => /\ At("setup") => stage = 1
                         /\ At("shutdown") => stage = 7
                         /\ \A s \in {"create", "start", "output", "wait", "delete"} :
                               At(s) => stage \in 2..6
<1>1. Len(Stages) = 7
  BY DEF Stages
<1>2. /\ Stages[1] = "setup" /\ Stages[2] = "create" /\ Stages[3] = "start"
      /\ Stages[4] = "output" /\ Stages[5] = "wait" /\ Stages[6] = "delete"
      /\ Stages[7] = "shutdown"
  BY DEF Stages
<1>3. QED
  BY <1>1, <1>2 DEF At

\* runStress passes on what it got, or nil.
LEMMA StepOutcome ==
    ASSUME NEW done, NEW e \in FnResults
    PROVE  RunStressStep(done, e) \in {"iterate", "break", "return"}
<1>1. CASE e = "nil"
  BY <1>1 DEF RunStressStep
<1>2. CASE e # "nil" /\ done
  BY <1>2 DEF RunStressStep
<1>3. CASE e # "nil" /\ ~done
  BY <1>3, VMHostAssumption DEF RunStressStep
<1>4. QED
  BY <1>1, <1>2, <1>3

LEMMA InitIInv == Init => IInv
<1> SUFFICES ASSUME Init PROVE IInv
  OBVIOUS
<1>1. stage \in 1..Len(Stages) + 1
  BY StageNumbers DEF Init
<1>2. TypeOK
  BY <1>1 DEF Init, TypeOK, FnResults
<1>3. Dismissed /\ Marked /\ Checked
  BY DEF Init, Dismissed, Marked, Checked, over
<1>4. QED
  BY <1>2, <1>3 DEF IInv

LEMMA CtxIInv == ASSUME IInv, stressCtx PROVE IInv'
BY DEF stressCtx, iterVars, IInv, TypeOK, Dismissed, Marked, Checked, Through, over

LEMMA ExpireIInv == ASSUME IInv, Expire PROVE IInv'
BY DEF Expire, iterVars, outer, IInv, TypeOK, Dismissed, Marked, Checked, Through, over

LEMMA LoopTestIInv == ASSUME IInv, LoopTest PROVE IInv'
<1>1. TypeOK' /\ Marked' /\ Checked'
  BY StageNumbers DEF LoopTest, outer, IInv, TypeOK, Marked, Checked, FnResults, over
<1>2. Dismissed'
  BY StageNumbers DEF LoopTest, outer, IInv, Dismissed, Through
<1>3. QED
  BY <1>1, <1>2 DEF IInv

\* What a step of an iteration does to the rest: nothing but fail the test.
LEMMA StageStep ==
    ASSUME IInv, main = "iter", stage \in 1..7, UNCHANGED <<timer, outer>>,
           shim' \in {"absent", "up", "asked", "down"},
           \/ Advance /\ UNCHANGED <<main, iterErr, tFailed>>
           \/ \E e \in FnResults : SubFails(e) /\ UNCHANGED stage
    PROVE  TypeOK' /\ Marked' /\ Checked'
<1>1. /\ UNCHANGED <<timer, strays, runErr, verdict, suite, failed>>
      /\ Len(Stages) = 7
  BY StageNumbers DEF outer
<1>2. CASE Advance /\ UNCHANGED <<main, iterErr, tFailed>>
  <2>1. stage' \in 1..Len(Stages) + 1
    BY <1>1, <1>2 DEF Advance
  <2>2. QED
    BY <1>1, <1>2, <2>1 DEF IInv, TypeOK, Marked, Checked, over
<1>3. CASE \E e \in FnResults : SubFails(e) /\ UNCHANGED stage
  BY <1>1, <1>3 DEF SubFails, IInv, TypeOK, Marked, Checked, over
<1>4. QED
  BY <1>2, <1>3

LEMMA SetupIInv == ASSUME IInv, Setup PROVE IInv'
<1>1. main = "iter" /\ stage = 1 /\ Len(Stages) = 7
  BY StageNumbers DEF Setup, IInv, TypeOK
<1>2. TypeOK' /\ Marked' /\ Checked'
  BY <1>1, StageStep DEF Setup, FnResults
<1>3. Dismissed'
  BY <1>1 DEF Setup, Advance, SubFails, outer, IInv, Dismissed, Through
<1>4. QED
  BY <1>2, <1>3 DEF IInv

\* The calls in between leave the shim as it is.
LEMMA StepIInv ==
    ASSUME IInv, NEW s \in {"create", "start", "output", "wait", "delete"}, Step(s)
    PROVE  IInv'
<1>1. main = "iter" /\ stage \in 2..6 /\ Len(Stages) = 7
  BY StageNumbers DEF Step, IInv, TypeOK
<1>2. TypeOK' /\ Marked' /\ Checked'
  BY <1>1, StageStep DEF Step, IInv, TypeOK, FnResults, FnErrors
<1>3. Dismissed'
  BY <1>1 DEF Step, Advance, SubFails, outer, IInv, Dismissed, Through
<1>4. QED
  BY <1>2, <1>3 DEF IInv

\* An answered Shutdown is the last step, and the only one that leads through.
LEMMA ShutdownIInv == ASSUME IInv, Shutdown PROVE IInv'
<1>1. main = "iter" /\ stage = 7 /\ Len(Stages) = 7
  BY StageNumbers DEF Shutdown, IInv, TypeOK
<1>2. TypeOK' /\ Marked' /\ Checked'
  <2>1. /\ UNCHANGED <<timer, outer>>
        /\ \/ Advance /\ shim' \in {"asked", "down"} /\ UNCHANGED <<main, iterErr, tFailed>>
           \/ \E e \in FnErrors : SubFails(e) /\ shim' \in {"up", "down"} /\ UNCHANGED stage
    BY DEF Shutdown
  <2>2. FnErrors \subseteq FnResults
    BY DEF FnResults
  <2>3. QED
    BY <1>1, <2>1, <2>2, StageStep
<1>3. Dismissed'
  BY <1>1 DEF Shutdown, Advance, SubFails, outer, IInv, Dismissed, Through
<1>4. QED
  BY <1>2, <1>3 DEF IInv

LEMMA SubPassesIInv == ASSUME IInv, SubPasses PROVE IInv'
BY DEF SubPasses, iterVars, outer, IInv, TypeOK, Dismissed, Marked, Checked, Through, over

LEMMA FnReturnedIInv == ASSUME IInv, FnReturned PROVE IInv'
<1> DEFINE next == RunStressStep(expired, iterErr)
<1>1. /\ main = "returned" /\ iterErr \in FnResults
      /\ main' = IF next = "iterate" THEN "loop" ELSE "report"
      /\ runErr' = IF next = "return" THEN iterErr ELSE "nil"
      /\ strays' = strays \cup ({shim} \cap {"up", "asked"}) /\ shim' = "absent"
      /\ failed' = (failed \/ ~Through)
      /\ UNCHANGED <<stage, iterErr, tFailed, timer, verdict, suite>>
  BY DEF FnReturned, IInv, TypeOK
<1>2. next \in {"iterate", "break", "return"}
  BY <1>1, StepOutcome
<1> HIDE DEF next
<1>3. TypeOK'
  BY <1>1, <1>2 DEF IInv, TypeOK, FnResults
<1>4. Dismissed'
  BY <1>1, <1>2 DEF IInv, Dismissed, Through
<1>5. Marked' /\ Checked'
  BY <1>1, <1>2 DEF IInv, Dismissed, Marked, Checked, over
<1>6. QED
  BY <1>3, <1>4, <1>5 DEF IInv

LEMMA StrayExitsIInv == ASSUME IInv, StrayExits PROVE IInv'
<1>1. /\ strays' \subseteq strays /\ main # "checked"
      /\ UNCHANGED <<main, stage, iterErr, tFailed, shim, timer, runErr, verdict, suite, failed>>
  BY DEF StrayExits, iterVars
<1>2. QED
  BY <1>1 DEF IInv, TypeOK, Dismissed, Marked, Checked, Through, over

LEMMA ReportIInv == ASSUME IInv, Report PROVE IInv'
BY DEF Report, iterVars, IInv, TypeOK, Dismissed, Marked, Checked, Through, over

LEMMA LeakCheckIInv == ASSUME IInv, LeakCheck PROVE IInv'
BY DEF LeakCheck, Leaked, iterVars, IInv, TypeOK, Dismissed, Marked, Checked, Through, over

LEMMA NextIInv == IInv /\ [Next]_vars => IInv'
<1> SUFFICES ASSUME IInv, [Next]_vars PROVE IInv'
  OBVIOUS
<1>1. CASE Main
  BY <1>1, CtxIInv, LoopTestIInv, FnReturnedIInv, ReportIInv, LeakCheckIInv DEF Main
<1>2. CASE Local \/ Calls \/ Wait
  BY <1>2, SetupIInv, StepIInv, ShutdownIInv, SubPassesIInv DEF Local, Calls, Wait
<1>3. CASE Expire \/ StrayExits
  BY <1>3, ExpireIInv, StrayExitsIInv
<1>4. CASE UNCHANGED vars
  BY <1>4 DEF vars, IInv, TypeOK, Dismissed, Marked, Checked, Through, over
<1>5. CASE Ended
  BY <1>4, <1>5 DEF Ended
<1>6. QED
  BY <1>1, <1>2, <1>3, <1>4, <1>5 DEF Next

LEMMA Invariance == Spec => []IInv
BY InitIInv, NextIInv, PTL DEF Spec
-----------------------------------------------------------------------------
(***************************************************************************)
(* The theorems.                                                           *)
(***************************************************************************)

\* The state of testLifecycle keeps its types: no step of doFullLifecycle is
\* taken behind the last one.
THEOREM TypeCorrect == Spec => []TypeOK
<1>1. IInv => TypeOK
  BY DEF IInv
<1>2. QED
  BY Invariance, <1>1, PTL

\* However many iterations there are, wherever the deadline falls and whether or
\* not a shim that answered Shutdown goes: none stays behind doFullLifecycle
\* unseen, by its test or by the leak check.
THEOREM ShimsDoNotPileUp == Spec => []NoSilentPileUp
<1>1. IInv => NoSilentPileUp
  BY DEF IInv, Dismissed, Checked, NoSilentPileUp
<1>2. QED
  BY Invariance, <1>1, PTL

\* The verdict of testLifecycle has every failure of a sub-test, on either kind of
\* host, also one that doFullLifecycle does not return or runStress forgives.
THEOREM EveryFailureCounts == Spec => []EveryFailureFails
<1>1. IInv => EveryFailureFails
  BY DEF IInv, Marked, EveryFailureFails
<1>2. QED
  BY Invariance, <1>1, PTL
=============================================================================
