------------------------ MODULE StressSandboxProofs -------------------------
(***************************************************************************)
(* Proofs about StressSandbox, for every number N of members.              *)
(***************************************************************************)
EXTENDS StressSandbox, WellFoundedInduction, TLAPS

(***************************************************************************)
(* The inductive invariant: what each of the sequential loops of fn has    *)
(* done so far, and that no member is lost between env.containers and the  *)
(* Deletes.                                                                *)
(***************************************************************************)

NoErrs == \A j \in Members : errs[j] = "nil"
NotWaiting == \A j \in Members : waiter[j] = "off"

\* Before the first iteration there is nothing.
Fresh == main \in {"start", "probe"} =>
    next = 1 /\ tracked = {} /\ NotWaiting /\ NoErrs /\ Clean

\* Members are created and started in order.
Starting == main \in {"create", "startTask"} =>
    tracked = 1..next - 1 /\ NotWaiting /\ NoErrs

Waiting ==
    /\ main = "wait" => next = N /\ tracked = Members
    /\ main # "wait" => \A j \in Members : waiter[j] # "run"

\* And released in order, after all Waits have returned without an error.
Releasing == main = "release" =>
    /\ tracked = next..N /\ NoErrs
    /\ \A j \in Members : waiter[j] = "done"
    /\ \A j \in 1..next - 1 : member[j] = "deleted"

\* The loop is reached after a complete iteration only.
Looping == main = "loop" => Clean /\ NoErrs

\* A member that was started is tracked until a Delete is sent for it.
Accounted == \A j \in Members :
    (j < next \/ waiter[j] # "off") =>
       j \in asked \/ (j \in tracked /\ main # "ended")

\* What fn returned, the deadline and the verdict.
Outcome ==
    /\ main \notin {"returned", "report", "cleanup", "ended"} => runErr = "nil"
    /\ main = "returned" => runErr \in FnErrors
    /\ main \in {"report", "stop"} => runErr # "nil" \/ expired
    /\ verdict = "none" <=> main \notin {"cleanup", "ended"}

IInv == TypeOK /\ Fresh /\ Starting /\ Waiting /\ Releasing /\ Looping /\ Accounted /\ Outcome
-----------------------------------------------------------------------------
\* On Linux an error of fn ends the loop, and counts only before the deadline.
LEMMA ErrorEnds ==
    ASSUME NEW done, NEW e \in FnErrors
    PROVE  /\ RunStressStep(done, e) \in {"break", "return"}
           /\ RunStressStep(done, e) = "return" => ~done
           /\ RunStressStep(done, e) = "break" => done
<1>1. CASE done
  BY <1>1 DEF RunStressStep, FnErrors
<1>2. CASE ~done
  BY <1>2, LinuxOnly DEF RunStressStep, FnErrors
<1>3. QED
  BY <1>1, <1>2

\* The error that Collect returns is that of a member, if there is one.
LEMMA FirstErrIsOne ==
    ASSUME errs \in [Members -> FnResults]
    PROVE  /\ FirstErr \in FnResults
           /\ FirstErr = "nil" => NoErrs
<1>1. CASE NoErrs
  BY <1>1 DEF NoErrs, FirstErr, FnResults
<1>2. CASE ~NoErrs
  <2> DEFINE T == {j \in Members : errs[j] # "nil"}
  <2>1. T \subseteq Nat /\ T # {}
    BY <1>2, NAssumption DEF NoErrs, Members
  <2>2. \E x \in T : \A y \in T : ~(<<y, x>> \in OpToRel(<, Nat))
    BY <2>1, NatLessThanWellFounded, WFMin
  <2>3. PICK x \in T : \A y \in T : ~(y < x)
    BY <2>1, <2>2 DEF OpToRel
  <2>4. \A k \in 1..x - 1 : errs[k] = "nil"
    BY <2>3, NAssumption DEF Members
  <2>5. LET c == CHOOSE j \in Members : errs[j] # "nil" /\ \A k \in 1..j - 1 : errs[k] = "nil"
        IN  c \in Members /\ errs[c] # "nil"
    BY <2>3, <2>4
  <2>6. QED
    BY <1>2, <2>5 DEF FirstErr, NoErrs
<1>3. QED
  BY <1>1, <1>2

\* A step that leaves the iteration alone and leads to where the invariant says
\* nothing of it.
LEMMA Kept ==
    ASSUME IInv, UNCHANGED <<next, member, tracked, asked, waiter, errs>>,
           main' \in {"report", "stop", "cleanup", "returned"}, main \notin {"wait", "ended"}
    PROVE  Fresh' /\ Starting' /\ Waiting' /\ Releasing' /\ Looping' /\ Accounted'
BY DEF IInv, Fresh, Starting, Waiting, Releasing, Looping, Accounted, Members

LEMMA InitIInv == Init => IInv
<1> SUFFICES ASSUME Init PROVE IInv
  OBVIOUS
<1> USE NAssumption DEF Init, Members
<1>1. TypeOK
  <2>1. next \in Members /\ member \in [Members -> MemberStates]
    BY DEF MemberStates
  <2>2. waiter \in [Members -> {"off", "run", "done"}] /\ errs \in [Members -> FnResults]
    BY DEF FnResults
  <2>3. QED
    BY <2>1, <2>2 DEF TypeOK, FnResults
<1>2. Fresh /\ Starting /\ Waiting /\ Releasing /\ Looping
  BY DEF Fresh, Starting, Waiting, Releasing, Looping, NotWaiting, NoErrs, Clean
<1>3. Accounted /\ Outcome
  BY DEF Accounted, Outcome
<1>4. QED
  BY <1>1, <1>2, <1>3 DEF IInv

LEMMA StartShimIInv == ASSUME IInv, startSandboxShim PROVE IInv'
<1> USE DEF startSandboxShim, IInv, shimVars, waitVars
<1>1. TypeOK'
  BY DEF TypeOK, Members
<1>2. Fresh' /\ Starting' /\ Waiting' /\ Releasing' /\ Looping'
  BY DEF Fresh, Starting, Waiting, Releasing, Looping, NotWaiting, NoErrs, Clean, Members
<1>3. Accounted'
  BY NAssumption DEF Accounted, Fresh, NotWaiting, Members
<1>4. Outcome'
  BY DEF Outcome
<1>5. QED
  BY <1>1, <1>2, <1>3, <1>4

LEMMA ProbeIInv == ASSUME IInv, probe PROVE IInv'
<1> USE DEF probe, Leave, IInv, shimVars, waitVars
<1>1. TypeOK'
  BY DEF TypeOK, Members
<1>2. Fresh' /\ Starting' /\ Waiting' /\ Releasing' /\ Looping'
  BY DEF Fresh, Starting, Waiting, Releasing, Looping, NotWaiting, NoErrs, Clean, Members
<1>3. Accounted' /\ Outcome'
  BY DEF Accounted, Outcome, Members
<1>4. QED
  BY <1>1, <1>2, <1>3

LEMMA ExpireIInv == ASSUME IInv, Expire PROVE IInv'
<1> USE DEF Expire, IInv, shimVars, waitVars
<1>1. TypeOK'
  BY DEF TypeOK, Members
<1>2. Fresh' /\ Starting' /\ Waiting' /\ Releasing' /\ Looping'
  BY DEF Fresh, Starting, Waiting, Releasing, Looping, NotWaiting, NoErrs, Clean, Members
<1>3. Accounted' /\ Outcome'
  BY DEF Accounted, Outcome, Members, expired
<1>4. QED
  BY <1>1, <1>2, <1>3

\* A new iteration begins with nothing tracked and no goroutine.
LEMMA LoopTestIInv == ASSUME IInv, LoopTest PROVE IInv'
<1>1. CASE expired
  <2>1. /\ UNCHANGED <<next, member, tracked, asked, waiter, errs, timer, runErr, sandbox, grown, verdict>>
        /\ main = "loop" /\ main' = "report"
    BY <1>1 DEF LoopTest, waitVars
  <2>2. TypeOK' /\ Outcome'
    BY <1>1, <2>1 DEF IInv, TypeOK, Outcome, Members, expired
  <2>3. QED
    BY <2>1, <2>2, Kept DEF IInv
<1>2. CASE ~expired
  <2> USE <1>2 DEF LoopTest, IInv
  <2>1. TypeOK'
    BY NAssumption DEF TypeOK, Members, MemberStates, FnResults
  <2>2. NotWaiting' /\ NoErrs'
    BY DEF NotWaiting, NoErrs, Members
  <2>3. tracked' = 1..next' - 1
    BY DEF Looping, Clean
  <2>4. Fresh' /\ Starting' /\ Waiting' /\ Releasing' /\ Looping'
    BY <2>2, <2>3 DEF Fresh, Starting, Waiting, Releasing, Looping, NotWaiting
  <2>5. Accounted' /\ Outcome'
    BY <2>2 DEF Accounted, Outcome, NotWaiting, Members
  <2>6. QED
    BY <2>1, <2>4, <2>5
<1>3. QED
  BY <1>1, <1>2

LEMMA CreateIInv == ASSUME IInv, Create PROVE IInv'
<1> USE DEF Create, Return, Leave, IInv, waitVars
<1>1. TypeOK'
  BY DEF TypeOK, Members, MemberStates, FnResults, FnErrors
<1>2. Fresh' /\ Starting' /\ Waiting' /\ Releasing' /\ Looping'
  BY DEF Fresh, Starting, Waiting, Releasing, Looping, NotWaiting, NoErrs, Clean, Members
<1>3. Accounted' /\ Outcome'
  BY DEF Accounted, Outcome, Members, FnErrors
<1>4. QED
  BY <1>1, <1>2, <1>3

LEMMA StartIInv == ASSUME IInv, Start PROVE IInv'
<1> USE DEF Start, Return, IInv, Track
<1>1. next \in 1..N /\ tracked = 1..next - 1 /\ NotWaiting /\ NoErrs
  BY DEF TypeOK, Members, Starting
<1>2. TypeOK'
  <2>1. next' \in Members /\ tracked' \subseteq Members
    BY <1>1, NAssumption DEF Members
  <2>2. member' \in [Members -> MemberStates]
    BY DEF TypeOK, MemberStates
  <2>3. waiter' \in [Members -> {"off", "run", "done"}]
    BY DEF TypeOK
  <2>4. QED
    BY <2>1, <2>2, <2>3 DEF TypeOK, Members, FnResults, FnErrors
<1>3. tracked \cup {next} = 1..next
  BY <1>1, NAssumption
<1>4. Fresh' /\ Releasing' /\ Looping'
  BY DEF Fresh, Releasing, Looping
<1>5. Starting'
  <2> SUFFICES ASSUME main' \in {"create", "startTask"}
               PROVE  (tracked = 1..next - 1 /\ NotWaiting /\ NoErrs)'
    BY DEF Starting
  <2>1. tracked' = tracked \cup {next} /\ next' = next + 1 /\ UNCHANGED <<waiter, errs>>
    OBVIOUS
  <2>2. tracked' = 1..next' - 1
    BY <1>1, <1>3, <2>1
  <2>3. NotWaiting' /\ NoErrs'
    BY <1>1, <2>1 DEF NotWaiting, NoErrs, Members
  <2>4. QED
    BY <2>2, <2>3
<1>6. Waiting'
  BY <1>1, <1>3, NAssumption DEF Waiting, NotWaiting, Members
<1>7. Accounted'
  <2>1. CASE main' = "wait"
    BY <1>1, <1>3, <2>1 DEF Accounted, Members
  <2>2. CASE main' # "wait"
    BY <1>1, <1>3, <2>2, NAssumption DEF Accounted, Members, NotWaiting
  <2>3. QED
    BY <2>1, <2>2
<1>8. Outcome'
  BY DEF Outcome, FnErrors
<1>9. QED
  BY <1>2, <1>4, <1>5, <1>6, <1>7, <1>8

LEMMA WaitReturnsIInv == ASSUME IInv, NEW j \in Members, WaitReturns(j) PROVE IInv'
<1> USE DEF WaitReturns, IInv, shimVars
<1>1. TypeOK'
  BY DEF TypeOK, Members
<1>2. main = "wait"
  BY DEF Waiting
<1>3. Fresh' /\ Starting' /\ Waiting' /\ Releasing' /\ Looping'
  BY <1>2 DEF Fresh, Starting, Waiting, Releasing, Looping, Members
<1>4. Accounted' /\ Outcome'
  BY <1>2 DEF Accounted, Waiting, Outcome, Members, TypeOK
<1>5. QED
  BY <1>1, <1>3, <1>4

\* The members are released only if none of them failed.
LEMMA CollectIInv == ASSUME IInv, Collect PROVE IInv'
<1> USE DEF Collect, Return, IInv, shimVars, waitVars
<1>0. FirstErr \in FnResults /\ (FirstErr = "nil" => NoErrs)
  BY FirstErrIsOne DEF TypeOK
<1>1. TypeOK'
  BY <1>0, NAssumption DEF TypeOK, Members
<1>2. main = "wait" /\ tracked = 1..N /\ next = N /\ \A j \in Members : waiter[j] = "done"
  BY DEF Waiting, WgDone, Members
<1>3. Fresh' /\ Starting' /\ Waiting' /\ Looping'
  BY <1>2 DEF Fresh, Starting, Waiting, Looping, Members
<1>4. Releasing'
  BY <1>0, <1>2, NAssumption DEF Releasing, NoErrs, Members
<1>5. Accounted'
  BY <1>2 DEF Accounted, Members
<1>6. Outcome'
  BY <1>0 DEF Outcome, FnResults
<1>7. QED
  BY <1>1, <1>3, <1>4, <1>5, <1>6

\* A member leaves env.containers only with a Delete; the last one leaves the
\* sandbox clean.
LEMMA ReleaseIInv == ASSUME IInv, Release PROVE IInv'
<1> USE DEF Release, Return, IInv, waitVars
<1>1. TypeOK'
  BY NAssumption DEF TypeOK, Members, MemberStates, FnResults, FnErrors, Released
<1>2. /\ main = "release" /\ next \in 1..N /\ tracked = next..N /\ NoErrs
      /\ \A j \in Members : waiter[j] = "done"
      /\ \A j \in 1..next - 1 : member[j] = "deleted"
  BY DEF TypeOK, Members, Releasing
<1>3. tracked' = next + 1..N
  BY <1>2, NAssumption
<1>4. Fresh' /\ Starting' /\ Waiting'
  BY <1>2 DEF Fresh, Starting, Waiting, Members
<1>5. Releasing'
  BY <1>2, <1>3, NAssumption DEF Releasing, NoErrs, Members, TypeOK, Released
<1>6. Looping'
  <2> SUFFICES ASSUME main' = "loop" PROVE Clean' /\ NoErrs'
    BY DEF Looping
  <2>1. next = N /\ member' = [member EXCEPT ![next] = "deleted"]
    BY DEF Released
  <2>2. \A j \in Members : member'[j] = "deleted"
    BY <1>2, <2>1, NAssumption DEF Members, TypeOK
  <2>3. QED
    BY <1>2, <1>3, <2>1, <2>2, NAssumption DEF Clean, NoErrs, Members
<1>7. Accounted'
  BY <1>2, NAssumption DEF Accounted, Members, Released
<1>8. Outcome'
  BY <1>2 DEF Outcome, FnErrors
<1>9. QED
  BY <1>1, <1>4, <1>5, <1>6, <1>7, <1>8

LEMMA FnFailedIInv == ASSUME IInv, FnFailed PROVE IInv'
<1> DEFINE step == RunStressStep(expired, runErr)
<1>1. /\ main = "returned" /\ runErr \in FnErrors
      /\ main' = IF step = "iterate" THEN "loop" ELSE "report"
      /\ runErr' = IF step = "return" THEN runErr ELSE "nil"
      /\ UNCHANGED <<next, member, tracked, asked, waiter, errs, timer, sandbox, grown, verdict>>
  BY DEF FnFailed, IInv, Outcome, shimVars, waitVars
<1>2. step \in {"break", "return"} /\ (step = "break" => expired)
  BY <1>1, ErrorEnds
<1> HIDE DEF step
<1>3. TypeOK'
  BY <1>1, <1>2 DEF IInv, TypeOK, Members, FnResults
<1>4. Outcome'
  BY <1>1, <1>2 DEF IInv, Outcome, expired, FnErrors
<1>5. QED
  BY <1>1, <1>2, <1>3, <1>4, Kept DEF IInv

LEMMA ReportIInv == ASSUME IInv, Report PROVE IInv'
<1>1. /\ UNCHANGED <<next, member, tracked, asked, waiter, errs, timer, runErr, sandbox>>
      /\ main = "report" /\ main' \in {"cleanup", "stop"}
  BY DEF Report, Leave, shimVars, waitVars
<1>2. TypeOK' /\ Outcome'
  BY <1>1 DEF Report, Leave, IInv, TypeOK, Outcome, Members, expired
<1>3. QED
  BY <1>1, <1>2, Kept DEF IInv

LEMMA StopIInv == ASSUME IInv, StopSandbox PROVE IInv'
<1>1. /\ UNCHANGED <<next, member, tracked, asked, waiter, errs, timer, runErr, grown>>
      /\ main = "stop" /\ main' = "cleanup"
  BY DEF StopSandbox, Leave, shimVars, waitVars
<1>2. TypeOK' /\ Outcome'
  BY <1>1 DEF StopSandbox, Leave, IInv, TypeOK, Outcome, Members
<1>3. QED
  BY <1>1, <1>2, Kept DEF IInv

\* The cleanup takes over what is tracked.
LEMMA ShutdownIInv == ASSUME IInv, shutdownSandboxShim PROVE IInv'
<1> USE DEF shutdownSandboxShim, IInv, waitVars
<1>1. TypeOK'
  BY DEF TypeOK, Members
<1>2. Fresh' /\ Starting' /\ Waiting' /\ Releasing' /\ Looping'
  BY DEF Fresh, Starting, Waiting, Releasing, Looping, Members
<1>3. Accounted' /\ Outcome'
  BY DEF Accounted, Outcome, Members
<1>4. QED
  BY <1>1, <1>2, <1>3

\* A process that ends is none that was released.
LEMMA ExitIInv == ASSUME IInv, NEW j \in Members, Exit(j) PROVE IInv'
<1> USE DEF Exit, IInv, waitVars
<1>1. TypeOK'
  BY DEF TypeOK, Members, MemberStates
<1>2. Fresh' /\ Starting' /\ Waiting' /\ Releasing' /\ Looping'
  BY NAssumption DEF TypeOK, Fresh, Starting, Waiting, Releasing, Looping, NotWaiting, NoErrs,
                     Clean, Members
<1>3. Accounted' /\ Outcome'
  BY DEF Accounted, Outcome, Members, expired
<1>4. QED
  BY <1>1, <1>2, <1>3

LEMMA NextIInv == IInv /\ [Next]_vars => IInv'
<1> SUFFICES ASSUME IInv, [Next]_vars PROVE IInv'
  OBVIOUS
<1>1. CASE Local
  BY <1>1, StartShimIInv, ProbeIInv, LoopTestIInv, CollectIInv, FnFailedIInv, ReportIInv,
     ShutdownIInv DEF Local
<1>2. CASE Calls
  BY <1>2, CreateIInv, StartIInv, ReleaseIInv, StopIInv DEF Calls
<1>3. CASE Expire
  BY <1>3, ExpireIInv
<1>4. ASSUME NEW j \in Members, WaitReturns(j) \/ Exit(j) PROVE IInv'
  BY <1>4, WaitReturnsIInv, ExitIInv
<1>5. CASE UNCHANGED vars
  <2> USE <1>5 DEF vars, shimVars, waitVars, IInv
  <2>1. TypeOK'
    BY DEF TypeOK, Members
  <2>2. Fresh' /\ Starting' /\ Waiting' /\ Releasing' /\ Looping'
    BY DEF Fresh, Starting, Waiting, Releasing, Looping, NotWaiting, NoErrs, Clean, Members
  <2>3. Accounted' /\ Outcome'
    BY DEF Accounted, Outcome, Members, expired
  <2>4. QED
    BY <2>1, <2>2, <2>3
<1>6. CASE Ended
  BY <1>5, <1>6 DEF Ended
<1>7. QED
  BY <1>1, <1>2, <1>3, <1>4, <1>5, <1>6 DEF Next

LEMMA Invariance == Spec => []IInv
BY InitIInv, NextIInv, PTL DEF Spec
-----------------------------------------------------------------------------
(***************************************************************************)
(* The theorems.                                                           *)
(***************************************************************************)

\* The state of testSandbox keeps its types.
THEOREM TypeCorrect == Spec => []TypeOK
<1>1. IInv => TypeOK
  BY DEF IInv
<1>2. QED
  BY Invariance, <1>1, PTL

\* However many members there are and whichever of their calls fail: an iteration
\* begins in a sandbox with none of an earlier one.
THEOREM MembersDoNotPileUp == Spec => []NoMemberPileUp
<1>1. IInv => NoMemberPileUp
  BY DEF IInv, Looping, NoMemberPileUp
<1>2. QED
  BY Invariance, <1>1, PTL

\* Wherever fn was left, a Delete is sent for every member that was started.
THEOREM AllMembersAskedToGo == Spec => []MembersAskedToGo
<1>1. IInv => MembersAskedToGo
  BY DEF IInv, Accounted, MembersAskedToGo
<1>2. QED
  BY Invariance, <1>1, PTL

\* A failed Wait ends the soak, whichever member it was of.
THEOREM FailsFast == Spec => FailFast
<1>1. IInv /\ [Next]_vars => [main = "loop" /\ main' = "create" => \A j \in Members : errs[j] = "nil"]_vars
  BY DEF IInv, Looping, NoErrs
<1>2. QED
  BY Invariance, <1>1, PTL DEF Spec, FailFast
-----------------------------------------------------------------------------
(* Refinement. *)

Over == expired \/ main \in {"report", "stop", "cleanup", "ended"}
HasFailed == main \in {"report", "cleanup", "ended"} /\ runErr # "nil"

\* A step that leaves failure and verdict alone either stops the soak or stutters.
LEMMA StopImplements ==
    ASSUME HasFailed' = HasFailed, verdict' = verdict, Over => Over'
    PROVE  [soak!Next]_soak!vars
<1>1. CASE Over
  <2>1. Over' = Over
    BY <1>1 DEF Over, expired
  <2>2. UNCHANGED soak!vars
    BY <2>1 DEF soak!vars, Over, HasFailed
  <2>3. QED
    BY <2>2
<1>2. CASE ~Over /\ Over'
  BY <1>2 DEF soak!Next, soak!Stop, Over, HasFailed
<1>3. CASE ~Over /\ ~Over'
  <2>1. Over' = Over
    BY <1>3 DEF Over, expired
  <2>2. UNCHANGED soak!vars
    BY <2>1 DEF soak!vars, Over, HasFailed
  <2>3. QED
    BY <2>2
<1>4. QED
  BY <1>1, <1>2, <1>3

\* A verdict that no iteration gave.
LEMMA AbortImplements ==
    ASSUME IInv, main \notin {"cleanup", "ended"}, runErr = "nil", runErr' = "nil",
           verdict' \in {"skip", "fail"}, main' \in {"cleanup", "ended"}
    PROVE  [soak!Next]_soak!vars
<1>1. verdict = "none" /\ ~HasFailed /\ ~HasFailed'
  BY DEF IInv, Outcome, HasFailed
<1>2. HasFailed' = HasFailed /\ Over' = TRUE
  BY <1>1 DEF HasFailed, Over
<1>3. soak!Abort
  BY <1>1, <1>2 DEF soak!Abort, HasFailed, Over
<1>4. QED
  BY <1>3 DEF soak!Next

\* The error that runStress returns came before the deadline.
LEMMA FnFailedImplements == ASSUME IInv, FnFailed PROVE [soak!Next]_soak!vars
<1> DEFINE step == RunStressStep(expired, runErr)
<1>1. /\ main = "returned" /\ runErr \in FnErrors /\ verdict = "none"
      /\ main' = IF step = "iterate" THEN "loop" ELSE "report"
      /\ runErr' = IF step = "return" THEN runErr ELSE "nil"
      /\ UNCHANGED <<timer, verdict>>
  BY DEF FnFailed, IInv, Outcome
<1>2. step \in {"break", "return"} /\ (step = "return" => ~expired)
  BY <1>1, ErrorEnds
<1> HIDE DEF step
<1>3. CASE step = "return"
  <2>1. HasFailed' = TRUE /\ Over' = TRUE /\ ~Over
    BY <1>1, <1>2, <1>3 DEF HasFailed, Over, FnErrors
  <2>2. soak!Fail
    BY <1>1, <2>1 DEF soak!Fail, HasFailed, Over
  <2>3. QED
    BY <2>2 DEF soak!Next
<1>4. CASE step = "break"
  <2>1. HasFailed' = HasFailed
    BY <1>1, <1>4 DEF HasFailed
  <2>2. Over'
    BY <1>1, <1>4 DEF Over
  <2>3. QED
    BY <1>1, <2>1, <2>2, StopImplements
<1>5. QED
  BY <1>2, <1>3, <1>4

LEMMA ReportImplements == ASSUME IInv, Report PROVE [soak!Next]_soak!vars
<1>1. CASE runErr # "nil"
  <2>1. /\ verdict = "none" /\ verdict' = "fail"
        /\ HasFailed = TRUE /\ HasFailed' = TRUE /\ Over = TRUE /\ Over' = TRUE
    BY <1>1 DEF Report, Leave, IInv, Outcome, HasFailed, Over
  <2>2. soak!End
    BY <2>1 DEF soak!End, HasFailed, Over
  <2>3. QED
    BY <2>2 DEF soak!Next
<1>2. CASE runErr = "nil"
  <2>1. HasFailed' = HasFailed /\ verdict' = verdict /\ Over'
    BY <1>2 DEF Report, HasFailed, Over
  <2>2. QED
    BY <2>1, StopImplements
<1>3. QED
  BY <1>1, <1>2

LEMMA StopSandboxImplements == ASSUME IInv, StopSandbox PROVE [soak!Next]_soak!vars
<1>1. /\ main = "stop" /\ main' = "cleanup" /\ runErr = "nil" /\ runErr' = "nil"
      /\ verdict = "none" /\ verdict' \in {"pass", "fail"}
  BY DEF StopSandbox, Leave, IInv, Outcome
<1>2. CASE verdict' = "fail"
  BY <1>1, <1>2, AbortImplements
<1>3. CASE verdict' = "pass"
  <2>1. HasFailed = FALSE /\ HasFailed' = FALSE /\ Over = TRUE /\ Over' = TRUE
    BY <1>1 DEF HasFailed, Over
  <2>2. soak!End
    BY <1>1, <1>3, <2>1 DEF soak!End, HasFailed, Over
  <2>3. QED
    BY <2>2 DEF soak!Next
<1>4. QED
  BY <1>1, <1>2, <1>3

\* Whatever goes on in an iteration, Soak sees nothing of it, unless a helper
\* ends the test with Fatal.
LEMMA FnImplements ==
    ASSUME IInv, LoopTest \/ Create \/ Start \/ Collect \/ Release
    PROVE  [soak!Next]_soak!vars
<1>1. /\ main \in {"loop", "create", "startTask", "wait", "release"}
      /\ UNCHANGED timer
      /\ main' \in {"loop", "create", "startTask", "wait", "release", "returned"}
         \/ (main' = "report" /\ main = "loop" /\ runErr' = runErr)
         \/ (main' = "cleanup" /\ verdict' = "fail" /\ runErr' = runErr)
      /\ verdict' = verdict \/ main' = "cleanup"
  BY DEF LoopTest, Create, Start, Collect, Release, Return, Leave
<1>2. runErr = "nil" /\ ~HasFailed
  BY <1>1 DEF IInv, Outcome, HasFailed
<1>3. CASE main' = "cleanup"
  BY <1>1, <1>2, <1>3, AbortImplements
<1>4. CASE main' # "cleanup"
  <2>1. ~HasFailed' /\ verdict' = verdict /\ (Over => Over')
    BY <1>1, <1>2, <1>4 DEF HasFailed, Over, expired
  <2>2. HasFailed' = HasFailed
    BY <1>2, <2>1 DEF HasFailed
  <2>3. QED
    BY <2>1, <2>2, StopImplements
<1>5. QED
  BY <1>3, <1>4

LEMMA SetupImplements ==
    ASSUME IInv, startSandboxShim \/ probe
    PROVE  [soak!Next]_soak!vars
<1>1. /\ main \in {"start", "probe"} /\ UNCHANGED <<timer, runErr>>
      /\ \/ main' \in {"probe", "loop"} /\ verdict' = verdict
         \/ main' \in {"cleanup", "ended"} /\ verdict' \in {"skip", "fail"}
  BY DEF startSandboxShim, probe, Leave
<1>2. runErr = "nil" /\ ~HasFailed
  BY <1>1 DEF IInv, Outcome, HasFailed
<1>3. CASE main' \in {"cleanup", "ended"}
  BY <1>1, <1>2, <1>3, AbortImplements
<1>4. CASE main' \in {"probe", "loop"}
  <2>1. HasFailed' = HasFailed /\ verdict' = verdict /\ (Over => Over')
    BY <1>1, <1>2, <1>4 DEF HasFailed, Over, expired
  <2>2. QED
    BY <2>1, StopImplements
<1>5. QED
  BY <1>1, <1>3, <1>4

LEMMA NextImplements == IInv /\ [Next]_vars => [soak!Next]_soak!vars
<1> SUFFICES ASSUME IInv, [Next]_vars PROVE [soak!Next]_soak!vars
  OBVIOUS
<1>1. CASE Local \/ Calls
  <2>1. CASE shutdownSandboxShim
    <3>1. HasFailed' = HasFailed /\ verdict' = verdict /\ Over'
      BY <2>1 DEF shutdownSandboxShim, HasFailed, Over
    <3>2. QED
      BY <3>1, StopImplements
  <2>2. QED
    BY <1>1, <2>1, FnFailedImplements, ReportImplements, StopSandboxImplements, FnImplements,
       SetupImplements DEF Local, Calls
<1>2. CASE Expire
  <2>1. HasFailed' = HasFailed /\ verdict' = verdict /\ Over'
    BY <1>2 DEF Expire, HasFailed, Over, expired
  <2>2. QED
    BY <2>1, StopImplements
<1>3. CASE (\E j \in Members : WaitReturns(j) \/ Exit(j)) \/ Ended \/ UNCHANGED vars
  <2>1. UNCHANGED <<main, runErr, timer, verdict>>
    BY <1>3 DEF WaitReturns, Exit, Ended, vars
  <2>2. HasFailed' = HasFailed /\ (Over => Over')
    BY <2>1 DEF HasFailed, Over, expired
  <2>3. QED
    BY <2>1, <2>2, StopImplements
<1>4. QED
  BY <1>1, <1>2, <1>3 DEF Next

LEMMA InitImplements == Init => soak!Init
BY DEF Init, soak!Init, expired

\* testSandbox keeps the promise of Soak, for any number of members.
THEOREM SandboxImplementsSoak == Spec => ImplementsSoak
BY InitImplements, NextImplements, Invariance, PTL DEF Spec, ImplementsSoak, soak!Spec
=============================================================================
