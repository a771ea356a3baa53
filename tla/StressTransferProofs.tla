------------------------ MODULE StressTransferProofs ------------------------
(***************************************************************************)
(* Proofs about StressTransfer, for every finite set of subtests, on       *)
(* either kind of host.                                                    *)
(***************************************************************************)
EXTENDS StressTransfer, FiniteSetTheorems, SequenceTheorems, TLAPS

(***************************************************************************)
(* The inductive invariant.  The three safety properties of the module     *)
(* speak about the test goroutine once it has left its loop; what makes    *)
(* them true is what the goroutines and the channel do before.             *)
(***************************************************************************)

\* A goroutine holds an error exactly from the failed call on.
Errors == \A w \in Subtests :
    /\ pc[w] \in {"idle", "loop", "call"} => err[w] = "nil"
    /\ pc[w] \in {"error", "cancel"} => err[w] # "nil"

\* An error that may still count, or does, came before the stop.
InSoak == \A w \in Subtests :
    /\ pc[w] = "error" /\ ~ctxDone => w \in early
    /\ Failed(w) => w \in early

\* A goroutine leaves its loop only once the run is over.
Stopped == \A w \in Subtests : pc[w] \in {"send", "done"} => ctxDone

\* A goroutine that is done has one result, in the channel or received.
Channel ==
    /\ \A w \in received : pc[w] = "done"
    /\ \A i \in 1..Len(results) : pc[results[i]] = "done" /\ results[i] \notin received
    /\ \A i, j \in 1..Len(results) : results[i] = results[j] => i = j
    /\ \A w \in Subtests :
         pc[w] = "done" => w \in received \/ \E i \in 1..Len(results) : results[i] = w

\* firstErr is a received error, and there is none if it is unset.
First ==
    /\ firstErr # NoOne => firstErr \in received /\ err[firstErr] # "nil"
    /\ firstErr = NoOne => \A w \in received : err[w] = "nil"

Idle == \A w \in Subtests : pc[w] = "idle"

\* Where the test goroutine is, what it has received and its verdict agree.
Phase ==
    /\ main \in {"env", "probe", "ctx", "setup"} => verdict = "none" /\ Idle
    /\ main = "collect" => verdict = "none"
    /\ main \in {"defers", "ended"} => verdict # "none" /\ (Idle \/ received = Subtests)
    /\ verdict = "pass" => received = Subtests /\ firstErr = NoOne
    /\ verdict = "skip" => Idle

IInv == TypeOK /\ Errors /\ InSoak /\ Stopped /\ Channel /\ First /\ Phase
-----------------------------------------------------------------------------
\* RunStressStep returns an error only while the context is live (runStress
\* looks at the outer context first), and goes one of three ways.
LEMMA ReturnInTime ==
    ASSUME NEW done, NEW e \in FnErrors
    PROVE  /\ RunStressStep(done, e) \in {"iterate", "break", "return"}
           /\ RunStressStep(done, e) = "return" => ~done
           /\ RunStressStep(done, e) = "break" => done
<1>1. CASE done
  BY <1>1 DEF RunStressStep, FnErrors
<1>2. CASE ~done
  BY <1>2, VMHostAssumption DEF RunStressStep, FnErrors
<1>3. QED
  BY <1>1, <1>2

LEMMA CardNat == Cardinality(Subtests) \in Nat
BY SubtestsAssumption, FS_CardinalityType

\* As many results received as there are subtests: all of them.
LEMMA AllCollected ==
    ASSUME received \in SUBSET Subtests
    PROVE  CollectAll <=> received = Subtests
BY SubtestsAssumption, FS_Subset DEF CollectAll

\* While a goroutine runs the test goroutine is collecting.
LEMMA ActiveCollects ==
    ASSUME IInv, NEW w \in Subtests, pc[w] \notin {"idle", "done"}
    PROVE  main = "collect" /\ verdict = "none"
<1>1. ~Idle
  BY DEF Idle
<1>2. received # Subtests
  BY DEF IInv, Channel
<1>3. QED
  BY <1>1, <1>2 DEF IInv, Phase, TypeOK, Stages

\* A step that leaves the goroutines, the channel and what was received alone,
\* and does not revive the context, keeps what is said of them.
LEMMA Kept ==
    ASSUME IInv, UNCHANGED <<workerVars, received, firstErr>>, ctxDone => ctxDone'
    PROVE  Errors' /\ InSoak' /\ Stopped' /\ Channel' /\ First' /\ (Idle <=> Idle')
<1> USE DEF IInv, workerVars
<1>1. Errors'
  BY DEF Errors
<1>2. InSoak'
  BY DEF InSoak, Failed
<1>3. Stopped'
  BY DEF Stopped
<1>4. Channel'
  BY DEF Channel
<1>5. First'
  BY DEF First
<1>6. Idle <=> Idle'
  BY DEF Idle
<1>7. QED
  BY <1>1, <1>2, <1>3, <1>4, <1>5, <1>6
-----------------------------------------------------------------------------
(* The test goroutine, up to the start of the subtests, and the timer. *)

LEMMA InitIInv == Init => IInv
<1> SUFFICES ASSUME Init PROVE IInv
  OBVIOUS
<1> USE DEF Init
<1>1. TypeOK
  <2>1. pc \in [Subtests -> {"idle", "loop", "call", "error", "cancel", "send", "done"}]
    OBVIOUS
  <2>2. err \in [Subtests -> FnResults]
    BY DEF FnResults
  <2>3. results \in Seq(Subtests) /\ Len(results) <= Cardinality(Subtests)
    BY CardNat
  <2>4. deferred \in BOOLEAN /\ cancelled \in BOOLEAN
    OBVIOUS
  <2>5. QED
    BY <2>1, <2>2, <2>3, <2>4 DEF TypeOK, Stages
<1>2. Errors /\ Stopped /\ First /\ Phase
  BY SubtestsAssumption DEF Errors, Stopped, First, Phase, Idle
<1>3. InSoak
  BY DEF InSoak, Failed
<1>4. Channel
  BY DEF Channel
<1>5. QED
  BY <1>1, <1>2, <1>3, <1>4 DEF IInv

LEMMA EnvIInv == IInv /\ newShimEnv => IInv'
<1> SUFFICES ASSUME IInv, newShimEnv PROVE IInv'
  OBVIOUS
<1>1. TypeOK'
  BY DEF IInv, newShimEnv, Leave, TypeOK, Stages, workerVars
<1>2. Errors' /\ InSoak' /\ Stopped' /\ Channel' /\ First' /\ (Idle <=> Idle')
  BY Kept DEF newShimEnv, ctxDone, expired
<1>3. Phase'
  BY <1>2 DEF IInv, newShimEnv, Leave, Phase
<1>4. QED
  BY <1>1, <1>2, <1>3 DEF IInv

LEMMA ProbeIInv == IInv /\ skipIfNoTransfer => IInv'
<1> SUFFICES ASSUME IInv, skipIfNoTransfer PROVE IInv'
  OBVIOUS
<1>1. TypeOK'
  BY DEF IInv, skipIfNoTransfer, Leave, TypeOK, Stages, workerVars
<1>2. Errors' /\ InSoak' /\ Stopped' /\ Channel' /\ First' /\ (Idle <=> Idle')
  BY Kept DEF skipIfNoTransfer, ctxDone, expired
<1>3. Phase'
  BY <1>2 DEF IInv, skipIfNoTransfer, Leave, Phase
<1>4. QED
  BY <1>1, <1>2, <1>3 DEF IInv

LEMMA CtxIInv == IInv /\ stressCtx => IInv'
<1> SUFFICES ASSUME IInv, stressCtx PROVE IInv'
  OBVIOUS
<1>1. TypeOK'
  BY DEF IInv, stressCtx, Leave, TypeOK, Stages, workerVars
<1>2. Errors' /\ InSoak' /\ Stopped' /\ Channel' /\ First' /\ (Idle <=> Idle')
  BY Kept DEF stressCtx, ctxDone, expired
<1>3. Phase'
  BY <1>2 DEF IInv, stressCtx, Leave, Phase
<1>4. QED
  BY <1>1, <1>2, <1>3 DEF IInv

LEMMA ExpireIInv == IInv /\ Expire => IInv'
<1> SUFFICES ASSUME IInv, Expire PROVE IInv'
  OBVIOUS
<1>1. TypeOK'
  BY DEF IInv, Expire, TypeOK, workerVars, mainVars
<1>2. Errors' /\ InSoak' /\ Stopped' /\ Channel' /\ First' /\ (Idle <=> Idle')
  BY Kept DEF Expire, ctxDone, expired, mainVars
<1>3. Phase'
  BY <1>2 DEF IInv, Expire, Phase, mainVars
<1>4. QED
  BY <1>1, <1>2, <1>3 DEF IInv

\* Starting the goroutines: all of them are idle before.
LEMMA SubtestsIInv == IInv /\ transferStressSubtests => IInv'
<1> SUFFICES ASSUME IInv, transferStressSubtests PROVE IInv'
  OBVIOUS
<1>1. TypeOK'
  BY DEF IInv, transferStressSubtests, Leave, TypeOK, Stages
<1>2. CASE UNCHANGED pc
  <2>1. Errors' /\ InSoak' /\ Stopped' /\ Channel' /\ First' /\ (Idle <=> Idle')
    BY <1>2, Kept DEF transferStressSubtests, ctxDone, expired, workerVars
  <2>2. Phase'
    <3>1. verdict = "none" /\ Idle
      BY DEF IInv, Phase, transferStressSubtests
    <3>2. CASE Leave("fail")
      BY <2>1, <3>1, <3>2 DEF Leave, Phase
    <3>3. CASE main' = "collect" /\ UNCHANGED verdict
      BY <3>1, <3>3 DEF Phase
    <3>4. QED
      BY <3>2, <3>3 DEF transferStressSubtests
  <2>3. QED
    BY <1>1, <2>1, <2>2 DEF IInv
<1>3. CASE main' = "collect" /\ pc' = [w \in Subtests |-> "loop"] /\ UNCHANGED verdict
  <2>1. /\ verdict = "none" /\ Idle
        /\ UNCHANGED <<timer, cancelled, received, firstErr, err, results, early>>
    BY DEF IInv, Phase, transferStressSubtests
  <2>2. \A w \in Subtests : err[w] = "nil" /\ pc[w] # "done" /\ pc'[w] = "loop"
    BY <1>3, <2>1 DEF IInv, Errors, Idle
  <2>3. received = {} /\ \A i \in 1..Len(results) : FALSE
    BY <2>2, ElementOfSeq DEF IInv, TypeOK, Channel
  <2>4. Errors' /\ Stopped'
    BY <2>1, <2>2 DEF Errors, Stopped
  <2>5. InSoak'
    BY <2>1, <2>2 DEF InSoak, Failed
  <2>6. Channel' /\ First'
    BY <2>1, <2>2, <2>3 DEF IInv, Channel, First
  <2>7. Phase'
    BY <1>3, <2>1 DEF Phase
  <2>8. QED
    BY <1>1, <2>4, <2>5, <2>6, <2>7 DEF IInv
<1>4. QED
  BY <1>2, <1>3 DEF transferStressSubtests
-----------------------------------------------------------------------------
(* The subtest goroutines.  In each lemma w is the one that moves. *)

\* What a step of goroutine w has to show, if it does not send: its own part
\* of the invariant, the others' being unchanged.
LEMMA OneMoves ==
    ASSUME IInv, NEW w \in Subtests, pc[w] \notin {"idle", "done"},
           TypeOK', UNCHANGED <<mainVars, results>>, ctxDone => ctxDone',
           pc'[w] \notin {"idle", "done"},
           \A v \in Subtests \ {w} :
             pc'[v] = pc[v] /\ err'[v] = err[v] /\ (v \in early => v \in early'),
           pc'[w] \in {"loop", "call"} => err'[w] = "nil",
           pc'[w] \in {"error", "cancel"} => err'[w] # "nil",
           pc'[w] = "send" => ctxDone',
           pc'[w] = "error" /\ ~ctxDone' => w \in early',
           Failed(w)' => w \in early'
    PROVE  IInv'
<1> USE DEF IInv, mainVars
<1>1. Errors'
  BY DEF Errors
<1>2. InSoak'
  BY DEF InSoak, Failed
<1>3. Stopped'
  BY DEF Stopped
<1>4. Channel'
  <2>1. \A v \in Subtests : pc'[v] = "done" <=> pc[v] = "done"
    OBVIOUS
  <2>2. \A i \in 1..Len(results) : results[i] \in Subtests
    BY ElementOfSeq DEF TypeOK
  <2>3. received \subseteq Subtests
    BY DEF TypeOK
  <2>4. QED
    BY <2>1, <2>2, <2>3 DEF Channel
<1>5. First'
  <2>1. w \notin received /\ received \subseteq Subtests
    BY DEF Channel, TypeOK
  <2>2. \A v \in received : err'[v] = err[v]
    BY <2>1
  <2>3. QED
    BY <2>2 DEF First
<1>6. Phase'
  BY ActiveCollects DEF Phase
<1>7. QED
  BY <1>1, <1>2, <1>3, <1>4, <1>5, <1>6

LEMMA LoopTestIInv == ASSUME IInv, NEW w \in Subtests, LoopTest(w) PROVE IInv'
<1>1. /\ pc' = [pc EXCEPT ![w] = IF ctxDone THEN "send" ELSE "call"]
      /\ pc[w] = "loop" /\ ctxDone' = ctxDone
      /\ UNCHANGED <<mainVars, timer, cancelled, err, results, early>>
  BY DEF LoopTest, ctxDone, expired
<1>2. TypeOK'
  BY <1>1 DEF IInv, TypeOK, mainVars
<1>3. err[w] = "nil" /\ pc'[w] = (IF ctxDone THEN "send" ELSE "call")
  BY <1>1 DEF IInv, Errors, TypeOK
<1>4. \A v \in Subtests \ {w} : pc'[v] = pc[v]
  BY <1>1 DEF IInv, TypeOK
<1>5. ~Failed(w)'
  BY <1>1, <1>3 DEF Failed
<1>6. QED
  BY <1>1, <1>2, <1>3, <1>4, <1>5, OneMoves

LEMMA FnReturnsIInv == ASSUME IInv, NEW w \in Subtests, FnReturns(w) PROVE IInv'
<1>1. PICK e \in FnResults :
        /\ err' = [err EXCEPT ![w] = e]
        /\ pc' = [pc EXCEPT ![w] = IF e = "nil" THEN "loop" ELSE "error"]
        /\ early' = IF e # "nil" /\ ~ctxDone THEN early \cup {w} ELSE early
  BY DEF FnReturns
<1>2. /\ pc[w] = "call" /\ ctxDone' = ctxDone
      /\ UNCHANGED <<mainVars, timer, cancelled, results>>
  BY DEF FnReturns, ctxDone, expired
<1>3. TypeOK'
  BY <1>1, <1>2 DEF IInv, TypeOK, mainVars
<1>4. err'[w] = e /\ pc'[w] = (IF e = "nil" THEN "loop" ELSE "error")
  BY <1>1 DEF IInv, TypeOK
<1>5. \A v \in Subtests \ {w} :
        pc'[v] = pc[v] /\ err'[v] = err[v] /\ (v \in early => v \in early')
  BY <1>1 DEF IInv, TypeOK
<1>6. ~Failed(w)'
  BY <1>4 DEF Failed
<1>7. QED
  BY <1>1, <1>2, <1>3, <1>4, <1>5, <1>6, OneMoves

\* The decision of runStress is where the stop and the failure race.
LEMMA FnFailedIInv == ASSUME IInv, NEW w \in Subtests, FnFailed(w) PROVE IInv'
<1> DEFINE next == RunStressStep(ctxDone, err[w])
<1>1. /\ pc' = [pc EXCEPT ![w] = CASE next = "iterate" -> "loop"
                                   [] next = "break"   -> "send"
                                   [] next = "return"  -> "cancel"]
      /\ err' = [err EXCEPT ![w] = IF next = "return" THEN @ ELSE "nil"]
      /\ pc[w] = "error" /\ ctxDone' = ctxDone
      /\ UNCHANGED <<mainVars, timer, cancelled, results, early>>
  BY DEF FnFailed, ctxDone, expired
<1>2. err[w] \in FnErrors /\ err[w] # "nil"
  BY <1>1 DEF IInv, Errors, TypeOK, FnResults
<1>3. /\ next \in {"iterate", "break", "return"}
      /\ next = "return" => ~ctxDone
      /\ next = "break" => ctxDone
  BY <1>2, ReturnInTime
<1> HIDE DEF next
<1>4. /\ pc'[w] = IF next = "iterate" THEN "loop"
                  ELSE IF next = "break" THEN "send" ELSE "cancel"
      /\ err'[w] = IF next = "return" THEN err[w] ELSE "nil"
  BY <1>1, <1>3 DEF IInv, TypeOK
<1>5. \A v \in Subtests \ {w} : pc'[v] = pc[v] /\ err'[v] = err[v]
  BY <1>1 DEF IInv, TypeOK
<1>6. TypeOK'
  BY <1>1, <1>3 DEF IInv, TypeOK, mainVars, FnResults
<1>7. next = "return" => w \in early
  BY <1>1, <1>3 DEF IInv, InSoak
<1>8. Failed(w)' => w \in early'
  BY <1>1, <1>4, <1>7 DEF Failed
<1>9. QED
  BY <1>1, <1>2, <1>3, <1>4, <1>5, <1>6, <1>8, OneMoves

LEMMA RunCancelIInv == ASSUME IInv, NEW w \in Subtests, runCancel(w) PROVE IInv'
<1>1. /\ pc' = [pc EXCEPT ![w] = "send"] /\ cancelled' = TRUE
      /\ pc[w] = "cancel" /\ ctxDone'
      /\ UNCHANGED <<mainVars, timer, err, results, early>>
  BY DEF runCancel, ctxDone, expired
<1>2. TypeOK'
  BY <1>1 DEF IInv, TypeOK, mainVars
<1>3. pc'[w] = "send" /\ \A v \in Subtests \ {w} : pc'[v] = pc[v]
  BY <1>1 DEF IInv, TypeOK
<1>4. w \in early
  BY <1>1 DEF IInv, InSoak, Errors, Failed
<1>5. QED
  BY <1>1, <1>2, <1>3, <1>4, OneMoves

\* w's result goes to the end of the channel, where it was not before.
LEMMA SendIInv == ASSUME IInv, NEW w \in Subtests, Send(w) PROVE IInv'
<1>1. /\ results' = Append(results, w)
      /\ pc' = [pc EXCEPT ![w] = "done"]
      /\ pc[w] = "send" /\ ctxDone' = ctxDone
      /\ UNCHANGED <<mainVars, timer, cancelled, err, early>>
  BY DEF Send, ctxDone, expired
<1>2. /\ results \in Seq(Subtests) /\ Len(results) \in Nat
      /\ \A i \in 1..Len(results) : results[i] \in Subtests
      /\ received \subseteq Subtests
  BY ElementOfSeq, LenProperties DEF IInv, TypeOK
<1>3. /\ results' \in Seq(Subtests) /\ Len(results') = Len(results) + 1
      /\ \A i \in 1..Len(results) : results'[i] = results[i]
      /\ results'[Len(results) + 1] = w
  BY <1>1, <1>2, AppendProperties
<1>4. pc'[w] = "done" /\ \A v \in Subtests \ {w} : pc'[v] = pc[v]
  BY <1>1 DEF IInv, TypeOK
<1>5. TypeOK'
  <2>1. Len(results') <= Cardinality(Subtests)
    BY <1>2, <1>3, CardNat DEF Send
  <2>2. QED
    BY <1>1, <1>3, <2>1 DEF IInv, TypeOK, mainVars
<1>6. Errors' /\ Stopped'
  BY <1>1, <1>4 DEF IInv, Errors, Stopped
<1>7. InSoak'
  BY <1>1, <1>4 DEF IInv, InSoak, Failed
<1>8. Channel'
  <2>1. w \notin received /\ \A i \in 1..Len(results) : results[i] # w
    BY <1>1 DEF IInv, Channel
  <2>2. received' = received
    BY <1>1 DEF mainVars
  <2>3. \A v \in received' : pc'[v] = "done"
    BY <1>2, <1>4, <2>2 DEF IInv, Channel
  <2>4. \A i \in 1..Len(results') : \/ i \in 1..Len(results) /\ results'[i] = results[i]
                                    \/ i = Len(results) + 1 /\ results'[i] = w
    BY <1>2, <1>3
  <2>5. \A i \in 1..Len(results') : pc'[results'[i]] = "done" /\ results'[i] \notin received'
    BY <1>2, <1>4, <2>1, <2>2, <2>4 DEF IInv, Channel
  <2>6. \A i, j \in 1..Len(results') : results'[i] = results'[j] => i = j
    BY <2>1, <2>4 DEF IInv, Channel
  <2>7. \A v \in Subtests : pc'[v] = "done"
          => v \in received' \/ \E i \in 1..Len(results') : results'[i] = v
    <3>1. SUFFICES ASSUME NEW v \in Subtests, pc'[v] = "done", v \notin received'
                   PROVE  \E i \in 1..Len(results') : results'[i] = v
      OBVIOUS
    <3>2. CASE v = w
      BY <1>2, <1>3, <3>2
    <3>3. CASE v # w
      <4>1. PICK i \in 1..Len(results) : results[i] = v
        BY <1>4, <2>2, <3>1, <3>3 DEF IInv, Channel
      <4>2. i \in 1..Len(results') /\ results'[i] = v
        BY <1>2, <1>3, <4>1
      <4>3. QED
        BY <4>2
    <3>4. QED
      BY <3>2, <3>3
  <2>8. QED
    BY <2>3, <2>5, <2>6, <2>7 DEF Channel
<1>9. First'
  BY <1>1 DEF IInv, First, mainVars
<1>10. Phase'
  BY <1>1, ActiveCollects DEF IInv, Phase, mainVars
<1>11. QED
  BY <1>5, <1>6, <1>7, <1>8, <1>9, <1>10 DEF IInv
-----------------------------------------------------------------------------
(* The test goroutine, once the subtests are started. *)

\* The head of the channel moves to received; firstErr keeps its meaning.
LEMMA ReceiveIInv == ASSUME IInv, Receive PROVE IInv'
<1> DEFINE h == Head(results)
<1>1. /\ main = "collect" /\ results # <<>> /\ results' = Tail(results)
      /\ received' = received \cup {h}
      /\ firstErr' = IF err[h] # "nil" /\ firstErr = NoOne THEN h ELSE firstErr
      /\ UNCHANGED <<main, shim, deferred, verdict, timer, cancelled, pc, err, early>>
  BY DEF Receive
<1>2. results \in Seq(Subtests) /\ Len(results) \in Nat
  BY LenProperties DEF IInv, TypeOK
<1>3. /\ h \in Subtests /\ results' \in Seq(Subtests)
      /\ Len(results') = Len(results) - 1
      /\ \A i \in 1..Len(results') : results'[i] = results[i + 1]
  BY <1>1, <1>2, HeadTailProperties
<1>4. h = results[1] /\ 1 \in 1..Len(results)
  BY <1>1, <1>2
<1> HIDE DEF h
<1>5. TypeOK'
  <2>1. Len(results') <= Cardinality(Subtests)
    BY <1>2, <1>3, CardNat DEF IInv, TypeOK
  <2>2. QED
    BY <1>1, <1>3, <2>1 DEF IInv, TypeOK
<1>6. Errors' /\ Stopped'
  BY <1>1 DEF IInv, Errors, Stopped, ctxDone, expired
<1>7. InSoak'
  BY <1>1 DEF IInv, InSoak, Failed, ctxDone, expired
<1>8. Channel'
  <2>1. \A i \in 1..Len(results') :
          i + 1 \in 1..Len(results) /\ results'[i] = results[i + 1] /\ results'[i] # h
    BY <1>2, <1>3, <1>4 DEF IInv, Channel
  <2>2. \A v \in received' : pc'[v] = "done"
    BY <1>1, <1>4 DEF IInv, Channel
  <2>3. \A i \in 1..Len(results') : pc'[results'[i]] = "done" /\ results'[i] \notin received'
    BY <1>1, <2>1 DEF IInv, Channel
  <2>4. \A i, j \in 1..Len(results') : results'[i] = results'[j] => i = j
    <3>1. SUFFICES ASSUME NEW i \in 1..Len(results'), NEW j \in 1..Len(results'),
                          results'[i] = results'[j]
                   PROVE  i = j
      OBVIOUS
    <3>2. i + 1 = j + 1
      BY <2>1, <3>1 DEF IInv, Channel
    <3>3. QED
      BY <3>2
  <2>5. \A v \in Subtests : pc'[v] = "done"
          => v \in received' \/ \E i \in 1..Len(results') : results'[i] = v
    <3>1. SUFFICES ASSUME NEW v \in Subtests, pc'[v] = "done", v \notin received'
                   PROVE  \E i \in 1..Len(results') : results'[i] = v
      OBVIOUS
    <3>2. PICK i \in 1..Len(results) : results[i] = v
      BY <1>1, <3>1 DEF IInv, Channel
    <3>3. i # 1
      BY <1>1, <1>4, <3>1, <3>2
    <3>4. i - 1 \in 1..Len(results') /\ (i - 1) + 1 = i
      BY <1>2, <1>3, <3>2, <3>3
    <3>5. results'[i - 1] = v
      BY <1>3, <3>2, <3>4
    <3>6. QED
      BY <3>4, <3>5
  <2>6. QED
    BY <2>2, <2>3, <2>4, <2>5 DEF Channel
<1>9. First'
  BY <1>1, <1>3, SubtestsAssumption DEF IInv, First
<1>10. Phase'
  BY <1>1 DEF IInv, Phase
<1>11. QED
  BY <1>5, <1>6, <1>7, <1>8, <1>9, <1>10 DEF IInv

\* The verdict is given with every result received.
LEMMA ReportIInv == ASSUME IInv, Report PROVE IInv'
<1>1. TypeOK'
  BY DEF IInv, Report, Leave, TypeOK, Stages, workerVars
<1>2. Errors' /\ InSoak' /\ Stopped' /\ Channel' /\ First' /\ (Idle <=> Idle')
  BY Kept DEF Report, ctxDone, expired
<1>3. received = Subtests
  BY AllCollected DEF IInv, TypeOK, Report
<1>4. Phase'
  BY <1>3 DEF Report, Leave, Phase
<1>5. QED
  BY <1>1, <1>2, <1>4 DEF IInv

LEMMA DefersIInv == ASSUME IInv, Defers PROVE IInv'
<1>1. TypeOK'
  BY DEF IInv, Defers, TypeOK, Stages, workerVars
<1>2. Errors' /\ InSoak' /\ Stopped' /\ Channel' /\ First' /\ (Idle <=> Idle')
  BY Kept DEF Defers, ctxDone, expired
<1>3. Phase'
  BY <1>2 DEF IInv, Defers, Phase
<1>4. QED
  BY <1>1, <1>2, <1>3 DEF IInv

LEMMA NextIInv == IInv /\ [Next]_vars => IInv'
<1> SUFFICES ASSUME IInv, [Next]_vars PROVE IInv'
  OBVIOUS
<1>1. CASE Main
  BY <1>1, EnvIInv, ProbeIInv, CtxIInv, SubtestsIInv, ReceiveIInv, ReportIInv, DefersIInv
     DEF Main
<1>2. CASE Expire
  BY <1>2, ExpireIInv
<1>3. ASSUME NEW w \in Subtests, Worker(w) PROVE IInv'
  BY <1>3, LoopTestIInv, FnReturnsIInv, FnFailedIInv, RunCancelIInv, SendIInv DEF Worker
<1>4. CASE UNCHANGED vars
  <2>1. TypeOK'
    BY <1>4 DEF IInv, TypeOK, vars
  <2>2. Errors' /\ InSoak' /\ Stopped' /\ Channel' /\ First' /\ (Idle <=> Idle')
    BY <1>4, Kept DEF vars, workerVars, ctxDone, expired
  <2>3. Phase'
    BY <1>4, <2>2 DEF IInv, Phase, vars
  <2>4. QED
    BY <2>1, <2>2, <2>3 DEF IInv
<1>5. CASE Ended
  BY <1>4, <1>5 DEF Ended
<1>6. QED
  BY <1>1, <1>2, <1>3, <1>4, <1>5 DEF Next

LEMMA Invariance == Spec => []IInv
BY InitIInv, NextIInv, PTL DEF Spec
-----------------------------------------------------------------------------
(***************************************************************************)
(* The theorems.                                                           *)
(***************************************************************************)

\* The state of testTransfer keeps its types.
THEOREM TypeCorrect == Spec => []TypeOK
<1>1. IInv => TypeOK
  BY DEF IInv
<1>2. QED
  BY Invariance, <1>1, PTL

\* Any number of subtests may fail, in any order with each other and with the
\* deadline: a failure that runStress returned is in the verdict.
THEOREM FailuresAreReported == Spec => []FailureReported
<1>1. IInv => FailureReported
  <2> SUFFICES ASSUME IInv, verdict \in {"pass", "skip"}, NEW w \in Subtests
               PROVE  ~Failed(w)
    BY DEF FailureReported
  <2>1. Idle \/ (received = Subtests /\ firstErr = NoOne)
    BY DEF IInv, Phase
  <2>2. err[w] = "nil"
    BY <2>1 DEF IInv, Idle, Errors, First
  <2>3. QED
    BY <2>2 DEF Failed
<1>2. QED
  BY Invariance, <1>1, PTL

\* The subtest that the verdict blames failed before the stop.
THEOREM BlameIsInTime == Spec => []BlamedInTime
<1>1. IInv => BlamedInTime
  <2> SUFFICES ASSUME IInv, firstErr # NoOne
               PROVE  firstErr \in early /\ Failed(firstErr)
    BY DEF BlamedInTime
  <2>1. /\ firstErr \in received /\ err[firstErr] # "nil"
        /\ received \subseteq Subtests /\ pc[firstErr] = "done"
    BY DEF IInv, First, TypeOK, Channel
  <2>2. Failed(firstErr)
    BY <2>1 DEF Failed
  <2>3. QED
    BY <2>1, <2>2 DEF IInv, InSoak
<1>2. QED
  BY Invariance, <1>1, PTL

\* No subtest goroutine is running when shutdownShim does.
THEOREM ShutdownIsQuiescent == Spec => []QuiescentShutdown
<1>1. IInv => QuiescentShutdown
  <2> SUFFICES ASSUME IInv, main \in {"defers", "ended"}, NEW w \in Subtests
               PROVE  pc[w] \in {"idle", "done"}
    BY DEF QuiescentShutdown
  <2>1. Idle \/ received = Subtests
    BY DEF IInv, Phase
  <2>2. QED
    BY <2>1 DEF IInv, Idle, Channel
<1>2. QED
  BY Invariance, <1>1, PTL
-----------------------------------------------------------------------------
(* Refinement. *)

AnyFailed == \E w \in Subtests : Failed(w)

\* A step that stutters in Soak: context, failures and verdict as they were.
LEMMA SoakStutters ==
    ASSUME ctxDone' = ctxDone, AnyFailed' = AnyFailed, verdict' = verdict
    PROVE  UNCHANGED soak!vars
BY DEF soak!vars, AnyFailed

\* Failed depends on pc and err only.
LEMMA FailedKept ==
    ASSUME UNCHANGED <<pc, err>> PROVE AnyFailed' = AnyFailed
BY DEF AnyFailed, Failed

\* Before the goroutines are started none has failed.
LEMMA IdleNotFailed == ASSUME IInv, Idle PROVE ~AnyFailed
BY DEF IInv, Idle, Errors, AnyFailed, Failed

\* The steps before the subtests start stutter, or abandon the soak.
LEMMA SetupImplements ==
    ASSUME IInv, newShimEnv \/ skipIfNoTransfer \/ stressCtx \/ transferStressSubtests
    PROVE  [soak!Next]_soak!vars
<1>1. /\ main \in {"env", "probe", "ctx", "setup"}
      /\ UNCHANGED <<timer, cancelled, err>>
      /\ verdict' = verdict \/ verdict' \in {"skip", "fail"}
  BY DEF newShimEnv, skipIfNoTransfer, stressCtx, transferStressSubtests, Leave, workerVars
<1>2. verdict = "none" /\ Idle
  BY <1>1 DEF IInv, Phase
<1>3. ctxDone' = ctxDone
  BY <1>1 DEF ctxDone, expired
<1>4. ~AnyFailed
  BY <1>2, IdleNotFailed
<1>5. ~AnyFailed'
  BY <1>1, <1>2 DEF IInv, Idle, Errors, AnyFailed, Failed
<1>6. CASE verdict' = verdict
  <2>1. AnyFailed' = AnyFailed
    BY <1>4, <1>5 DEF AnyFailed
  <2>2. QED
    BY <1>3, <1>6, <2>1, SoakStutters
<1>7. CASE verdict' \in {"skip", "fail"}
  BY <1>2, <1>3, <1>4, <1>5, <1>7 DEF soak!Next, soak!Abort, AnyFailed
<1>8. QED
  BY <1>1, <1>6, <1>7

\* A step that leaves failures and verdict alone either stops the soak or
\* stutters.
LEMMA StopImplements ==
    ASSUME AnyFailed' = AnyFailed, verdict' = verdict, ctxDone' = ctxDone \/ ctxDone'
    PROVE  [soak!Next]_soak!vars
<1>1. CASE ctxDone' = ctxDone
  BY <1>1, SoakStutters
<1>2. CASE ctxDone' /\ ~ctxDone
  BY <1>2 DEF soak!Next, soak!Stop, AnyFailed
<1>3. CASE ctxDone' /\ ctxDone
  <2>1. ctxDone' = ctxDone
    BY <1>3 DEF ctxDone, expired
  <2>2. QED
    BY <2>1, <1>1
<1>4. QED
  BY <1>1, <1>2, <1>3

\* The failure that runStress returns is one of Soak, since the context was
\* live; every other step of a goroutine stutters, or stops the soak.
LEMMA WorkerImplements ==
    ASSUME IInv, NEW w \in Subtests, Worker(w)
    PROVE  [soak!Next]_soak!vars
<1>1. verdict' = verdict /\ verdict = "none"
  <2>1. pc[w] \notin {"idle", "done"}
    BY DEF Worker, LoopTest, FnReturns, FnFailed, runCancel, Send
  <2>2. verdict' = verdict
    BY DEF Worker, LoopTest, FnReturns, FnFailed, runCancel, Send, mainVars
  <2>3. QED
    BY <2>1, <2>2, ActiveCollects
<1>2. CASE LoopTest(w)
  <2>1. AnyFailed' = AnyFailed
    BY <1>2 DEF LoopTest, IInv, TypeOK, Errors, AnyFailed, Failed
  <2>2. ctxDone' = ctxDone
    BY <1>2 DEF LoopTest, ctxDone, expired
  <2>3. QED
    BY <1>1, <2>1, <2>2, StopImplements
<1>3. CASE FnReturns(w)
  <2>1. AnyFailed' = AnyFailed
    BY <1>3 DEF FnReturns, IInv, TypeOK, AnyFailed, Failed
  <2>2. ctxDone' = ctxDone
    BY <1>3 DEF FnReturns, ctxDone, expired
  <2>3. QED
    BY <1>1, <2>1, <2>2, StopImplements
<1>4. CASE FnFailed(w)
  <2> DEFINE next == RunStressStep(ctxDone, err[w])
  <2>1. /\ pc' = [pc EXCEPT ![w] = CASE next = "iterate" -> "loop"
                                     [] next = "break"   -> "send"
                                     [] next = "return"  -> "cancel"]
        /\ err' = [err EXCEPT ![w] = IF next = "return" THEN @ ELSE "nil"]
        /\ pc[w] = "error"
    BY <1>4 DEF FnFailed
  <2>2. ctxDone' = ctxDone
    BY <1>4 DEF FnFailed, ctxDone, expired
  <2>3. err[w] \in FnErrors /\ err[w] # "nil"
    BY <2>1 DEF IInv, Errors, TypeOK, FnResults
  <2>4. next \in {"iterate", "break", "return"} /\ (next = "return" => ~ctxDone)
    BY <2>3, ReturnInTime
  <2> HIDE DEF next
  <2>5. CASE next = "return"
    <3>1. AnyFailed'
      BY <2>1, <2>3, <2>5 DEF IInv, TypeOK, AnyFailed, Failed
    <3>2. AnyFailed' = TRUE
      BY <3>1 DEF AnyFailed
    <3>3. ctxDone' \in BOOLEAN
      BY DEF ctxDone, expired
    <3>4. soak!Fail
      BY <1>1, <2>4, <2>5, <3>2, <3>3 DEF soak!Fail, AnyFailed
    <3>5. QED
      BY <3>4 DEF soak!Next
  <2>6. CASE next # "return"
    <3>1. pc'[w] \in {"loop", "send"} /\ err'[w] = "nil" /\ pc[w] = "error"
      BY <2>1, <2>4, <2>6 DEF IInv, TypeOK
    <3>2. \A v \in Subtests \ {w} : pc'[v] = pc[v] /\ err'[v] = err[v]
      BY <2>1 DEF IInv, TypeOK
    <3>3. AnyFailed' = AnyFailed
      BY <3>1, <3>2 DEF AnyFailed, Failed
    <3>4. QED
      BY <1>1, <2>2, <3>3, StopImplements
  <2>7. QED
    BY <2>5, <2>6
<1>5. CASE runCancel(w)
  <2>1. AnyFailed' = AnyFailed
    BY <1>5 DEF runCancel, IInv, TypeOK, AnyFailed, Failed
  <2>2. ctxDone'
    BY <1>5 DEF runCancel, ctxDone, expired
  <2>3. QED
    BY <1>1, <2>1, <2>2, StopImplements
<1>6. CASE Send(w)
  <2>1. AnyFailed' = AnyFailed
    BY <1>6 DEF Send, IInv, TypeOK, AnyFailed, Failed
  <2>2. ctxDone' = ctxDone
    BY <1>6 DEF Send, ctxDone, expired
  <2>3. QED
    BY <1>1, <2>1, <2>2, StopImplements
<1>7. QED
  BY <1>2, <1>3, <1>4, <1>5, <1>6 DEF Worker

\* The verdict comes after the stop and says whether there was a failure.
LEMMA ReportImplements ==
    ASSUME IInv, Report
    PROVE  [soak!Next]_soak!vars
<1>1. received = Subtests
  BY AllCollected DEF IInv, TypeOK, Report
<1>2. \A w \in Subtests : pc[w] = "done"
  BY <1>1 DEF IInv, Channel
<1>3. ctxDone
  BY <1>2, SubtestsAssumption DEF IInv, Stopped
<1>4. firstErr = NoOne <=> ~AnyFailed
  BY <1>1, <1>2 DEF IInv, First, AnyFailed, Failed
<1>5. AnyFailed' = AnyFailed /\ ctxDone' = ctxDone
  <2>1. UNCHANGED <<pc, err, timer, cancelled>>
    BY DEF Report, workerVars
  <2>2. QED
    BY <2>1, FailedKept DEF ctxDone, expired
<1>6. verdict = "none" /\ verdict' = IF AnyFailed THEN "fail" ELSE "pass"
  BY <1>4 DEF Report, Leave, IInv, Phase
<1>7. QED
  BY <1>3, <1>5, <1>6 DEF soak!Next, soak!End, AnyFailed

LEMMA NextImplements == IInv /\ [Next]_vars => [soak!Next]_soak!vars
<1> SUFFICES ASSUME IInv, [Next]_vars PROVE [soak!Next]_soak!vars
  OBVIOUS
<1>1. CASE newShimEnv \/ skipIfNoTransfer \/ stressCtx \/ transferStressSubtests
  BY <1>1, SetupImplements
<1>2. CASE Receive
  <2>1. UNCHANGED <<pc, err, timer, cancelled, verdict>>
    BY <1>2 DEF Receive
  <2>2. QED
    BY <2>1, FailedKept, SoakStutters DEF ctxDone, expired
<1>3. CASE Report
  BY <1>3, ReportImplements
<1>4. CASE Defers
  <2>1. UNCHANGED <<pc, err, verdict>> /\ ctxDone'
    BY <1>4 DEF Defers, workerVars, ctxDone, expired
  <2>2. QED
    BY <2>1, FailedKept, StopImplements
<1>5. CASE Expire
  <2>1. UNCHANGED <<pc, err, verdict>> /\ ctxDone'
    BY <1>5 DEF Expire, workerVars, mainVars, ctxDone, expired
  <2>2. QED
    BY <2>1, FailedKept, StopImplements
<1>6. ASSUME NEW w \in Subtests, Worker(w) PROVE [soak!Next]_soak!vars
  BY <1>6, WorkerImplements
<1>7. CASE UNCHANGED vars
  <2>1. UNCHANGED <<pc, err, timer, cancelled, verdict>>
    BY <1>7 DEF vars
  <2>2. QED
    BY <2>1, FailedKept, SoakStutters DEF ctxDone, expired
<1>8. CASE Ended
  BY <1>7, <1>8 DEF Ended
<1>9. QED
  BY <1>1, <1>2, <1>3, <1>4, <1>5, <1>6, <1>7, <1>8 DEF Next, Main

LEMMA InitImplements == Init => soak!Init
BY DEF Init, soak!Init, ctxDone, expired, Failed

\* testTransfer keeps the promise of Soak, whatever the subtests and however
\* their failures, the deadline and the channel interleave.
THEOREM TransferImplementsSoak == Spec => ImplementsSoak
BY InitImplements, NextImplements, Invariance, PTL DEF Spec, ImplementsSoak, soak!Spec
=============================================================================
