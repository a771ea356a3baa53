------------------------ MODULE SandboxSessionProofs ------------------------
(***************************************************************************)
(* Proofs about SandboxSession: every member container is torn down, a     *)
(* conforming shim is not rejected and a breach of isolation or of a stop  *)
(* does not pass, whatever the test is.  Of the scripts only the rules of  *)
(* SandboxRules are used (ScriptsAssumption), which TLC evaluates: a test  *)
(* that is added and keeps to them is covered.                             *)
(***************************************************************************)
EXTENDS SandboxSession, FiniteSetTheorems, SequenceTheorems, TLAPS

(***************************************************************************)
(* The inductive invariant.                                                *)
(***************************************************************************)

\* TypeOK, by the owner of the variables.
TestOK ==
    /\ world \in {"conforming", "hostile"} /\ test \in Tests /\ ip \in 1..Len(script) + 1
    /\ phase \in {"body", "cleanup", "leak", "ended"}
    /\ failed \in BOOLEAN /\ skipped \in BOOLEAN /\ leaked \in BOOLEAN /\ snap \in BOOLEAN
    /\ cleanups \in Seq(Members \cup {"sandbox"}) /\ tracked \subseteq Members
    /\ waiter \in {"off", "started", "done"}
ShimOK ==
    /\ served \in BOOLEAN /\ fed \subseteq Members
    /\ shim \in {"absent", "up", "down"} /\ sandbox \in {"none", "created", "ready", "stopped"}
    /\ proc \in [Procs -> {"none", "created", "running", "stopped", "deleted"}]
    /\ out \in [Procs -> {"none", "flight", "seen"}]
    /\ pending \subseteq ({"kill", "delete"} \X Members) \cup ({"sbStop", "sbShutdown"} \X {"none"})
HistOK ==
    /\ asked \subseteq Members /\ fault \in BOOLEAN /\ slow \in BOOLEAN
    /\ breach \in {"none", "peer", "stop", "shared"}

\* A member that was started is tracked or was deleted, or is tracked next.
Started ==
    \A m \in Members : proc[m] \in {"running", "stopped"} =>
       m \in tracked \/ m \in asked \/ (At("track") /\ who = m)

\* A tracked member was deleted, or its own cleanup is still to come.
Kept ==
    \A m \in tracked : m \in asked \/ \E i \in 1..Len(cleanups) : cleanups[i] = m

Emptied == phase \in {"leak", "ended"} => cleanups = <<>>

\* The cleanups that the steps before step i of a script have registered.
Before(s, i) == {j \in 1..i - 1 : Registers(s, j)}
Counted == Len(cleanups) <= Cardinality(Before(script, ip))

IInv == TestOK /\ ShimOK /\ HistOK /\ Started /\ Kept /\ Emptied /\ Counted
-----------------------------------------------------------------------------
(***************************************************************************)
(* The scripts.                                                            *)
(***************************************************************************)
Advances == ip' \in ip + 1..Len(script) + 1 /\ failed' \in BOOLEAN

LEMMA ScriptOf ==
    ASSUME test \in Tests
    PROVE  script \in Seq([call : STRING, who : STRING, on : STRING]) /\ WellFormed(script)
           /\ Len(script) \in Nat
BY TestsAssumption, ScriptsAssumption DEF script, Whole

LEMMA AtStep ==
    ASSUME TestOK, NEW call, At(call)
    PROVE  /\ phase = "body" /\ script[ip].call = call
           /\ Len(script) \in Nat /\ ip \in 1..Len(script)
           /\ on \in {"fatal", "mixed", "soft", "continue", "lenient", "error", "ignore", "expect"}
           /\ call \in {"track", "delete", "stdin"} => who \in Members
           /\ on = "continue" => ip < Len(script)
           /\ call = "start" /\ who \in Members =>
                 /\ on = "fatal" /\ ip < Len(script)
                 /\ script[ip + 1].call = "track" /\ script[ip + 1].who = who
<1>1. WellFormed(script) /\ Len(script) \in Nat
  BY ScriptOf DEF TestOK
<1>2. ip \in 1..Len(script) /\ phase = "body" /\ script[ip].call = call
  BY <1>1 DEF At, TestOK
<1>3. QED
  BY <1>1, <1>2 DEF WellFormed, on, who

LEMMA OnErrorAdvances == ASSUME TestOK, NEW call, At(call), OnError PROVE Advances
<1>1. Len(script) \in Nat /\ ip \in 1..Len(script) /\ failed \in BOOLEAN
  BY AtStep DEF TestOK
<1>2. /\ on \in {"fatal", "mixed", "soft", "continue", "lenient", "error", "ignore", "expect"}
      /\ on = "continue" => ip < Len(script)
  BY AtStep
<1>3. \/ ip' = ip + 1 /\ (failed' = failed \/ failed' = TRUE)
      \/ ip' = Len(script) + 1 /\ failed' = TRUE
      \/ on = "continue" /\ ip' = ip + 2 /\ failed' = TRUE
  BY <1>2 DEF OnError, Goes, Leaves, GoesFailed
<1>4. failed' \in BOOLEAN
  BY <1>1, <1>3, Zenon
<1>5. QED
  BY <1>1, <1>2, <1>3, <1>4 DEF Advances

LEMMA OnAnswerAdvances ==
    ASSUME TestOK, NEW call, At(call), NEW right \in BOOLEAN, OnAnswer(right)
    PROVE  Advances
<1>1. Len(script) \in Nat /\ ip \in 1..Len(script) /\ failed \in BOOLEAN
  BY AtStep DEF TestOK
<1>2. on \in {"fatal", "mixed", "soft", "continue", "lenient", "error", "ignore", "expect"}
  BY AtStep
<1>3. \/ ip' = ip + 1 /\ (failed' = failed \/ failed' = TRUE)
      \/ ip' = Len(script) + 1 /\ failed' = TRUE
  BY <1>2 DEF OnAnswer, Goes, Leaves, GoesFailed
<1>4. failed' \in BOOLEAN
  BY <1>1, <1>3, Zenon
<1>5. QED
  BY <1>1, <1>3, <1>4 DEF Advances

LEMMA GoesAdvances == ASSUME TestOK, NEW call, At(call), Goes \/ Leaves PROVE Advances
<1>1. Len(script) \in Nat /\ ip \in 1..Len(script) /\ failed \in BOOLEAN
  BY AtStep DEF TestOK
<1>2. CASE Goes
  BY <1>1, <1>2 DEF Goes, Advances
<1>3. CASE Leaves
  BY <1>1, <1>3 DEF Leaves, Advances
<1>4. QED
  BY <1>2, <1>3

\* What is registered is never taken back by a step, and a step adds one.
LEMMA BeforeGrows ==
    ASSUME NEW s, NEW i \in Nat \ {0}, NEW j \in Nat, i < j
    PROVE  /\ IsFiniteSet(Before(s, i)) /\ Cardinality(Before(s, i)) \in Nat
           /\ Cardinality(Before(s, i)) <= Cardinality(Before(s, j))
           /\ Registers(s, i) => Cardinality(Before(s, i)) + 1 <= Cardinality(Before(s, j))
<1>1. \A k \in Nat : IsFiniteSet(Before(s, k)) /\ Cardinality(Before(s, k)) \in Nat
  <2> TAKE k \in Nat
  <2>1. IsFiniteSet(1..k - 1)
    BY FS_Interval
  <2>2. Before(s, k) \subseteq 1..k - 1
    BY DEF Before
  <2>3. QED
    BY <2>1, <2>2, FS_Subset, FS_CardinalityType
<1>2. Before(s, i) \subseteq Before(s, j)
  BY DEF Before
<1>3. Cardinality(Before(s, i)) <= Cardinality(Before(s, j))
  BY <1>1, <1>2, FS_Subset
<1>4. ASSUME Registers(s, i) PROVE Cardinality(Before(s, i)) + 1 <= Cardinality(Before(s, j))
  <2>1. i \notin Before(s, i) /\ Before(s, i) \cup {i} \subseteq Before(s, j)
    BY <1>4 DEF Before
  <2>2. Cardinality(Before(s, i) \cup {i}) = Cardinality(Before(s, i)) + 1
    BY <1>1, <2>1, FS_AddElement
  <2>3. QED
    BY <1>1, <2>1, <2>2, FS_Subset
<1>5. QED
  BY <1>1, <1>3, <1>4

\* So there are never more cleanups than the script has steps for.
LEMMA CleanupsBounded ==
    ASSUME TestOK, Counted PROVE Len(cleanups) <= MaxCleanups
<1>1. WellFormed(script) /\ Len(script) \in Nat /\ Len(cleanups) \in Nat
  BY ScriptOf DEF TestOK
<1>2. Before(script, ip) \subseteq {i \in 1..Len(script) : Registers(script, i)}
  BY <1>1 DEF Before, TestOK
<1>3. IsFiniteSet({i \in 1..Len(script) : Registers(script, i)})
  <2>1. IsFiniteSet(1..Len(script))
    BY <1>1, FS_Interval
  <2>2. {i \in 1..Len(script) : Registers(script, i)} \subseteq 1..Len(script)
    OBVIOUS
  <2>3. QED
    BY <2>1, <2>2, FS_Subset
<1>4. /\ Cardinality(Before(script, ip)) <= Cardinality({i \in 1..Len(script) : Registers(script, i)})
      /\ Cardinality({i \in 1..Len(script) : Registers(script, i)}) <= MaxCleanups
  BY <1>1, <1>2, <1>3, FS_Subset DEF WellFormed
<1>5. /\ Cardinality(Before(script, ip)) \in Nat
      /\ Cardinality({i \in 1..Len(script) : Registers(script, i)}) \in Nat
  BY <1>2, <1>3, FS_Subset, FS_CardinalityType
<1>6. MaxCleanups \in Nat
  <2>1. IsFiniteSet({}) /\ Cardinality({}) = 0
    BY FS_EmptySet
  <2>2. IsFiniteSet(Members)
    <3>1. IsFiniteSet({} \cup {"a"})
      BY <2>1, FS_AddElement
    <3>2. IsFiniteSet(({} \cup {"a"}) \cup {"b"})
      BY <3>1, FS_AddElement
    <3>3. IsFiniteSet((({} \cup {"a"}) \cup {"b"}) \cup {"c"})
      BY <3>2, FS_AddElement
    <3>4. Members = (({} \cup {"a"}) \cup {"b"}) \cup {"c"}
      BY DEF Members
    <3>5. QED
      BY <3>3, <3>4
  <2>3. QED
    BY <2>2, FS_CardinalityType DEF MaxCleanups
<1>7. QED
  BY <1>1, <1>4, <1>5, <1>6 DEF Counted
-----------------------------------------------------------------------------
(***************************************************************************)
(* The shim.  Nothing but Start makes a process run.                       *)
(***************************************************************************)
States == {"none", "created", "running", "stopped", "deleted"}
NoneStarted ==
    \A m \in Members : proc'[m] \in {"running", "stopped"} => proc[m] \in {"running", "stopped"}
Types ==
    /\ shim' \in {"absent", "up", "down"} /\ sandbox' \in {"none", "created", "ready", "stopped"}
    /\ proc' \in [Procs -> States] /\ fault' \in BOOLEAN
    /\ breach' \in {"none", "peer", "stop", "shared"}

LEMMA EndsKeeps ==
    ASSUME ShimOK, HistOK, NEW p, proc[p] \in {"running", "stopped"}, NEW how \in {"stopped", "deleted"},
           Ends(p, how)
    PROVE  /\ proc' \in [Procs -> States] /\ NoneStarted
           /\ fault' = fault /\ breach' \in {"none", "peer", "stop", "shared"}
<1>1. proc \in [Procs -> States]
  BY DEF ShimOK, States
<1>2. /\ fault' = fault /\ breach' \in {"none", "peer", "stop", "shared"}
      /\ \/ proc' = [proc EXCEPT ![p] = how]
         \/ \E q \in Members \ {p} :
               proc[q] = "running" /\ proc' = [proc EXCEPT ![p] = how, ![q] = "stopped"]
  BY DEF Ends, HistOK
<1>3. CASE proc' = [proc EXCEPT ![p] = how]
  BY <1>1, <1>2, <1>3 DEF NoneStarted, States, Procs
<1>4. ASSUME NEW q \in Members \ {p}, proc[q] = "running",
             proc' = [proc EXCEPT ![p] = how, ![q] = "stopped"]
      PROVE  proc' \in [Procs -> States] /\ NoneStarted
  BY <1>1, <1>4 DEF NoneStarted, States, Procs
<1>5. QED
  BY <1>2, <1>3, <1>4

LEMMA AllStopKeeps ==
    ASSUME ShimOK, proc' = [p \in Procs |-> IF proc[p] = "running" THEN "stopped" ELSE proc[p]]
    PROVE  proc' \in [Procs -> States] /\ NoneStarted
BY DEF ShimOK, NoneStarted, States, Procs

LEMMA EffectKeeps ==
    ASSUME ShimOK, HistOK, NEW call \in Calls, NEW p,
           call = "stdin" => p \in Members, Legal(call, p), Effect(call, p)
    PROVE  /\ Types /\ out' \in [Procs -> {"none", "flight", "seen"}] /\ fed' \subseteq Members
           /\ \A m \in Members : proc'[m] \in {"running", "stopped"} =>
                 proc[m] \in {"running", "stopped"} \/ (call = "start" /\ p = m)
<1>1. /\ proc \in [Procs -> States] /\ fault \in BOOLEAN /\ breach \in {"none", "peer", "stop", "shared"}
      /\ shim \in {"absent", "up", "down"} /\ sandbox \in {"none", "created", "ready", "stopped"}
  BY DEF ShimOK, HistOK, States
<1>2. out' \in [Procs -> {"none", "flight", "seen"}]
  BY DEF Effect, ShimOK
<1>3. fed' \subseteq Members
  BY DEF Effect, ShimOK
<1>4. CASE call \in {"kill", "delete"}
  <2>1. /\ Ends(p, "stopped") \/ Ends(p, "deleted")
        /\ UNCHANGED <<shim, sandbox>> /\ proc[p] \in {"running", "stopped"}
    BY <1>4 DEF Effect, Legal
  <2>2. QED
    BY <1>1, <1>2, <1>3, <2>1, EndsKeeps DEF Types, NoneStarted
<1>5. CASE call = "sbStop"
  <2>1. Stops /\ UNCHANGED shim
    BY <1>5 DEF Effect
  <2>2. /\ fault' = fault /\ breach' \in {"none", "peer", "stop", "shared"}
        /\ sandbox' \in {"none", "created", "ready", "stopped"}
        /\ \/ proc' = proc
           \/ proc' = [q \in Procs |-> IF proc[q] = "running" THEN "stopped" ELSE proc[q]]
    BY <1>1, <2>1 DEF Stops
  <2>3. proc' \in [Procs -> States] /\ NoneStarted
    BY <1>1, <2>2, AllStopKeeps DEF NoneStarted
  <2>4. QED
    BY <1>1, <1>2, <1>3, <2>1, <2>2, <2>3 DEF Types, NoneStarted
<1>6. CASE call \in {"sbShutdown", "shutdown"}
  <2>1. Exits /\ UNCHANGED <<fault, breach>>
    BY <1>6 DEF Effect
  <2>2. proc' \in [Procs -> States] /\ NoneStarted
    BY <2>1, AllStopKeeps DEF Exits
  <2>3. QED
    BY <1>1, <1>2, <1>3, <2>1, <2>2 DEF Types, NoneStarted, Exits
<1>7. CASE call \in {"create", "exec", "start"}
  <2>1. /\ UNCHANGED <<shim, sandbox, fault, breach>>
        /\ \/ proc' = [proc EXCEPT ![p] = "created"]
           \/ proc' = [proc EXCEPT !["x"] = "created"]
           \/ call = "start" /\ proc' = [proc EXCEPT ![p] = "running"]
    BY <1>7 DEF Effect
  <2>2. proc' \in [Procs -> States]
    BY <1>1, <2>1 DEF States
  <2>3. \A m \in Members : proc'[m] \in {"running", "stopped"} =>
           proc[m] \in {"running", "stopped"} \/ (call = "start" /\ p = m)
    BY <1>1, <2>1 DEF Procs
  <2>4. QED
    BY <1>1, <1>2, <1>3, <2>1, <2>2, <2>3 DEF Types
<1>8. CASE call \in {"sbCreate", "sbStart", "sbQuery", "sbReady", "sbNotReady", "state", "wait", "stdin"}
  <2>1. /\ UNCHANGED <<shim, proc, fault, breach>>
        /\ sandbox' \in {"none", "created", "ready", "stopped"}
    BY <1>1, <1>8 DEF Effect
  <2>2. QED
    BY <1>1, <1>2, <1>3, <2>1 DEF Types
<1>9. QED
  BY <1>4, <1>5, <1>6, <1>7, <1>8 DEF Calls, SandboxCalls, TaskCalls
-----------------------------------------------------------------------------
(***************************************************************************)
(* The invariant, by the kind of step.                                     *)
(***************************************************************************)

\* A step of the test that registers nothing.  It may start a member, if that is
\* tracked next.
LEMMA StepKeeps ==
    ASSUME IInv, NEW call, At(call), call # "track", Advances,
           UNCHANGED <<test, phase, cleanups, tracked>>, asked \subseteq asked',
           \A m \in Members : proc'[m] \in {"running", "stopped"} =>
              proc[m] \in {"running", "stopped"} \/ (At("track") /\ who = m)'
    PROVE  Started' /\ Kept' /\ Emptied' /\ Counted'
<1>1. phase = "body" /\ script[ip].call = call /\ Len(script) \in Nat /\ ip \in 1..Len(script)
  BY AtStep DEF IInv
<1>2. script' = script /\ Len(cleanups) \in Nat
  BY DEF script, IInv, TestOK
<1>3. Started'
  BY <1>1 DEF IInv, Started, At
<1>4. Kept' /\ Emptied'
  BY DEF IInv, Kept, Emptied
<1>5. Counted'
  <2>1. ip' \in Nat /\ ip < ip' /\ ip \in Nat \ {0}
    BY <1>1 DEF Advances
  <2>2. /\ Cardinality(Before(script, ip)) \in Nat
        /\ Cardinality(Before(script, ip)) <= Cardinality(Before(script, ip'))
    BY <2>1, BeforeGrows
  <2>3. Cardinality(Before(script, ip')) \in Nat
    BY <2>1, BeforeGrows
  <2>4. QED
    BY <1>2, <2>2, <2>3 DEF IInv, Counted
<1>6. QED
  BY <1>3, <1>4, <1>5

\* A step that registers a cleanup is one of the script's.
LEMMA RegisteringCounts ==
    ASSUME IInv, ip \in 1..Len(script), Len(script) \in Nat, Registers(script, ip), script' = script,
           ip' = ip + 1, Len(cleanups') = Len(cleanups) + 1
    PROVE  Counted'
<1>1. ip \in Nat \ {0} /\ ip' \in Nat /\ ip < ip' /\ Len(cleanups) \in Nat
  BY DEF IInv, TestOK
<1>2. /\ Cardinality(Before(script, ip)) \in Nat
      /\ Cardinality(Before(script, ip)) + 1 <= Cardinality(Before(script, ip'))
  BY <1>1, BeforeGrows
<1>3. Cardinality(Before(script, ip')) \in Nat
  BY <1>1, BeforeGrows
<1>4. QED
  BY <1>1, <1>2, <1>3 DEF IInv, Counted

\* A step of anyone else.
LEMMA OthersKeep ==
    ASSUME IInv, UNCHANGED <<test, ip, phase, cleanups, tracked, asked>>, NoneStarted
    PROVE  Started' /\ Kept' /\ Emptied' /\ Counted'
<1>1. script' = script
  BY DEF script
<1>2. Started'
  BY <1>1 DEF IInv, Started, NoneStarted, At, who
<1>3. Kept' /\ Emptied' /\ Counted'
  BY <1>1 DEF IInv, Kept, Emptied, Counted
<1>4. QED
  BY <1>2, <1>3
-----------------------------------------------------------------------------
(***************************************************************************)
(* The steps of the test.                                                  *)
(***************************************************************************)
LEMMA InitIInv == Init => IInv
<1> SUFFICES ASSUME Init PROVE IInv
  OBVIOUS
<1>1. Len(script) \in Nat
  BY ScriptOf DEF Init
<1>2. ip = 1 /\ cleanups = <<>> /\ tracked = {} /\ asked = {} /\ phase = "body"
      /\ proc = [p \in Procs |-> "none"] /\ out = [p \in Procs |-> "none"]
  BY DEF Init
<1>3. TestOK
  <2>1. ip \in 1..Len(script) + 1
    BY <1>1, <1>2
  <2>2. cleanups \in Seq(Members \cup {"sandbox"})
    BY <1>2
  <2>3. QED
    BY <1>2, <2>1, <2>2 DEF Init, TestOK
<1>4. ShimOK /\ HistOK
  BY <1>2 DEF Init, ShimOK, HistOK
<1>5. Started /\ Kept /\ Emptied
  BY <1>2 DEF Started, Kept, Emptied, Procs
<1>6. Counted
  <2>1. Cardinality(Before(script, ip)) \in Nat
    BY <1>2, BeforeGrows
  <2>2. QED
    BY <1>2, <2>1 DEF Counted
<1>7. QED
  BY <1>3, <1>4, <1>5, <1>6 DEF IInv

\* A step that goes on leaves the test in its script.
LEMMA TestOKNext ==
    ASSUME TestOK, Advances, UNCHANGED <<world, test, phase, leaked, tracked>>,
           cleanups' \in Seq(Members \cup {"sandbox"}), skipped' \in BOOLEAN, snap' \in BOOLEAN,
           waiter' \in {"off", "started", "done"}
    PROVE  TestOK'
<1>1. script' = script /\ Len(script) \in Nat
  BY ScriptOf DEF script, TestOK
<1>2. ip' \in 1..Len(script) + 1
  BY <1>1 DEF TestOK, Advances
<1>3. QED
  BY <1>1, <1>2 DEF TestOK, Advances

LEMMA startShimIInv == ASSUME IInv, startShim PROVE IInv'
<1>1. /\ UNCHANGED <<world, test, phase, skipped, leaked, cleanups, tracked, snap, waiter, sandbox, proc,
                     out, fed, served, pending, asked, slow, breach>>
      /\ At("shim") /\ (Goes \/ Leaves) /\ shim' \in {"absent", "up"}
      /\ fault' = TRUE \/ fault' = fault
  BY DEF startShim
<1>2. Advances
  BY <1>1, GoesAdvances DEF IInv
<1>3. TestOK'
  BY <1>1, <1>2, TestOKNext DEF IInv, TestOK
<1>4. fault' \in BOOLEAN
  BY <1>1, Zenon DEF IInv, HistOK
<1>5. ShimOK' /\ HistOK'
  BY <1>1, <1>4 DEF IInv, ShimOK, HistOK
<1>6. Started' /\ Kept' /\ Emptied' /\ Counted'
  BY <1>1, <1>2, StepKeeps
<1>7. QED
  BY <1>3, <1>5, <1>6 DEF IInv

\* Whatever an API call answers, the test goes on in its script; a Start that
\* succeeds is followed by the registration.
LEMMA rpcIInv == ASSUME IInv, rpc PROVE IInv'
<1>1. PICK call \in Calls :
       /\ At(call)
       /\ \/ Legal(call, who) /\ Effect(call, who) /\ OnAnswer(Right(call, who))
          \/ /\ ~Legal(call, who) /\ ~Blocked(call, who) /\ OnError
             /\ UNCHANGED <<shim, sandbox, proc, out, fed, fault, breach>>
          \/ /\ hostile /\ ~fault /\ fault' = TRUE
             /\ (OnError \/ OnAnswer(FALSE) \/ (on = "expect" /\ GoesFailed))
             /\ UNCHANGED <<shim, sandbox, proc, out, fed, breach>>
       /\ asked' = IF call = "delete" THEN asked \cup {who} ELSE asked
       /\ UNCHANGED <<world, test, phase, skipped, leaked, cleanups, tracked, snap, waiter,
                      served, pending, slow>>
  BY DEF rpc
<1>2. /\ call # "track" /\ script[ip].call = call /\ phase = "body"
      /\ Len(script) \in Nat /\ ip \in 1..Len(script) /\ failed \in BOOLEAN
      /\ call \in {"delete", "stdin"} => who \in Members
  BY <1>1, AtStep DEF IInv, TestOK, Calls, SandboxCalls, TaskCalls
<1>3. asked \subseteq asked' /\ asked' \subseteq Members
  BY <1>1, <1>2 DEF IInv, HistOK
<1>4. CASE Legal(call, who) /\ Effect(call, who) /\ OnAnswer(Right(call, who))
  <2>1. Right(call, who) \in BOOLEAN
    BY DEF Right
  <2>2. Advances
    BY <1>1, <1>4, <2>1, OnAnswerAdvances DEF IInv
  <2>3. TestOK'
    BY <1>1, <2>2, TestOKNext DEF IInv, TestOK
  <2>4. /\ Types /\ out' \in [Procs -> {"none", "flight", "seen"}] /\ fed' \subseteq Members
        /\ \A m \in Members : proc'[m] \in {"running", "stopped"} =>
              proc[m] \in {"running", "stopped"} \/ (call = "start" /\ who = m)
    BY <1>2, <1>4, EffectKeeps DEF IInv
  <2>5. ShimOK' /\ HistOK'
    BY <1>1, <1>3, <2>4 DEF IInv, ShimOK, HistOK, Types, States
  <2>6. ASSUME NEW m \in Members, call = "start", who = m PROVE (At("track") /\ who = m)'
    <3>1. /\ on = "fatal" /\ ip < Len(script)
          /\ script[ip + 1].call = "track" /\ script[ip + 1].who = who
      BY <1>1, <2>6, AtStep DEF IInv
    <3>2. Right(call, who)
      BY <2>6 DEF Right
    <3>3. ip' = ip + 1
      BY <1>4, <3>1, <3>2 DEF OnAnswer, Goes
    <3>4. script' = script /\ phase' = "body"
      BY <1>1, <1>2 DEF script
    <3>5. QED
      BY <1>2, <2>6, <3>1, <3>3, <3>4 DEF At, who
  <2>7. Started' /\ Kept' /\ Emptied' /\ Counted'
    BY <1>1, <1>2, <1>3, <2>2, <2>4, <2>6, StepKeeps
  <2>8. QED
    BY <2>3, <2>5, <2>7 DEF IInv
<1>5. ASSUME UNCHANGED <<shim, sandbox, proc, out, fed, breach>>, fault' = fault \/ fault' = TRUE,
             OnError \/ OnAnswer(FALSE) \/ GoesFailed
      PROVE  IInv'
  <2>1. Advances
    <3>1. CASE OnError
      BY <1>1, <3>1, OnErrorAdvances DEF IInv
    <3>2. CASE OnAnswer(FALSE)
      BY <1>1, <3>2, OnAnswerAdvances DEF IInv
    <3>3. CASE GoesFailed
      BY <1>2, <3>3 DEF GoesFailed, Advances
    <3>4. QED
      BY <1>5, <3>1, <3>2, <3>3
  <2>2. TestOK'
    BY <1>1, <2>1, TestOKNext DEF IInv, TestOK
  <2>3. fault' \in BOOLEAN
    BY <1>5, Zenon DEF IInv, HistOK
  <2>4. ShimOK' /\ HistOK'
    BY <1>1, <1>3, <1>5, <2>3 DEF IInv, ShimOK, HistOK
  <2>5. Started' /\ Kept' /\ Emptied' /\ Counted'
    BY <1>1, <1>2, <1>3, <1>5, <2>1, StepKeeps
  <2>6. QED
    BY <2>2, <2>4, <2>5 DEF IInv
<1>6. QED
  BY <1>1, <1>4, <1>5

\* startSandboxShimInner registers the cleanup of the sandbox.
LEMMA cleanupIInv == ASSUME IInv, cleanup PROVE IInv'
<1>1. /\ UNCHANGED <<world, test, phase, skipped, leaked, tracked, snap, waiter, shim, sandbox, proc, out,
                     fed, served, pending, asked, fault, slow, breach>>
      /\ At("cleanup") /\ Goes /\ cleanups' = Append(cleanups, "sandbox")
  BY DEF cleanup, shimVars, histVars
<1>2. /\ Len(script) \in Nat /\ ip \in 1..Len(script) /\ script[ip].call = "cleanup"
      /\ script' = script /\ ip' = ip + 1 /\ Advances
  BY <1>1, AtStep, GoesAdvances DEF IInv, script, Goes
<1>3. cleanups' \in Seq(Members \cup {"sandbox"}) /\ Len(cleanups) \in Nat /\ Len(cleanups') = Len(cleanups) + 1
  BY <1>1 DEF IInv, TestOK
<1>4. TestOK'
  BY <1>1, <1>2, <1>3, TestOKNext DEF IInv, TestOK
<1>5. ShimOK' /\ HistOK'
  BY <1>1 DEF IInv, ShimOK, HistOK
<1>6. Started'
  BY <1>1, <1>2 DEF IInv, Started, At
<1>7. Kept' /\ Emptied'
  <2>1. cleanups \in Seq(Members \cup {"sandbox"})
    BY DEF IInv, TestOK
  <2>2. \A i \in 1..Len(cleanups) : i \in 1..Len(cleanups') /\ cleanups'[i] = cleanups[i]
    BY <1>1, <1>3, <2>1
  <2>3. phase' = "body"
    BY <1>1 DEF At
  <2>4. QED
    BY <1>1, <2>2, <2>3 DEF IInv, Kept, Emptied
<1>8. Counted'
  BY <1>2, <1>3, RegisteringCounts DEF Registers, IInv
<1>9. QED
  BY <1>4, <1>5, <1>6, <1>7, <1>8 DEF IInv

\* createContainerInSandbox tracks the member and registers its cleanup.
LEMMA trackIInv == ASSUME IInv, track PROVE IInv'
<1>1. /\ UNCHANGED <<world, test, phase, skipped, leaked, snap, waiter, shim, sandbox, proc, out,
                     fed, served, pending, asked, fault, slow, breach>>
      /\ At("track") /\ Goes /\ cleanups' = Append(cleanups, who) /\ tracked' = tracked \cup {who}
  BY DEF track, shimVars, histVars
<1>2. /\ Len(script) \in Nat /\ ip \in 1..Len(script) /\ script[ip].call = "track"
      /\ script' = script /\ ip' = ip + 1 /\ Advances /\ who \in Members
  BY <1>1, AtStep, GoesAdvances DEF IInv, script, Goes
<1>3. cleanups' \in Seq(Members \cup {"sandbox"}) /\ Len(cleanups) \in Nat /\ Len(cleanups') = Len(cleanups) + 1
  BY <1>1, <1>2 DEF IInv, TestOK
<1>4. TestOK'
  BY <1>1, <1>2, <1>3 DEF IInv, TestOK, Advances
<1>5. ShimOK' /\ HistOK'
  BY <1>1 DEF IInv, ShimOK, HistOK
<1>6. Started'
  BY <1>1, <1>2 DEF IInv, Started
<1>7. Kept' /\ Emptied'
  <2>1. cleanups \in Seq(Members \cup {"sandbox"})
    BY DEF IInv, TestOK
  <2>2. /\ \A i \in 1..Len(cleanups) : i \in 1..Len(cleanups') /\ cleanups'[i] = cleanups[i]
        /\ Len(cleanups') \in 1..Len(cleanups') /\ cleanups'[Len(cleanups')] = who
    BY <1>1, <1>3, <2>1
  <2>3. phase' = "body"
    BY <1>1 DEF At
  <2>4. QED
    BY <1>1, <2>2, <2>3 DEF IInv, Kept, Emptied
<1>8. Counted'
  BY <1>2, <1>3, RegisteringCounts DEF Registers, IInv
<1>9. QED
  BY <1>4, <1>5, <1>6, <1>7, <1>8 DEF IInv

\* A step with a timer, whether it is in time or not.
LEMMA TimedIInv ==
    ASSUME IInv, NEW call, At(call), call # "track", NEW cond \in BOOLEAN, Timed(cond),
           UNCHANGED <<shim, sandbox, proc, out, fed, pending>>, served' \in BOOLEAN
    PROVE  IInv'
<1>1. /\ UNCHANGED <<world, test, phase, skipped, leaked, cleanups, tracked, snap, waiter, asked, fault, breach>>
      /\ (Goes /\ slow' = slow) \/ (OnError /\ slow' = TRUE)
  BY DEF Timed
<1>2. Advances
  BY <1>1, GoesAdvances, OnErrorAdvances DEF IInv
<1>3. slow' \in BOOLEAN
  BY <1>1, Zenon DEF IInv, HistOK
<1>4. TestOK'
  BY <1>1, <1>2, TestOKNext DEF IInv, TestOK
<1>5. ShimOK' /\ HistOK'
  BY <1>1, <1>3 DEF IInv, ShimOK, HistOK
<1>6. Started' /\ Kept' /\ Emptied' /\ Counted'
  BY <1>1, <1>2, StepKeeps
<1>7. QED
  BY <1>4, <1>5, <1>6 DEF IInv

LEMMA TimersIInv ==
    ASSUME IInv, \/ readContainerOutput \/ readOutputs \/ waitForSandboxStatus \/ waitDone
                 \/ waitTimeout \/ hostDone \/ dialInNetnsRoundTrip
    PROVE  IInv'
<1>1. ASSUME UNCHANGED shimVars,
             \/ At("output") /\ Timed(out[who] = "seen")
             \/ At("outputs") /\ Timed(\A m \in Members : out[m] = "seen")
             \/ At("sbPoll") /\ Timed(shim = "up" /\ sandbox = "stopped")
             \/ At("waitDone") /\ Timed(waiter = "done")
             \/ At("wait") /\ Timed(FALSE)
             \/ At("peer") /\ \E seen \in BOOLEAN : Timed(seen)
      PROVE  IInv'
  <2>1. UNCHANGED <<shim, sandbox, proc, out, fed, pending>> /\ served' \in BOOLEAN
    BY <1>1 DEF shimVars, IInv, ShimOK
  <2>2. ASSUME NEW call, At(call), call # "track", NEW cond \in BOOLEAN, Timed(cond) PROVE IInv'
    BY <2>1, <2>2, TimedIInv
  <2>3. CASE At("output") /\ Timed(out[who] = "seen")
    BY <2>2, <2>3
  <2>4. CASE At("outputs") /\ Timed(\A m \in Members : out[m] = "seen")
    BY <2>2, <2>4
  <2>5. CASE At("sbPoll") /\ Timed(shim = "up" /\ sandbox = "stopped")
    BY <2>2, <2>5
  <2>6. CASE At("waitDone") /\ Timed(waiter = "done")
    BY <2>2, <2>6
  <2>7. CASE At("wait") /\ Timed(FALSE)
    BY <2>2, <2>7
  <2>8. CASE At("peer") /\ \E seen \in BOOLEAN : Timed(seen)
    BY <2>2, <2>8
  <2>9. QED
    BY <1>1, <2>3, <2>4, <2>5, <2>6, <2>7, <2>8
<1>2. CASE dialInNetnsRoundTrip
  <2>1. PICK seen \in BOOLEAN : Timed(seen) /\ served' = seen
    BY <1>2 DEF dialInNetnsRoundTrip
  <2>2. At("dial") /\ UNCHANGED <<shim, sandbox, proc, out, fed, pending>>
    BY <1>2 DEF dialInNetnsRoundTrip
  <2>3. QED
    BY <2>1, <2>2, TimedIInv
<1>3. QED
  BY <1>1, <1>2 DEF readContainerOutput, readOutputs, waitForSandboxStatus, waitDone, waitTimeout, hostDone

\* The steps that only look.
LEMMA LooksIInv ==
    ASSUME IInv, \/ containerOutputSnapshot \/ verify \/ verifyNot \/ probe \/ require \/ startWaiter
    PROVE  IInv'
<1>1. ASSUME NEW call, At(call), call # "track", Advances,
             UNCHANGED <<world, test, phase, leaked, cleanups, tracked, shim, sandbox, proc, out, fed,
                         served, pending, asked, breach>>,
             skipped' \in BOOLEAN, snap' \in BOOLEAN, slow' \in BOOLEAN, fault' \in BOOLEAN,
             waiter' \in {"off", "started", "done"}
      PROVE  IInv'
  <2>1. TestOK'
    BY <1>1, TestOKNext DEF IInv, TestOK
  <2>2. ShimOK' /\ HistOK'
    BY <1>1 DEF IInv, ShimOK, HistOK
  <2>3. Started' /\ Kept' /\ Emptied' /\ Counted'
    BY <1>1, StepKeeps
  <2>4. QED
    BY <2>1, <2>2, <2>3 DEF IInv
<1>2. /\ skipped \in BOOLEAN /\ snap \in BOOLEAN /\ slow \in BOOLEAN /\ fault \in BOOLEAN
      /\ waiter \in {"off", "started", "done"}
  BY DEF IInv, TestOK, HistOK
<1>3. CASE containerOutputSnapshot
  <2>1. /\ At("snapshot") /\ Goes /\ UNCHANGED <<skipped, waiter, fault>>
        /\ UNCHANGED <<world, test, phase, leaked, cleanups, tracked, shim, sandbox, proc, out, fed,
                       served, pending, asked, breach>>
    BY <1>3 DEF containerOutputSnapshot, shimVars
  <2>2. snap' \in BOOLEAN /\ slow' \in BOOLEAN
    BY <1>3, Zenon DEF containerOutputSnapshot
  <2>3. Advances
    BY <2>1, GoesAdvances DEF IInv
  <2>4. QED
    BY <1>1, <1>2, <2>1, <2>2, <2>3
<1>4. CASE verify \/ verifyNot
  <2>1. UNCHANGED <<world, test, phase, skipped, leaked, cleanups, tracked, snap, waiter, shim, sandbox,
                    proc, out, fed, served, pending, asked, fault, slow, breach>>
    BY <1>4 DEF verify, verifyNot, shimVars, histVars
  <2>2. ASSUME NEW call, At(call), call # "track", NEW right \in BOOLEAN, OnAnswer(right) PROVE IInv'
    <3>1. Advances
      BY <2>2, OnAnswerAdvances DEF IInv
    <3>2. QED
      BY <1>1, <1>2, <2>1, <2>2, <3>1
  <2>3. CASE verify
    BY <1>2, <2>2, <2>3 DEF verify
  <2>4. CASE verifyNot
    <3>1. At("verifyNot") /\ OnAnswer(~(snap /\ breach = "shared"))
      BY <2>4 DEF verifyNot
    <3>2. QED
      BY <2>2, <3>1
  <2>5. QED
    BY <1>4, <2>3, <2>4
<1>5. CASE probe
  <2>1. UNCHANGED <<world, test, phase, skipped, leaked, cleanups, tracked, snap, waiter, shim, sandbox,
                    proc, out, fed, served, pending, asked, slow, breach>>
    BY <1>5 DEF probe, shimVars
  <2>2. PICK call : At(call) /\ call # "track"
    BY <1>5 DEF probe
  <2>3. /\ Goes \/ OnAnswer(FALSE)
        /\ fault' = fault \/ fault' = TRUE
    BY <1>5 DEF probe
  <2>4. Advances
    BY <2>2, <2>3, GoesAdvances, OnAnswerAdvances DEF IInv
  <2>5. fault' \in BOOLEAN
    BY <1>2, <2>3, Zenon
  <2>6. QED
    BY <1>1, <1>2, <2>1, <2>2, <2>4, <2>5
<1>6. CASE require
  <2>1. /\ At("require")
        /\ UNCHANGED <<world, test, phase, leaked, cleanups, tracked, snap, waiter, shim, sandbox,
                       proc, out, fed, served, pending, asked, fault, slow, breach>>
        /\ \/ Goes /\ skipped' = skipped
           \/ ip' = Len(script) + 1 /\ skipped' = TRUE /\ failed' = failed
    BY <1>6 DEF require, shimVars, histVars
  <2>2. skipped' \in BOOLEAN
    BY <1>2, <2>1, Zenon
  <2>3. Advances
    <3>1. Len(script) \in Nat /\ ip \in 1..Len(script) /\ failed \in BOOLEAN
      BY <2>1, AtStep DEF IInv, TestOK
    <3>2. CASE Goes
      BY <2>1, <3>2, GoesAdvances DEF IInv
    <3>3. CASE ip' = Len(script) + 1 /\ failed' = failed
      BY <3>1, <3>3 DEF Advances
    <3>4. QED
      BY <2>1, <3>2, <3>3
  <2>4. QED
    BY <1>1, <1>2, <2>1, <2>2, <2>3
<1>7. CASE startWaiter
  <2>1. /\ At("waiter") /\ Goes /\ waiter' = "started"
        /\ UNCHANGED <<world, test, phase, skipped, leaked, cleanups, tracked, snap, shim, sandbox,
                       proc, out, fed, served, pending, asked, fault, slow, breach>>
    BY <1>7 DEF startWaiter, shimVars, histVars
  <2>2. Advances
    BY <2>1, GoesAdvances DEF IInv
  <2>3. QED
    BY <1>1, <1>2, <2>1, <2>2
<1>8. QED
  BY <1>3, <1>4, <1>5, <1>6, <1>7

LEMMA BodyEndsIInv == ASSUME IInv, BodyEnds PROVE IInv'
<1>1. /\ UNCHANGED <<world, test, ip, failed, skipped, leaked, cleanups, tracked, snap, waiter, shim,
                     sandbox, proc, out, fed, served, pending, asked, fault, slow, breach>>
      /\ phase = "body" /\ ip > Len(script) /\ phase' = "cleanup" /\ script' = script
  BY DEF BodyEnds, shimVars, histVars, script
<1>2. TestOK' /\ ShimOK' /\ HistOK'
  BY <1>1 DEF IInv, TestOK, ShimOK, HistOK
<1>3. ~At("track")
  <2>1. Len(script) \in Nat /\ ip \in Nat
    BY ScriptOf DEF IInv, TestOK
  <2>2. QED
    BY <1>1, <2>1 DEF At
<1>4. Started' /\ Kept' /\ Emptied' /\ Counted'
  BY <1>1, <1>3 DEF IInv, Started, Kept, Emptied, Counted
<1>5. QED
  BY <1>2, <1>4 DEF IInv

\* The cleanups run, last registered first: a member's own one deletes it, and the
\* sandbox's deletes whatever is still tracked.
LEMMA CleanupIInv == ASSUME IInv, Cleanup PROVE IInv'
<1>1. /\ UNCHANGED <<world, test, ip, failed, skipped, leaked, snap, waiter, shim, sandbox, proc, out,
                     fed, served, fault, slow, breach>>
      /\ phase = "cleanup" /\ script' = script
      /\ cleanups \in Seq(Members \cup {"sandbox"}) /\ Len(cleanups) \in Nat
  BY DEF Cleanup, script, IInv, TestOK
<1>2. CASE cleanups = <<>>
  <2>1. UNCHANGED <<cleanups, tracked, pending, asked>> /\ phase' = "leak"
    BY <1>2 DEF Cleanup
  <2>2. TestOK' /\ ShimOK' /\ HistOK'
    BY <1>1, <2>1 DEF IInv, TestOK, ShimOK, HistOK
  <2>3. Started' /\ Kept' /\ Emptied' /\ Counted'
    BY <1>1, <1>2, <2>1 DEF IInv, Started, Kept, Emptied, Counted, At
  <2>4. QED
    BY <2>2, <2>3 DEF IInv
<1>3. CASE cleanups # <<>>
  <2> DEFINE top == cleanups[Len(cleanups)]
  <2>1. /\ cleanups' = SubSeq(cleanups, 1, Len(cleanups) - 1) /\ phase' = "cleanup"
        /\ IF top = "sandbox" THEN shutdownSandboxShim ELSE memberCleanup(top)
    BY <1>1, <1>3 DEF Cleanup
  <2>2. Len(cleanups) \in Nat \ {0} /\ Len(cleanups) \in 1..Len(cleanups)
    BY <1>1, <1>3, EmptySeq
  <2>3. top \in Members \cup {"sandbox"}
    BY <1>1, <2>2, ElementOfSeq
  <2>4. /\ cleanups' \in Seq(Members \cup {"sandbox"}) /\ Len(cleanups') = Len(cleanups) - 1
        /\ \A i \in 1..Len(cleanups) - 1 : cleanups'[i] = cleanups[i]
    <3> DEFINE k == Len(cleanups) - 1
    <3>1. \A n \in Nat \ {0} : n - 1 \in Nat /\ n - 1 \in Int /\ (n - 1) - 1 + 1 = n - 1
                              /\ (~(1 <= n - 1) => n - 1 = 0)
      OBVIOUS
    <3>2. k \in Nat /\ k \in Int /\ k - 1 + 1 = k /\ (~(1 <= k) => k = 0)
      BY <2>2, <3>1
    <3>3. \A i \in 1..k : cleanups[i] \in Members \cup {"sandbox"}
      BY <1>1, <2>2, ElementOfSeq
    <3>4. /\ cleanups' \in Seq(Members \cup {"sandbox"})
          /\ Len(cleanups') = IF 1 <= k THEN k - 1 + 1 ELSE 0
          /\ \A i \in 1..k - 1 + 1 : cleanups'[i] = cleanups[1 + i - 1]
      BY <2>1, <3>2, <3>3, SubSeqProperties
    <3>5. \A i \in 1..k : 1 + i - 1 = i
      BY <3>2
    <3>6. QED
      BY <3>2, <3>4, <3>5
  <2> HIDE DEF top
  <2>5. Emptied' /\ Counted'
    <3>1. Cardinality(Before(script, ip)) \in Nat
      <4>1. ip \in Nat \ {0} /\ ip + 1 \in Nat /\ ip < ip + 1
        BY ScriptOf DEF IInv, TestOK
      <4>2. QED
        BY <4>1, BeforeGrows
    <3>2. QED
      BY <1>1, <2>1, <2>2, <2>4, <3>1 DEF IInv, Emptied, Counted
  <2>6. CASE top = "sandbox"
    <3> DEFINE P == {"kill", "delete"} \X Members
               Q == {"sbStop", "sbShutdown"} \X {"none"}
               V == {<<"sbStop", "none">>, <<"sbShutdown", "none">>}
    <3>1. shutdownSandboxShim
      BY <2>1, <2>6
    <3>2. \A r \in pending' : r \in pending \/ (\E m \in tracked : r \in Teardown(m)) \/ r \in V
      BY <3>1 DEF shutdownSandboxShim
    <3>3. asked' = asked \cup tracked /\ tracked' = tracked
      BY <3>1 DEF shutdownSandboxShim
    <3>4. \A m \in tracked : Teardown(m) \subseteq P
      BY DEF Teardown, IInv, TestOK
    <3>5. V \subseteq Q
      OBVIOUS
    <3>6. pending \subseteq P \cup Q
      BY DEF IInv, ShimOK
    <3> HIDE DEF P, Q, V
    <3>7. pending' \subseteq P \cup Q
      BY <3>2, <3>4, <3>5, <3>6
    <3>8. ShimOK'
      BY <1>1, <3>7 DEF IInv, ShimOK, P, Q
    <3>9. TestOK' /\ HistOK'
      BY <1>1, <2>1, <2>4, <3>3 DEF IInv, TestOK, HistOK
    <3>10. Started' /\ Kept'
      BY <1>1, <2>1, <3>3 DEF IInv, Started, Kept, At
    <3>11. QED
      BY <2>5, <3>8, <3>9, <3>10 DEF IInv
  <2>7. CASE top # "sandbox"
    <3>1. /\ pending' = pending \cup Teardown(top) /\ asked' = asked \cup {top}
          /\ tracked' = tracked \ {top} /\ top \in Members
      BY <2>1, <2>3, <2>7 DEF memberCleanup
    <3>2. TestOK' /\ HistOK'
      BY <1>1, <2>1, <2>4, <3>1 DEF IInv, TestOK, HistOK
    <3>3. ShimOK'
      BY <1>1, <3>1 DEF IInv, ShimOK, Teardown
    <3>4. Started'
      BY <1>1, <2>1, <3>1 DEF IInv, Started, At
    <3>5. Kept'
      <4> SUFFICES ASSUME NEW m \in tracked'
                   PROVE  m \in asked' \/ \E i \in 1..Len(cleanups') : cleanups'[i] = m
        BY DEF Kept
      <4>1. m \in tracked /\ m # top
        BY <3>1
      <4>2. CASE m \in asked
        BY <3>1, <4>2
      <4>3. CASE \E i \in 1..Len(cleanups) : cleanups[i] = m
        <5>1. PICK i \in 1..Len(cleanups) : cleanups[i] = m
          BY <4>3
        <5>2. i # Len(cleanups)
          BY <4>1, <5>1 DEF top
        <5>3. i \in 1..Len(cleanups')
          BY <1>1, <2>2, <2>4, <5>2
        <5>4. i \in 1..Len(cleanups) - 1
          BY <2>4, <5>3
        <5>5. QED
          BY <2>4, <5>1, <5>3, <5>4
      <4>4. QED
        BY <4>1, <4>2, <4>3 DEF IInv, Kept
    <3>6. QED
      BY <2>5, <3>2, <3>3, <3>4, <3>5 DEF IInv
  <2>8. QED
    BY <2>6, <2>7
<1>4. QED
  BY <1>2, <1>3

LEMMA LeakCheckIInv == ASSUME IInv, registerShimLeakCheck PROVE IInv'
<1>1. /\ UNCHANGED <<world, test, ip, failed, skipped, cleanups, tracked, snap, waiter, shim, sandbox,
                     proc, out, fed, served, pending, asked, fault, breach>>
      /\ phase = "leak" /\ phase' = "ended" /\ script' = script
  BY DEF registerShimLeakCheck, shimVars, script
<1>2. leaked' \in BOOLEAN /\ slow' \in BOOLEAN
  BY Zenon DEF registerShimLeakCheck
<1>3. TestOK' /\ ShimOK' /\ HistOK'
  BY <1>1, <1>2 DEF IInv, TestOK, ShimOK, HistOK
<1>4. Started' /\ Kept' /\ Emptied' /\ Counted'
  BY <1>1 DEF IInv, Started, Kept, Emptied, Counted, At
<1>5. QED
  BY <1>3, <1>4 DEF IInv
-----------------------------------------------------------------------------
(***************************************************************************)
(* The steps of the others.                                                *)
(***************************************************************************)
LEMMA TestOKStands ==
    ASSUME TestOK, UNCHANGED <<world, test, ip, phase, failed, skipped, leaked, cleanups, tracked, snap>>,
           waiter' \in {"off", "started", "done"}
    PROVE  TestOK'
<1>1. script' = script
  BY DEF script
<1>2. QED
  BY <1>1 DEF TestOK

LEMMA WaitSandboxIInv == ASSUME IInv, WaitSandbox PROVE IInv'
<1>1. /\ UNCHANGED <<world, test, ip, phase, failed, skipped, leaked, cleanups, tracked, snap, shim,
                     sandbox, proc, out, fed, served, pending, asked, slow, breach>>
      /\ waiter' = "done" /\ (fault' = fault \/ fault' = TRUE)
  BY DEF WaitSandbox, shimVars
<1>2. fault' \in BOOLEAN
  BY <1>1, Zenon DEF IInv, HistOK
<1>3. TestOK'
  BY <1>1, TestOKStands DEF IInv
<1>4. ShimOK' /\ HistOK'
  BY <1>1, <1>2 DEF IInv, ShimOK, HistOK
<1>5. Started' /\ Kept' /\ Emptied' /\ Counted'
  BY <1>1, OthersKeep DEF NoneStarted
<1>6. QED
  BY <1>3, <1>4, <1>5 DEF IInv

\* A request that nobody waits for stops processes, it starts none.
LEMMA ServesIInv == ASSUME IInv, Serves PROVE IInv'
<1>1. PICK r \in pending :
         /\ \/ Legal(r[1], r[2]) /\ Effect(r[1], r[2])
            \/ ~Legal(r[1], r[2]) /\ UNCHANGED <<shim, sandbox, proc, out, fed, fault, breach>>
         /\ pending' = IF shim' = "up" THEN pending \ {r} ELSE {}
         /\ UNCHANGED <<testVars, served, asked, slow>>
  BY DEF Serves
<1>2. UNCHANGED <<world, test, ip, phase, failed, skipped, leaked, cleanups, tracked, snap, waiter,
                  served, asked, slow>>
  BY <1>1 DEF testVars
<1>3. /\ r[1] \in {"kill", "delete", "sbStop", "sbShutdown"}
      /\ pending' \subseteq ({"kill", "delete"} \X Members) \cup ({"sbStop", "sbShutdown"} \X {"none"})
  BY <1>1 DEF IInv, ShimOK
<1>4. /\ Types /\ out' \in [Procs -> {"none", "flight", "seen"}] /\ fed' \subseteq Members /\ NoneStarted
  <2>1. CASE Legal(r[1], r[2]) /\ Effect(r[1], r[2])
    <3>1. r[1] \in Calls /\ r[1] # "stdin" /\ r[1] # "start"
      BY <1>3 DEF Calls, SandboxCalls, TaskCalls
    <3>2. QED
      BY <2>1, <3>1, EffectKeeps DEF IInv, NoneStarted
  <2>2. CASE UNCHANGED <<shim, sandbox, proc, out, fed, fault, breach>>
    BY <2>2 DEF IInv, ShimOK, HistOK, Types, States, NoneStarted
  <2>3. QED
    BY <1>1, <2>1, <2>2
<1>5. TestOK'
  BY <1>2, TestOKStands DEF IInv, TestOK
<1>6. ShimOK' /\ HistOK'
  BY <1>2, <1>3, <1>4 DEF IInv, ShimOK, HistOK, Types, States
<1>7. Started' /\ Kept' /\ Emptied' /\ Counted'
  BY <1>2, <1>4, OthersKeep
<1>8. QED
  BY <1>5, <1>6, <1>7 DEF IInv

LEMMA ProcessIInv ==
    ASSUME IInv, NEW p \in Procs, Prints(p) \/ Arrives(p) \/ ProcExits(p) PROVE IInv'
<1>1. ASSUME UNCHANGED <<testVars, shim, sandbox, fed, pending, asked, slow>>,
             proc' \in [Procs -> States], NoneStarted, out' \in [Procs -> {"none", "flight", "seen"}],
             served' \in BOOLEAN, fault' = fault, breach' \in {"none", "peer", "stop", "shared"}
      PROVE  IInv'
  <2>1. UNCHANGED <<world, test, ip, phase, failed, skipped, leaked, cleanups, tracked, snap, waiter>>
    BY <1>1 DEF testVars
  <2>2. TestOK'
    BY <2>1, TestOKStands DEF IInv, TestOK
  <2>3. ShimOK' /\ HistOK'
    BY <1>1 DEF IInv, ShimOK, HistOK, States
  <2>4. Started' /\ Kept' /\ Emptied' /\ Counted'
    BY <1>1, <2>1, OthersKeep
  <2>5. QED
    BY <2>2, <2>3, <2>4 DEF IInv
<1>2. /\ proc \in [Procs -> States] /\ out \in [Procs -> {"none", "flight", "seen"}]
      /\ served \in BOOLEAN /\ breach \in {"none", "peer", "stop", "shared"}
  BY DEF IInv, ShimOK, HistOK, States
<1>3. CASE Prints(p)
  <2>1. /\ UNCHANGED <<testVars, shim, sandbox, proc, fed, pending, asked, fault, slow>>
        /\ out' = [out EXCEPT ![p] = "flight"] /\ (breach' = breach \/ breach' = "shared")
    BY <1>3 DEF Prints
  <2>2. served' \in BOOLEAN
    BY <1>3, Zenon DEF Prints
  <2>3. QED
    BY <1>1, <1>2, <2>1, <2>2 DEF NoneStarted
<1>4. CASE Arrives(p)
  <2>1. /\ UNCHANGED <<testVars, shim, sandbox, proc, fed, served, pending, asked, fault, slow, breach>>
        /\ out' = [out EXCEPT ![p] = "seen"]
    BY <1>4 DEF Arrives, histVars
  <2>2. QED
    BY <1>1, <1>2, <2>1 DEF NoneStarted
<1>5. CASE ProcExits(p)
  <2>1. /\ UNCHANGED <<testVars, shim, sandbox, out, fed, served, pending, asked, slow>>
        /\ proc[p] = "running" /\ Ends(p, "stopped")
    BY <1>5 DEF ProcExits
  <2>2. QED
    BY <1>1, <1>2, <2>1, EndsKeeps DEF IInv
<1>6. QED
  BY <1>3, <1>4, <1>5

LEMMA NextIInv == IInv /\ [Next]_vars => IInv'
<1> SUFFICES ASSUME IInv, [Next]_vars PROVE IInv'
  OBVIOUS
<1>1. CASE Body
  BY <1>1, startShimIInv, rpcIInv, cleanupIInv, trackIInv, TimersIInv, LooksIInv DEF Body
<1>2. CASE BodyEnds \/ Cleanup \/ registerShimLeakCheck
  BY <1>2, BodyEndsIInv, CleanupIInv, LeakCheckIInv
<1>3. CASE World
  BY <1>3, WaitSandboxIInv, ServesIInv, ProcessIInv DEF World
<1>4. CASE UNCHANGED vars
  <2>1. /\ UNCHANGED <<world, test, ip, phase, failed, skipped, leaked, cleanups, tracked, snap, waiter>>
        /\ UNCHANGED <<shim, sandbox, proc, out, fed, served, pending, asked, fault, slow, breach>>
    BY <1>4 DEF vars, testVars, shimVars, histVars
  <2>2. TestOK'
    BY <2>1, TestOKStands DEF IInv, TestOK
  <2>3. ShimOK' /\ HistOK'
    BY <2>1 DEF IInv, ShimOK, HistOK
  <2>4. Started' /\ Kept' /\ Emptied' /\ Counted'
    BY <2>1, OthersKeep DEF NoneStarted
  <2>5. QED
    BY <2>2, <2>3, <2>4 DEF IInv
<1>5. QED
  BY <1>1, <1>2, <1>3, <1>4 DEF Next, Test

LEMMA Inductive == Spec => []IInv
BY InitIInv, NextIInv, PTL DEF Spec
-----------------------------------------------------------------------------
\* No test leaves its script or registers more cleanups than one for every member
\* and one for the sandbox, and what the shim is sent after the test are requests
\* of the cleanups (startSandboxShim, createContainerInSandbox).
THEOREM TypeCorrect == Spec => []TypeOK
<1>1. ASSUME IInv PROVE TypeOK
  <2>1. Len(cleanups) <= MaxCleanups
    BY <1>1, CleanupsBounded DEF IInv
  <2>2. {failed, skipped, leaked, snap, served, fault, slow} \subseteq BOOLEAN
    BY <1>1, Zenon DEF IInv, TestOK, ShimOK, HistOK
  <2>3. QED
    BY <1>1, <2>1, <2>2 DEF IInv, TestOK, ShimOK, HistOK, TypeOK
<1>2. QED
  BY <1>1, Inductive, PTL

\* When the cleanups have run, Delete was called for every member that was tracked
\* or ever ran, at whichever step the test gave up and whatever the shim did
\* (createContainerInSandbox, shutdownSandboxShim).
THEOREM MembersAreTornDown == Spec => []MembersTornDown
<1>1. ASSUME IInv PROVE MembersTornDown
  <2> SUFFICES ASSUME phase \in {"leak", "ended"}, NEW m \in Members,
                      m \in tracked \/ proc[m] \in {"running", "stopped"}
               PROVE  m \in asked
    BY DEF MembersTornDown
  <2>1. cleanups = <<>> /\ ~At("track")
    BY <1>1 DEF IInv, Emptied, At
  <2>2. m \in tracked \/ m \in asked
    BY <1>1, <2>1 DEF IInv, Started
  <2>3. m \in tracked => m \in asked
    BY <1>1, <2>1 DEF IInv, Kept
  <2>4. QED
    BY <2>2, <2>3
<1>2. QED
  BY <1>1, Inductive, PTL
-----------------------------------------------------------------------------
(***************************************************************************)
(* What the test and the shim know of each other, as long as no call was   *)
(* answered wrongly and nothing has failed.                                *)
(***************************************************************************)
Quiet == ~fault /\ ~failed
Here == phase = "body" /\ ~skipped

\* The calls behind the step the test is at.
Did(call, p) == Done(script, ip, call, p)
AskedFor(call) == Did(call, "none")
IsDown == AskedFor("sbShutdown") \/ AskedFor("shutdown")
IsMade(p) == Made(script, ip, p)

\* The shim and its sandbox, by the calls that were made for them.
ShimAt == shim = IF IsDown THEN "down" ELSE IF AskedFor("shim") THEN "up" ELSE "absent"
SandboxAt ==
    IF IsDown THEN sandbox = "stopped"
    ELSE IF AskedFor("sbStop")
         THEN sandbox \in {"ready", "stopped"} /\ (breach = "none" => sandbox = "stopped")
         ELSE sandbox = IF AskedFor("sbStart") THEN "ready"
                        ELSE IF AskedFor("sbCreate") THEN "created" ELSE "none"

\* A process, by those that were made for it.
ProcAt(p) ==
    /\ proc[p] = "none" <=> ~IsMade(p)
    /\ proc[p] = "created" <=> IsMade(p) /\ ~Did("start", p)
    /\ proc[p] = "deleted" => Did("delete", p)
    /\ Did("wait", p) => proc[p] \notin {"created", "running"}

\* What the test has by then.
TestAt ==
    /\ Behind(script, ip, {"snapshot"}) => snap \/ slow
    /\ AskedFor("cleanup") => /\ sandbox \in {"ready", "stopped"}
                              /\ \E i \in 1..Len(cleanups) : cleanups[i] = "sandbox"
    /\ waiter = "done" => sandbox = "stopped"
    /\ \A m \in fed : Did("stdin", m)

Facts == ShimAt /\ SandboxAt /\ (\A p \in Procs : ProcAt(p)) /\ TestAt
Known == Quiet /\ Here => Facts

\* Where a jump can have led, and what there is only at the end.
Place ==
    /\ phase # "body" => ip = Len(script) + 1
    /\ skipped => ip = Len(script) + 1 /\ Ahead(script, 1, {"require"})
    /\ phase = "body" => pending = {}

\* The test is over: its cleanups end the shim.
Ending ==
    Quiet /\ ~Here /\ shim = "up" =>
       /\ sandbox \in {"ready", "stopped"}
       /\ \/ \E i \in 1..Len(cleanups) : cleanups[i] = "sandbox"
          \/ <<"sbShutdown", "none">> \in pending

\* A member that runs nc has nothing to print before it is fed.
Fed == \A m \in Members : program(m) = "nc" /\ out[m] # "none" => m \in fed

\* A session in which nothing went wrong.
Clean == ~fault /\ ~slow /\ breach = "none"
Fine ==
    Clean => /\ ~failed /\ ~leaked
             /\ Here => \A m \in Members : Runs(test, ip, m) => proc[m] = "running"

\* A member that was stopped with another will be missed.
PeerMissed ==
    Quiet /\ test \in Isolating /\ breach = "peer" =>
       \E m \in Members : proc[m] \in {"stopped", "deleted"} /\ Watched(script, ip, m)

\* A sandbox that was asked to stop and did not is looked at next.
GoesOn == Here /\ AskedFor("sbStop") /\ ~IsDown /\ sandbox = "ready"
StopMissed ==
    Quiet /\ test \in Stopping => /\ GoesOn => ip <= Len(script) /\ Probes(script, ip)
                                  /\ breach = "stop" => GoesOn

\* The name of another member, once printed, is still to be looked at.
ShareSeen ==
    Quiet /\ test = Separating =>
       /\ ~Here => proc["c"] # "running"
       /\ breach = "shared" /\ ~slow => Here /\ IsMade("c") /\ Ahead(script, ip, {"verifyNot"})

Told == Place /\ Fed /\ Known /\ Ending /\ Fine /\ PeerMissed /\ StopMissed /\ ShareSeen
-----------------------------------------------------------------------------
(***************************************************************************)
(* The place in the script.                                                *)
(***************************************************************************)
LEMMA RulesOf ==
    ASSUME test \in Tests
    PROVE  /\ Whole(script) /\ Len(script) \in Nat
           /\ \A i \in 1..Len(script) : SandboxProtocol(script, i) /\ TaskProtocol(test, i)
           /\ test \in Isolating => \A i \in 1..Len(script) + 1 : Isolates(test, i)
           /\ test \in Stopping => \A i \in 1..Len(script) : Halts(script, i)
           /\ test = Separating => \A i \in 1..Len(script) + 1 : Separates(script, i)
BY TestsAssumption, ScriptsAssumption DEF script, Whole

LEMMA HereOK ==
    ASSUME TestOK, NEW call, At(call)
    PROVE  /\ phase = "body" /\ ip \in 1..Len(script) /\ ip \in Nat \ {0} /\ Len(script) \in Nat
           /\ script[ip].call = call
           /\ SandboxProtocol(script, ip) /\ TaskProtocol(test, ip)
           /\ test \in Isolating => Isolates(test, ip)
           /\ test \in Stopping => Halts(script, ip)
           /\ test = Separating => Separates(script, ip)
<1>1. ip \in 1..Len(script) /\ phase = "body" /\ script[ip].call = call /\ Len(script) \in Nat
  BY AtStep
<1>2. test \in Tests /\ ip \in 1..Len(script) + 1
  BY DEF TestOK
<1>3. QED
  BY <1>1, <1>2, RulesOf

LEMMA BehindStep ==
    ASSUME NEW s, NEW i \in Nat \ {0}, NEW C
    PROVE  Behind(s, i + 1, C) <=> Behind(s, i, C) \/ s[i].call \in C
BY DEF Behind

LEMMA AheadStep ==
    ASSUME NEW s, Len(s) \in Nat, NEW i \in 1..Len(s), NEW C
    PROVE  Ahead(s, i, C) <=> Ahead(s, i + 1, C) \/ s[i].call \in C
<1>1. i..Len(s) = {i} \cup (i + 1..Len(s))
  OBVIOUS
<1>2. QED
  BY <1>1 DEF Ahead

LEMMA WatchedStep ==
    ASSUME NEW s, Len(s) \in Nat, NEW i \in 1..Len(s), NEW m
    PROVE  Watched(s, i, m) <=> Watched(s, i + 1, m) \/ Watches(s, i, m)
<1>1. i..Len(s) = {i} \cup (i + 1..Len(s))
  OBVIOUS
<1>2. QED
  BY <1>1 DEF Watched

LEMMA DoneStep ==
    ASSUME NEW s, NEW i \in Nat \ {0}, NEW c, NEW p, c # "exec"
    PROVE  Done(s, i + 1, c, p) <=> \/ s[i].call = c /\ s[i].who = p /\ s[i].on # "expect"
                                    \/ Done(s, i, c, p) /\ (p = "x" => s[i].call # "exec")
<1>1. ASSUME Done(s, i + 1, c, p)
      PROVE  \/ s[i].call = c /\ s[i].who = p /\ s[i].on # "expect"
             \/ Done(s, i, c, p) /\ (p = "x" => s[i].call # "exec")
  <2>1. PICK j \in 1..i : /\ s[j].call = c /\ s[j].who = p /\ s[j].on # "expect"
                          /\ p = "x" => \A k \in j..i : s[k].call # "exec"
    BY <1>1 DEF Done
  <2>2. CASE j = i
    BY <2>1, <2>2
  <2>3. CASE j # i
    <3>1. j \in 1..i - 1 /\ i \in j..i /\ \A k \in j..i - 1 : k \in j..i
      BY <2>3
    <3>2. QED
      BY <2>1, <3>1 DEF Done
  <2>4. QED
    BY <2>2, <2>3
<1>2. ASSUME s[i].call = c, s[i].who = p, s[i].on # "expect" PROVE Done(s, i + 1, c, p)
  <2>1. i \in 1..(i + 1) - 1 /\ \A k \in i..(i + 1) - 1 : k = i
    OBVIOUS
  <2>2. QED
    BY <1>2, <2>1 DEF Done
<1>3. ASSUME Done(s, i, c, p), p = "x" => s[i].call # "exec" PROVE Done(s, i + 1, c, p)
  <2>1. PICK j \in 1..i - 1 : /\ s[j].call = c /\ s[j].who = p /\ s[j].on # "expect"
                              /\ p = "x" => \A k \in j..i - 1 : s[k].call # "exec"
    BY <1>3 DEF Done
  <2>2. j \in 1..(i + 1) - 1 /\ \A k \in j..(i + 1) - 1 : k = i \/ k \in j..i - 1
    OBVIOUS
  <2>3. QED
    BY <1>3, <2>1, <2>2 DEF Done
<1>4. QED
  BY <1>1, <1>2, <1>3

\* One step further.
LEMMA StepsOn ==
    ASSUME TestOK, NEW call, At(call), ip' = ip + 1, test' = test
    PROVE  /\ script' = script
           /\ \A c, p : c # "exec" =>
                 (Did(c, p)' <=> \/ call = c /\ who = p /\ on # "expect"
                                 \/ Did(c, p) /\ (p = "x" => call # "exec"))
           /\ \A c : c # "exec" => (AskedFor(c)' <=> AskedFor(c) \/ (call = c /\ who = "none" /\ on # "expect"))
           /\ \A p : IsMade(p)' <=> \/ IsMade(p)
                                    \/ p = "x" /\ call = "exec"
                                    \/ p # "x" /\ call = "create" /\ who = p /\ on # "expect"
           /\ \A C : Behind(script, ip, C)' <=> Behind(script, ip, C) \/ call \in C
<1>1. /\ script' = script /\ script[ip].call = call /\ who = script[ip].who /\ on = script[ip].on
      /\ ip \in Nat \ {0}
  BY HereOK DEF script, who, on
<1>2. ASSUME NEW c, NEW p, c # "exec"
      PROVE  Did(c, p)' <=> \/ call = c /\ who = p /\ on # "expect"
                            \/ Did(c, p) /\ (p = "x" => call # "exec")
  BY <1>1, <1>2, DoneStep DEF Did
<1>3. ASSUME NEW c, c # "exec"
      PROVE  AskedFor(c)' <=> AskedFor(c) \/ (call = c /\ who = "none" /\ on # "expect")
  BY <1>2, <1>3 DEF AskedFor
<1>4. ASSUME NEW C PROVE Behind(script, ip, C)' <=> Behind(script, ip, C) \/ call \in C
  BY <1>1, BehindStep
<1>5. ASSUME NEW p
      PROVE  IsMade(p)' <=> \/ IsMade(p)
                            \/ p = "x" /\ call = "exec"
                            \/ p # "x" /\ call = "create" /\ who = p /\ on # "expect"
  <2>1. CASE p = "x"
    BY <1>4, <2>1 DEF IsMade, Made
  <2>2. CASE p # "x"
    BY <1>2, <2>2 DEF IsMade, Made, Did
  <2>3. QED
    BY <2>1, <2>2
<1>6. QED
  BY <1>1, <1>2, <1>3, <1>4, <1>5

LEMMA Stands ==
    ASSUME ip' = ip, test' = test
    PROVE  /\ script' = script
           /\ \A c, p : Did(c, p)' <=> Did(c, p)
           /\ \A c : AskedFor(c)' <=> AskedFor(c)
           /\ IsDown' <=> IsDown
           /\ \A p : IsMade(p)' <=> IsMade(p)
           /\ \A C : Behind(script, ip, C)' <=> Behind(script, ip, C)
           /\ \A C : Ahead(script, ip, C)' <=> Ahead(script, ip, C)
           /\ \A m : Watched(script, ip, m)' <=> Watched(script, ip, m)
<1>1. script' = script
  BY DEF script
<1>2. QED
  BY <1>1 DEF Did, AskedFor, IsDown, IsMade
-----------------------------------------------------------------------------
(***************************************************************************)
(* What a call does when it is legal.                                      *)
(***************************************************************************)

\* Processes only end; the one that is deleted goes.
Decays(m) ==
    \A p \in Procs : \/ proc'[p] = proc[p]
                     \/ proc[p] = "running" /\ proc'[p] = "stopped"
                     \/ p = m /\ proc[p] \in {"running", "stopped"} /\ proc'[p] = "deleted"

\* One of them was taken along.
TakesAlong(p) ==
    breach' = "peer" /\ \E q \in Members \ {p} : proc[q] = "running" /\ proc'[q] = "stopped"

LEMMA EndsDecays ==
    ASSUME ShimOK, NEW p, proc[p] \in {"running", "stopped"}, NEW how \in {"stopped", "deleted"},
           proc[p] = "running" \/ how = "deleted", Ends(p, how)
    PROVE  /\ Decays(IF how = "deleted" THEN p ELSE "none") /\ fault' = fault
           /\ breach' = breach \/ TakesAlong(p)
           /\ \A q \in Procs \ {p} : proc'[q] = proc[q] \/ TakesAlong(p)
<1>1. proc \in [Procs -> States]
  BY DEF ShimOK, States
<1>2. CASE proc' = [proc EXCEPT ![p] = how] /\ UNCHANGED <<fault, breach>>
  <2>1. \A q \in Procs : proc'[q] = IF q = p THEN how ELSE proc[q]
    BY <1>1, <1>2
  <2>2. QED
    BY <1>2, <2>1 DEF Decays
<1>3. ASSUME NEW q \in Members \ {p}, proc[q] = "running", fault' = fault, breach' = "peer",
             proc' = [proc EXCEPT ![p] = how, ![q] = "stopped"]
      PROVE  Decays(IF how = "deleted" THEN p ELSE "none") /\ TakesAlong(p)
  <2>1. \A r \in Procs : proc'[r] = IF r = q THEN "stopped" ELSE IF r = p THEN how ELSE proc[r]
    BY <1>1, <1>3
  <2>2. q \in Procs
    BY DEF Procs
  <2>3. TakesAlong(p)
    BY <1>3, <2>1, <2>2 DEF TakesAlong
  <2>4. Decays(IF how = "deleted" THEN p ELSE "none")
    BY <1>3, <2>1 DEF Decays
  <2>5. QED
    BY <2>3, <2>4
<1>4. \/ proc' = [proc EXCEPT ![p] = how] /\ UNCHANGED <<fault, breach>>
      \/ /\ fault' = fault /\ breach' = "peer"
         /\ \E q \in Members \ {p} :
               proc[q] = "running" /\ proc' = [proc EXCEPT ![p] = how, ![q] = "stopped"]
  BY DEF Ends
<1>5. CASE /\ fault' = fault /\ breach' = "peer"
           /\ \E q \in Members \ {p} :
                 proc[q] = "running" /\ proc' = [proc EXCEPT ![p] = how, ![q] = "stopped"]
  BY <1>3, <1>5
<1>6. ASSUME proc' = [proc EXCEPT ![p] = how] PROVE \A q \in Procs \ {p} : proc'[q] = proc[q]
  BY <1>1, <1>6
<1>7. QED
  BY <1>2, <1>3, <1>4, <1>5, <1>6

LEMMA AllDecay ==
    ASSUME ShimOK, proc' = [p \in Procs |-> IF proc[p] = "running" THEN "stopped" ELSE proc[p]], NEW m
    PROVE  Decays(m)
BY DEF ShimOK, Decays

EffectOn(call, p) ==
    /\ fault' = fault
    /\ breach' = breach
       \/ (breach' = "stop" /\ call = "sbStop" /\ sandbox = "ready" /\ sandbox' = "ready")
       \/ (call \in {"kill", "delete"} /\ TakesAlong(p))
    /\ shim' = IF call \in {"sbShutdown", "shutdown"} THEN "down" ELSE shim
    /\ call = "sbStop" => \/ sandbox' = "stopped"
                          \/ sandbox = "ready" /\ sandbox' = "ready" /\ breach' = "stop"
    /\ call # "sbStop" => sandbox' = CASE call = "sbCreate" -> "created"
                                       [] call = "sbStart" -> "ready"
                                       [] call \in {"sbShutdown", "shutdown"} -> "stopped"
                                       [] OTHER -> sandbox
    /\ call \notin {"create", "exec", "start"} => Decays(IF call = "delete" THEN p ELSE "none")
    /\ call = "create" => proc' = [proc EXCEPT ![p] = "created"]
    /\ call = "exec" => proc' = [proc EXCEPT !["x"] = "created"]
    /\ call = "start" => proc' = [proc EXCEPT ![p] = "running"]
    /\ fed' = IF call = "stdin" THEN fed \cup {p} ELSE fed
    /\ \A q \in Procs \ {p} :
          call \notin {"exec", "sbStop", "sbShutdown", "shutdown"} => proc'[q] = proc[q] \/ TakesAlong(p)
    /\ \A q \in Members : out'[q] = out[q]
    /\ call \in {"sbCreate", "sbStart", "sbQuery", "sbReady", "sbNotReady", "state", "wait", "stdin"} =>
          proc' = proc

LEMMA EffectOf ==
    ASSUME ShimOK, NEW call \in Calls, NEW p, Legal(call, p), Effect(call, p)
    PROVE  EffectOn(call, p)
<1>1. proc \in [Procs -> States] /\ out \in [Procs -> {"none", "flight", "seen"}]
  BY DEF ShimOK, States
<1>2. /\ fed' = IF call = "stdin" THEN fed \cup {p} ELSE fed
      /\ \A q \in Members : out'[q] = out[q]
  <2>1. /\ out' = IF call = "exec" THEN [out EXCEPT !["x"] = "none"] ELSE out
        /\ fed' = IF call = "stdin" THEN fed \cup {p} ELSE fed
    BY DEF Effect
  <2>2. QED
    BY <1>1, <2>1 DEF Members
<1>3. CASE call \in {"kill", "delete"}
  <2>1. /\ UNCHANGED <<shim, sandbox>> /\ proc[p] \in {"running", "stopped"}
        /\ IF call = "delete" THEN Ends(p, "deleted") ELSE Ends(p, "stopped") /\ proc[p] = "running"
    BY <1>3 DEF Effect, Legal
  <2>2. CASE call = "delete"
    <3>1. Ends(p, "deleted")
      BY <2>1, <2>2
    <3>2. /\ Decays(p) /\ fault' = fault /\ (breach' = breach \/ TakesAlong(p))
          /\ \A q \in Procs \ {p} : proc'[q] = proc[q] \/ TakesAlong(p)
      BY <2>1, <3>1, EndsDecays
    <3>3. QED
      BY <1>2, <2>1, <2>2, <3>2 DEF EffectOn
  <2>3. CASE call = "kill"
    <3>1. Ends(p, "stopped") /\ proc[p] = "running"
      BY <2>1, <2>3
    <3>2. /\ Decays("none") /\ fault' = fault /\ (breach' = breach \/ TakesAlong(p))
          /\ \A q \in Procs \ {p} : proc'[q] = proc[q] \/ TakesAlong(p)
      BY <2>1, <3>1, EndsDecays
    <3>3. QED
      BY <1>2, <2>1, <2>3, <3>2 DEF EffectOn
  <2>4. QED
    BY <1>3, <2>2, <2>3
<1>4. CASE call = "sbStop"
  <2>1. Stops /\ UNCHANGED shim
    BY <1>4 DEF Effect
  <2>2. CASE /\ sandbox' = "stopped" /\ UNCHANGED <<fault, breach>>
             /\ proc' = [q \in Procs |-> IF proc[q] = "running" THEN "stopped" ELSE proc[q]]
    <3>1. Decays("none")
      BY <2>2, AllDecay
    <3>2. QED
      BY <1>2, <1>4, <2>1, <2>2, <3>1 DEF EffectOn
  <2>3. CASE breach' = "stop" /\ sandbox = "ready" /\ UNCHANGED <<sandbox, proc, fault>>
    BY <1>2, <1>4, <2>1, <2>3 DEF EffectOn, Decays
  <2>4. QED
    BY <2>1, <2>2, <2>3 DEF Stops
<1>5. CASE call \in {"sbShutdown", "shutdown"}
  <2>1. Exits /\ UNCHANGED <<fault, breach>>
    BY <1>5 DEF Effect
  <2>2. Decays("none")
    BY <2>1, AllDecay DEF Exits
  <2>3. QED
    BY <1>2, <1>5, <2>1, <2>2 DEF EffectOn, Exits
<1>6. CASE call \in {"create", "exec", "start"}
  <2>1. /\ UNCHANGED <<shim, sandbox, fault, breach>>
        /\ proc' = [proc EXCEPT ![IF call = "exec" THEN "x" ELSE p] = IF call = "start" THEN "running" ELSE "created"]
    BY <1>6 DEF Effect
  <2>2. call # "exec" => \A q \in Procs \ {p} : proc'[q] = proc[q]
    BY <1>1, <2>1
  <2>3. QED
    BY <1>2, <1>6, <2>1, <2>2 DEF EffectOn
<1>7. CASE call \in {"sbCreate", "sbStart"}
  <2>1. /\ UNCHANGED <<shim, proc, fault, breach>>
        /\ sandbox' = IF call = "sbCreate" THEN "created" ELSE "ready"
    BY <1>7 DEF Effect
  <2>2. QED
    BY <1>2, <1>7, <2>1 DEF EffectOn, Decays
<1>8. CASE call \in {"sbQuery", "sbReady", "sbNotReady", "state", "wait", "stdin"}
  <2>1. UNCHANGED <<shim, sandbox, proc, fault, breach>>
    BY <1>8 DEF Effect
  <2>2. QED
    BY <1>2, <1>8, <2>1 DEF EffectOn, Decays
<1>9. QED
  BY <1>3, <1>4, <1>5, <1>6, <1>7, <1>8 DEF Calls, SandboxCalls, TaskCalls
-----------------------------------------------------------------------------
(***************************************************************************)
(* A step of a test that has not failed goes on by one, or skips.          *)
(***************************************************************************)
Onward == ip' = ip + 1 /\ failed' = failed

LEMMA OnErrorQuiet ==
    ASSUME TestOK, NEW call, At(call), OnError, ~failed'
    PROVE  Onward /\ on \in {"lenient", "ignore", "expect"}
<1>1. on \in {"fatal", "mixed", "soft", "continue", "lenient", "error", "ignore", "expect"}
  BY AtStep
<1>2. QED
  BY <1>1 DEF OnError, Goes, Leaves, GoesFailed, Onward

LEMMA OnAnswerQuiet ==
    ASSUME TestOK, NEW call, At(call), NEW right \in BOOLEAN, OnAnswer(right), ~failed'
    PROVE  /\ Onward /\ on # "expect"
           /\ on \in {"fatal", "mixed", "soft", "continue", "lenient"} => right
<1>1. on \in {"fatal", "mixed", "soft", "continue", "lenient", "error", "ignore", "expect"}
  BY AtStep
<1>2. QED
  BY <1>1 DEF OnAnswer, Goes, Leaves, GoesFailed, Onward

\* A call: it did what it should, or was refused and that was fine.
Answered(call) ==
    /\ Legal(call, who) /\ EffectOn(call, who) /\ on # "expect"
    /\ on \in {"fatal", "mixed", "soft", "continue", "lenient"} => Right(call, who)
Refused(call) ==
    /\ ~Legal(call, who) /\ ~Blocked(call, who) /\ on \in {"lenient", "ignore", "expect"}
    /\ UNCHANGED <<shim, sandbox, proc, out, fed, fault, breach>>

LEMMA RpcQuiet ==
    ASSUME IInv, rpc, Quiet'
    PROVE  /\ UNCHANGED <<world, test, phase, skipped, leaked, cleanups, tracked, snap, waiter, served,
                          pending, slow>>
           /\ fault' = fault /\ Onward
           /\ \E call \in Calls : At(call) /\ (Answered(call) \/ Refused(call))
<1>1. PICK call \in Calls :
       /\ At(call)
       /\ \/ Legal(call, who) /\ Effect(call, who) /\ OnAnswer(Right(call, who))
          \/ /\ ~Legal(call, who) /\ ~Blocked(call, who) /\ OnError
             /\ UNCHANGED <<shim, sandbox, proc, out, fed, fault, breach>>
          \/ fault' = TRUE
       /\ UNCHANGED <<world, test, phase, skipped, leaked, cleanups, tracked, snap, waiter,
                      served, pending, slow>>
  BY DEF rpc
<1>2. ~fault' /\ ~failed' /\ ShimOK /\ TestOK
  BY DEF Quiet, IInv
<1>3. CASE Legal(call, who) /\ Effect(call, who) /\ OnAnswer(Right(call, who))
  <2>1. EffectOn(call, who)
    BY <1>2, <1>3, EffectOf
  <2>2. Right(call, who) \in BOOLEAN
    BY DEF Right
  <2>3. /\ Onward /\ on # "expect"
        /\ on \in {"fatal", "mixed", "soft", "continue", "lenient"} => Right(call, who)
    BY <1>1, <1>2, <1>3, <2>2, OnAnswerQuiet
  <2>4. fault' = fault
    BY <2>1 DEF EffectOn
  <2>5. QED
    BY <1>1, <1>3, <2>1, <2>3, <2>4 DEF Answered
<1>4. CASE /\ ~Legal(call, who) /\ ~Blocked(call, who) /\ OnError
           /\ UNCHANGED <<shim, sandbox, proc, out, fed, fault, breach>>
  <2>1. Onward /\ on \in {"lenient", "ignore", "expect"}
    BY <1>1, <1>2, <1>4, OnErrorQuiet
  <2>2. QED
    BY <1>1, <1>4, <2>1 DEF Refused
<1>5. QED
  BY <1>1, <1>2, <1>3, <1>4

\* Every other step but the first: it looks, or it registers something.
LookCalls == {"cleanup", "track", "snapshot", "waiter", "sbPoll", "waitDone", "output", "outputs", "peer",
              "dial", "verify", "verifyNot", "netns", "mounts", "require"}
LookSteps == \/ cleanup \/ track \/ readContainerOutput \/ readOutputs \/ waitForSandboxStatus \/ waitDone
             \/ hostDone \/ dialInNetnsRoundTrip \/ waitTimeout \/ containerOutputSnapshot \/ verify
             \/ verifyNot \/ probe \/ require \/ startWaiter
Looked(call) ==
    /\ cleanups' = CASE call = "cleanup" -> Append(cleanups, "sandbox")
                     [] call = "track" -> Append(cleanups, who)
                     [] OTHER -> cleanups
    /\ waiter' = IF call = "waiter" THEN "started" ELSE waiter
    /\ IF call = "snapshot" THEN snap' \/ slow' ELSE snap' = snap
    /\ slow => slow'
    /\ on \in {"fatal", "mixed", "soft"} =>
          /\ call = "sbPoll" => sandbox = "stopped"
          /\ call = "waitDone" => waiter = "done"
          /\ call = "verifyNot" => ~(snap /\ breach = "shared")

LEMMA TimedQuiet ==
    ASSUME TestOK, NEW call, At(call), NEW cond \in BOOLEAN, Timed(cond), ~failed'
    PROVE  /\ UNCHANGED <<world, test, phase, skipped, leaked, cleanups, tracked, snap, waiter, fault, breach>>
           /\ Onward /\ (slow => slow')
           /\ on \in {"fatal", "mixed", "soft"} => cond
<1>1. /\ UNCHANGED <<world, test, phase, skipped, leaked, cleanups, tracked, snap, waiter, fault, breach>>
      /\ (cond /\ Goes /\ slow' = slow) \/ (OnError /\ slow' = TRUE)
  BY DEF Timed
<1>2. CASE cond /\ Goes /\ slow' = slow
  BY <1>1, <1>2 DEF Goes, Onward
<1>3. CASE OnError /\ slow' = TRUE
  <2>1. Onward /\ on \in {"lenient", "ignore", "expect"}
    BY <1>3, OnErrorQuiet
  <2>2. QED
    BY <1>1, <1>3, <2>1
<1>4. QED
  BY <1>1, <1>2, <1>3

LEMMA LooksQuiet ==
    ASSUME IInv, LookSteps, Quiet'
    PROVE  /\ UNCHANGED <<world, test, phase, leaked, pending, shim, sandbox, proc, out, fed, fault, breach>>
           /\ failed' = failed
           /\ \/ /\ Onward /\ skipped' = skipped
                 /\ \E call \in LookCalls : At(call) /\ Looked(call)
              \/ /\ At("require") /\ ip' = Len(script) + 1 /\ skipped' = TRUE
                 /\ UNCHANGED <<cleanups, snap, waiter, slow>>
<1>1. TestOK /\ ~failed' /\ ~fault'
  BY DEF IInv, Quiet
<1> DEFINE Same == UNCHANGED <<world, test, phase, leaked, pending, shim, sandbox, proc, out, fed, fault, breach>>
           Goal == /\ Same /\ Onward /\ skipped' = skipped
                   /\ \E call \in LookCalls : At(call) /\ Looked(call)
<1>2. ASSUME NEW call \in LookCalls, At(call), call \notin {"cleanup", "track", "snapshot", "waiter", "verifyNot"},
             NEW cond \in BOOLEAN, Timed(cond), UNCHANGED <<pending, shim, sandbox, proc, out, fed>>,
             call = "sbPoll" => (cond => sandbox = "stopped"), call = "waitDone" => (cond => waiter = "done")
      PROVE  Goal
  <2>1. /\ UNCHANGED <<world, test, phase, skipped, leaked, cleanups, tracked, snap, waiter, fault, breach>>
        /\ Onward /\ (slow => slow') /\ (on \in {"fatal", "mixed", "soft"} => cond)
    BY <1>1, <1>2, TimedQuiet
  <2>2. Looked(call)
    BY <1>2, <2>1 DEF Looked
  <2>3. QED
    BY <1>2, <2>1, <2>2
<1>3. CASE readContainerOutput
  <2>1. At("output") /\ Timed(out[who] = "seen") /\ UNCHANGED <<pending, shim, sandbox, proc, out, fed>>
    BY <1>3 DEF readContainerOutput, shimVars
  <2>2. Goal
    BY <1>2, <2>1 DEF LookCalls
  <2>3. QED
    BY <2>2 DEF Onward
<1>4. CASE readOutputs
  <2>1. /\ At("outputs") /\ Timed(\A m \in Members : out[m] = "seen")
        /\ UNCHANGED <<pending, shim, sandbox, proc, out, fed>>
    BY <1>4 DEF readOutputs, shimVars
  <2>2. Goal
    BY <1>2, <2>1 DEF LookCalls
  <2>3. QED
    BY <2>2 DEF Onward
<1>5. CASE waitForSandboxStatus
  <2>1. /\ At("sbPoll") /\ Timed(shim = "up" /\ sandbox = "stopped")
        /\ UNCHANGED <<pending, shim, sandbox, proc, out, fed>>
    BY <1>5 DEF waitForSandboxStatus, shimVars
  <2>2. Goal
    BY <1>2, <2>1 DEF LookCalls
  <2>3. QED
    BY <2>2 DEF Onward
<1>6. CASE waitDone
  <2>1. At("waitDone") /\ Timed(waiter = "done") /\ UNCHANGED <<pending, shim, sandbox, proc, out, fed>>
    BY <1>6 DEF waitDone, shimVars
  <2>2. Goal
    BY <1>2, <2>1 DEF LookCalls
  <2>3. QED
    BY <2>2 DEF Onward
<1>7. CASE hostDone \/ dialInNetnsRoundTrip
  <2>1. PICK call \in {"peer", "dial"} : At(call) /\ UNCHANGED <<pending, shim, sandbox, proc, out, fed>>
    BY <1>7 DEF hostDone, dialInNetnsRoundTrip, shimVars
  <2>2. PICK seen \in BOOLEAN : Timed(seen)
    BY <1>7 DEF hostDone, dialInNetnsRoundTrip
  <2>3. Goal
    BY <1>2, <2>1, <2>2 DEF LookCalls
  <2>4. QED
    BY <2>3 DEF Onward
\* The timeout of an exec fails the test.
<1>8. CASE waitTimeout
  <2>1. At("wait") /\ who = "x" /\ Timed(FALSE)
    BY <1>8 DEF waitTimeout
  <2>2. on \in {"lenient", "ignore", "expect"}
    <3>1. OnError
      BY <2>1 DEF Timed
    <3>2. QED
      BY <1>1, <2>1, <3>1, OnErrorQuiet
  <2>3. /\ script[ip].call = "wait" /\ script[ip].who = "x" /\ script[ip].on = on
        /\ TaskProtocol(test, ip) /\ SandboxProtocol(script, ip)
    BY <1>1, <2>1, HereOK DEF who, on
  <2>4. on # "ignore" /\ on # "expect" /\ on # "lenient"
    BY <2>3 DEF TaskProtocol, SandboxProtocol, script
  <2>5. QED
    BY <2>2, <2>4
<1>9. CASE cleanup
  <2>1. At("cleanup") /\ Goes /\ Same /\ UNCHANGED <<skipped, snap, waiter, slow>>
        /\ cleanups' = Append(cleanups, "sandbox")
    BY <1>9 DEF cleanup, shimVars, histVars
  <2>2. Looked("cleanup")
    BY <2>1 DEF Looked
  <2>3. QED
    BY <2>1, <2>2 DEF Goes, Onward, LookCalls
<1>10. CASE track
  <2>1. At("track") /\ Goes /\ Same /\ UNCHANGED <<skipped, snap, waiter, slow>>
        /\ cleanups' = Append(cleanups, who)
    BY <1>10 DEF track, shimVars, histVars
  <2>2. Looked("track")
    BY <2>1 DEF Looked
  <2>3. QED
    BY <2>1, <2>2 DEF Goes, Onward, LookCalls
<1>11. CASE containerOutputSnapshot
  <2>1. At("snapshot") /\ Goes /\ Same /\ UNCHANGED <<skipped, cleanups, waiter>>
    BY <1>11 DEF containerOutputSnapshot, shimVars
  <2>2. (snap' \/ slow') /\ (slow => slow')
    BY <1>11 DEF containerOutputSnapshot
  <2>3. Looked("snapshot")
    BY <2>1, <2>2 DEF Looked
  <2>4. QED
    BY <2>1, <2>3 DEF Goes, Onward, LookCalls
<1>12. CASE verify \/ verifyNot
  <2>1. PICK call \in {"verify", "verifyNot"}, right \in BOOLEAN :
           At(call) /\ OnAnswer(right) /\ (call = "verifyNot" => (right => ~(snap /\ breach = "shared")))
    <3>1. CASE verify
      BY <3>1 DEF verify, IInv, TestOK
    <3>2. CASE verifyNot
      <4>1. At("verifyNot") /\ OnAnswer(~(snap /\ breach = "shared"))
        BY <3>2 DEF verifyNot
      <4>2. QED
        BY <4>1
    <3>3. QED
      BY <1>12, <3>1, <3>2
  <2>2. Same /\ UNCHANGED <<skipped, cleanups, snap, waiter, slow>>
    BY <1>12 DEF verify, verifyNot, shimVars, histVars
  <2>3. Onward /\ (on \in {"fatal", "mixed", "soft"} => right)
    BY <1>1, <2>1, OnAnswerQuiet
  <2>4. Looked(call)
    BY <2>1, <2>2, <2>3 DEF Looked
  <2>5. QED
    BY <2>1, <2>2, <2>3, <2>4 DEF Onward, LookCalls
<1>13. CASE probe
  <2>1. PICK call \in {"netns", "mounts"} : At(call)
    BY <1>13 DEF probe
  <2>2. Goes /\ fault' = fault
    BY <1>1, <1>13 DEF probe
  <2>3. Same /\ UNCHANGED <<skipped, cleanups, snap, waiter, slow>>
    BY <1>13, <2>2 DEF probe, shimVars
  <2>4. Looked(call)
    BY <2>1, <2>3 DEF Looked
  <2>5. QED
    BY <2>1, <2>2, <2>3, <2>4 DEF Goes, Onward, LookCalls
<1>14. CASE require
  <2>1. At("require") /\ Same /\ UNCHANGED <<cleanups, snap, waiter, slow>>
        /\ \/ Goes /\ skipped' = skipped
           \/ ip' = Len(script) + 1 /\ skipped' = TRUE /\ failed' = failed
    BY <1>14 DEF require, shimVars, histVars
  <2>2. Looked("require")
    BY <2>1 DEF Looked
  <2>3. QED
    BY <2>1, <2>2 DEF Goes, Onward, LookCalls
<1>15. CASE startWaiter
  <2>1. At("waiter") /\ Goes /\ waiter' = "started" /\ Same /\ UNCHANGED <<skipped, cleanups, snap, slow>>
    BY <1>15 DEF startWaiter, shimVars, histVars
  <2>2. Looked("waiter")
    BY <2>1 DEF Looked
  <2>3. QED
    BY <2>1, <2>2 DEF Goes, Onward, LookCalls
<1>16. QED
  BY <1>3, <1>4, <1>5, <1>6, <1>7, <1>8, <1>9, <1>10, <1>11, <1>12, <1>13, <1>14, <1>15 DEF LookSteps

LEMMA startShimQuiet ==
    ASSUME startShim, Quiet'
    PROVE  /\ At("shim") /\ Onward /\ shim' = "up"
           /\ UNCHANGED <<world, test, phase, skipped, leaked, cleanups, tracked, snap, waiter, sandbox, proc,
                          out, fed, pending, fault, slow, breach>>
BY DEF startShim, Quiet, Goes, Onward
-----------------------------------------------------------------------------
(***************************************************************************)
(* The rules, at the step the test is at.                                  *)
(***************************************************************************)
LEMMA SandboxRule ==
    ASSUME TestOK, NEW call, At(call)
    PROVE  /\ call \in SandboxCalls \cup {"shim", "cleanup", "shutdown"} => who = "none"
           /\ call = "shim" => on = "fatal" /\ ~AskedFor("shim") /\ ~IsDown
           /\ call \in Calls => AskedFor("shim") /\ ~IsDown
           /\ on = "expect" => call \in {"sbCreate", "sbStart"}
           /\ call = "sbCreate" => IF AskedFor("sbCreate") THEN on = "expect" ELSE on = "fatal"
           /\ call = "sbStart" => IF AskedFor("sbCreate") THEN on = "mixed" /\ ~AskedFor("sbStart")
                                                          ELSE on = "expect"
           /\ call \in {"sbQuery", "sbReady", "sbNotReady", "sbStop", "sbShutdown", "cleanup", "create"} =>
                 AskedFor("sbStart")
           /\ call \in {"sbQuery", "sbReady", "create"} => ~AskedFor("sbStop")
           /\ call = "sbNotReady" => AskedFor("sbStop")
           /\ call = "shutdown" => on = "ignore"
           /\ call = "require" /\ AskedFor("shim") => AskedFor("cleanup")
<1>1. SandboxProtocol(script, ip) /\ script[ip].call = call /\ script[ip].who = who /\ script[ip].on = on
  BY HereOK DEF who, on
<1>2. \A c : Asked(script, ip, c) <=> AskedFor(c)
  BY DEF Asked, AskedFor, Did
<1>3. Down(script, ip) <=> IsDown
  BY <1>2 DEF Down, IsDown
<1>4. QED
  BY <1>1, <1>2, <1>3 DEF SandboxProtocol

LEMMA TaskRule ==
    ASSUME TestOK, NEW call, At(call)
    PROVE  /\ call \in {"create", "exec", "state", "kill", "stdin"} => who \in Members
           /\ call \in {"start", "wait"} => who \in Procs
           /\ call \in {"create", "exec", "start", "stdin"} => on = "fatal"
           /\ call = "create" => ~Did("create", who) /\ ~Did("start", who) /\ ~Did("wait", who)
           /\ call = "start" => IsMade(who) /\ ~Did("start", who)
           /\ call \in {"exec", "state", "stdin"} => Runs(test, ip, who)
           /\ call = "kill" => on = "ignore" \/ Runs(test, ip, who)
           /\ call = "wait" => /\ on = "ignore" \/ (IsMade(who) /\ ~Did("delete", who))
                               /\ who = "x" => on \in {"fatal", "mixed"}
           /\ call = "delete" => on = "ignore" \/ (IsMade(who) /\ Did("wait", who) /\ ~Did("delete", who))
           /\ call = "verify" => Behind(script, ip, {"snapshot"})
<1>1. TaskProtocol(test, ip) /\ script[ip].call = call /\ script[ip].who = who /\ script[ip].on = on
  BY HereOK DEF who, on
<1>2. \A c, p : Did(c, p) <=> Done(script, ip, c, p)
  BY DEF Did
<1>3. \A p : IsMade(p) <=> Made(script, ip, p)
  BY DEF IsMade
<1>4. Scripts[test] = script
  BY DEF script
<1>5. QED
  BY <1>1, <1>2, <1>3, <1>4 DEF TaskProtocol
-----------------------------------------------------------------------------
(***************************************************************************)
(* What is known stays known.                                              *)
(***************************************************************************)

\* A fatal call, like any that must not be refused, was answered.
LEMMA MustAnswer ==
    ASSUME NEW call, Answered(call) \/ Refused(call), on \in {"fatal", "mixed", "soft", "continue", "error"}
    PROVE  Answered(call)
BY DEF Refused

\* How the calls change what has been asked for.
LEMMA AskedNext ==
    ASSUME TestOK, NEW call, At(call), ip' = ip + 1, test' = test
    PROVE  /\ \A c \in {"shim", "cleanup", "sbCreate", "sbStart", "sbStop", "sbShutdown", "shutdown"} :
                 AskedFor(c)' <=> AskedFor(c) \/ (call = c /\ on # "expect")
           /\ IsDown' <=> IsDown \/ call \in {"sbShutdown", "shutdown"}
<1>1. ASSUME NEW c \in {"shim", "cleanup", "sbCreate", "sbStart", "sbStop", "sbShutdown", "shutdown"}
      PROVE  AskedFor(c)' <=> AskedFor(c) \/ (call = c /\ on # "expect")
  <2>1. call = c => who = "none"
    BY SandboxRule DEF SandboxCalls
  <2>2. c # "exec"
    OBVIOUS
  <2>3. QED
    BY <2>1, <2>2, StepsOn
<1>2. /\ AskedFor("sbShutdown")' <=> AskedFor("sbShutdown") \/ (call = "sbShutdown" /\ on # "expect")
      /\ AskedFor("shutdown")' <=> AskedFor("shutdown") \/ (call = "shutdown" /\ on # "expect")
  BY <1>1
<1>3. IsDown' <=> IsDown \/ call \in {"sbShutdown", "shutdown"}
  <2>1. IsDown' <=> AskedFor("sbShutdown")' \/ AskedFor("shutdown")'
    BY DEF IsDown
  <2>2. call \in {"sbShutdown", "shutdown"} => on # "expect"
    BY SandboxRule
  <2>3. QED
    BY <1>2, <2>1, <2>2 DEF IsDown
<1>4. QED
  BY <1>1, <1>3

LEMMA ShimKnown ==
    ASSUME IInv, ShimAt, SandboxAt, NEW call \in Calls, At(call), Answered(call) \/ Refused(call),
           Onward, test' = test
    PROVE  ShimAt' /\ SandboxAt'
<1>1. /\ \A c \in {"shim", "cleanup", "sbCreate", "sbStart", "sbStop", "sbShutdown", "shutdown"} :
            AskedFor(c)' <=> AskedFor(c) \/ (call = c /\ on # "expect")
      /\ IsDown' <=> IsDown \/ call \in {"sbShutdown", "shutdown"}
  BY AskedNext DEF IInv, Onward
<1>2. /\ AskedFor("shim")' <=> AskedFor("shim")
      /\ AskedFor("sbCreate")' <=> AskedFor("sbCreate") \/ (call = "sbCreate" /\ on # "expect")
      /\ AskedFor("sbStart")' <=> AskedFor("sbStart") \/ (call = "sbStart" /\ on # "expect")
      /\ AskedFor("sbStop")' <=> AskedFor("sbStop") \/ (call = "sbStop" /\ on # "expect")
  BY <1>1 DEF Calls, SandboxCalls, TaskCalls
<1>3. AskedFor("shim") /\ ~IsDown /\ shim = "up"
  BY SandboxRule DEF IInv, ShimAt
<1>4. /\ on = "expect" => call \in {"sbCreate", "sbStart"}
      /\ call = "sbCreate" => IF AskedFor("sbCreate") THEN on = "expect" ELSE on = "fatal"
      /\ call = "sbStart" => IF AskedFor("sbCreate") THEN on = "mixed" /\ ~AskedFor("sbStart")
                                                     ELSE on = "expect"
      /\ call \in {"sbStop", "sbShutdown"} => AskedFor("sbStart")
  BY SandboxRule DEF IInv
<1>5. AskedFor("sbStart") => sandbox \in {"ready", "stopped"}
  BY <1>3 DEF SandboxAt
<1>6. CASE call \in {"sbShutdown", "shutdown"}
  <2>1. Legal(call, who)
    BY <1>3, <1>4, <1>5, <1>6 DEF Legal
  <2>2. EffectOn(call, who)
    BY <2>1 DEF Answered, Refused
  <2>3. shim' = "down" /\ sandbox' = "stopped"
    BY <1>6, <2>2 DEF EffectOn
  <2>4. QED
    BY <1>1, <1>6, <2>3 DEF ShimAt, SandboxAt
<1>7. CASE call = "sbStop"
  <2>1. Legal(call, who)
    BY <1>3, <1>4, <1>5, <1>7 DEF Legal
  <2>2. EffectOn(call, who)
    BY <2>1 DEF Answered, Refused
  <2>3. /\ shim' = shim
        /\ \/ sandbox' = "stopped"
           \/ sandbox = "ready" /\ sandbox' = "ready" /\ breach' = "stop"
    BY <1>7, <2>2 DEF EffectOn
  <2>4. on # "expect" /\ AskedFor("sbStop")'
    BY <1>2, <1>4, <1>7
  <2>5. QED
    BY <1>1, <1>2, <1>3, <1>7, <2>3, <2>4 DEF ShimAt, SandboxAt
<1>8. CASE call \in {"sbCreate", "sbStart"} /\ on # "expect"
  <2>1. Answered(call)
    BY <1>4, <1>8, MustAnswer
  <2>2. Legal(call, who) /\ EffectOn(call, who)
    BY <2>1 DEF Answered
  <2>3. /\ call = "sbCreate" => sandbox = "none" /\ sandbox' = "created"
        /\ call = "sbStart" => sandbox = "created" /\ sandbox' = "ready"
        /\ shim' = shim
    BY <1>8, <2>2 DEF Legal, EffectOn
  <2>4. QED
    BY <1>1, <1>2, <1>3, <1>8, <2>3 DEF ShimAt, SandboxAt
<1>9. CASE call \notin {"sbCreate", "sbStart", "sbStop", "sbShutdown", "shutdown"} \/ on = "expect"
  <2>1. shim' = shim /\ sandbox' = sandbox /\ (breach' = "none" => breach = "none")
    <3>1. CASE Refused(call)
      BY <3>1 DEF Refused
    <3>2. CASE Answered(call)
      <4>1. EffectOn(call, who) /\ on # "expect"
        BY <3>2 DEF Answered
      <4>2. QED
        BY <1>9, <4>1 DEF EffectOn, TakesAlong
    <3>3. QED
      BY <3>1, <3>2
  <2>2. /\ AskedFor("sbCreate")' <=> AskedFor("sbCreate")
        /\ AskedFor("sbStart")' <=> AskedFor("sbStart")
        /\ AskedFor("sbStop")' <=> AskedFor("sbStop")
        /\ ~IsDown'
    BY <1>1, <1>2, <1>3, <1>4, <1>9
  <2>3. QED
    BY <1>2, <1>3, <2>1, <2>2 DEF ShimAt, SandboxAt
<1>10. QED
  BY <1>4, <1>6, <1>7, <1>8, <1>9

LEMMA ProcsDecay ==
    ASSUME \A p \in Procs : ProcAt(p), NEW m, Decays(m),
           \A p \in Procs : /\ IsMade(p)' <=> IsMade(p)
                            /\ Did("start", p)' <=> Did("start", p)
                            /\ Did("delete", p) \/ p = m => Did("delete", p)'
                            /\ Did("wait", p)' => Did("wait", p) \/ proc[p] \notin {"created", "running"}
    PROVE  \A p \in Procs : ProcAt(p)'
<1> SUFFICES ASSUME NEW p \in Procs PROVE ProcAt(p)'
  OBVIOUS
<1>1. ProcAt(p)
  OBVIOUS
<1>2. \/ proc'[p] = proc[p]
      \/ proc[p] = "running" /\ proc'[p] = "stopped"
      \/ p = m /\ proc[p] \in {"running", "stopped"} /\ proc'[p] = "deleted"
  BY DEF Decays
<1>3. /\ IsMade(p)' <=> IsMade(p)
      /\ Did("start", p)' <=> Did("start", p)
      /\ Did("delete", p) \/ p = m => Did("delete", p)'
      /\ Did("wait", p)' => Did("wait", p) \/ proc[p] \notin {"created", "running"}
  OBVIOUS
<1>4. QED
  BY <1>1, <1>2, <1>3 DEF ProcAt

LEMMA ProcsKnown ==
    ASSUME IInv, ShimAt, \A p \in Procs : ProcAt(p), NEW call \in Calls, At(call),
           Answered(call) \/ Refused(call), Onward, test' = test
    PROVE  \A p \in Procs : ProcAt(p)'
<1>1. /\ \A c, p : c # "exec" =>
            (Did(c, p)' <=> \/ call = c /\ who = p /\ on # "expect"
                            \/ Did(c, p) /\ (p = "x" => call # "exec"))
      /\ \A p : IsMade(p)' <=> \/ IsMade(p)
                               \/ p = "x" /\ call = "exec"
                               \/ p # "x" /\ call = "create" /\ who = p /\ on # "expect"
  BY StepsOn DEF IInv, Onward
<1>2. \A p \in Procs : /\ Did("start", p)' <=> \/ call = "start" /\ who = p /\ on # "expect"
                                               \/ Did("start", p) /\ (p = "x" => call # "exec")
                       /\ Did("wait", p)' <=> \/ call = "wait" /\ who = p /\ on # "expect"
                                              \/ Did("wait", p) /\ (p = "x" => call # "exec")
                       /\ Did("delete", p)' <=> \/ call = "delete" /\ who = p /\ on # "expect"
                                                \/ Did("delete", p) /\ (p = "x" => call # "exec")
  BY <1>1
<1>3. on = "expect" => call \in {"sbCreate", "sbStart"}
  BY SandboxRule DEF IInv
<1>4. proc \in [Procs -> States]
  BY DEF IInv, ShimOK, States
<1>5. shim = "up"
  BY SandboxRule DEF IInv, ShimAt
<1>6. CASE call \notin {"create", "exec", "start"}
  <2> DEFINE m == IF call = "delete" /\ Answered(call) THEN who ELSE "none"
  <2>1. Decays(m)
    <3>1. CASE Answered(call)
      BY <1>6, <3>1 DEF Answered, EffectOn
    <3>2. CASE ~Answered(call) /\ Refused(call)
      BY <3>2 DEF Refused, Decays
    <3>3. QED
      BY <3>1, <3>2
  <2>2. ASSUME NEW p \in Procs, call = "wait", who = p PROVE proc[p] \notin {"created", "running"}
    <3>1. CASE Answered(call)
      BY <2>2, <3>1 DEF Answered, Legal
    <3>2. CASE Refused(call)
      BY <1>5, <2>2, <3>2 DEF Refused, Blocked
    <3>3. QED
      BY <3>1, <3>2
  <2>3. ASSUME NEW p \in Procs
        PROVE  /\ IsMade(p)' <=> IsMade(p)
               /\ Did("start", p)' <=> Did("start", p)
               /\ Did("delete", p) \/ p = m => Did("delete", p)'
               /\ Did("wait", p)' => Did("wait", p) \/ proc[p] \notin {"created", "running"}
    <3>1. p = m => call = "delete" /\ who = p
      BY <2>3 DEF Procs, Members
    <3>2. QED
      BY <1>1, <1>2, <1>3, <1>6, <2>2, <3>1
  <2> HIDE DEF m
  <2>4. QED
    BY <2>1, <2>3, ProcsDecay
<1>7. CASE call \in {"create", "exec", "start"}
  <2>1. on = "fatal"
    BY <1>7, TaskRule DEF IInv
  <2>2. Legal(call, who) /\ EffectOn(call, who)
    BY <2>1, MustAnswer DEF Answered
  <2>3. CASE call = "create"
    <3>1. /\ who \in Members /\ ~Did("start", who) /\ ~Did("wait", who)
          /\ proc[who] = "none" /\ proc' = [proc EXCEPT ![who] = "created"]
      BY <2>2, <2>3, TaskRule DEF IInv, Legal, EffectOn
    <3>2. \A p \in Procs : proc'[p] = IF p = who THEN "created" ELSE proc[p]
      BY <1>4, <3>1
    <3>3. who # "x" /\ who \in Procs
      BY <3>1 DEF Members, Procs
    <3>4. QED
      BY <1>1, <1>2, <2>1, <2>3, <3>1, <3>2, <3>3 DEF ProcAt
  <2>4. CASE call = "exec"
    <3>1. proc' = [proc EXCEPT !["x"] = "created"]
      BY <2>2, <2>4 DEF EffectOn
    <3>2. \A p \in Procs : proc'[p] = IF p = "x" THEN "created" ELSE proc[p]
      BY <1>4, <3>1
    <3>3. QED
      BY <1>1, <1>2, <2>4, <3>2 DEF ProcAt
  <2>5. CASE call = "start"
    <3>1. /\ who \in Procs /\ IsMade(who)
          /\ proc[who] = "created" /\ proc' = [proc EXCEPT ![who] = "running"]
      BY <2>2, <2>5, TaskRule DEF IInv, Legal, EffectOn
    <3>2. \A p \in Procs : proc'[p] = IF p = who THEN "running" ELSE proc[p]
      BY <1>4, <3>1
    <3>3. QED
      BY <1>1, <1>2, <2>1, <2>5, <3>1, <3>2 DEF ProcAt
  <2>6. QED
    BY <1>7, <2>3, <2>4, <2>5
<1>8. QED
  BY <1>6, <1>7

\* What the test has, after a call.
LEMMA TestKnown ==
    ASSUME IInv, ShimAt, SandboxAt, TestAt, NEW call \in Calls, At(call), Answered(call) \/ Refused(call),
           Onward, test' = test, UNCHANGED <<cleanups, snap, slow, waiter>>
    PROVE  TestAt'
<1>1. /\ \A c \in {"shim", "cleanup", "sbCreate", "sbStart", "sbStop", "sbShutdown", "shutdown"} :
            AskedFor(c)' <=> AskedFor(c) \/ (call = c /\ on # "expect")
      /\ Behind(script, ip, {"snapshot"})' <=> Behind(script, ip, {"snapshot"}) \/ call \in {"snapshot"}
      /\ \A p : Did("stdin", p)' <=> \/ call = "stdin" /\ who = p /\ on # "expect"
                                     \/ Did("stdin", p) /\ (p = "x" => call # "exec")
  BY AskedNext, StepsOn DEF IInv, Onward
<1>2. /\ AskedFor("cleanup")' <=> AskedFor("cleanup")
      /\ Behind(script, ip, {"snapshot"})' <=> Behind(script, ip, {"snapshot"})
  BY <1>1 DEF Calls, SandboxCalls, TaskCalls
<1>3. sandbox' = sandbox \/ sandbox' = "stopped" \/ sandbox \in {"none", "created"}
  <2>1. CASE Refused(call)
    BY <2>1 DEF Refused
  <2>2. CASE Answered(call)
    <3>1. Legal(call, who) /\ EffectOn(call, who)
      BY <2>2 DEF Answered
    <3>2. QED
      BY <3>1 DEF EffectOn, Legal
  <2>3. QED
    BY <2>1, <2>2
<1>4. \A m \in fed' : Did("stdin", m)'
  <2>1. CASE Refused(call)
    <3>1. fed' = fed /\ fed \subseteq Members /\ "x" \notin Members
      BY <2>1 DEF Refused, IInv, ShimOK, Members
    <3>2. QED
      BY <1>1, <3>1 DEF TestAt
  <2>2. CASE Answered(call)
    <3>1. /\ fed' = (IF call = "stdin" THEN fed \cup {who} ELSE fed) /\ on # "expect"
          /\ fed \subseteq Members /\ "x" \notin Members
      BY <2>2 DEF Answered, EffectOn, IInv, ShimOK, Members
    <3>2. QED
      BY <1>1, <3>1 DEF TestAt
  <2>3. QED
    BY <2>1, <2>2
<1>5. QED
  BY <1>2, <1>3, <1>4 DEF TestAt

LEMMA RpcKnown == ASSUME IInv, Known, Here, rpc, Quiet' PROVE Quiet /\ Facts /\ Facts'
<1>1. /\ UNCHANGED <<world, test, phase, skipped, leaked, cleanups, tracked, snap, waiter, served,
                     pending, slow>>
      /\ fault' = fault /\ Onward
  BY RpcQuiet
<1>2. PICK call \in Calls : At(call) /\ (Answered(call) \/ Refused(call))
  BY RpcQuiet
<1>3. Quiet
  BY <1>1 DEF Quiet, Onward
<1>4. Facts
  BY <1>3 DEF Known
<1>5. ShimAt' /\ SandboxAt'
  BY <1>1, <1>2, <1>4, ShimKnown DEF Facts
<1>6. \A p \in Procs : ProcAt(p)'
  BY <1>1, <1>2, <1>4, ProcsKnown DEF Facts
<1>7. TestAt'
  BY <1>1, <1>2, <1>4, TestKnown DEF Facts
<1>8. QED
  BY <1>3, <1>4, <1>5, <1>6, <1>7 DEF Facts

\* A cleanup that is registered stays registered.
LEMMA AppendKeeps ==
    ASSUME cleanups \in Seq(Members \cup {"sandbox"}), NEW e \in Members \cup {"sandbox"},
           cleanups' = Append(cleanups, e)
    PROVE  /\ \E i \in 1..Len(cleanups') : cleanups'[i] = e
           /\ (\E i \in 1..Len(cleanups) : cleanups[i] = "sandbox") =>
                 \E i \in 1..Len(cleanups') : cleanups'[i] = "sandbox"
<1>1. /\ Len(cleanups) \in Nat /\ Len(cleanups') = Len(cleanups) + 1
      /\ cleanups'[Len(cleanups) + 1] = e
      /\ \A i \in 1..Len(cleanups) : cleanups'[i] = cleanups[i]
  OBVIOUS
<1>2. Len(cleanups) + 1 \in 1..Len(cleanups') /\ \A i \in 1..Len(cleanups) : i \in 1..Len(cleanups')
  BY <1>1
<1>3. QED
  BY <1>1, <1>2

LEMMA LooksKnown ==
    ASSUME IInv, Facts, LookSteps, Quiet', skipped' = skipped, ip' = ip + 1
    PROVE  Facts'
<1>1. /\ UNCHANGED <<world, test, phase, leaked, pending, shim, sandbox, proc, out, fed, fault, breach>>
      /\ failed' = failed
      /\ \/ \E call \in LookCalls : At(call) /\ Looked(call)
         \/ At("require") /\ UNCHANGED <<cleanups, snap, waiter, slow>>
  BY LooksQuiet
<1>2. PICK call \in LookCalls : At(call) /\ Looked(call)
  <2>1. CASE At("require") /\ UNCHANGED <<cleanups, snap, waiter, slow>>
    <3>1. "require" \in LookCalls /\ Looked("require")
      <4>1. on \in {"fatal", "mixed", "soft"} => TRUE
        OBVIOUS
      <4>2. QED
        BY <2>1 DEF Looked, LookCalls
    <3>2. QED
      BY <2>1, <3>1
  <2>2. QED
    BY <1>1, <2>1
<1>3. call \notin Calls \cup {"shim"} /\ call \notin {"create", "exec", "start", "wait", "delete", "stdin"}
  BY <1>2 DEF LookCalls, Calls, SandboxCalls, TaskCalls
<1>4. /\ \A c \in {"shim", "cleanup", "sbCreate", "sbStart", "sbStop", "sbShutdown", "shutdown"} :
            AskedFor(c)' <=> AskedFor(c) \/ (call = c /\ on # "expect")
      /\ IsDown' <=> IsDown \/ call \in {"sbShutdown", "shutdown"}
      /\ \A c, p : c # "exec" =>
            (Did(c, p)' <=> \/ call = c /\ who = p /\ on # "expect"
                            \/ Did(c, p) /\ (p = "x" => call # "exec"))
      /\ \A p : IsMade(p)' <=> \/ IsMade(p)
                               \/ p = "x" /\ call = "exec"
                               \/ p # "x" /\ call = "create" /\ who = p /\ on # "expect"
      /\ Behind(script, ip, {"snapshot"})' <=> Behind(script, ip, {"snapshot"}) \/ call \in {"snapshot"}
  BY <1>1, <1>2, AskedNext, StepsOn DEF IInv
<1>5. /\ AskedFor("shim")' <=> AskedFor("shim")
      /\ AskedFor("sbCreate")' <=> AskedFor("sbCreate")
      /\ AskedFor("sbStart")' <=> AskedFor("sbStart")
      /\ AskedFor("sbStop")' <=> AskedFor("sbStop")
      /\ IsDown' <=> IsDown
      /\ AskedFor("cleanup")' <=> AskedFor("cleanup") \/ (call = "cleanup" /\ on # "expect")
  BY <1>3, <1>4 DEF Calls, SandboxCalls, TaskCalls
<1>6. ShimAt' /\ SandboxAt'
  BY <1>1, <1>5 DEF Facts, ShimAt, SandboxAt
<1>7. \A p \in Procs : ProcAt(p)'
  <2>1. Decays("none")
    BY <1>1 DEF Decays
  <2>2. \A p \in Procs : /\ IsMade(p)' <=> IsMade(p)
                         /\ Did("start", p)' <=> Did("start", p)
                         /\ Did("delete", p) \/ p = "none" => Did("delete", p)'
                         /\ Did("wait", p)' => Did("wait", p) \/ proc[p] \notin {"created", "running"}
    BY <1>3, <1>4 DEF Procs, Members
  <2>3. QED
    BY <2>1, <2>2, ProcsDecay DEF Facts
<1>8. TestAt'
  <2>1. Behind(script, ip, {"snapshot"})' => snap' \/ slow'
    BY <1>2, <1>4 DEF Looked, Facts, TestAt
  <2>2. AskedFor("cleanup")' => /\ sandbox' \in {"ready", "stopped"}
                                /\ \E i \in 1..Len(cleanups') : cleanups'[i] = "sandbox"
    <3>1. CASE call = "cleanup"
      <4>1. AskedFor("sbStart") /\ sandbox \in {"ready", "stopped"}
        BY <1>2, <3>1, SandboxRule DEF IInv, Facts, SandboxAt
      <4>2. cleanups' = Append(cleanups, "sandbox")
        BY <1>2, <3>1 DEF Looked
      <4>3. QED
        BY <1>1, <4>1, <4>2, AppendKeeps DEF IInv, TestOK
    <3>2. CASE call = "track"
      <4>1. cleanups' = Append(cleanups, who) /\ who \in Members
        BY <1>2, <3>2, AtStep DEF Looked, IInv
      <4>2. QED
        BY <1>1, <1>5, <3>2, <4>1, AppendKeeps DEF IInv, TestOK, Facts, TestAt
    <3>3. CASE call \notin {"cleanup", "track"}
      <4>1. cleanups' = cleanups
        BY <1>2, <3>3 DEF Looked
      <4>2. QED
        BY <1>1, <1>5, <3>3, <4>1 DEF Facts, TestAt
    <3>4. QED
      BY <3>1, <3>2, <3>3
  <2>3. waiter' = "done" => sandbox' = "stopped"
    BY <1>1, <1>2 DEF Looked, Facts, TestAt
  <2>4. \A m \in fed' : Did("stdin", m)'
    <3>1. fed' = fed /\ call # "stdin" /\ call # "exec"
      BY <1>1, <1>3
    <3>2. QED
      BY <1>4, <3>1 DEF Facts, TestAt
  <2>5. QED
    BY <2>1, <2>2, <2>3, <2>4 DEF TestAt
<1>9. QED
  BY <1>6, <1>7, <1>8 DEF Facts

LEMMA startShimKnown == ASSUME IInv, Facts, startShim, Quiet' PROVE Facts'
<1>1. /\ At("shim") /\ Onward /\ shim' = "up"
      /\ UNCHANGED <<world, test, phase, skipped, leaked, cleanups, tracked, snap, waiter, sandbox, proc,
                     out, fed, pending, fault, slow, breach>>
  BY startShimQuiet
<1>2. on = "fatal" /\ ~AskedFor("shim") /\ ~IsDown
  BY <1>1, SandboxRule DEF IInv
<1>3. /\ \A c \in {"shim", "cleanup", "sbCreate", "sbStart", "sbStop", "sbShutdown", "shutdown"} :
            AskedFor(c)' <=> AskedFor(c) \/ ("shim" = c /\ on # "expect")
      /\ IsDown' <=> IsDown
      /\ \A c, p : c # "exec" /\ c # "shim" => (Did(c, p)' <=> Did(c, p))
      /\ \A p : IsMade(p)' <=> IsMade(p)
      /\ Behind(script, ip, {"snapshot"})' <=> Behind(script, ip, {"snapshot"})
  <2>1. /\ \A c, p : c # "exec" =>
              (Did(c, p)' <=> \/ "shim" = c /\ who = p /\ on # "expect"
                              \/ Did(c, p) /\ (p = "x" => "shim" # "exec"))
        /\ \A p : IsMade(p)' <=> \/ IsMade(p)
                                 \/ p = "x" /\ "shim" = "exec"
                                 \/ p # "x" /\ "shim" = "create" /\ who = p /\ on # "expect"
        /\ Behind(script, ip, {"snapshot"})' <=> Behind(script, ip, {"snapshot"}) \/ "shim" \in {"snapshot"}
    BY <1>1, StepsOn DEF IInv, Onward
  <2>2. /\ \A c \in {"shim", "cleanup", "sbCreate", "sbStart", "sbStop", "sbShutdown", "shutdown"} :
              AskedFor(c)' <=> AskedFor(c) \/ ("shim" = c /\ on # "expect")
        /\ IsDown' <=> IsDown \/ "shim" \in {"sbShutdown", "shutdown"}
    BY <1>1, AskedNext DEF IInv, Onward
  <2>3. QED
    BY <2>1, <2>2
<1>4. ShimAt' /\ SandboxAt'
  BY <1>1, <1>2, <1>3 DEF Facts, ShimAt, SandboxAt
<1>5. \A p \in Procs : ProcAt(p)'
  BY <1>1, <1>3 DEF Facts, ProcAt
<1>6. TestAt'
  BY <1>1, <1>3 DEF Facts, TestAt
<1>7. QED
  BY <1>4, <1>5, <1>6 DEF Facts

\* The steps of the others, while the test is in its body: processes end.
LEMMA OthersKnown ==
    ASSUME Facts, UNCHANGED <<test, ip, shim, sandbox, cleanups, snap, slow, fed>>, Decays("none"),
           breach' = "none" => breach = "none", waiter' = "done" => sandbox = "stopped"
    PROVE  Facts'
<1>1. /\ \A c, p : Did(c, p)' <=> Did(c, p)
      /\ \A c : AskedFor(c)' <=> AskedFor(c)
      /\ IsDown' <=> IsDown
      /\ \A p : IsMade(p)' <=> IsMade(p)
      /\ Behind(script, ip, {"snapshot"})' <=> Behind(script, ip, {"snapshot"})
  BY Stands
<1>2. ShimAt' /\ SandboxAt'
  BY <1>1 DEF Facts, ShimAt, SandboxAt
<1>3. \A p \in Procs : ProcAt(p)'
  <2>1. \A p \in Procs : p # "none"
    BY DEF Procs, Members
  <2>2. QED
    BY <1>1, <2>1, ProcsDecay DEF Facts
<1>4. TestAt'
  BY <1>1 DEF Facts, TestAt
<1>5. QED
  BY <1>2, <1>3, <1>4 DEF Facts

\* What the others do.
OtherSteps == WaitSandbox \/ \E p \in Procs : Prints(p) \/ Arrives(p) \/ ProcExits(p)

LEMMA OthersQuiet ==
    ASSUME IInv, OtherSteps
    PROVE  /\ UNCHANGED <<world, test, ip, phase, failed, skipped, leaked, cleanups, tracked, snap, shim,
                          sandbox, fed, pending, slow>>
           /\ Decays("none") /\ (fault => fault')
           /\ \/ waiter' = waiter
              \/ waiter' = "done" /\ (sandbox = "stopped" \/ shim = "down" \/ phase # "body" \/ fault')
           /\ breach' # breach =>
                 \/ breach' = "shared" /\ test = Separating /\ proc' = proc /\ proc["c"] = "running"
                 \/ \E p \in Procs : /\ proc[p] = "running" /\ program(p) # "forever" /\ phase = "body"
                                     /\ TakesAlong(p)
           /\ \A p \in Procs : proc'[p] # proc[p] =>
                 \/ \E q \in Procs : TakesAlong(q)
                 \/ program(p) \in {"quiet", "echo", "serve"}
                 \/ program(p) = "nc" /\ out[p] # "none"
           /\ \A p \in Procs : out[p] = "none" /\ out'[p] # "none" /\ program(p) = "nc" => p \in fed
<1>1. proc \in [Procs -> States] /\ out \in [Procs -> {"none", "flight", "seen"}] /\ ShimOK
  BY DEF IInv, ShimOK, States
<1>2. CASE WaitSandbox
  <2>1. /\ UNCHANGED <<world, test, ip, phase, failed, skipped, leaked, cleanups, tracked, snap, shim,
                       sandbox, proc, out, fed, pending, slow, breach>>
        /\ waiter' = "done" /\ (fault' = fault \/ fault' = TRUE)
        /\ sandbox = "stopped" \/ shim = "down" \/ phase # "body" \/ fault'
    BY <1>2 DEF WaitSandbox, shimVars
  <2>2. QED
    BY <2>1 DEF Decays
<1>3. ASSUME NEW p \in Procs, Prints(p) \/ Arrives(p) PROVE
           /\ UNCHANGED <<world, test, ip, phase, failed, skipped, leaked, cleanups, tracked, snap, waiter,
                          shim, sandbox, proc, fed, pending, fault, slow>>
           /\ breach' # breach => breach' = "shared" /\ test = Separating /\ proc["c"] = "running"
           /\ \A q \in Procs : out[q] = "none" /\ out'[q] # "none" /\ program(q) = "nc" => q \in fed
  <2>1. CASE Prints(p)
    <3>1. /\ UNCHANGED <<world, test, ip, phase, failed, skipped, leaked, cleanups, tracked, snap, waiter,
                          shim, sandbox, proc, fed, pending, fault, slow>>
          /\ proc[p] = "running" /\ out' = [out EXCEPT ![p] = "flight"]
          /\ program(p) \in {"forever", "echo", "serve"} \/ (program(p) = "nc" /\ p \in fed)
          /\ breach' = breach \/ (breach' = "shared" /\ test = Separating /\ p = "c")
      BY <2>1 DEF Prints, testVars
    <3>2. \A q \in Procs \ {p} : out'[q] = out[q]
      BY <1>1, <3>1
    <3>3. QED
      BY <3>1, <3>2
  <2>2. CASE Arrives(p)
    <3>1. /\ UNCHANGED <<world, test, ip, phase, failed, skipped, leaked, cleanups, tracked, snap, waiter,
                          shim, sandbox, proc, fed, pending, fault, slow, breach>>
          /\ out[p] = "flight" /\ out' = [out EXCEPT ![p] = "seen"]
      BY <2>2 DEF Arrives, testVars, histVars
    <3>2. \A q \in Procs \ {p} : out'[q] = out[q]
      BY <1>1, <3>1
    <3>3. QED
      BY <3>1, <3>2
  <2>3. QED
    BY <1>3, <2>1, <2>2
<1>4. ASSUME NEW p \in Procs, ProcExits(p) PROVE
           /\ UNCHANGED <<world, test, ip, phase, failed, skipped, leaked, cleanups, tracked, snap, waiter,
                          shim, sandbox, out, fed, pending, fault, slow>>
           /\ Decays("none") /\ (breach' # breach => phase = "body" /\ TakesAlong(p))
           /\ proc[p] = "running" /\ program(p) # "forever"
           /\ \A q \in Procs : proc'[q] # proc[q] =>
                 \/ TakesAlong(p)
                 \/ q = p /\ (program(p) \in {"quiet", "echo", "serve"} \/ (program(p) = "nc" /\ out[p] # "none"))
  <2>1. /\ UNCHANGED <<world, test, ip, phase, failed, skipped, leaked, cleanups, tracked, snap, waiter,
                       shim, sandbox, out, fed, pending, slow>>
        /\ proc[p] = "running" /\ Ends(p, "stopped")
        /\ program(p) \in {"quiet", "echo", "serve"} \/ (program(p) = "nc" /\ out[p] # "none")
    BY <1>4 DEF ProcExits, testVars
  <2>2. /\ Decays("none") /\ fault' = fault
        /\ breach' = breach \/ TakesAlong(p)
        /\ \A q \in Procs \ {p} : proc'[q] = proc[q] \/ TakesAlong(p)
    BY <1>1, <2>1, EndsDecays
  <2>3. breach' # breach => phase = "body"
    BY <2>1 DEF Ends
  <2>4. QED
    BY <2>1, <2>2, <2>3
<1>5. CASE \E p \in Procs : Prints(p) \/ Arrives(p)
  <2>1. PICK p \in Procs : Prints(p) \/ Arrives(p)
    BY <1>5
  <2>2. Decays("none")
    BY <1>3, <2>1 DEF Decays
  <2>3. QED
    BY <1>3, <2>1, <2>2
<1>6. CASE \E p \in Procs : ProcExits(p)
  <2>1. PICK p \in Procs : ProcExits(p)
    BY <1>6
  <2>2. QED
    BY <1>4, <2>1
<1>7. QED
  BY <1>2, <1>5, <1>6 DEF OtherSteps
-----------------------------------------------------------------------------
(***************************************************************************)
(* The requests that nobody waits for, and the end of the test.            *)
(***************************************************************************)
LEMMA ServesQuiet ==
    ASSUME IInv, Serves
    PROVE  /\ UNCHANGED <<world, test, ip, phase, failed, skipped, leaked, cleanups, tracked, snap, waiter,
                          fault, slow>>
           /\ breach' # breach => phase = "body"
           /\ \A p \in Procs : proc[p] \in {"stopped", "deleted"} => proc'[p] \in {"stopped", "deleted"}
           /\ \A p \in Procs : proc'[p] = "running" => proc[p] = "running"
           /\ fed' = fed /\ (\A q \in Members : out'[q] = out[q])
           /\ \E r \in pending :
                 /\ pending' = (IF shim' = "up" THEN pending \ {r} ELSE {})
                 /\ shim' = "up" => shim = "up"
                 /\ shim = "up" /\ sandbox \in {"ready", "stopped"} =>
                       /\ sandbox' \in {"ready", "stopped"}
                       /\ r = <<"sbShutdown", "none">> => shim' = "down"
<1>1. PICK r \in pending :
         /\ \/ Legal(r[1], r[2]) /\ Effect(r[1], r[2])
            \/ ~Legal(r[1], r[2]) /\ UNCHANGED <<shim, sandbox, proc, out, fed, fault, breach>>
         /\ pending' = IF shim' = "up" THEN pending \ {r} ELSE {}
         /\ UNCHANGED <<testVars, served, asked, slow>>
  BY DEF Serves
<1>2. UNCHANGED <<world, test, ip, phase, failed, skipped, leaked, cleanups, tracked, snap, waiter, slow>>
  BY <1>1 DEF testVars
<1>3. /\ r[1] \in {"kill", "delete", "sbStop", "sbShutdown"} /\ r[1] \in Calls
      /\ r[1] \in {"sbStop", "sbShutdown"} => r = <<r[1], "none">>
  BY <1>1 DEF IInv, ShimOK, Calls, SandboxCalls, TaskCalls
<1>4. CASE Legal(r[1], r[2]) /\ Effect(r[1], r[2])
  <2>1. EffectOn(r[1], r[2])
    BY <1>3, <1>4, EffectOf DEF IInv
  <2>2. breach' # breach => phase = "body"
    <3>1. CASE r[1] = "sbStop"
      BY <1>4, <3>1 DEF Effect, Stops
    <3>2. CASE r[1] \in {"kill", "delete"}
      <4>1. Ends(r[2], "stopped") \/ Ends(r[2], "deleted")
        BY <1>4, <3>2 DEF Effect
      <4>2. QED
        BY <4>1 DEF Ends
    <3>3. CASE r[1] = "sbShutdown"
      BY <1>4, <3>3 DEF Effect
    <3>4. QED
      BY <1>3, <3>1, <3>2, <3>3
  <2>3. /\ fault' = fault /\ fed' = fed /\ \A q \in Members : out'[q] = out[q]
        /\ Decays(IF r[1] = "delete" THEN r[2] ELSE "none")
        /\ shim' = (IF r[1] = "sbShutdown" THEN "down" ELSE shim)
    BY <1>3, <2>1 DEF EffectOn
  <2>4. sandbox \in {"ready", "stopped"} => sandbox' \in {"ready", "stopped"}
    BY <1>3, <2>1 DEF EffectOn
  <2>5. \A p \in Procs : /\ proc[p] \in {"stopped", "deleted"} => proc'[p] \in {"stopped", "deleted"}
                         /\ proc'[p] = "running" => proc[p] = "running"
    BY <2>3 DEF Decays
  <2>6. r = <<"sbShutdown", "none">> => r[1] = "sbShutdown"
    OBVIOUS
  <2>7. shim' = "up" => shim = "up"
    BY <2>3
  <2>8. QED
    BY <1>1, <1>2, <2>2, <2>3, <2>4, <2>5, <2>6, <2>7
<1>5. CASE ~Legal(r[1], r[2]) /\ UNCHANGED <<shim, sandbox, proc, out, fed, fault, breach>>
  <2>1. ASSUME shim = "up", sandbox \in {"ready", "stopped"}, r = <<"sbShutdown", "none">> PROVE FALSE
    <3>1. r[1] = "sbShutdown"
      BY <2>1
    <3>2. ~Legal("sbShutdown", r[2])
      BY <1>5, <3>1
    <3>3. Legal("sbShutdown", r[2])
      BY <2>1 DEF Legal
    <3>4. QED
      BY <3>2, <3>3
  <2>2. QED
    BY <1>1, <1>2, <1>5, <2>1
<1>6. QED
  BY <1>1, <1>4, <1>5

\* What every step of the body leaves alone.
LEMMA BodyKeeps ==
    ASSUME Body
    PROVE  /\ UNCHANGED <<world, test, phase, leaked, pending>>
           /\ \E call : At(call)
           /\ skipped' = skipped \/ (At("require") /\ skipped' = TRUE /\ ip' = Len(script) + 1)
           /\ slow => slow'
<1>1. CASE startShim
  BY <1>1 DEF startShim
<1>2. CASE rpc
  BY <1>2 DEF rpc
<1>3. CASE cleanup \/ track
  BY <1>3 DEF cleanup, track, shimVars, histVars
<1>4. CASE \/ readContainerOutput \/ readOutputs \/ waitForSandboxStatus \/ waitDone \/ waitTimeout
           \/ hostDone
  BY <1>4 DEF readContainerOutput, readOutputs, waitForSandboxStatus, waitDone, waitTimeout, hostDone, Timed,
             shimVars
<1>5. CASE dialInNetnsRoundTrip
  BY <1>5 DEF dialInNetnsRoundTrip, Timed
<1>6. CASE containerOutputSnapshot
  BY <1>6 DEF containerOutputSnapshot, shimVars
<1>7. CASE verify \/ verifyNot
  BY <1>7 DEF verify, verifyNot, shimVars, histVars
<1>8. CASE probe
  BY <1>8 DEF probe, shimVars
<1>9. CASE require
  BY <1>9 DEF require, shimVars, histVars
<1>10. CASE startWaiter
  BY <1>10 DEF startWaiter, shimVars, histVars
<1>11. QED
  BY <1>1, <1>2, <1>3, <1>4, <1>5, <1>6, <1>7, <1>8, <1>9, <1>10 DEF Body

\* A skipped test takes no step of its body.
LEMMA BodyHere ==
    ASSUME IInv, Place, Body PROVE Here /\ pending = {} /\ ip \in 1..Len(script) /\ Len(script) \in Nat
<1>1. PICK call : At(call)
  BY BodyKeeps
<1>2. phase = "body" /\ ip \in 1..Len(script) /\ Len(script) \in Nat
  BY <1>1, HereOK DEF IInv
<1>3. QED
  BY <1>2 DEF Place, Here, IInv, TestOK

\* What was wrong, or has failed, stays so.
LEMMA QuietBefore == ASSUME IInv, [Next]_vars, Quiet' PROVE Quiet
<1>1. CASE rpc
  BY <1>1, RpcQuiet DEF Quiet, Onward
<1>2. CASE startShim
  BY <1>2, startShimQuiet DEF Quiet, Onward
<1>3. CASE LookSteps
  BY <1>3, LooksQuiet DEF Quiet
<1>4. CASE BodyEnds \/ Cleanup \/ registerShimLeakCheck
  BY <1>4 DEF BodyEnds, Cleanup, registerShimLeakCheck, histVars, Quiet
<1>5. CASE OtherSteps
  BY <1>5, OthersQuiet DEF Quiet
<1>6. CASE Serves
  BY <1>6, ServesQuiet DEF Quiet
<1>7. CASE UNCHANGED vars
  BY <1>7 DEF vars, testVars, histVars, Quiet
<1>8. QED
  BY <1>1, <1>2, <1>3, <1>4, <1>5, <1>6, <1>7 DEF Next, Test, Body, World, LookSteps, OtherSteps

LEMMA PlaceKept == ASSUME IInv, Place, [Next]_vars PROVE Place'
<1>1. CASE Body
  <2>1. /\ UNCHANGED <<world, test, phase, leaked, pending>> /\ phase = "body" /\ pending = {} /\ ~skipped
        /\ skipped' = skipped \/ (At("require") /\ skipped' = TRUE /\ ip' = Len(script) + 1)
        /\ ip \in 1..Len(script) /\ Len(script) \in Nat
    BY <1>1, BodyKeeps, BodyHere DEF Here
  <2>2. At("require") => Ahead(script, 1, {"require"})
    BY <2>1 DEF At, Ahead
  <2>3. script' = script
    BY <2>1 DEF script
  <2>4. QED
    BY <2>1, <2>2, <2>3 DEF Place
<1>2. CASE BodyEnds
  <2>1. /\ UNCHANGED <<test, ip, skipped, pending>> /\ ip > Len(script) /\ phase' = "cleanup"
    BY <1>2 DEF BodyEnds, shimVars
  <2>2. script' = script /\ ip = Len(script) + 1
    BY <2>1, ScriptOf DEF script, IInv, TestOK
  <2>3. QED
    BY <2>1, <2>2 DEF Place
<1>3. CASE Cleanup \/ registerShimLeakCheck
  <2>1. UNCHANGED <<test, ip, skipped>> /\ phase # "body" /\ phase' # "body"
    BY <1>3 DEF Cleanup, registerShimLeakCheck
  <2>2. script' = script
    BY <2>1 DEF script
  <2>3. QED
    BY <2>1, <2>2 DEF Place
<1>4. CASE OtherSteps \/ Serves \/ UNCHANGED vars
  <2>1. UNCHANGED <<test, ip, phase, skipped>> /\ (pending = {} => pending' = {})
    <3>1. CASE OtherSteps
      BY <3>1, OthersQuiet
    <3>2. CASE Serves
      BY <3>2, ServesQuiet
    <3>3. CASE UNCHANGED vars
      BY <3>3 DEF vars, testVars, shimVars
    <3>4. QED
      BY <1>4, <3>1, <3>2, <3>3
  <2>2. script' = script
    BY <2>1 DEF script
  <2>3. QED
    BY <2>1, <2>2 DEF Place
<1>5. QED
  BY <1>1, <1>2, <1>3, <1>4 DEF Next, Test, World, OtherSteps

LEMMA KnownKept == ASSUME IInv, Place, Known, [Next]_vars PROVE Known'
<1> SUFFICES ASSUME Quiet', Here' PROVE Facts'
  BY DEF Known
<1>1. Quiet
  BY QuietBefore
<1>2. CASE Body
  <2>1. Here /\ Facts
    BY <1>1, <1>2, BodyHere DEF Known
  <2>2. CASE rpc
    BY <2>1, <2>2, RpcKnown
  <2>3. CASE startShim
    BY <2>1, <2>3, startShimKnown
  <2>4. CASE LookSteps
    <3>1. skipped' = skipped /\ ip' = ip + 1
      BY <2>1, <2>4, LooksQuiet DEF Here, Onward
    <3>2. QED
      BY <2>1, <2>4, <3>1, LooksKnown
  <2>5. QED
    BY <1>2, <2>2, <2>3, <2>4 DEF Body, LookSteps
<1>3. CASE BodyEnds \/ Cleanup \/ registerShimLeakCheck
  <2>1. phase' # "body"
    BY <1>3 DEF BodyEnds, Cleanup, registerShimLeakCheck
  <2>2. QED
    BY <2>1 DEF Here
<1>4. CASE OtherSteps
  <2>1. /\ UNCHANGED <<world, test, ip, phase, failed, skipped, leaked, cleanups, tracked, snap, shim,
                       sandbox, fed, pending, slow>>
        /\ Decays("none") /\ ~fault'
        /\ waiter' = waiter \/ (waiter' = "done" /\ (sandbox = "stopped" \/ shim = "down" \/ phase # "body"))
        /\ breach' # breach => breach' # "none"
    BY <1>4, OthersQuiet DEF TakesAlong, Quiet
  <2>2. Here /\ Facts
    BY <1>1, <2>1 DEF Here, Known
  <2>3. waiter' = "done" => sandbox = "stopped"
    <3>1. shim = "down" => sandbox = "stopped"
      BY <2>2 DEF Facts, ShimAt, SandboxAt
    <3>2. waiter = "done" => sandbox = "stopped"
      BY <2>2 DEF Facts, TestAt
    <3>3. QED
      BY <2>1, <2>2, <3>1, <3>2 DEF Here
  <2>4. QED
    BY <2>1, <2>2, <2>3, OthersKnown
<1>5. CASE Serves
  <2>1. phase = "body" /\ pending # {}
    BY <1>5, ServesQuiet DEF Here
  <2>2. QED
    BY <2>1 DEF Place
<1>6. CASE UNCHANGED vars
  <2>1. UNCHANGED <<test, ip, phase, skipped, shim, sandbox, cleanups, snap, slow, fed, proc, breach, waiter>>
    BY <1>6 DEF vars, testVars, shimVars, histVars
  <2>2. Here /\ Facts
    BY <1>1, <2>1 DEF Here, Known
  <2>3. Decays("none") /\ (waiter' = "done" => sandbox = "stopped")
    BY <2>1, <2>2 DEF Decays, Facts, TestAt
  <2>4. QED
    BY <2>1, <2>2, <2>3, OthersKnown
<1>7. QED
  BY <1>2, <1>3, <1>4, <1>5, <1>6 DEF Next, Test, World, OtherSteps

LEMMA EndingKept == ASSUME IInv, Place, Known, Ending, [Next]_vars PROVE Ending'
<1> DEFINE Shuts == \/ \E i \in 1..Len(cleanups) : cleanups[i] = "sandbox"
                    \/ <<"sbShutdown", "none">> \in pending
<1> SUFFICES ASSUME Quiet', ~Here', shim' = "up" PROVE sandbox' \in {"ready", "stopped"} /\ Shuts'
  BY DEF Ending
<1>1. Quiet
  BY QuietBefore
<1>2. ASSUME ~Here, shim = "up" PROVE sandbox \in {"ready", "stopped"} /\ Shuts
  BY <1>1, <1>2 DEF Ending
<1>3. CASE Body
  <2>1. Here /\ Facts /\ phase' = phase
    BY <1>1, <1>3, BodyHere, BodyKeeps DEF Known
  <2>2. skipped'
    BY <2>1 DEF Here
  <2>3. LookSteps
    <3>1. rpc => skipped' = skipped
      BY RpcQuiet
    <3>2. startShim => skipped' = skipped
      BY startShimQuiet
    <3>3. QED
      BY <1>3, <2>1, <2>2, <3>1, <3>2 DEF Here, Body, LookSteps
  <2>4. At("require") /\ UNCHANGED <<cleanups, shim, sandbox>>
    BY <2>1, <2>2, <2>3, LooksQuiet DEF Here
  <2>5. AskedFor("shim") => AskedFor("cleanup")
    BY <2>4, SandboxRule DEF IInv
  <2>6. AskedFor("cleanup")
    BY <2>1, <2>4, <2>5 DEF Facts, ShimAt
  <2>7. QED
    BY <2>1, <2>4, <2>6 DEF Facts, TestAt
<1>4. CASE BodyEnds
  <2>1. /\ UNCHANGED <<cleanups, shim, sandbox, pending>> /\ phase = "body" /\ ip > Len(script)
    BY <1>4 DEF BodyEnds, shimVars
  <2>2. CASE Here
    <3>1. Facts
      BY <1>1, <2>2 DEF Known
    <3>2. Whole(script) /\ ip = Len(script) + 1
      BY <2>1, RulesOf DEF IInv, TestOK
    <3>3. AskedFor("cleanup") \/ IsDown
      BY <3>2 DEF Whole, Asked, Down, AskedFor, IsDown, Did
    <3>4. AskedFor("cleanup")
      BY <2>1, <3>1, <3>3 DEF Facts, ShimAt
    <3>5. QED
      BY <2>1, <3>1, <3>4 DEF Facts, TestAt
  <2>3. CASE ~Here
    BY <1>2, <2>1, <2>3
  <2>4. QED
    BY <2>2, <2>3
<1>5. CASE Cleanup
  <2>1. /\ UNCHANGED <<shim, sandbox>> /\ ~Here
        /\ cleanups \in Seq(Members \cup {"sandbox"})
    BY <1>5 DEF Cleanup, Here, IInv, TestOK
  <2>2. sandbox \in {"ready", "stopped"} /\ Shuts
    BY <1>2, <2>1
  <2>3. CASE cleanups = <<>>
    BY <1>5, <2>1, <2>2, <2>3 DEF Cleanup
  <2>4. CASE cleanups # <<>>
    <3> DEFINE n == Len(cleanups)
               top == cleanups[n]
    <3>1. n \in Nat \ {0}
      BY <2>1, <2>4
    <3>2. /\ cleanups' = SubSeq(cleanups, 1, n - 1)
          /\ IF top = "sandbox" THEN shutdownSandboxShim ELSE memberCleanup(top)
      BY <1>5, <2>4 DEF Cleanup
    <3>3. pending \subseteq pending' /\ (top = "sandbox" => <<"sbShutdown", "none">> \in pending')
      BY <3>2 DEF shutdownSandboxShim, memberCleanup
    <3>4. Len(cleanups') = n - 1 /\ \A i \in 1..n - 1 : cleanups'[i] = cleanups[i]
      <4> DEFINE k == n - 1
      <4>1. k \in Nat /\ k \in Int /\ k - 1 + 1 = k /\ (~(1 <= k) => k = 0)
            /\ \A i \in 1..k : cleanups[i] \in Members \cup {"sandbox"}
        <5>1. \A m \in Nat \ {0} : m - 1 \in Nat /\ m - 1 \in Int /\ (m - 1) - 1 + 1 = m - 1
                                  /\ (~(1 <= m - 1) => m - 1 = 0)
          OBVIOUS
        <5>2. k \in Nat /\ k \in Int /\ k - 1 + 1 = k /\ (~(1 <= k) => k = 0)
          BY <3>1, <5>1
        <5>3. QED
          BY <2>1, <5>2, ElementOfSeq
      <4>2. cleanups' = SubSeq(cleanups, 1, k)
        BY <3>2
      <4> HIDE DEF k
      <4>3. /\ Len(cleanups') = IF 1 <= k THEN k - 1 + 1 ELSE 0
            /\ \A i \in 1..k - 1 + 1 : cleanups'[i] = cleanups[1 + i - 1]
        BY <2>1, <4>1, <4>2, SubSeqProperties
      <4>4. \A i \in 1..k : 1 + i - 1 = i
        BY <4>1
      <4>5. Len(cleanups') = k /\ \A i \in 1..k : cleanups'[i] = cleanups[i]
        BY <4>1, <4>3, <4>4
      <4>6. QED
        BY <4>5 DEF k
    <3>5. ASSUME NEW i \in 1..n, cleanups[i] = "sandbox", top # "sandbox" PROVE Shuts'
      <4>1. i \in 1..n - 1
        BY <3>1, <3>5
      <4>2. QED
        BY <3>4, <3>5, <4>1
    <3>6. QED
      BY <2>1, <2>2, <3>3, <3>5
  <2>5. QED
    BY <2>3, <2>4
<1>6. CASE registerShimLeakCheck \/ OtherSteps \/ UNCHANGED vars
  <2>1. UNCHANGED <<cleanups, shim, sandbox, pending>> /\ ~Here
    <3>1. CASE registerShimLeakCheck
      BY <3>1 DEF registerShimLeakCheck, shimVars, Here
    <3>2. CASE OtherSteps
      BY <3>2, OthersQuiet DEF Here
    <3>3. CASE UNCHANGED vars
      BY <3>3 DEF vars, testVars, shimVars, Here
    <3>4. QED
      BY <1>6, <3>1, <3>2, <3>3
  <2>2. QED
    BY <1>2, <2>1
<1>7. CASE Serves
  <2>1. UNCHANGED <<phase, skipped, cleanups>>
    BY <1>7, ServesQuiet
  <2>2. PICK r \in pending :
                 /\ pending' = (IF shim' = "up" THEN pending \ {r} ELSE {})
                 /\ shim' = "up" => shim = "up"
                 /\ shim = "up" /\ sandbox \in {"ready", "stopped"} =>
                       /\ sandbox' \in {"ready", "stopped"}
                       /\ r = <<"sbShutdown", "none">> => shim' = "down"
    BY <1>7, ServesQuiet
  <2>3. ~Here /\ shim = "up"
    BY <2>1, <2>2 DEF Here
  <2>4. sandbox \in {"ready", "stopped"} /\ Shuts
    BY <1>2, <2>3
  <2>5. sandbox' \in {"ready", "stopped"} /\ r # <<"sbShutdown", "none">>
    BY <2>2, <2>3, <2>4
  <2>6. QED
    BY <2>1, <2>2, <2>4, <2>5
<1>8. QED
  BY <1>3, <1>4, <1>5, <1>6, <1>7 DEF Next, Test, World, OtherSteps

\* What a member printed stays with what it was fed.
LEMMA FedStands ==
    ASSUME Fed, test' = test, fed \subseteq fed',
           \A m \in Members : out[m] = "none" /\ out'[m] # "none" /\ program(m) = "nc" => m \in fed
    PROVE  Fed'
<1>1. \A m : program(m)' = program(m)
  BY DEF program
<1>2. QED
  BY <1>1 DEF Fed

LEMMA FedKept == ASSUME IInv, Fed, [Next]_vars PROVE Fed'
<1>1. Members \subseteq Procs
  BY DEF Procs
<1>2. CASE rpc
  <2>1. PICK call \in Calls :
       /\ \/ Legal(call, who) /\ Effect(call, who)
          \/ UNCHANGED <<out, fed>>
       /\ test' = test
    BY <1>2 DEF rpc
  <2>2. CASE Legal(call, who) /\ Effect(call, who)
    <3>1. EffectOn(call, who)
      BY <2>2, EffectOf DEF IInv
    <3>2. fed \subseteq fed' /\ \A q \in Members : out'[q] = out[q]
      BY <3>1 DEF EffectOn
    <3>3. QED
      BY <2>1, <3>2, FedStands
  <2>3. QED
    BY <2>1, <2>2, FedStands
<1>3. CASE /\ Body /\ ~rpc
  <2>1. UNCHANGED <<test, out, fed>>
    <3>1. CASE startShim \/ cleanup \/ track
      BY <3>1 DEF startShim, cleanup, track, shimVars
    <3>2. CASE \/ readContainerOutput \/ readOutputs \/ waitForSandboxStatus \/ waitDone \/ waitTimeout
               \/ hostDone \/ dialInNetnsRoundTrip
      BY <3>2 DEF readContainerOutput, readOutputs, waitForSandboxStatus, waitDone, waitTimeout, hostDone,
                  dialInNetnsRoundTrip, Timed, shimVars
    <3>3. CASE containerOutputSnapshot \/ verify \/ verifyNot \/ probe \/ require \/ startWaiter
      BY <3>3 DEF containerOutputSnapshot, verify, verifyNot, probe, require, startWaiter, shimVars
    <3>4. QED
      BY <1>3, <3>1, <3>2, <3>3 DEF Body
  <2>2. QED
    BY <2>1, FedStands
<1>4. CASE BodyEnds \/ Cleanup \/ registerShimLeakCheck \/ UNCHANGED vars
  <2>1. UNCHANGED <<test, out, fed>>
    BY <1>4 DEF BodyEnds, Cleanup, registerShimLeakCheck, vars, testVars, shimVars
  <2>2. QED
    BY <2>1, FedStands
<1>5. CASE OtherSteps
  <2>1. /\ UNCHANGED <<test, fed>>
        /\ \A p \in Procs : out[p] = "none" /\ out'[p] # "none" /\ program(p) = "nc" => p \in fed
    BY <1>5, OthersQuiet
  <2>2. QED
    BY <1>1, <2>1, FedStands
<1>6. CASE Serves
  <2>1. test' = test /\ fed' = fed /\ (\A q \in Members : out'[q] = out[q])
    BY <1>6, ServesQuiet
  <2>2. QED
    BY <2>1, FedStands
<1>7. QED
  BY <1>2, <1>3, <1>4, <1>5, <1>6 DEF Next, Test, World, OtherSteps
-----------------------------------------------------------------------------
(***************************************************************************)
(* No false alarm.                                                         *)
(***************************************************************************)

\* The order of the script, seen from a later step.
LEMMA InOrder ==
    ASSUME TestOK
    PROVE  /\ AskedFor("sbStop") => AskedFor("sbStart")
           /\ AskedFor("sbStart") => AskedFor("sbCreate")
           /\ \A m \in Members : Did("start", m) => AskedFor("sbStart")
<1>1. /\ \A i \in 1..Len(script) : SandboxProtocol(script, i) /\ TaskProtocol(test, i)
      /\ ip \in 1..Len(script) + 1 /\ Len(script) \in Nat
  BY RulesOf DEF TestOK
<1>2. ASSUME NEW j \in 1..ip - 1, NEW c, Asked(script, j, c) PROVE AskedFor(c)
  <2>1. PICK k \in 1..j - 1 : script[k].call = c /\ script[k].who = "none" /\ script[k].on # "expect"
    BY <1>2 DEF Asked, Done
  <2>2. k \in 1..ip - 1
    BY <1>1, <2>1
  <2>3. QED
    BY <2>1, <2>2 DEF AskedFor, Did, Done
<1>3. ASSUME NEW p, NEW c, Did(c, p)
      PROVE  \E j \in 1..ip - 1 : /\ script[j].call = c /\ script[j].who = p /\ script[j].on # "expect"
                                  /\ SandboxProtocol(script, j) /\ TaskProtocol(test, j)
  <2>1. PICK j \in 1..ip - 1 : script[j].call = c /\ script[j].who = p /\ script[j].on # "expect"
    BY <1>3 DEF Did, Done
  <2>2. j \in 1..Len(script)
    BY <1>1
  <2>3. QED
    BY <1>1, <2>1, <2>2
<1>4. ASSUME AskedFor("sbStop") PROVE AskedFor("sbStart")
  <2>1. PICK j \in 1..ip - 1 : script[j].call = "sbStop" /\ SandboxProtocol(script, j)
    BY <1>3, <1>4 DEF AskedFor
  <2>2. Asked(script, j, "sbStart")
    BY <2>1 DEF SandboxProtocol
  <2>3. QED
    BY <1>2, <2>2
<1>5. ASSUME AskedFor("sbStart") PROVE AskedFor("sbCreate")
  <2>1. PICK j \in 1..ip - 1 : script[j].call = "sbStart" /\ script[j].on # "expect" /\ SandboxProtocol(script, j)
    BY <1>3, <1>5 DEF AskedFor
  <2>2. Asked(script, j, "sbCreate")
    BY <2>1 DEF SandboxProtocol
  <2>3. QED
    BY <1>2, <2>2
<1>6. ASSUME NEW m \in Members, Did("start", m) PROVE AskedFor("sbStart")
  <2>1. PICK j \in 1..ip - 1 : script[j].call = "start" /\ script[j].who = m /\ TaskProtocol(test, j)
    BY <1>3, <1>6
  <2>2. Made(script, j, m) /\ m # "x"
    BY <2>1 DEF TaskProtocol, script, Members
  <2>3. PICK k \in 1..j - 1 : script[k].call = "create"
    BY <2>2 DEF Made, Done
  <2>4. k \in 1..ip - 1 /\ k \in 1..Len(script)
    BY <1>1, <2>3
  <2>5. Asked(script, k, "sbStart")
    BY <1>1, <2>3, <2>4 DEF SandboxProtocol
  <2>6. QED
    BY <1>2, <2>4, <2>5
<1>7. QED
  BY <1>4, <1>5, <1>6

LEMMA RunsIs ==
    ASSUME NEW m
    PROVE  /\ Runs(test, ip, m) <=>
                 /\ AskedFor("sbStart") /\ ~AskedFor("sbStop") /\ ~IsDown
                 /\ Did("start", m) /\ ~Did("kill", m)
                 /\ program(m) = "forever" \/ (program(m) = "nc" /\ ~Did("stdin", m))
           /\ Runs(test, ip, m)' <=>
                 /\ AskedFor("sbStart")' /\ ~AskedFor("sbStop")' /\ ~IsDown'
                 /\ Did("start", m)' /\ ~Did("kill", m)'
                 /\ program(m)' = "forever" \/ (program(m)' = "nc" /\ ~Did("stdin", m)')
BY DEF Runs, Serving, Down, Asked, AskedFor, Did, IsDown, script, program

\* What went wrong is remembered.
LEMMA Remembers ==
    ASSUME IInv, [Next]_vars
    PROVE  (fault => fault') /\ (slow => slow') /\ (breach' = "none" => breach = "none")
<1>1. CASE Body
  <2>1. slow => slow'
    BY <1>1, BodyKeeps
  <2>2. CASE rpc
    <3>1. PICK call \in Calls :
         \/ Legal(call, who) /\ Effect(call, who)
         \/ UNCHANGED <<fault, breach>>
         \/ fault' = TRUE /\ breach' = breach
      BY <2>2 DEF rpc
    <3>2. CASE Legal(call, who) /\ Effect(call, who)
      <4>1. EffectOn(call, who)
        BY <3>2, EffectOf DEF IInv
      <4>2. QED
        BY <2>1, <4>1 DEF EffectOn, TakesAlong
    <3>3. QED
      BY <2>1, <3>1, <3>2
  <2>3. CASE startShim \/ cleanup \/ track
    BY <2>1, <2>3 DEF startShim, cleanup, track, histVars
  <2>4. CASE \/ readContainerOutput \/ readOutputs \/ waitForSandboxStatus \/ waitDone \/ waitTimeout
             \/ hostDone \/ dialInNetnsRoundTrip
    BY <2>1, <2>4 DEF readContainerOutput, readOutputs, waitForSandboxStatus, waitDone, waitTimeout, hostDone,
                      dialInNetnsRoundTrip, Timed
  <2>5. CASE containerOutputSnapshot \/ verify \/ verifyNot \/ probe \/ require \/ startWaiter
    <3>1. CASE containerOutputSnapshot
      BY <2>1, <3>1 DEF containerOutputSnapshot
    <3>2. CASE probe
      <4>1. breach' = breach /\ (fault' = fault \/ fault' = TRUE)
        BY <3>2 DEF probe
      <4>2. QED
        BY <2>1, <4>1
    <3>3. CASE verify \/ verifyNot \/ require \/ startWaiter
      <4>1. UNCHANGED histVars
        BY <3>3 DEF verify, verifyNot, require, startWaiter
      <4>2. QED
        BY <4>1 DEF histVars
    <3>4. QED
      BY <2>5, <3>1, <3>2, <3>3
  <2>6. QED
    BY <1>1, <2>2, <2>3, <2>4, <2>5 DEF Body
<1>2. CASE BodyEnds \/ Cleanup \/ registerShimLeakCheck \/ UNCHANGED vars
  <2>1. CASE BodyEnds
    BY <2>1 DEF BodyEnds, histVars
  <2>2. CASE Cleanup
    BY <2>2 DEF Cleanup
  <2>3. CASE registerShimLeakCheck
    BY <2>3 DEF registerShimLeakCheck
  <2>4. CASE UNCHANGED vars
    BY <2>4 DEF vars, histVars
  <2>5. QED
    BY <1>2, <2>1, <2>2, <2>3, <2>4
<1>3. CASE OtherSteps
  BY <1>3, OthersQuiet DEF TakesAlong
<1>4. CASE Serves
  <2>1. PICK r \in pending :
         /\ \/ Legal(r[1], r[2]) /\ Effect(r[1], r[2])
            \/ UNCHANGED <<fault, breach>>
         /\ slow' = slow
    BY <1>4 DEF Serves
  <2>2. CASE Legal(r[1], r[2]) /\ Effect(r[1], r[2])
    <3>1. r[1] \in Calls
      BY DEF IInv, ShimOK, Calls, SandboxCalls, TaskCalls
    <3>2. EffectOn(r[1], r[2])
      BY <2>2, <3>1, EffectOf DEF IInv
    <3>3. QED
      BY <2>1, <3>2 DEF EffectOn, TakesAlong
  <2>3. QED
    BY <2>1, <2>2
<1>5. QED
  BY <1>1, <1>2, <1>3, <1>4 DEF Next, Test, World, OtherSteps

\* Those that have reason to run do.
Running == \A m \in Members : Runs(test, ip, m) => proc[m] = "running"

\* Each call is legal, and answered as the test expects, unless it may fail.
LEMMA CallFine ==
    ASSUME IInv, Facts, Clean, Running, NEW call \in Calls, At(call)
    PROVE  /\ Legal(call, who) => on # "expect" /\ Right(call, who)
           /\ ~Legal(call, who) /\ ~Blocked(call, who) => on \in {"lenient", "ignore", "expect"}
<1>1. /\ AskedFor("shim") /\ ~IsDown
      /\ on = "expect" => call \in {"sbCreate", "sbStart"}
      /\ call = "sbCreate" => IF AskedFor("sbCreate") THEN on = "expect" ELSE on = "fatal"
      /\ call = "sbStart" => IF AskedFor("sbCreate") THEN on = "mixed" /\ ~AskedFor("sbStart")
                                                     ELSE on = "expect"
      /\ call \in {"sbQuery", "sbReady", "sbNotReady", "sbStop", "sbShutdown", "cleanup", "create"} =>
            AskedFor("sbStart")
      /\ call \in {"sbQuery", "sbReady", "create"} => ~AskedFor("sbStop")
      /\ call = "sbNotReady" => AskedFor("sbStop")
  BY SandboxRule DEF IInv
<1>2. /\ shim = "up"
      /\ IF AskedFor("sbStop") THEN sandbox = "stopped"
         ELSE sandbox = IF AskedFor("sbStart") THEN "ready"
                        ELSE IF AskedFor("sbCreate") THEN "created" ELSE "none"
      /\ AskedFor("sbStop") => AskedFor("sbStart")
      /\ AskedFor("sbStart") => AskedFor("sbCreate")
  BY <1>1, InOrder DEF Facts, ShimAt, SandboxAt, Clean, IInv
<1>3. CASE call \in {"sbCreate", "sbStart"}
  BY <1>1, <1>2, <1>3 DEF Legal, Right
<1>4. CASE call \in {"sbQuery", "sbReady", "sbNotReady", "sbStop", "sbShutdown", "shutdown"}
  BY <1>1, <1>2, <1>4 DEF Legal, Right
<1>5. CASE call = "create"
  <2>1. who \in Members /\ ~Did("create", who)
    BY <1>5, TaskRule DEF IInv
  <2>2. who # "x" /\ who \in Procs
    BY <2>1 DEF Members, Procs
  <2>3. ~IsMade(who)
    BY <2>1, <2>2 DEF IsMade, Made, Did
  <2>4. proc[who] = "none"
    BY <2>2, <2>3 DEF Facts, ProcAt
  <2>5. QED
    BY <1>1, <1>2, <1>5, <2>4 DEF Legal, Right
<1>6. CASE call = "start"
  <2>1. who \in Procs /\ IsMade(who) /\ ~Did("start", who)
    BY <1>6, TaskRule DEF IInv
  <2>2. proc[who] = "created"
    BY <2>1 DEF Facts, ProcAt
  <2>3. QED
    BY <1>1, <1>2, <1>6, <2>2 DEF Legal, Right
<1>7. CASE call \in {"exec", "state", "stdin", "kill"}
  <2>1. who \in Members /\ ((call = "kill" /\ on = "ignore") \/ Runs(test, ip, who))
    BY <1>7, TaskRule DEF IInv
  <2>2. on = "ignore" \/ proc[who] = "running"
    BY <2>1 DEF Running
  <2>3. call = "state" => proc[who] = "running"
    BY <2>1 DEF Running
  <2>4. on # "expect"
    BY <1>1, <1>7
  <2>5. Right(call, who)
    BY <1>7, <2>3 DEF Right
  <2>6. Legal(call, who) \/ on = "ignore"
    BY <1>2, <1>7, <2>2 DEF Legal
  <2>7. QED
    BY <2>4, <2>5, <2>6
<1>8. CASE call = "wait"
  <2>1. who \in Procs /\ (on = "ignore" \/ (IsMade(who) /\ ~Did("delete", who)))
    BY <1>8, TaskRule DEF IInv
  <2>2. on = "ignore" \/ proc[who] \notin {"none", "deleted"}
    BY <2>1 DEF Facts, ProcAt
  <2>3. proc[who] \in States
    BY <2>1 DEF IInv, ShimOK, States
  <2>4. on = "ignore" \/ Legal("wait", who) \/ Blocked("wait", who)
    BY <1>2, <2>2, <2>3 DEF Legal, Blocked, States
  <2>5. QED
    BY <1>1, <1>8, <2>4 DEF Right
<1>9. CASE call = "delete"
  <2>1. who \in Members /\ (on = "ignore" \/ (IsMade(who) /\ Did("wait", who) /\ ~Did("delete", who)))
    BY <1>9, TaskRule, AtStep DEF IInv
  <2>2. who \in Procs
    BY <2>1 DEF Procs
  <2>3. on = "ignore" \/ proc[who] \notin {"none", "deleted", "created", "running"}
    BY <2>1, <2>2 DEF Facts, ProcAt
  <2>4. proc[who] \in States
    BY <2>2 DEF IInv, ShimOK, States
  <2>5. on = "ignore" \/ Legal("delete", who)
    BY <1>2, <2>3, <2>4 DEF Legal, States
  <2>6. QED
    BY <1>1, <1>9, <2>5 DEF Right
<1>10. QED
  BY <1>3, <1>4, <1>5, <1>6, <1>7, <1>8, <1>9 DEF Calls, SandboxCalls, TaskCalls

\* A step of the body does not fail the test, nor report the shim.
LEMMA BodyFine ==
    ASSUME IInv, Facts, Clean, Clean', ~failed, Running, Body
    PROVE  ~failed'
<1>1. TestOK /\ breach = "none" /\ ~fault' /\ ~slow'
  BY DEF IInv, Clean
<1>2. ASSUME NEW call, At(call), call \notin {"sbCreate", "sbStart"}, OnAnswer(TRUE) PROVE ~failed'
  <2>1. /\ on # "expect"
        /\ on \in {"fatal", "mixed", "soft", "continue", "lenient", "error", "ignore", "expect"}
    BY <1>1, <1>2, SandboxRule, AtStep
  <2>2. QED
    BY <1>2, <2>1 DEF OnAnswer, Goes
<1>3. CASE rpc
  <2>1. PICK call \in Calls :
       /\ At(call)
       /\ \/ Legal(call, who) /\ OnAnswer(Right(call, who))
          \/ ~Legal(call, who) /\ ~Blocked(call, who) /\ OnError
    BY <1>1, <1>3 DEF rpc
  <2>2. CASE Legal(call, who) /\ OnAnswer(Right(call, who))
    <3>1. on # "expect" /\ Right(call, who)
      BY <2>1, <2>2, CallFine
    <3>2. Right(call, who) = TRUE
      BY <3>1 DEF Right
    <3>3. OnAnswer(TRUE)
      BY <2>2, <3>2
    <3>4. on \in {"fatal", "mixed", "soft", "continue", "lenient", "error", "ignore", "expect"}
      BY <1>1, <2>1, AtStep
    <3>5. QED
      BY <3>1, <3>3, <3>4 DEF OnAnswer, Goes
  <2>3. CASE ~Legal(call, who) /\ ~Blocked(call, who) /\ OnError
    <3>1. on \in {"lenient", "ignore", "expect"}
      BY <2>1, <2>3, CallFine
    <3>2. QED
      BY <2>3, <3>1 DEF OnError, Goes
  <2>4. QED
    BY <2>1, <2>2, <2>3
<1>4. CASE startShim
  BY <1>1, <1>4 DEF startShim, Goes
<1>5. CASE cleanup \/ track \/ containerOutputSnapshot \/ startWaiter
  BY <1>5 DEF cleanup, track, containerOutputSnapshot, startWaiter, Goes
<1>6. CASE \/ readContainerOutput \/ readOutputs \/ waitForSandboxStatus \/ waitDone \/ waitTimeout
           \/ hostDone \/ dialInNetnsRoundTrip
  <2>1. ASSUME NEW cond, Timed(cond) PROVE ~failed'
    BY <1>1, <2>1 DEF Timed, Goes
  <2>2. QED
    BY <1>6, <2>1 DEF readContainerOutput, readOutputs, waitForSandboxStatus, waitDone, waitTimeout, hostDone,
                      dialInNetnsRoundTrip
<1>7. CASE verify
  <2>1. At("verify") /\ OnAnswer(snap)
    BY <1>7 DEF verify
  <2>2. Behind(script, ip, {"snapshot"})
    BY <1>1, <2>1, TaskRule
  <2>3. snap = TRUE
    BY <1>1, <2>2 DEF Facts, TestAt, Clean, TestOK
  <2>4. QED
    BY <1>2, <2>1, <2>3
<1>8. CASE verifyNot
  <2>1. At("verifyNot") /\ OnAnswer(~(snap /\ breach = "shared"))
    BY <1>8 DEF verifyNot
  <2>2. ~(snap /\ breach = "shared") = TRUE
    BY <1>1
  <2>3. OnAnswer(TRUE)
    BY <2>1, <2>2
  <2>4. QED
    BY <1>2, <2>1, <2>3
<1>9. CASE probe
  BY <1>1, <1>9 DEF probe, Goes
<1>10. CASE require
  BY <1>10 DEF require, Goes
<1>11. QED
  BY <1>3, <1>4, <1>5, <1>6, <1>7, <1>8, <1>9, <1>10 DEF Body

\* Nobody who has reason to run is stopped.
LEMMA RunningAfterCall ==
    ASSUME IInv, Facts, Running, rpc, Quiet', breach' = "none" PROVE Running'
<1>1. /\ test' = test /\ Onward /\ TestOK
      /\ \E call \in Calls : At(call) /\ (Answered(call) \/ Refused(call))
  BY RpcQuiet DEF IInv
<1>2. PICK call \in Calls : At(call) /\ (Answered(call) \/ Refused(call))
  BY <1>1
<1>3. SUFFICES ASSUME NEW m \in Members, Runs(test, ip, m)' PROVE proc'[m] = "running"
  BY DEF Running
<1>4. m # "x" /\ m # "none" /\ m \in Procs
  BY DEF Members, Procs
<1>5. proc \in [Procs -> States]
  BY DEF IInv, ShimOK, States
<1>6. /\ AskedFor("sbStart")' /\ ~AskedFor("sbStop")' /\ ~IsDown'
      /\ Did("start", m)' /\ ~Did("kill", m)'
      /\ program(m) = "forever" \/ (program(m) = "nc" /\ ~Did("stdin", m)')
  BY <1>1, <1>3, RunsIs DEF program
<1>7. /\ AskedFor("sbStart")' <=> AskedFor("sbStart") \/ (call = "sbStart" /\ on # "expect")
      /\ AskedFor("sbStop")' <=> AskedFor("sbStop") \/ (call = "sbStop" /\ on # "expect")
      /\ IsDown' <=> IsDown \/ call \in {"sbShutdown", "shutdown"}
  BY <1>1, <1>2, AskedNext DEF Onward
<1>8. \A c : c # "exec" => (Did(c, m)' <=> Did(c, m) \/ (call = c /\ who = m /\ on # "expect"))
  BY <1>1, <1>2, <1>4, StepsOn DEF Onward
<1>9. on = "expect" => call \in {"sbCreate", "sbStart"}
  BY <1>1, <1>2, SandboxRule
<1>10. CASE call = "start" /\ who = m
  <2>1. on = "fatal"
    BY <1>1, <1>2, <1>10, TaskRule
  <2>2. proc' = [proc EXCEPT ![m] = "running"]
    BY <1>2, <1>10, <2>1, MustAnswer DEF Answered, EffectOn
  <2>3. QED
    BY <1>4, <1>5, <2>2
<1>11. CASE ~(call = "start" /\ who = m)
  <2>1. Did("start", m)
    BY <1>6, <1>8, <1>11
  <2>2. AskedFor("sbStart") /\ ~AskedFor("sbStop") /\ ~IsDown /\ ~Did("kill", m)
    BY <1>1, <1>6, <1>7, <1>8, <2>1, InOrder
  <2>3. program(m) = "forever" \/ (program(m) = "nc" /\ ~Did("stdin", m))
    BY <1>6, <1>8
  <2>4. proc[m] = "running"
    BY <2>1, <2>2, <2>3, RunsIs DEF Running
  <2>5. CASE Refused(call)
    BY <2>4, <2>5 DEF Refused
  <2>6. CASE Answered(call)
    <3>1. Legal(call, who) /\ EffectOn(call, who) /\ on # "expect"
      BY <2>6 DEF Answered
    <3>2. call \notin {"sbStop", "sbShutdown", "shutdown"} /\ ~(call = "kill" /\ who = m)
      BY <1>6, <1>7, <1>8, <3>1
    <3>3. call = "exec" => proc' = [proc EXCEPT !["x"] = "created"]
      BY <3>1 DEF EffectOn
    <3>4. CASE call = "exec"
      BY <1>4, <1>5, <2>4, <3>3, <3>4
    <3>5. CASE call # "exec" /\ who # m
      <4>1. proc'[m] = proc[m] \/ breach' = "peer"
        BY <1>4, <3>1, <3>2, <3>5 DEF EffectOn, TakesAlong
      <4>2. QED
        BY <2>4, <4>1
    <3>6. CASE call # "exec" /\ who = m
      <4>1. call \notin {"create", "start", "delete"}
        BY <2>4, <3>1, <3>6 DEF Legal
      <4>2. proc' = proc
        BY <3>1, <3>2, <3>6, <4>1 DEF EffectOn, Calls, SandboxCalls, TaskCalls
      <4>3. QED
        BY <2>4, <4>2
    <3>7. QED
      BY <3>4, <3>5, <3>6
  <2>7. QED
    BY <1>2, <2>5, <2>6
<1>12. QED
  BY <1>10, <1>11

LEMMA RunningAfterLook ==
    ASSUME IInv, Running, test' = test, proc' = proc, NEW call, At(call), call \notin Calls, ip' = ip + 1
    PROVE  Running'
<1>1. SUFFICES ASSUME NEW m \in Members, Runs(test, ip, m)' PROVE proc[m] = "running"
  BY DEF Running
<1>2. m # "x" /\ TestOK
  BY DEF Members, IInv
<1>3. /\ AskedFor("sbStart")' <=> AskedFor("sbStart") \/ (call = "sbStart" /\ on # "expect")
      /\ AskedFor("sbStop")' <=> AskedFor("sbStop") \/ (call = "sbStop" /\ on # "expect")
      /\ IsDown' <=> IsDown \/ call \in {"sbShutdown", "shutdown"}
  BY <1>2, AskedNext
<1>4. \A c : c # "exec" => (Did(c, m)' <=> Did(c, m) \/ (call = c /\ who = m /\ on # "expect"))
  BY <1>2, StepsOn
<1>5. call \notin {"sbStart", "sbStop", "sbShutdown", "shutdown", "start", "kill", "stdin"}
  BY DEF Calls, SandboxCalls, TaskCalls
<1>6. /\ AskedFor("sbStart") /\ ~AskedFor("sbStop") /\ ~IsDown
      /\ Did("start", m) /\ ~Did("kill", m)
      /\ program(m) = "forever" \/ (program(m) = "nc" /\ ~Did("stdin", m))
  BY <1>1, <1>3, <1>4, <1>5, RunsIs DEF program
<1>7. QED
  BY <1>6, RunsIs DEF Running

LEMMA RunningAfterOthers ==
    ASSUME IInv, Facts, Fed, Running, OtherSteps, breach' = "none" PROVE Running'
<1>1. SUFFICES ASSUME NEW m \in Members, Runs(test, ip, m)' PROVE proc'[m] = "running"
  BY DEF Running
<1>2. m \in Procs /\ UNCHANGED <<test, ip>>
  BY OthersQuiet DEF Procs
<1>3. Runs(test, ip, m)
  BY <1>1, <1>2
<1>4. proc[m] = "running"
  BY <1>3 DEF Running
<1>5. proc'[m] # proc[m] =>
        \/ breach' = "peer"
        \/ program(m) \in {"quiet", "echo", "serve"}
        \/ program(m) = "nc" /\ out[m] # "none"
  BY <1>2, OthersQuiet DEF TakesAlong
<1>6. program(m) = "nc" /\ out[m] # "none" => Did("stdin", m)
  BY DEF Fed, Facts, TestAt
<1>7. program(m) = "forever" \/ (program(m) = "nc" /\ ~Did("stdin", m))
  BY <1>3, RunsIs
<1>8. QED
  BY <1>4, <1>5, <1>6, <1>7

LEMMA FineKept == ASSUME IInv, Place, Fed, Known, Ending, Fine, [Next]_vars PROVE Fine'
<1>1. SUFFICES ASSUME Clean' PROVE ~failed' /\ ~leaked' /\ (Here' => Running')
  BY DEF Fine, Running
<1>2. /\ Clean /\ ~failed /\ ~leaked /\ (Here => Running) /\ Quiet /\ breach' = "none" /\ ~fault' /\ ~slow'
  BY <1>1, Remembers DEF Fine, Clean, Running, Quiet, IInv, HistOK
<1>3. CASE Body
  <2>1. Here /\ Facts /\ Running /\ leaked' = leaked
    BY <1>2, <1>3, BodyHere, BodyKeeps DEF Known
  <2>2. ~failed'
    BY <1>1, <1>2, <1>3, <2>1, BodyFine
  <2>3. Quiet'
    BY <1>2, <2>2 DEF Quiet
  <2>4. CASE rpc
    BY <1>2, <2>1, <2>2, <2>3, <2>4, RunningAfterCall
  <2>5. CASE startShim
    <3>1. "shim" \notin Calls
      BY DEF Calls, SandboxCalls, TaskCalls
    <3>2. QED
      BY <1>2, <2>1, <2>2, <2>3, <2>5, <3>1, startShimQuiet, RunningAfterLook DEF Onward
  <2>6. CASE LookSteps
    <3>1. \A call \in LookCalls : call \notin Calls
      BY DEF LookCalls, Calls, SandboxCalls, TaskCalls
    <3>2. /\ UNCHANGED <<test, proc>>
          /\ \/ ip' = ip + 1 /\ \E call \in LookCalls : At(call)
             \/ skipped'
      BY <2>3, <2>6, LooksQuiet DEF Onward
    <3>3. QED
      BY <1>2, <2>1, <2>2, <3>1, <3>2, RunningAfterLook DEF Here
  <2>7. QED
    BY <1>3, <2>4, <2>5, <2>6 DEF Body, LookSteps
<1>4. CASE BodyEnds \/ Cleanup
  <2>1. UNCHANGED <<failed, leaked>> /\ phase' # "body"
    BY <1>4 DEF BodyEnds, Cleanup
  <2>2. QED
    BY <1>2, <2>1 DEF Here
<1>5. CASE registerShimLeakCheck
  <2>1. /\ failed' = failed /\ phase = "leak" /\ phase' = "ended"
        /\ leaked' = (shim = "up") /\ (pending # {} => slow')
    BY <1>5 DEF registerShimLeakCheck
  <2>2. cleanups = <<>> /\ pending = {} /\ ~Here
    BY <1>2, <2>1 DEF IInv, Emptied, Here
  <2>3. shim # "up"
    <3>1. 1..Len(cleanups) = {}
      BY <2>2
    <3>2. QED
      BY <1>2, <2>2, <3>1 DEF Ending
  <2>4. QED
    BY <1>2, <2>1, <2>3 DEF Here
<1>6. CASE OtherSteps
  <2>1. UNCHANGED <<failed, leaked, phase, skipped>>
    BY <1>6, OthersQuiet
  <2>2. ASSUME Here PROVE Running'
    BY <1>2, <1>6, <2>2, RunningAfterOthers DEF Known
  <2>3. QED
    BY <1>2, <2>1, <2>2 DEF Here
<1>7. CASE Serves
  <2>1. UNCHANGED <<failed, leaked, phase>> /\ phase # "body"
    BY <1>7, ServesQuiet DEF Place
  <2>2. QED
    BY <1>2, <2>1 DEF Here
<1>8. CASE UNCHANGED vars
  <2>1. UNCHANGED <<failed, leaked, phase, skipped, test, ip, proc>>
    BY <1>8 DEF vars, testVars, shimVars
  <2>2. Running => Running'
    BY <2>1 DEF Running
  <2>3. QED
    BY <1>2, <2>1, <2>2 DEF Here
<1>9. QED
  BY <1>3, <1>4, <1>5, <1>6, <1>7, <1>8 DEF Next, Test, World, OtherSteps
-----------------------------------------------------------------------------
(***************************************************************************)
(* No breach goes unnoticed.                                               *)
(***************************************************************************)

\* A member that is stopped stays stopped.
LEMMA StayGone ==
    ASSUME IInv, NEW call \in Calls, Answered(call) \/ Refused(call), NEW m \in Members,
           proc[m] \in {"stopped", "deleted"}
    PROVE  proc'[m] \in {"stopped", "deleted"}
<1>1. m \in Procs /\ m # "x" /\ proc \in [Procs -> States]
  BY DEF Members, Procs, IInv, ShimOK, States
<1>2. CASE Refused(call)
  BY <1>2 DEF Refused
<1>3. CASE Answered(call)
  <2>1. Legal(call, who) /\ EffectOn(call, who)
    BY <1>3 DEF Answered
  <2>2. CASE call \in {"create", "start"}
    <3>1. who # m
      BY <2>1, <2>2 DEF Legal
    <3>2. \E st : proc' = [proc EXCEPT ![who] = st]
      BY <2>1, <2>2 DEF EffectOn
    <3>3. QED
      BY <1>1, <3>1, <3>2
  <2>3. CASE call = "exec"
    <3>1. proc' = [proc EXCEPT !["x"] = "created"]
      BY <2>1, <2>3 DEF EffectOn
    <3>2. QED
      BY <1>1, <3>1
  <2>4. CASE call \notin {"create", "exec", "start"}
    BY <1>1, <2>1, <2>4 DEF EffectOn, Decays
  <2>5. QED
    BY <2>2, <2>3, <2>4
<1>4. QED
  BY <1>2, <1>3

\* A process that runs was made and started, and nobody has seen its end.
LEMMA RunningWas ==
    ASSUME Facts, NEW p \in Procs, proc[p] = "running"
    PROVE  IsMade(p) /\ Did("start", p) /\ ~Did("wait", p)
BY DEF Facts, ProcAt

\* The tests of Isolating neither skip nor exec.
LEMMA IsolatingRuns ==
    ASSUME IInv, Place, test \in Isolating
    PROVE  ~skipped /\ ~At("require") /\ ~IsMade("x")
<1>1. /\ \A i \in 1..Len(script) + 1 : Isolates(test, i)
      /\ ip \in 1..Len(script) + 1 /\ Len(script) \in Nat /\ Scripts[test] = script
  BY RulesOf DEF IInv, TestOK, script
<1>2. ASSUME NEW i \in 1..Len(script) PROVE script[i].call \notin {"require", "exec"}
  <2>1. Isolates(test, i) /\ i <= Len(script)
    BY <1>1
  <2>2. QED
    BY <1>1, <2>1 DEF Isolates
<1>3. \A i \in 1..ip - 1 : i \in 1..Len(script)
  BY <1>1
<1>4. QED
  BY <1>1, <1>2, <1>3 DEF Place, Ahead, At, IsMade, Made, Behind

\* When a member is taken along by another that ends, a later step looks at it.
LEMMA Missed ==
    ASSUME IInv, Facts, test \in Isolating, NEW p \in Members, proc[p] \in {"running", "stopped"}, TakesAlong(p)
    PROVE  \E q \in Members : /\ proc'[q] = "stopped"
                              /\ proc[p] = "running" /\ program(p) # "forever" => Watched(script, ip, q)
                              /\ ip <= Len(script) /\ script[ip].call \in {"kill", "delete"} /\ who = p =>
                                    Watched(script, ip + 1, q)
<1>1. PICK q \in Members \ {p} : proc[q] = "running" /\ proc'[q] = "stopped"
  BY DEF TakesAlong
<1>2. p \in Procs /\ q \in Procs
  BY DEF Procs
<1>3. /\ Isolates(test, ip) /\ Scripts[test] = script
      /\ \A c, m : Did(c, m) <=> Done(script, ip, c, m)
  BY RulesOf DEF IInv, TestOK, script, Did
<1>4. Done(script, ip, "start", q) /\ ~Done(script, ip, "wait", q)
  BY <1>1, <1>2, <1>3, RunningWas
<1>5. proc[p] = "running" => Done(script, ip, "start", p) /\ ~Done(script, ip, "wait", p)
  BY <1>2, <1>3, RunningWas
<1>6. /\ proc[p] = "running" /\ program(p) # "forever" => Watched(script, ip, q)
      /\ ip <= Len(script) /\ script[ip].call \in {"kill", "delete"} /\ who = p => Watched(script, ip + 1, q)
  BY <1>1, <1>3, <1>4, <1>5 DEF Isolates, program, who
<1>7. QED
  BY <1>1, <1>6

LEMMA PeerKept == ASSUME IInv, Place, Known, PeerMissed, [Next]_vars PROVE PeerMissed'
<1> DEFINE Seen(m) == proc[m] \in {"stopped", "deleted"} /\ Watched(script, ip, m)
<1> SUFFICES ASSUME Quiet', test' \in Isolating, breach' = "peer" PROVE \E m \in Members : Seen(m)'
  BY DEF PeerMissed
<1>1. Quiet
  BY QuietBefore
<1>2. ASSUME test' = test, breach = "peer" PROVE \E m \in Members : Seen(m)
  BY <1>1, <1>2 DEF PeerMissed
<1>3. Members \subseteq Procs
  BY DEF Procs
\* A step of the test: what it looks at is fine.
<1>4. ASSUME NEW call, At(call), test' = test, ip' = ip + 1, NEW m \in Members, Watched(script, ip, m),
             ~Watches(script, ip, m)
      PROVE  Watched(script, ip, m)'
  <2>1. ip \in 1..Len(script) /\ Len(script) \in Nat /\ script' = script
    BY <1>4, HereOK DEF IInv, script
  <2>2. QED
    BY <1>4, <2>1, WatchedStep
<1>5. CASE rpc
  <2>1. /\ test' = test /\ ip' = ip + 1
        /\ \E call \in Calls : At(call) /\ (Answered(call) \/ Refused(call))
    BY <1>5, RpcQuiet DEF Onward
  <2>2. PICK call \in Calls : At(call) /\ (Answered(call) \/ Refused(call))
    BY <2>1
  <2>3. Facts
    BY <1>1, <1>5, BodyHere DEF Known, Body
  <2>4. CASE breach = "peer"
    <3>1. PICK m \in Members : Seen(m)
      BY <1>2, <2>1, <2>4
    <3>2. ~Watches(script, ip, m)
      <4>1. SUFFICES ASSUME Watches(script, ip, m) PROVE FALSE
        OBVIOUS
      <4>2. /\ who = m /\ (call = "state" \/ call = "kill") /\ on \in {"fatal", "mixed"}
        BY <2>2, <4>1 DEF Watches, who, on, At
      <4>3. Answered(call)
        BY <2>2, <4>2, MustAnswer
      <4>4. proc[m] = "running"
        BY <4>2, <4>3 DEF Answered, Legal, Right
      <4>5. QED
        BY <3>1, <4>4
    <3>3. QED
      BY <1>4, <2>1, <2>2, <3>1, <3>2, StayGone
  <2>5. CASE breach # "peer"
    <3>1. /\ Legal(call, who) /\ EffectOn(call, who)
      BY <2>2, <2>5 DEF Answered, Refused
    <3>2. call \in {"kill", "delete"} /\ TakesAlong(who)
      BY <2>5, <3>1 DEF EffectOn
    <3>3. who \in Members /\ proc[who] \in {"running", "stopped"}
      BY <2>2, <3>1, <3>2, TaskRule, AtStep DEF Legal, IInv
    <3>4. ip <= Len(script) /\ script[ip].call = call /\ script' = script
      BY <2>1, <2>2 DEF At, script
    <3>5. \E q \in Members : proc'[q] = "stopped" /\ Watched(script, ip + 1, q)
      BY <2>1, <2>3, <3>2, <3>3, <3>4, Missed
    <3>6. QED
      BY <2>1, <3>4, <3>5
  <2>6. QED
    BY <2>4, <2>5
<1>6. ASSUME NEW call, At(call), call \notin Calls, UNCHANGED <<test, proc, breach>>, ip' = ip + 1
      PROVE  \E m \in Members : Seen(m)'
  <2>1. PICK m \in Members : Seen(m)
    BY <1>2, <1>6
  <2>2. ~Watches(script, ip, m)
    BY <1>6 DEF Watches, At, Calls, SandboxCalls, TaskCalls
  <2>3. QED
    BY <1>4, <1>6, <2>1, <2>2
<1>7. CASE startShim
  <2>1. "shim" \notin Calls
    BY DEF Calls, SandboxCalls, TaskCalls
  <2>2. QED
    BY <1>6, <1>7, <2>1, startShimQuiet DEF Onward
<1>8. CASE LookSteps
  <2>1. \A call \in LookCalls : call \notin Calls
    BY DEF LookCalls, Calls, SandboxCalls, TaskCalls
  <2>2. /\ UNCHANGED <<test, proc, breach>>
        /\ \/ ip' = ip + 1 /\ \E call \in LookCalls : At(call)
           \/ At("require") /\ test = test'
    BY <1>8, LooksQuiet DEF Onward
  <2>3. test \in Isolating
    BY <2>2
  <2>4. ~At("require")
    BY <2>3, IsolatingRuns
  <2>5. QED
    BY <1>6, <2>1, <2>2, <2>4
<1>9. CASE BodyEnds \/ Cleanup \/ registerShimLeakCheck \/ UNCHANGED vars
  <2>1. UNCHANGED <<test, ip, proc, breach>>
    <3>1. CASE BodyEnds
      BY <3>1 DEF BodyEnds, shimVars, histVars
    <3>2. CASE Cleanup
      BY <3>2 DEF Cleanup
    <3>3. CASE registerShimLeakCheck
      BY <3>3 DEF registerShimLeakCheck, shimVars
    <3>4. CASE UNCHANGED vars
      BY <3>4 DEF vars, testVars, shimVars, histVars
    <3>5. QED
      BY <1>9, <3>1, <3>2, <3>3, <3>4
  <2>2. script' = script
    BY <2>1 DEF script
  <2>3. QED
    BY <1>2, <2>1, <2>2
<1>10. CASE OtherSteps
  <2>1. /\ UNCHANGED <<test, ip, phase, skipped>> /\ Decays("none") /\ script' = script
        /\ breach' # breach =>
              \E p \in Procs : /\ proc[p] = "running" /\ program(p) # "forever" /\ phase = "body"
                               /\ TakesAlong(p)
    BY <1>10, OthersQuiet DEF script
  <2>2. CASE breach = "peer"
    <3>1. PICK m \in Members : Seen(m)
      BY <1>2, <2>1, <2>2
    <3>2. proc'[m] \in {"stopped", "deleted"}
      BY <1>3, <2>1, <3>1 DEF Decays
    <3>3. QED
      BY <2>1, <3>1, <3>2
  <2>3. CASE breach # "peer"
    <3>1. PICK p \in Procs : /\ proc[p] = "running" /\ program(p) # "forever" /\ phase = "body"
                             /\ TakesAlong(p)
      BY <2>1, <2>3
    <3>2. test \in Isolating
      BY <2>1
    <3>3. Facts
      BY <1>1, <3>1, <3>2, IsolatingRuns DEF Known, Here
    <3>4. p \in Members
      BY <3>1, <3>2, <3>3, RunningWas, IsolatingRuns DEF Procs
    <3>5. \E q \in Members : proc'[q] = "stopped" /\ Watched(script, ip, q)
      BY <3>1, <3>2, <3>3, <3>4, Missed
    <3>6. QED
      BY <2>1, <3>5
  <2>4. QED
    BY <2>2, <2>3
<1>11. CASE Serves
  <2>1. /\ UNCHANGED <<test, ip>> /\ script' = script /\ breach' = breach
        /\ \A p \in Procs : proc[p] \in {"stopped", "deleted"} => proc'[p] \in {"stopped", "deleted"}
    BY <1>11, ServesQuiet DEF Place, script
  <2>2. QED
    BY <1>2, <1>3, <2>1
<1>12. QED
  BY <1>5, <1>7, <1>8, <1>9, <1>10, <1>11 DEF Next, Test, Body, World, LookSteps, OtherSteps

\* A sandbox that only acknowledged its stop is looked at by the next step.
LEMMA StopKept == ASSUME IInv, Place, Known, StopMissed, [Next]_vars PROVE StopMissed'
<1> SUFFICES ASSUME Quiet', test' \in Stopping
             PROVE  /\ GoesOn' => (ip <= Len(script) /\ Probes(script, ip))'
                    /\ breach' = "stop" => GoesOn'
  BY DEF StopMissed
<1>1. Quiet
  BY QuietBefore
<1>2. ASSUME test' = test
      PROVE  /\ GoesOn => ip <= Len(script) /\ Probes(script, ip)
             /\ breach = "stop" => GoesOn
  BY <1>1, <1>2 DEF StopMissed
<1>3. CASE rpc
  <2>1. /\ UNCHANGED <<test, phase, skipped>> /\ ip' = ip + 1
        /\ \E call \in Calls : At(call) /\ (Answered(call) \/ Refused(call))
    BY <1>3, RpcQuiet DEF Onward
  <2>2. PICK call \in Calls : At(call) /\ (Answered(call) \/ Refused(call))
    BY <2>1
  <2>3. Here /\ Facts /\ ip \in 1..Len(script) /\ Len(script) \in Nat
    BY <1>1, <1>3, BodyHere DEF Known, Body
  <2>4. AskedFor("shim") /\ ~IsDown /\ shim = "up"
    BY <2>2, <2>3, SandboxRule DEF Facts, ShimAt, IInv
  <2>5. ~GoesOn
    <3>1. SUFFICES ASSUME GoesOn PROVE FALSE
      OBVIOUS
    <3>2. Probes(script, ip) /\ sandbox = "ready"
      BY <1>2, <2>1, <3>1 DEF GoesOn
    <3>3. call = "sbNotReady" /\ on \in {"fatal", "mixed", "soft", "lenient"}
      BY <2>2, <3>2 DEF Probes, At, on, Calls, SandboxCalls, TaskCalls
    <3>4. Legal(call, who)
      BY <2>4, <3>2, <3>3 DEF Legal
    <3>5. Right(call, who)
      BY <2>2, <3>3, <3>4 DEF Answered, Refused
    <3>6. QED
      BY <3>2, <3>3, <3>5 DEF Right
  <2>6. /\ breach # "stop"
        /\ AskedFor("sbStop") => sandbox = "stopped"
    BY <1>2, <2>1, <2>3, <2>4, <2>5 DEF GoesOn, Facts, SandboxAt
  <2>7. /\ AskedFor("sbStop")' <=> AskedFor("sbStop") \/ (call = "sbStop" /\ on # "expect")
        /\ IsDown' <=> IsDown \/ call \in {"sbShutdown", "shutdown"}
    BY <2>1, <2>2, AskedNext DEF IInv
  <2>8. CASE call = "sbStop" /\ ~AskedFor("sbStop")
    <3>1. Halts(script, ip) /\ script[ip].call = "sbStop" /\ script' = script
      BY <2>1, <2>2, <2>8, HereOK DEF IInv, script
    <3>2. ip < Len(script) /\ Probes(script, ip + 1)
      BY <2>8, <3>1 DEF Halts, Asked, AskedFor, Did
    <3>3. (ip <= Len(script) /\ Probes(script, ip))'
      BY <2>1, <2>3, <3>1, <3>2
    <3>4. on # "expect"
      BY <2>2, <2>8, SandboxRule DEF IInv
    <3>5. breach' = "stop" => sandbox' = "ready"
      BY <2>2, <2>6, <2>8 DEF Answered, Refused, EffectOn, TakesAlong
    <3>6. Here' /\ AskedFor("sbStop")' /\ ~IsDown'
      BY <2>1, <2>3, <2>4, <2>7, <2>8, <3>4 DEF Here
    <3>7. QED
      BY <3>3, <3>5, <3>6 DEF GoesOn
  <2>9. CASE ~(call = "sbStop" /\ ~AskedFor("sbStop"))
    <3>1. breach' # "stop"
      BY <2>2, <2>6, <2>9 DEF Answered, Refused, EffectOn, TakesAlong
    <3>2. AskedFor("sbStop")' => sandbox = "stopped"
      BY <2>6, <2>7, <2>9
    <3>3. sandbox = "stopped" => sandbox' # "ready"
      <4>1. CASE Refused(call)
        BY <4>1 DEF Refused
      <4>2. CASE Answered(call)
        BY <4>2 DEF Answered, EffectOn, Legal
      <4>3. QED
        BY <2>2, <4>1, <4>2
    <3>4. QED
      BY <3>1, <3>2, <3>3 DEF GoesOn
  <2>10. QED
    BY <2>8, <2>9
\* Another step: it is not one that looks at the sandbox, or finds it stopped.
<1>4. ASSUME Body, ~GoesOn, UNCHANGED <<test, breach, sandbox>>, NEW call, At(call), call \notin Calls,
             ip' = ip + 1
      PROVE  ~GoesOn' /\ breach' # "stop"
  <2>1. AskedFor("sbStop")' => AskedFor("sbStop")
    <3>1. AskedFor("sbStop")' <=> AskedFor("sbStop") \/ (call = "sbStop" /\ on # "expect")
      BY <1>4, AskedNext DEF IInv
    <3>2. QED
      BY <1>4, <3>1 DEF Calls, SandboxCalls
  <2>2. IsDown => IsDown'
    BY <1>4, AskedNext DEF IInv
  <2>3. Here
    BY <1>4, BodyHere
  <2>4. QED
    BY <1>2, <1>4, <2>1, <2>2, <2>3 DEF GoesOn
<1>5. CASE startShim
  <2>1. At("shim") /\ UNCHANGED <<test, breach, sandbox>> /\ ip' = ip + 1
    BY <1>5, startShimQuiet DEF Onward
  <2>2. ~GoesOn
    BY <1>2, <2>1 DEF Probes, At
  <2>3. Body /\ "shim" \notin Calls
    BY <1>5 DEF Body, Calls, SandboxCalls, TaskCalls
  <2>4. QED
    BY <1>4, <2>1, <2>2, <2>3
<1>6. CASE LookSteps
  <2>1. Body
    BY <1>6 DEF Body, LookSteps
  <2>2. Here /\ Facts
    BY <1>1, <2>1, BodyHere DEF Known
  <2>3. /\ UNCHANGED <<test, breach, sandbox>>
        /\ \/ ip' = ip + 1 /\ \E call \in LookCalls : At(call) /\ Looked(call)
           \/ At("require") /\ skipped' = TRUE
    BY <1>6, LooksQuiet DEF Onward
  <2>4. ASSUME NEW call \in LookCalls, At(call), Looked(call) PROVE ~GoesOn
    <3>1. SUFFICES ASSUME GoesOn PROVE FALSE
      OBVIOUS
    <3>2. Probes(script, ip) /\ sandbox = "ready"
      BY <1>2, <2>3, <3>1 DEF GoesOn
    <3>3. call \in {"sbPoll", "waitDone"} /\ on \in {"fatal", "soft"}
      BY <2>4, <3>2 DEF Probes, At, on, LookCalls
    <3>4. sandbox = "stopped" \/ waiter = "done"
      BY <2>4, <3>3 DEF Looked
    <3>5. QED
      BY <2>2, <3>2, <3>4 DEF Facts, TestAt
  <2>5. CASE ip' = ip + 1 /\ \E call \in LookCalls : At(call) /\ Looked(call)
    <3>1. PICK call \in LookCalls : At(call) /\ Looked(call)
      BY <2>5
    <3>2. call \notin Calls
      BY DEF LookCalls, Calls, SandboxCalls, TaskCalls
    <3>3. QED
      BY <1>4, <2>1, <2>3, <2>4, <2>5, <3>1, <3>2
  <2>6. CASE At("require") /\ skipped' = TRUE
    <3>1. ~GoesOn
      BY <1>2, <2>3, <2>6 DEF Probes, At
    <3>2. QED
      BY <1>2, <2>3, <2>6, <3>1 DEF GoesOn, Here
  <2>7. QED
    BY <2>3, <2>5, <2>6
<1>7. CASE BodyEnds
  <2>1. UNCHANGED <<test, breach>> /\ ip > Len(script) /\ phase' = "cleanup" /\ phase = "body"
    BY <1>7 DEF BodyEnds, histVars
  <2>2. ip \in Nat /\ Len(script) \in Nat
    BY RulesOf DEF IInv, TestOK
  <2>3. QED
    BY <1>2, <2>1, <2>2 DEF GoesOn, Here
<1>8. CASE Cleanup \/ registerShimLeakCheck \/ Serves
  <2>1. test' = test /\ breach' = breach /\ phase # "body" /\ phase' # "body"
    <3>1. CASE Cleanup
      BY <3>1 DEF Cleanup
    <3>2. CASE registerShimLeakCheck
      BY <3>2 DEF registerShimLeakCheck
    <3>3. CASE Serves
      BY <3>3, ServesQuiet DEF Place
    <3>4. QED
      BY <1>8, <3>1, <3>2, <3>3
  <2>2. QED
    BY <1>2, <2>1 DEF GoesOn, Here
<1>9. CASE OtherSteps \/ UNCHANGED vars
  <2>1. UNCHANGED <<test, ip, phase, skipped, sandbox>> /\ (breach' = "stop" => breach = "stop")
    <3>1. CASE OtherSteps
      BY <3>1, OthersQuiet DEF TakesAlong
    <3>2. CASE UNCHANGED vars
      BY <3>2 DEF vars, testVars, shimVars, histVars
    <3>3. QED
      BY <1>9, <3>1, <3>2
  <2>2. /\ GoesOn' <=> GoesOn
        /\ script' = script
    BY <2>1, Stands DEF GoesOn, Here
  <2>3. QED
    BY <1>2, <2>1, <2>2
<1>10. QED
  BY <1>3, <1>5, <1>6, <1>7, <1>8, <1>9 DEF Next, Test, Body, World, LookSteps, OtherSteps

\* The rules of the test that looks at a name.
LEMMA SeparatingRule ==
    ASSUME IInv, test = Separating
    PROVE  /\ At("require") => ~IsMade("c")
           /\ At("verifyNot") => on = "fatal" /\ Behind(script, ip, {"snapshot"})
           /\ Did("start", "c") /\ ~Did("wait", "c") => Ahead(script, ip, {"verifyNot"})
           /\ ip > Len(script) => Did("wait", "c") /\ ~Ahead(script, ip, {"verifyNot"})
<1>1. /\ Separates(script, ip) /\ ip \in 1..Len(script) + 1 /\ Len(script) \in Nat
  BY RulesOf DEF IInv, TestOK
<1>2. ip > Len(script) => ip..Len(script) = {}
  BY <1>1
<1>3. QED
  BY <1>1, <1>2 DEF Separates, At, on, IsMade, Did, Ahead

\* A name of another member that was printed is still to be compared.
LEMMA ShareKept == ASSUME IInv, Place, Known, ShareSeen, [Next]_vars PROVE ShareSeen'
<1> SUFFICES ASSUME Quiet', test' = Separating
             PROVE  /\ ~Here' => proc'["c"] # "running"
                    /\ breach' = "shared" /\ ~slow' =>
                          Here' /\ IsMade("c")' /\ Ahead(script, ip, {"verifyNot"})'
  BY DEF ShareSeen
<1>1. Quiet
  BY QuietBefore
<1>2. ASSUME test' = test
      PROVE  /\ ~Here => proc["c"] # "running"
             /\ breach = "shared" /\ ~slow => Here /\ IsMade("c") /\ Ahead(script, ip, {"verifyNot"})
  BY <1>1, <1>2 DEF ShareSeen
<1>3. "c" \in Members /\ "c" \in Procs
  BY DEF Members, Procs
<1>4. slow => slow'
  BY Remembers
<1>5. ASSUME NEW call, At(call), call # "verifyNot" \/ slow \/ breach # "shared", test' = test, ip' = ip + 1,
             breach' = "shared", ~slow', breach = "shared"
      PROVE  IsMade("c")' /\ Ahead(script, ip, {"verifyNot"})'
  <2>1. IsMade("c") /\ Ahead(script, ip, {"verifyNot"}) /\ call # "verifyNot"
    BY <1>2, <1>4, <1>5
  <2>2. /\ ip \in 1..Len(script) /\ Len(script) \in Nat /\ script' = script /\ script[ip].call = call
    BY <1>5, HereOK DEF IInv, script
  <2>3. Ahead(script, ip + 1, {"verifyNot"})
    BY <2>1, <2>2, AheadStep
  <2>4. IsMade("c")'
    BY <1>5, <2>1, StepsOn DEF IInv
  <2>5. QED
    BY <1>5, <2>2, <2>3, <2>4
<1>6. CASE rpc
  <2>1. /\ UNCHANGED <<test, phase, skipped>> /\ ip' = ip + 1
        /\ \E call \in Calls : At(call) /\ (Answered(call) \/ Refused(call))
    BY <1>6, RpcQuiet DEF Onward
  <2>2. PICK call \in Calls : At(call) /\ (Answered(call) \/ Refused(call))
    BY <2>1
  <2>3. breach' = "shared" => breach = "shared"
    BY <2>2 DEF Answered, Refused, EffectOn, TakesAlong
  <2>4. Here'
    BY <1>6, <2>1, BodyHere DEF Here, Body
  <2>5. call # "verifyNot"
    BY DEF Calls, SandboxCalls, TaskCalls
  <2>6. QED
    BY <1>5, <2>1, <2>2, <2>3, <2>4, <2>5
<1>7. CASE startShim
  <2>1. At("shim") /\ UNCHANGED <<test, phase, skipped, breach>> /\ ip' = ip + 1
    BY <1>7, startShimQuiet DEF Onward
  <2>2. Here'
    BY <1>7, <2>1, BodyHere DEF Here, Body
  <2>3. QED
    BY <1>5, <2>1, <2>2
<1>8. CASE LookSteps
  <2>1. Here /\ Facts
    BY <1>1, <1>8, BodyHere DEF Known, Body, LookSteps
  <2>2. /\ UNCHANGED <<test, phase, breach, proc>>
        /\ \/ ip' = ip + 1 /\ skipped' = skipped /\ \E call \in LookCalls : At(call) /\ Looked(call)
           \/ At("require") /\ slow' = slow
    BY <1>8, LooksQuiet DEF Onward
  <2>3. CASE ip' = ip + 1 /\ skipped' = skipped /\ \E call \in LookCalls : At(call) /\ Looked(call)
    <3>1. PICK call \in LookCalls : At(call) /\ Looked(call)
      BY <2>3
    <3>2. Here'
      BY <2>1, <2>2, <2>3 DEF Here
    <3>3. call # "verifyNot" \/ slow \/ breach # "shared"
      <4>1. SUFFICES ASSUME call = "verifyNot", ~slow PROVE breach # "shared"
        OBVIOUS
      <4>2. on = "fatal" /\ Behind(script, ip, {"snapshot"})
        BY <2>2, <3>1, <4>1, SeparatingRule
      <4>3. snap
        BY <2>1, <4>1, <4>2 DEF Facts, TestAt
      <4>4. QED
        BY <3>1, <4>1, <4>2, <4>3 DEF Looked
    <3>4. QED
      BY <1>5, <2>2, <2>3, <3>1, <3>2, <3>3
  <2>4. CASE At("require") /\ slow' = slow
    <3>1. ~IsMade("c")
      BY <2>2, <2>4, SeparatingRule
    <3>2. proc["c"] # "running"
      BY <1>3, <2>1, <3>1, RunningWas
    <3>3. QED
      BY <1>2, <2>2, <2>4, <3>1, <3>2
  <2>5. QED
    BY <2>2, <2>3, <2>4
<1>9. CASE BodyEnds
  <2>1. /\ UNCHANGED <<test, proc, breach, slow>> /\ ip > Len(script)
    BY <1>9 DEF BodyEnds, shimVars, histVars
  <2>2. Did("wait", "c") /\ ~Ahead(script, ip, {"verifyNot"})
    BY <2>1, SeparatingRule
  <2>3. Here => proc["c"] # "running"
    BY <1>1, <1>3, <2>2, RunningWas DEF Known
  <2>4. QED
    BY <1>2, <2>1, <2>2, <2>3
<1>10. CASE Cleanup \/ registerShimLeakCheck \/ Serves
  <2>1. /\ test' = test /\ breach' = breach /\ phase # "body"
        /\ proc'["c"] = "running" => proc["c"] = "running"
    <3>1. CASE Cleanup
      BY <3>1 DEF Cleanup
    <3>2. CASE registerShimLeakCheck
      BY <3>2 DEF registerShimLeakCheck, shimVars
    <3>3. CASE Serves
      BY <1>3, <3>3, ServesQuiet DEF Place
    <3>4. QED
      BY <1>10, <3>1, <3>2, <3>3
  <2>2. QED
    BY <1>2, <1>4, <2>1 DEF Here
<1>11. CASE OtherSteps \/ UNCHANGED vars
  <2>1. /\ UNCHANGED <<test, ip, phase, skipped, slow>>
        /\ proc'["c"] = "running" => proc["c"] = "running"
        /\ breach' = "shared" /\ breach # "shared" => proc["c"] = "running"
    <3>1. CASE OtherSteps
      <4>1. /\ UNCHANGED <<test, ip, phase, skipped, slow>> /\ Decays("none")
            /\ breach' # breach => (breach' = "shared" /\ proc["c"] = "running") \/ breach' = "peer"
        BY <3>1, OthersQuiet DEF TakesAlong
      <4>2. QED
        BY <1>3, <4>1 DEF Decays
    <3>2. CASE UNCHANGED vars
      BY <3>2 DEF vars, testVars, shimVars, histVars
    <3>3. QED
      BY <1>11, <3>1, <3>2
  <2>2. /\ Here' <=> Here
        /\ IsMade("c")' <=> IsMade("c")
        /\ Ahead(script, ip, {"verifyNot"})' <=> Ahead(script, ip, {"verifyNot"})
    BY <2>1, Stands DEF Here
  <2>3. CASE proc["c"] = "running"
    <3>1. Here /\ Facts
      BY <1>1, <1>2, <2>1, <2>3 DEF Known
    <3>2. IsMade("c") /\ Did("start", "c") /\ ~Did("wait", "c")
      BY <1>3, <2>3, <3>1, RunningWas
    <3>3. Ahead(script, ip, {"verifyNot"})
      BY <2>1, <3>2, SeparatingRule
    <3>4. QED
      BY <2>2, <3>1, <3>2, <3>3
  <2>4. CASE proc["c"] # "running"
    BY <1>2, <2>1, <2>2, <2>4
  <2>5. QED
    BY <2>3, <2>4
<1>12. QED
  BY <1>6, <1>7, <1>8, <1>9, <1>10, <1>11 DEF Next, Test, Body, World, LookSteps, OtherSteps
-----------------------------------------------------------------------------
(***************************************************************************)
(* What the suite says of a shim.                                          *)
(***************************************************************************)
LEMMA InitTold == Init => Told
<1> SUFFICES ASSUME Init PROVE Told
  OBVIOUS
<1>1. /\ phase = "body" /\ ip = 1 /\ ~skipped /\ ~failed /\ ~leaked /\ fed = {} /\ pending = {}
      /\ shim = "absent" /\ sandbox = "none" /\ waiter = "off" /\ breach = "none"
      /\ proc = [p \in Procs |-> "none"] /\ out = [p \in Procs |-> "none"]
  BY Zenon DEF Init
<1>2. 1..ip - 1 = {}
  BY <1>1
<1>3. /\ \A c, p : ~Did(c, p)
      /\ \A C : ~Behind(script, ip, C)
  BY <1>2 DEF Did, Done, Behind
<1>4. (\A c : ~AskedFor(c)) /\ ~IsDown /\ (\A p : ~IsMade(p))
  BY <1>3 DEF AskedFor, IsDown, IsMade, Made, Did
<1>5. Here /\ Place /\ Ending
  BY <1>1 DEF Here, Place, Ending
<1>6. Fed
  BY <1>1 DEF Fed, Procs
<1>7. Facts
  <2>1. ShimAt /\ SandboxAt
    BY <1>1, <1>4 DEF ShimAt, SandboxAt
  <2>2. \A p \in Procs : ProcAt(p)
    BY <1>1, <1>3, <1>4 DEF ProcAt
  <2>3. TestAt
    BY <1>1, <1>3, <1>4 DEF TestAt
  <2>4. QED
    BY <2>1, <2>2, <2>3 DEF Facts
<1>8. Fine
  BY <1>1, <1>3, RunsIs DEF Fine
<1>9. PeerMissed /\ StopMissed /\ ShareSeen
  BY <1>1, <1>4, <1>5 DEF PeerMissed, StopMissed, GoesOn, ShareSeen
<1>10. QED
  BY <1>5, <1>6, <1>7, <1>8, <1>9 DEF Told, Known

LEMMA NextTold == IInv /\ Told /\ [Next]_vars => Told'
<1> SUFFICES ASSUME IInv, Told, [Next]_vars PROVE Told'
  OBVIOUS
<1>1. Place /\ Fed /\ Known /\ Ending /\ Fine /\ PeerMissed /\ StopMissed /\ ShareSeen
  BY DEF Told
<1>2. Place' /\ Fed' /\ Known' /\ Ending' /\ Fine'
  BY <1>1, PlaceKept, FedKept, KnownKept, EndingKept, FineKept
<1>3. PeerMissed' /\ StopMissed' /\ ShareSeen'
  BY <1>1, PeerKept, StopKept, ShareKept
<1>4. QED
  BY <1>2, <1>3 DEF Told

LEMMA AlwaysTold == Spec => [](IInv /\ Told)
<1>1. IInv /\ Told /\ [Next]_vars => (IInv /\ Told)'
  BY NextIInv, NextTold
<1>2. QED
  BY <1>1, InitIInv, InitTold, PTL DEF Spec

\* A shim that conforms passes every test, on a machine that is fast enough for
\* the pauses and timers of the test: no call of sandbox_suite*.go is out of place
\* at its step, whatever the members have done by then, and the cleanups of
\* startSandboxShim end the shim although nobody waits for their answers.
THEOREM NoFalseAlarms == Spec => []NoFalseAlarm
<1>1. ASSUME IInv, Told PROVE NoFalseAlarm
  <2> SUFFICES ASSUME failed \/ leaked, ~fault, ~slow, breach = "none" PROVE FALSE
    BY DEF NoFalseAlarm, SuiteFails
  <2>1. Clean
    BY DEF Clean
  <2>2. QED
    BY <1>1, <2>1 DEF Told, Fine
<1>2. QED
  BY <1>1, AlwaysTold, PTL

\* A shim that answers every call rightly, but stops one member with another, does
\* not do the stop that it acknowledged or shares the UTS namespace, fails the tests
\* of sandbox_suite*.go that are there for it, however it and the members interleave.
THEOREM BreachIsCaught == Spec => []BreachCaught
<1>1. ASSUME IInv, Told PROVE BreachCaught
  <2> SUFFICES ASSUME phase = "ended", ~fault, ~failed
               PROVE  /\ ~(test \in Isolating /\ breach = "peer")
                      /\ ~(test \in Stopping /\ breach = "stop")
                      /\ ~(test = Separating /\ breach = "shared" /\ ~slow)
    BY DEF BreachCaught, SuiteFails
  <2>1. Quiet /\ ~Here /\ ip = Len(script) + 1
    BY <1>1 DEF Quiet, Here, Told, Place
  <2>2. Len(script) \in Nat
    BY <1>1, RulesOf DEF IInv, TestOK
  <2>3. \A m : ~Watched(script, ip, m)
    BY <2>1, <2>2 DEF Watched
  <2>4. QED
    BY <1>1, <2>1, <2>3 DEF Told, PeerMissed, StopMissed, GoesOn, ShareSeen
<1>2. QED
  BY <1>1, AlwaysTold, PTL
=============================================================================
