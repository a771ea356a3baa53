---------------------------- MODULE RunnerProofs ----------------------------
(***************************************************************************)
(* Proofs about Runner, for any number of configurations, any skip lists,  *)
(* any users of the machine and any user who starts the program.           *)
(***************************************************************************)
EXTENDS Runner, SequenceTheorems, WellFoundedInduction, TLAPS

(***************************************************************************)
(* The inductive invariant.  Its last conjunct is RunsAsConfigured, which  *)
(* is inductive with the others.                                           *)
(***************************************************************************)

\* What never changes, and the types that TypeOK leaves open.
Shapes ==
    /\ DOMAIN testConfigs = Procs
    /\ reexecConfigs \in [Procs -> SUBSET (1..N)]
    /\ ~reexec["first"] /\ reexec["second"]
    /\ \A n \in 1..N : files[n].skip = Skip[n] /\ files[n].of = n

\* What each process has loaded.
Loaded ==
    /\ phase["first"] \in {"partition", "tests", "fuzzed", "reexec", "wait"} => testConfigs["first"] = files
    /\ phase["second"] \in {"partition", "tests", "fuzzed", "reexec"}
          => testConfigs["second"] = [n \in {temp} |-> files[current]]

\* The second process is there while the first one waits, for a configuration
\* of another user that is no longer listed, and as that user.
Child ==
    /\ phase["second"] # "none" <=> phase["first"] = "wait"
    /\ phase["first"] = "wait" =>
          /\ current \in 1..N /\ Foreign(current) /\ current \notin reexecConfigs["first"]
          /\ uid["second"] = files[current].uid

\* What is left to do is for the right process, and nothing is left at the end.
Pending ==
    /\ reexecConfigs["second"] = {} /\ \A n \in reexecConfigs["first"] : Foreign(n)
    /\ todo["first"] \subseteq 1..N /\ todo["second"] \subseteq {temp}
    /\ phase["first"] \in {"fuzzed", "reexec", "wait"} => todo["first"] = {}
    /\ phase["second"] # "tests" => todo["second"] = {}
    /\ (phase["first"] = "exited" /\ exitCode["first"] = 0)
          => todo["first"] = {} /\ reexecConfigs["first"] = {}

\* The second process has still to come to its configuration.
ChildToRun == phase["second"] \in {"load", "partition"} \/ temp \in todo["second"]

\* What is left to do has not run.
Fresh ==
    /\ phase["first"] \in {"load", "partition"} => runs = {} /\ fuzzRuns = {}
    /\ \A n \in todo["first"] : ~Foreign(n) => ~Ran(n)
    /\ \A n \in reexecConfigs["first"] : ~Ran(n)
    /\ ChildToRun => ~Ran(current)

\* A code is 0 until the tests are over ...
Codes ==
    \A p \in Procs : phase[p] \in {"load", "partition", "tests", "fuzzed"} => exitCode[p] = 0

\* ... and a failure is on record from then on: as a failed test of the process, as
\* the code of the second process, and in the end as the code of the first.
Recorded ==
    \A r \in runs \cup fuzzRuns : r.outcome # "pass" =>
       \/ exitCode["first"] # 0
       \/ phase["first"] \in {"tests", "fuzzed"} /\ failed["first"]
       \/ /\ phase["first"] = "wait"
          /\ exitCode["second"] # 0 \/ (phase["second"] \in {"tests", "fuzzed"} /\ failed["second"])

\* Without -test.run, whatever could run has run, is left to do, or the code says
\* that it was not possible.
Covered ==
    filter = all => \A n \in 1..N :
       Ran(n) \/ phase["first"] \in {"load", "partition"} \/ exitCode["first"] # 0 \/
       IF Foreign(n)
       THEN euid["first"] = "root" =>
               \/ n \in reexecConfigs["first"]
               \/ phase["first"] = "wait" /\ n = current /\ (ChildToRun \/ exitCode["second"] # 0)
       ELSE n \in todo["first"]

IInv == TypeOK /\ Shapes /\ Loaded /\ Child /\ Pending /\ Fresh /\ Codes /\ Recorded /\ Covered
        /\ RunsAsConfigured
-----------------------------------------------------------------------------
LEMMA MarshalKeeps == \A cfg \in Config : MarshalJSON(cfg) = cfg
BY DEF MarshalJSON, Config

\* The suites of a configuration are those of its features, but for the skipped ones.
LEMMA SuitesOfConfig ==
    ASSUME NEW cfg \in Config
    PROVE  /\ suites(cfg) \subseteq Suites
           /\ suites(cfg) \cap Features = Features \ cfg.skip
           /\ "stress transfer" \in suites(cfg) <=> "transfer" \notin cfg.skip
           /\ "stress sandbox" \in suites(cfg) <=> "sandbox" \notin cfg.skip
BY DEF suites, featureSkipped, Suites, Features, Config

LEMMA LeastOf ==
    ASSUME NEW S \in SUBSET Nat, S # {}
    PROVE  (CHOOSE k \in S : \A j \in S : k <= j) \in S
<1>1. PICK k \in S : \A j \in S : ~(<<j, k>> \in OpToRel(<, Nat))
  BY NatLessThanWellFounded, WFMin
<1>2. \A j \in S : ~(j < k)
  BY <1>1 DEF OpToRel
<1>3. \A j \in S : k <= j
  BY <1>2
<1>4. QED
  BY <1>3

\* The configurations that run here are the ones of nobody else.
LEMMA RunnableHere ==
    ASSUME IInv, phase["first"] \in {"partition", "tests"}, NEW n \in 1..N
    PROVE  /\ DOMAIN testConfigs["first"] = 1..N
           /\ testConfigs["first"][n] = files[n] /\ files[n] \in Config
           /\ targetUID("first", testConfigs["first"][n]) = uid["first"] <=> ~Foreign(n)
BY DEF IInv, TypeOK, Loaded, Foreign, targetUID

\* The second process has the right user.
LEMMA RunnableThere ==
    ASSUME IInv, phase["second"] \in {"partition", "tests"}
    PROVE  /\ DOMAIN testConfigs["second"] = {temp}
           /\ current \in 1..N /\ files[current] \in Config /\ Foreign(current)
           /\ testConfigs["second"][temp] = files[current]
           /\ targetUID("second", testConfigs["second"][temp]) = uid["second"]
           /\ uid["second"] = files[current].uid
<1>1. phase["first"] = "wait"
  BY DEF IInv, Child
<1>2. current \in 1..N /\ Foreign(current) /\ uid["second"] = files[current].uid
  BY <1>1 DEF IInv, Child
<1>3. testConfigs["second"] = [n \in {temp} |-> files[current]]
  BY DEF IInv, Loaded
<1>4. QED
  BY <1>2, <1>3 DEF IInv, TypeOK, targetUID
-----------------------------------------------------------------------------
LEMMA InitIInv == Init => IInv
<1> SUFFICES ASSUME Init PROVE IInv
  OBVIOUS
<1> USE DEF Procs
<1>1. PICK owner \in [1..N -> Users \cup {ghost, unset}] :
         files = [n \in 1..N |-> [uid |-> owner[n], skip |-> Skip[n], of |-> n]]
  BY DEF Init
<1>2. \A n \in 1..N : files[n] \in Config /\ files[n].skip = Skip[n] /\ files[n].of = n
  BY <1>1, SkipAssumption DEF Config
<1>3. files \in [1..N -> Config]
  BY <1>1, <1>2
<1>4. PICK w \in Invokers : uid = [p \in Procs |-> w[1]] /\ euid = [p \in Procs |-> w[2]]
  BY DEF Init
<1>5. uid \in [Procs -> Users] /\ euid \in [Procs -> Users]
  BY <1>4, InvokersAssumption
<1>6. /\ phase["first"] = "load" /\ phase["second"] = "none" /\ current = 0
      /\ runs = {} /\ fuzzRuns = {}
      /\ todo = [p \in Procs |-> {}] /\ reexecConfigs = [p \in Procs |-> {}]
      /\ exitCode = [p \in Procs |-> 0] /\ failed = [p \in Procs |-> FALSE]
      /\ testCfg = [p \in Procs |-> noConfig] /\ testConfigs = [p \in Procs |-> <<>>]
      /\ reexec = [p \in Procs |-> p = "second"]
      /\ phase = [p \in Procs |-> IF p = "first" THEN "load" ELSE "none"]
      /\ filter \in 0..N
  BY DEF Init
<1>7. /\ phase \in [Procs -> Phases]
      /\ todo \in [Procs -> SUBSET (0..N)] /\ failed \in [Procs -> BOOLEAN]
      /\ exitCode \in [Procs -> 0..2] /\ current \in 0..N
      /\ testCfg \in [Procs -> Config \cup {noConfig}]
  BY <1>6, NAssumption DEF Phases
<1>8. reexec \in [Procs -> BOOLEAN] /\ ~reexec["first"] /\ reexec["second"]
  BY <1>6, Zenon
<1>9. \A p \in Procs : /\ DOMAIN testConfigs[p] \subseteq 0..N /\ reexecConfigs[p] \subseteq 1..N
                      BY <1>6
<1>10. TypeOK
  BY <1>3, <1>5, <1>6, <1>7, <1>8, <1>9 DEF TypeOK
<1>11. Shapes
  BY <1>2, <1>6, <1>8 DEF Shapes
<1>12. Loaded /\ Child /\ Pending /\ Codes
  BY <1>6 DEF Loaded, Child, Pending, Codes
<1>13. Fresh /\ Recorded /\ Covered /\ RunsAsConfigured
  BY <1>6 DEF Fresh, Recorded, Covered, RunsAsConfigured, Ran, ChildToRun
<1>14. QED
  BY <1>10, <1>11, <1>12, <1>13 DEF IInv
-----------------------------------------------------------------------------
(***************************************************************************)
(* One lemma for every action.  It begins with what the step does to the   *)
(* two processes.                                                          *)
(***************************************************************************)

\* What has run stands, whatever else happens.
LEMMA RunsStand ==
    ASSUME RunsAsConfigured, UNCHANGED <<files, runs, fuzzRuns>>, uid'["first"] = uid["first"]
    PROVE  RunsAsConfigured'
BY DEF RunsAsConfigured, Owner, Foreign

\* The first process loads the files.  Nothing has run.
LEMMA DiscoverFirstIInv == ASSUME IInv, discoverConfigs("first") PROVE IInv'
<1>1. /\ UNCHANGED <<files, filter, uid, euid, reexec, reexecConfigs, todo, testCfg, failed, current, runs, fuzzRuns>>
      /\ phase["first"] = "load" /\ phase["second"] = "none" /\ runs = {} /\ fuzzRuns = {}
      /\ phase'["second"] = "none" /\ exitCode'["second"] = exitCode["second"]
      /\ DOMAIN testConfigs' = Procs /\ testConfigs'["second"] = testConfigs["second"]
      /\ \/ phase'["first"] = "partition" /\ exitCode'["first"] = 0 /\ testConfigs'["first"] = files
         \/ /\ phase'["first"] = "exited" /\ exitCode'["first"] = 1
            /\ testConfigs'["first"] = testConfigs["first"]
  BY DEF discoverConfigs, Exit, GoTo, Phases, IInv, TypeOK, Shapes, Child, Codes, Fresh, Procs
<1>2. /\ phase' \in [Procs -> Phases]
      /\ exitCode' \in [Procs -> 0..2]
  BY DEF discoverConfigs, Exit, GoTo, Phases, IInv, TypeOK
<1>3. \A p \in Procs : DOMAIN testConfigs'[p] \subseteq 0..N
  <2>1. DOMAIN files \subseteq 0..N
    BY DEF IInv, TypeOK
  <2>2. \A p \in Procs : DOMAIN testConfigs[p] \subseteq 0..N
    BY DEF IInv, TypeOK
  <2>3. QED
    BY <1>1, <2>1, <2>2 DEF Procs
<1>4. TypeOK'
  BY <1>1, <1>2, <1>3 DEF IInv, TypeOK
<1>5. Shapes' /\ Loaded' /\ Child' /\ Pending' /\ Codes'
  BY <1>1 DEF IInv, Shapes, Loaded, Child, Pending, Codes, Foreign, Procs
<1>6. Fresh' /\ Recorded' /\ Covered' /\ RunsAsConfigured'
  BY <1>1 DEF IInv, Fresh, Recorded, Covered, RunsAsConfigured, Ran, Foreign, ChildToRun, Pending
<1>7. QED
  BY <1>4, <1>5, <1>6 DEF IInv

\* The second process loads its one configuration.
LEMMA DiscoverSecondIInv == ASSUME IInv, discoverConfigs("second") PROVE IInv'
<1>1. /\ UNCHANGED <<files, filter, uid, euid, reexec, reexecConfigs, todo, testCfg, failed, current, runs, fuzzRuns>>
      /\ phase["second"] = "load" /\ phase["first"] = "wait" /\ current \in 1..N
      /\ phase'["first"] = "wait" /\ exitCode'["first"] = exitCode["first"]
      /\ DOMAIN testConfigs' = Procs /\ testConfigs'["first"] = testConfigs["first"]
      /\ \/ /\ phase'["second"] = "partition" /\ exitCode'["second"] = 0
            /\ testConfigs'["second"] = [n \in {temp} |-> MarshalJSON(files[current])]
         \/ /\ phase'["second"] = "exited" /\ exitCode'["second"] = 1
            /\ testConfigs'["second"] = testConfigs["second"]
  BY DEF discoverConfigs, Exit, GoTo, Phases, IInv, TypeOK, Shapes, Child, Codes, Procs
<1>2. MarshalJSON(files[current]) = files[current]
  BY <1>1, MarshalKeeps DEF IInv, TypeOK
<1>3. /\ phase' \in [Procs -> Phases]
      /\ exitCode' \in [Procs -> 0..2]
  BY DEF discoverConfigs, Exit, GoTo, Phases, IInv, TypeOK
<1>4. \A p \in Procs : DOMAIN testConfigs'[p] \subseteq 0..N
  BY <1>1, NAssumption DEF IInv, TypeOK, Procs, temp
<1>5. TypeOK'
  BY <1>1, <1>3, <1>4 DEF IInv, TypeOK
<1>6. Shapes' /\ Loaded' /\ Child' /\ Pending' /\ Codes'
  BY <1>1, <1>2 DEF IInv, Shapes, Loaded, Child, Pending, Codes, Foreign, Procs
<1>7. Fresh' /\ RunsAsConfigured'
  BY <1>1, RunsStand DEF IInv, Fresh, Ran, Foreign, ChildToRun, Pending
<1>8. Recorded'
  BY <1>1 DEF IInv, Recorded, Ran, Codes, Procs
<1>9. Covered'
  BY <1>1 DEF IInv, Covered, Ran, Foreign, ChildToRun
<1>10. QED
  BY <1>5, <1>6, <1>7, <1>8, <1>9 DEF IInv

\* The first process takes the names of this user, and lists the others.
LEMMA PartitionFirstIInv == ASSUME IInv, Partition("first") PROVE IInv'
<1> DEFINE here == {n \in DOMAIN testConfigs["first"] :
                       targetUID("first", testConfigs["first"][n]) = uid["first"]}
<1>1. /\ UNCHANGED <<files, filter, uid, euid, reexec, testConfigs, testCfg, failed, exitCode, current, runs,
                     fuzzRuns>>
      /\ phase["first"] = "partition" /\ phase["second"] = "none" /\ runs = {} /\ fuzzRuns = {}
      /\ phase'["first"] \in {"tests", "reexec"} /\ phase'["second"] = "none"
      /\ phase'["first"] = "reexec" <=> here = {}
      /\ todo'["first"] = IF here # {} THEN DOMAIN testConfigs["first"] ELSE {}
      /\ reexecConfigs'["first"] = IF euid["first"] = "root" THEN DOMAIN testConfigs["first"] \ here ELSE {}
      /\ todo'["second"] = todo["second"] /\ reexecConfigs'["second"] = reexecConfigs["second"]
      /\ DOMAIN todo' = Procs /\ DOMAIN reexecConfigs' = Procs
  BY DEF Partition, IInv, TypeOK, Shapes, Child, Fresh, Procs
<1>2. here = {n \in 1..N : ~Foreign(n)} /\ DOMAIN testConfigs["first"] = 1..N
  BY <1>1, RunnableHere, NAssumption
<1> HIDE DEF here
<1>3. /\ todo'["first"] = IF here # {} THEN 1..N ELSE {}
      /\ reexecConfigs'["first"] = IF euid["first"] = "root" THEN {n \in 1..N : Foreign(n)} ELSE {}
  BY <1>1, <1>2
<1>4. /\ phase' \in [Procs -> Phases]
      /\ todo' \in [Procs -> SUBSET (0..N)] /\ reexecConfigs' \in [Procs -> SUBSET (1..N)]
  <2>1. phase' \in [Procs -> Phases]
    BY DEF Partition, Phases, IInv, TypeOK
  <2>2. todo'["first"] \in SUBSET (0..N) /\ reexecConfigs'["first"] \in SUBSET (1..N)
    BY <1>3, NAssumption
  <2>3. todo'["second"] \in SUBSET (0..N) /\ reexecConfigs'["second"] \in SUBSET (1..N)
    BY <1>1 DEF IInv, TypeOK, Shapes, Procs
  <2>4. /\ todo' = [p \in Procs |-> todo'[p]] /\ reexecConfigs' = [p \in Procs |-> reexecConfigs'[p]]
    BY DEF Partition, IInv, TypeOK, Shapes
  <2>5. QED
    BY <2>1, <2>2, <2>3, <2>4 DEF Procs
<1>5. TypeOK'
  BY <1>1, <1>4 DEF IInv, TypeOK
<1>6. Shapes' /\ Loaded' /\ Child'
  BY <1>1, <1>4 DEF IInv, Shapes, Loaded, Child, Foreign
<1>7. Pending' /\ Codes'
  BY <1>1, <1>3 DEF IInv, Pending, Codes, Foreign, Procs
<1>8. Fresh' /\ Recorded' /\ RunsAsConfigured'
  BY <1>1 DEF IInv, Fresh, Recorded, RunsAsConfigured, Ran, ChildToRun, Pending
<1>9. Covered'
  BY <1>1, <1>2, <1>3 DEF IInv, Covered, Foreign
<1>10. QED
  BY <1>5, <1>6, <1>7, <1>8, <1>9 DEF IInv

\* The second process takes its one name: it has the right user.
LEMMA PartitionSecondIInv == ASSUME IInv, Partition("second") PROVE IInv'
<1>1. /\ UNCHANGED <<files, filter, uid, euid, reexec, testConfigs, testCfg, failed, exitCode, current, runs,
                     fuzzRuns>>
      /\ phase["second"] = "partition" /\ phase["first"] = "wait" /\ reexec["second"]
  BY DEF Partition, IInv, Child, Shapes
<1>2. {n \in DOMAIN testConfigs["second"] :
          targetUID("second", testConfigs["second"][n]) = uid["second"]} = {temp}
  BY <1>1, RunnableThere, Zenon
<1>3. /\ phase' = [phase EXCEPT !["second"] = "tests"]
      /\ todo' = [todo EXCEPT !["second"] = {temp}]
      /\ reexecConfigs' = [reexecConfigs EXCEPT !["second"] = {}]
  BY <1>1, <1>2, RunnableThere DEF Partition
<1>4. /\ phase'["first"] = "wait" /\ phase'["second"] = "tests"
      /\ todo'["first"] = todo["first"] /\ todo'["second"] = {temp}
      /\ reexecConfigs' = reexecConfigs /\ exitCode["second"] = 0
  BY <1>1, <1>3 DEF IInv, TypeOK, Shapes, Pending, Codes, Procs
<1>5. {temp} \in SUBSET (0..N)
  BY NAssumption DEF temp
<1>6. /\ phase' \in [Procs -> Phases]
      /\ todo' \in [Procs -> SUBSET (0..N)]
  BY <1>3, <1>5 DEF Phases, IInv, TypeOK
<1>7. TypeOK'
  BY <1>1, <1>4, <1>6 DEF IInv, TypeOK
<1>8. Shapes' /\ Loaded' /\ Child' /\ Pending' /\ Codes'
  BY <1>1, <1>4 DEF IInv, Shapes, Loaded, Child, Pending, Codes, Foreign, Procs
<1>9. Fresh' /\ RunsAsConfigured'
  BY <1>1, <1>4, RunsStand DEF IInv, Fresh, Ran, Foreign, ChildToRun
<1>10. Recorded' /\ Covered'
  BY <1>1, <1>4 DEF IInv, Recorded, Covered, Ran, Foreign, ChildToRun
<1>11. QED
  BY <1>7, <1>8, <1>9, <1>10 DEF IInv

\* m.Run returns: the failures so far become the code.
LEMMA MRunIInv == ASSUME IInv, NEW p \in Procs, MRun(p) PROVE IInv'
<1>1. /\ UNCHANGED <<files, filter, uid, euid, reexec, testConfigs, reexecConfigs, todo, testCfg, failed,
                     current, runs, fuzzRuns>>
      /\ phase[p] = "fuzzed" /\ todo[p] = {} /\ exitCode[p] = 0
      /\ phase'[p] = "reexec" /\ exitCode'[p] = IF failed[p] THEN 1 ELSE 0
      /\ \A q \in Procs \ {p} : phase'[q] = phase[q] /\ exitCode'[q] = exitCode[q]
  BY DEF MRun, Phases, IInv, TypeOK, Codes, Pending, Procs
<1>2. /\ phase' \in [Procs -> Phases]
      /\ exitCode' \in [Procs -> 0..2]
  BY DEF MRun, Phases, IInv, TypeOK
<1>3. TypeOK'
  BY <1>1, <1>2 DEF IInv, TypeOK
<1>4. \/ p = "first" /\ phase["second"] = "none"
      \/ p = "second" /\ phase["first"] = "wait"
  <2>1. CASE p = "first"
    BY <1>1, <2>1 DEF IInv, Child
  <2>2. CASE p = "second"
    BY <1>1, <2>2 DEF IInv, Child
  <2>3. QED
    BY <2>1, <2>2 DEF Procs
<1>5. Shapes' /\ Loaded' /\ Child'
  BY <1>1, <1>4 DEF IInv, Shapes, Loaded, Child, Foreign, Procs
<1>6. Pending' /\ Codes'
  BY <1>1, <1>4 DEF IInv, Pending, Codes, Foreign, Procs
<1>7. Fresh' /\ RunsAsConfigured'
  BY <1>1, <1>4, RunsStand DEF IInv, Fresh, Ran, Foreign, ChildToRun, Procs
<1>8. Recorded'
  BY <1>1, <1>4 DEF IInv, Recorded, Ran, Procs
<1>9. Covered'
  BY <1>1, <1>4 DEF IInv, Covered, Ran, Foreign, ChildToRun, Procs
<1>10. QED
  BY <1>3, <1>5, <1>6, <1>7, <1>8, <1>9 DEF IInv

\* os.Exit, with nothing left to do.
LEMMA LeaveIInv == ASSUME IInv, NEW p \in Procs, Leave(p) PROVE IInv'
<1>1. /\ UNCHANGED <<files, filter, uid, euid, reexec, testConfigs, reexecConfigs, todo, testCfg, failed,
                     current, runs, fuzzRuns>>
      /\ phase[p] = "reexec" /\ reexecConfigs[p] = {}
      /\ phase'[p] = "exited" /\ exitCode' = exitCode
      /\ \A q \in Procs \ {p} : phase'[q] = phase[q]
  BY DEF Leave, Exit, Phases, IInv, TypeOK
<1>2. phase' \in [Procs -> Phases]
  BY DEF Leave, Exit, Phases, IInv, TypeOK
<1>3. TypeOK'
  BY <1>1, <1>2 DEF IInv, TypeOK
<1>4. \/ p = "first" /\ phase["second"] = "none"
      \/ p = "second" /\ phase["first"] = "wait"
  <2>1. CASE p = "first"
    BY <1>1, <2>1 DEF IInv, Child
  <2>2. CASE p = "second"
    BY <1>1, <2>2 DEF IInv, Child
  <2>3. QED
    BY <2>1, <2>2 DEF Procs
<1>5. Shapes' /\ Loaded' /\ Child'
  BY <1>1, <1>4 DEF IInv, Shapes, Loaded, Child, Foreign, Procs
<1>6. Pending' /\ Codes'
  BY <1>1, <1>4 DEF IInv, Pending, Codes, Foreign, Procs
<1>7. Fresh' /\ RunsAsConfigured'
  BY <1>1, <1>4, RunsStand DEF IInv, Fresh, Ran, Foreign, ChildToRun, Procs
<1>8. Recorded'
  BY <1>1, <1>4 DEF IInv, Recorded, Ran, Procs
<1>9. Covered'
  BY <1>1, <1>4 DEF IInv, Covered, Ran, Foreign, ChildToRun, Procs
<1>10. QED
  BY <1>3, <1>5, <1>6, <1>7, <1>8, <1>9 DEF IInv

\* cmd.Run returns: a code that is not 0 is kept.
LEMMA ChildEndsIInv == ASSUME IInv, ChildEnds PROVE IInv'
<1>1. /\ UNCHANGED <<files, filter, uid, euid, reexec, reexecConfigs, testCfg, failed, current, runs, fuzzRuns>>
      /\ phase["first"] = "wait" /\ phase["second"] = "exited"
      /\ phase'["first"] = "reexec" /\ phase'["second"] = "none"
      /\ exitCode'["first"] = AddCode(exitCode["first"], exitCode["second"])
      /\ exitCode'["second"] = exitCode["second"] /\ todo' = todo
      /\ DOMAIN testConfigs' = Procs /\ testConfigs'["first"] = testConfigs["first"]
      /\ testConfigs'["second"] = <<>>
  BY DEF ChildEnds, IInv, TypeOK, Shapes, Pending, Procs
<1>2. /\ exitCode'["first"] \in 0..2
      /\ exitCode'["first"] = 0 <=> exitCode["first"] = 0 /\ exitCode["second"] = 0
  BY <1>1 DEF AddCode, IInv, TypeOK, Procs
<1>3. /\ phase' \in [Procs -> Phases]
      /\ exitCode' \in [Procs -> 0..2]
  BY <1>1, <1>2 DEF ChildEnds, Phases, IInv, TypeOK
<1>4. \A p \in Procs : DOMAIN testConfigs'[p] \subseteq 0..N
  BY <1>1 DEF IInv, TypeOK, Procs
<1>5. TypeOK'
  BY <1>1, <1>3, <1>4 DEF IInv, TypeOK
<1>6. Shapes' /\ Loaded' /\ Child' /\ Pending' /\ Codes'
  BY <1>1, <1>2 DEF IInv, Shapes, Loaded, Child, Pending, Codes, Foreign, Procs
<1>7. Fresh' /\ RunsAsConfigured'
  BY <1>1, RunsStand DEF IInv, Fresh, Ran, Foreign, ChildToRun, Pending
<1>8. Recorded'
  BY <1>1, <1>2 DEF IInv, Recorded, Ran
<1>9. Covered'
  BY <1>1, <1>2 DEF IInv, Covered, Ran, Foreign, ChildToRun, Pending, temp
<1>10. QED
  BY <1>5, <1>6, <1>7, <1>8, <1>9 DEF IInv

\* How a test comes out, on a process whose code is still 0.
LEMMA ComesOutOf ==
    ASSUME IInv, NEW p \in Procs, exitCode[p] = 0, NEW o \in Outcomes, NEW next \in Phases,
           ComesOut(p, o, next)
    PROVE  /\ phase' \in [Procs -> Phases] /\ exitCode' \in [Procs -> 0..2]
           /\ failed' \in [Procs -> BOOLEAN] /\ (failed'[p] <=> failed[p] \/ o = "fail")
           /\ \A q \in Procs \ {p} : /\ phase'[q] = phase[q] /\ exitCode'[q] = exitCode[q]
                                    /\ failed'[q] = failed[q]
           /\ \/ o = "panic" /\ phase'[p] = "exited" /\ exitCode'[p] = 2
              \/ o \in {"pass", "fail"} /\ phase'[p] = next /\ exitCode'[p] = 0
<1>1. /\ failed \in [Procs -> BOOLEAN] /\ phase \in [Procs -> Phases]
      /\ exitCode \in [Procs -> 0..2]
  BY DEF IInv, TypeOK
<1>2. failed' = [failed EXCEPT ![p] = @ \/ o = "fail"]
  BY DEF ComesOut
<1>3. /\ failed' \in [Procs -> BOOLEAN] /\ (failed'[p] <=> failed[p] \/ o = "fail")
      /\ \A q \in Procs \ {p} : failed'[q] = failed[q]
  BY <1>1, <1>2, Zenon
<1>4. CASE o = "panic"
  <2>1. phase' = [phase EXCEPT ![p] = "exited"] /\ exitCode' = [exitCode EXCEPT ![p] = 2]
    BY <1>4 DEF ComesOut, Exit
  <2>2. "exited" \in Phases
    BY DEF Phases
  <2>3. QED
    BY <1>1, <1>3, <1>4, <2>1, <2>2
<1>5. CASE o # "panic"
  <2>1. phase' = [phase EXCEPT ![p] = next] /\ exitCode' = exitCode
    BY <1>5 DEF ComesOut, GoTo
  <2>2. QED
    BY <1>1, <1>3, <1>5, <2>1 DEF Outcomes
<1>6. QED
  BY <1>4, <1>5

\* A configuration that TestShim has not run yet is run, by its user and with its
\* suites.
LEMMA NewRun ==
    ASSUME IInv, NEW n \in 1..N, ~Ran(n), NEW o \in Outcomes, NEW u \in Users, u = Owner(n),
           files' = files, uid'["first"] = uid["first"], fuzzRuns' = fuzzRuns,
           runs' = runs \cup {[of |-> n, uid |-> u, suites |-> suites(files[n]), outcome |-> o]}
    PROVE  /\ RunsAsConfigured'
           /\ runs' \subseteq Run
           /\ \A m : Ran(m)' <=> Ran(m) \/ m = n
           /\ \A r \in runs' : r \in runs \/ r.outcome = o
<1> DEFINE new == [of |-> n, uid |-> u, suites |-> suites(files[n]), outcome |-> o]
<1>1. files[n] \in Config /\ files[n].skip = Skip[n]
  BY DEF IInv, TypeOK, Shapes
<1>2. /\ new.suites \subseteq Suites
      /\ new.suites \cap Features = Features \ Skip[n]
      /\ "stress transfer" \in new.suites <=> "transfer" \notin Skip[n]
      /\ "stress sandbox" \in new.suites <=> "sandbox" \notin Skip[n]
  BY <1>1, SuitesOfConfig
<1>3. new \in Run
  BY <1>2 DEF Run
<1>4. new.of = n /\ new.uid = u /\ new.outcome = o
  OBVIOUS
<1>5. runs' = runs \cup {new}
  OBVIOUS
<1> HIDE DEF new
<1>6. \A r \in runs : r.of # n
  BY DEF Ran
<1>7. \A r, s \in runs' : r.of = s.of => r = s
  BY <1>4, <1>5, <1>6 DEF IInv, RunsAsConfigured
<1>8. \A m : Owner(m)' = Owner(m)
  BY DEF Owner, Foreign
<1>9. ASSUME NEW r \in runs'
      PROVE  /\ r.uid = Owner(r.of)
             /\ r.suites \cap Features = Features \ Skip[r.of]
             /\ "stress transfer" \in r.suites <=> "transfer" \notin Skip[r.of]
             /\ "stress sandbox" \in r.suites <=> "sandbox" \notin Skip[r.of]
  <2>1. CASE r \in runs
    BY <2>1 DEF IInv, RunsAsConfigured
  <2>2. CASE r = new
    BY <2>2, <1>2, <1>4
  <2>3. QED
    BY <1>5, <2>1, <2>2
<1>10. RunsAsConfigured'
  <2>1. \A r \in fuzzRuns : "transfer" \notin Skip[r.of]
    BY DEF IInv, RunsAsConfigured
  <2>2. QED
    BY <1>7, <1>8, <1>9, <2>1 DEF RunsAsConfigured
<1>11. runs' \subseteq Run
  BY <1>3, <1>5 DEF Phases, IInv, TypeOK
<1>12. \A m : Ran(m)' <=> Ran(m) \/ m = n
  BY <1>4, <1>5 DEF Ran
<1>13. \A r \in runs' : r \in runs \/ r.outcome = o
  BY <1>4, <1>5
<1>14. QED
  BY <1>10, <1>11, <1>12, <1>13

\* TestShim of the first process comes to a name.
LEMMA TestShimFirstIInv == ASSUME IInv, TestShim("first") PROVE IInv'
<1> DEFINE n == CHOOSE k \in todo["first"] : \A j \in todo["first"] : k <= j
           cfg == testConfigs["first"][n]
<1>1. n \in todo["first"] /\ n \in 1..N
  <2>1. todo["first"] # {} /\ todo["first"] \in SUBSET Nat /\ todo["first"] \subseteq 1..N
    BY NAssumption DEF TestShim, IInv, Pending
  <2>2. n \in todo["first"]
    BY <2>1, LeastOf
  <2>3. QED
    BY <2>1, <2>2
<1>2. /\ UNCHANGED <<files, filter, uid, euid, reexec, testConfigs, reexecConfigs, current, fuzzRuns>>
      /\ phase["first"] = "tests" /\ todo' = [todo EXCEPT !["first"] = @ \ {n}]
      /\ IF checkRunnable("first", cfg) /\ Selected(n)
         THEN /\ activateConfig("first", cfg)
              /\ \E o \in Outcomes :
                    /\ runs' = runs \cup {RunOf("first", cfg, suites(testCfg'["first"]), o)}
                    /\ ComesOut("first", o, "tests")
         ELSE UNCHANGED <<runs, failed, exitCode, phase, testCfg>>
  BY DEF TestShim
<1> HIDE DEF n
<1>3. /\ cfg = files[n] /\ files[n] \in Config /\ files[n].of = n
      /\ checkRunnable("first", files[n]) <=> ~Foreign(n)
  BY <1>1, <1>2, RunnableHere DEF IInv, Shapes, checkRunnable
<1> HIDE DEF cfg
<1>4. /\ todo'["first"] = todo["first"] \ {n} /\ todo'["second"] = todo["second"]
      /\ todo' \in [Procs -> SUBSET (0..N)]
      /\ phase["second"] = "none" /\ exitCode["first"] = 0
  BY <1>2 DEF IInv, TypeOK, Child, Codes, Procs
<1>5. CASE Foreign(n) \/ ~Selected(n)
  <2>1. UNCHANGED <<runs, failed, exitCode, phase, testCfg>>
    BY <1>2, <1>3, <1>5
  <2>2. TypeOK' /\ Shapes' /\ Loaded'
    BY <1>2, <1>4, <2>1 DEF IInv, TypeOK, Shapes, Loaded
  <2>3. Child' /\ Pending' /\ Codes'
    BY <1>2, <1>4, <2>1 DEF IInv, Child, Pending, Codes, Foreign
  <2>4. Fresh' /\ Recorded' /\ RunsAsConfigured'
    BY <1>2, <1>4, <2>1, RunsStand DEF IInv, Fresh, Recorded, Ran, Foreign, ChildToRun
  <2>5. filter = all => Foreign(n)
    BY <1>5 DEF Selected
  <2>6. Covered'
    BY <1>2, <1>4, <2>1, <2>5 DEF IInv, Covered, Ran, Foreign, ChildToRun
  <2>7. QED
    BY <2>2, <2>3, <2>4, <2>6 DEF IInv
<1>6. CASE ~Foreign(n) /\ Selected(n)
  <2>1. PICK o \in Outcomes :
           /\ runs' = runs \cup {RunOf("first", files[n], suites(testCfg'["first"]), o)}
           /\ ComesOut("first", o, "tests") /\ activateConfig("first", files[n])
    BY <1>2, <1>3, <1>6
  <2>2. testCfg'["first"] = files[n] /\ testCfg' \in [Procs -> Config \cup {noConfig}]
    BY <1>3, <2>1 DEF activateConfig, IInv, TypeOK, Procs
  <2>3. runs' = runs \cup {[of |-> n, uid |-> uid["first"], suites |-> suites(files[n]), outcome |-> o]}
    BY <1>3, <2>1, <2>2 DEF RunOf
  <2>4. "tests" \in Phases /\ "first" \in Procs
    BY DEF Phases, Procs
  <2>5. /\ phase' \in [Procs -> Phases] /\ exitCode' \in [Procs -> 0..2]
        /\ failed' \in [Procs -> BOOLEAN] /\ (failed'["first"] <=> failed["first"] \/ o = "fail")
        /\ phase'["second"] = phase["second"] /\ exitCode'["second"] = exitCode["second"]
        /\ \/ o = "panic" /\ phase'["first"] = "exited" /\ exitCode'["first"] = 2
           \/ o \in {"pass", "fail"} /\ phase'["first"] = "tests" /\ exitCode'["first"] = 0
    BY <1>4, <2>1, <2>4, ComesOutOf DEF Procs
  <2>6. ~Ran(n) /\ uid["first"] = Owner(n) /\ uid["first"] \in Users
    BY <1>1, <1>6 DEF IInv, TypeOK, Fresh, Owner, Procs
  <2>7. /\ RunsAsConfigured'
        /\ runs' \subseteq Run
        /\ \A m : Ran(m)' <=> Ran(m) \/ m = n
        /\ \A r \in runs' : r \in runs \/ r.outcome = o
    BY <1>1, <1>2, <2>3, <2>6, NewRun
  <2>8. TypeOK'
    BY <1>2, <1>4, <2>2, <2>5, <2>7 DEF IInv, TypeOK
  <2>9. Shapes' /\ Loaded' /\ Child'
    BY <1>2, <1>4, <2>5 DEF IInv, Shapes, Loaded, Child, Foreign
  <2>10. Pending' /\ Codes'
    BY <1>2, <1>4, <2>5 DEF IInv, Pending, Codes, Foreign, Procs
  <2>11. Fresh'
    BY <1>2, <1>1, <1>4, <1>6, <2>5, <2>7 DEF IInv, Fresh, Foreign, ChildToRun, Child, Pending
  <2>12. Recorded'
    BY <1>2, <1>4, <2>5, <2>7 DEF IInv, Recorded
  <2>13. Covered'
    BY <1>2, <1>4, <2>5, <2>7 DEF IInv, Covered, Foreign, ChildToRun
  <2>14. QED
    BY <2>7, <2>8, <2>9, <2>10, <2>11, <2>12, <2>13 DEF IInv
<1>7. QED
  BY <1>5, <1>6

\* TestShim of the second process comes to its one name.
LEMMA TestShimSecondIInv == ASSUME IInv, TestShim("second") PROVE IInv'
<1> DEFINE n == CHOOSE k \in todo["second"] : \A j \in todo["second"] : k <= j
           cfg == testConfigs["second"][n]
<1>1. n = temp /\ todo["second"] = {temp}
  <2>1. todo["second"] # {} /\ todo["second"] \in SUBSET Nat /\ todo["second"] \subseteq {temp}
    BY DEF TestShim, IInv, Pending, temp
  <2>2. n \in todo["second"]
    BY <2>1, LeastOf
  <2>3. QED
    BY <2>1, <2>2
<1>2. /\ UNCHANGED <<files, filter, uid, euid, reexec, testConfigs, reexecConfigs, current, fuzzRuns>>
      /\ phase["second"] = "tests" /\ todo' = [todo EXCEPT !["second"] = @ \ {n}]
      /\ IF checkRunnable("second", cfg) /\ Selected(n)
         THEN /\ activateConfig("second", cfg)
              /\ \E o \in Outcomes :
                    /\ runs' = runs \cup {RunOf("second", cfg, suites(testCfg'["second"]), o)}
                    /\ ComesOut("second", o, "tests")
         ELSE UNCHANGED <<runs, failed, exitCode, phase, testCfg>>
  BY DEF TestShim
<1> HIDE DEF n
<1>3. /\ cfg = files[current] /\ current \in 1..N /\ Foreign(current)
      /\ files[current] \in Config /\ files[current].of = current
      /\ checkRunnable("second", files[current]) /\ uid["second"] = files[current].uid
  BY <1>1, <1>2, RunnableThere DEF IInv, Shapes, checkRunnable
<1>4. /\ todo'["second"] = {} /\ todo'["first"] = todo["first"]
      /\ todo' \in [Procs -> SUBSET (0..N)]
      /\ phase["first"] = "wait" /\ exitCode["second"] = 0 /\ ChildToRun /\ ~ChildToRun'
  <2>1. /\ todo'["second"] = {} /\ todo'["first"] = todo["first"]
        /\ todo' \in [Procs -> SUBSET (0..N)]
        /\ phase["first"] = "wait" /\ exitCode["second"] = 0 /\ ChildToRun
    BY <1>1, <1>2 DEF IInv, TypeOK, Child, Codes, Procs, ChildToRun
  <2>2. phase'["second"] \in {"tests", "exited"}
    BY <1>2 DEF ComesOut, Exit, GoTo, IInv, TypeOK, Procs
  <2>3. QED
    BY <2>1, <2>2 DEF ChildToRun
<1> HIDE DEF cfg
<1>5. CASE ~Selected(n)
  <2>1. UNCHANGED <<runs, failed, exitCode, phase, testCfg>>
    BY <1>2, <1>5
  <2>2. TypeOK' /\ Shapes' /\ Loaded'
    BY <1>2, <1>4, <2>1 DEF IInv, TypeOK, Shapes, Loaded
  <2>3. Child' /\ Pending' /\ Codes'
    BY <1>2, <1>4, <2>1 DEF IInv, Child, Pending, Codes, Foreign
  <2>4. Fresh' /\ Recorded' /\ RunsAsConfigured'
    BY <1>2, <1>4, <2>1, RunsStand DEF IInv, Fresh, Recorded, Ran, Foreign
  <2>5. Covered'
    BY <1>2, <1>5 DEF Selected, Covered
  <2>6. QED
    BY <2>2, <2>3, <2>4, <2>5 DEF IInv
<1>6. CASE Selected(n)
  <2>1. PICK o \in Outcomes :
           /\ runs' = runs \cup {RunOf("second", files[current], suites(testCfg'["second"]), o)}
           /\ ComesOut("second", o, "tests") /\ activateConfig("second", files[current])
    BY <1>2, <1>3, <1>6
  <2>2. testCfg'["second"] = files[current] /\ testCfg' \in [Procs -> Config \cup {noConfig}]
    BY <1>3, <2>1 DEF activateConfig, IInv, TypeOK, Procs
  <2>3. runs' = runs \cup {[of |-> current, uid |-> uid["second"], suites |-> suites(files[current]), outcome |-> o]}
    BY <1>3, <2>1, <2>2 DEF RunOf
  <2>4. "tests" \in Phases /\ "second" \in Procs
    BY DEF Phases, Procs
  <2>5. /\ phase' \in [Procs -> Phases] /\ exitCode' \in [Procs -> 0..2]
        /\ failed' \in [Procs -> BOOLEAN] /\ (failed'["second"] <=> failed["second"] \/ o = "fail")
        /\ phase'["first"] = phase["first"] /\ exitCode'["first"] = exitCode["first"]
        /\ \/ o = "panic" /\ phase'["second"] = "exited" /\ exitCode'["second"] = 2
           \/ o \in {"pass", "fail"} /\ phase'["second"] = "tests" /\ exitCode'["second"] = 0
    BY <1>4, <2>1, <2>4, ComesOutOf DEF Procs
  <2>6. ~Ran(current) /\ uid["second"] = Owner(current) /\ uid["second"] \in Users
    BY <1>3, <1>4 DEF IInv, TypeOK, Fresh, Owner, Procs
  <2>7. /\ RunsAsConfigured'
        /\ runs' \subseteq Run
        /\ \A m : Ran(m)' <=> Ran(m) \/ m = current
        /\ \A r \in runs' : r \in runs \/ r.outcome = o
    BY <1>3, <1>2, <2>3, <2>6, NewRun
  <2>8. TypeOK'
    BY <1>2, <1>4, <2>2, <2>5, <2>7 DEF IInv, TypeOK
  <2>9. Shapes' /\ Loaded' /\ Child'
    BY <1>2, <1>4, <2>5 DEF IInv, Shapes, Loaded, Child, Foreign
  <2>10. Pending' /\ Codes'
    BY <1>2, <1>4, <2>5 DEF IInv, Pending, Codes, Foreign, Procs
  <2>11. Fresh'
    BY <1>2, <1>3, <1>4, <1>6, <2>5, <2>7 DEF IInv, Fresh, Foreign, ChildToRun, Child, Pending
  <2>12. Recorded'
    BY <1>2, <1>4, <2>5, <2>7 DEF IInv, Recorded
  <2>13. Covered'
    BY <1>2, <1>4, <2>5, <2>7 DEF IInv, Covered, Foreign, ChildToRun
  <2>14. QED
    BY <2>7, <2>8, <2>9, <2>10, <2>11, <2>12, <2>13 DEF IInv
<1>7. QED
  BY <1>5, <1>6

\* The configuration that is fuzzed is one of the files, whoever runs it.
LEMMA FuzzConfig ==
    ASSUME IInv, NEW p \in Procs, phase[p] = "tests"
    PROVE  \E n \in 1..N : testConfigs[p][pickFuzzConfig(p)] = files[n]
<1>1. CASE p = "first"
  <2>1. testConfigs[p] = files /\ DOMAIN files = 1..N
    BY <1>1 DEF IInv, TypeOK, Loaded
  <2>2. 1..N # {} /\ 1..N \in SUBSET Nat
    BY NAssumption
  <2>3. pickFuzzConfig(p) \in 1..N
    BY <2>1, <2>2, LeastOf DEF pickFuzzConfig
  <2>4. QED
    BY <2>1, <2>3
<1>2. CASE p = "second"
  <2>1. /\ DOMAIN testConfigs[p] = {temp} /\ current \in 1..N
        /\ testConfigs[p][temp] = files[current]
    BY <1>2, RunnableThere
  <2>2. {temp} # {} /\ {temp} \in SUBSET Nat
    BY DEF temp
  <2>3. pickFuzzConfig(p) \in {temp}
    BY <2>1, <2>2, LeastOf DEF pickFuzzConfig
  <2>4. QED
    BY <2>1, <2>3
<1>3. QED
  BY <1>1, <1>2 DEF Procs

\* The fuzz target runs the first configuration, unless that skips the transfer.
LEMMA FuzzIInv == ASSUME IInv, NEW p \in Procs, FuzzTransferMissing(p) PROVE IInv'
<1> DEFINE cfg == testConfigs[p][pickFuzzConfig(p)]
<1>1. /\ UNCHANGED <<files, filter, uid, euid, reexec, testConfigs, reexecConfigs, todo, current, runs>>
      /\ phase[p] = "tests" /\ todo[p] = {}
      /\ IF filter = all THEN activateConfig(p, cfg) ELSE UNCHANGED testCfg
      /\ IF filter = all /\ ~featureSkipped(testCfg'[p], "transfer")
         THEN \E o \in Outcomes : /\ fuzzRuns' = fuzzRuns \cup {RunOf(p, cfg, {"fuzz"}, o)}
                                  /\ ComesOut(p, o, "fuzzed")
         ELSE GoTo(p, "fuzzed") /\ UNCHANGED <<fuzzRuns, failed>>
  BY DEF FuzzTransferMissing
<1>2. PICK n \in 1..N : cfg = files[n]
  BY <1>1, FuzzConfig
<1> HIDE DEF cfg
<1>3. files[n] \in Config /\ files[n].skip = Skip[n] /\ files[n].of = n /\ exitCode[p] = 0
  BY <1>1, <1>2 DEF IInv, TypeOK, Shapes, Codes
<1>4. /\ testCfg' \in [Procs -> Config \cup {noConfig}]
      /\ filter = all => testCfg'[p] = files[n]
  BY <1>1, <1>2, <1>3 DEF activateConfig, IInv, TypeOK
\* The step ends in one of three ways.
<1>5. /\ phase' \in [Procs -> Phases] /\ exitCode' \in [Procs -> 0..2] /\ failed' \in [Procs -> BOOLEAN]
      /\ \A q \in Procs \ {p} : phase'[q] = phase[q] /\ exitCode'[q] = exitCode[q] /\ failed'[q] = failed[q]
      /\ failed[p] => failed'[p]
      /\ \/ phase'[p] = "exited" /\ exitCode'[p] = 2
         \/ phase'[p] = "fuzzed" /\ exitCode'[p] = 0
      /\ fuzzRuns' \subseteq Run
      /\ \A r \in fuzzRuns' :
            \/ r \in fuzzRuns
            \/ /\ "transfer" \notin Skip[r.of]
               /\ r.outcome # "pass" => failed'[p] \/ exitCode'[p] = 2
  <2>0. "fuzzed" \in Phases
    BY DEF Phases
  <2>1. CASE filter = all /\ ~featureSkipped(testCfg'[p], "transfer")
    <3>1. PICK o \in Outcomes : /\ fuzzRuns' = fuzzRuns \cup {RunOf(p, cfg, {"fuzz"}, o)}
                                /\ ComesOut(p, o, "fuzzed")
      BY <1>1, <2>1
    <3>2. /\ phase' \in [Procs -> Phases] /\ exitCode' \in [Procs -> 0..2]
          /\ failed' \in [Procs -> BOOLEAN] /\ (failed'[p] <=> failed[p] \/ o = "fail")
          /\ \A q \in Procs \ {p} : /\ phase'[q] = phase[q] /\ exitCode'[q] = exitCode[q]
                                   /\ failed'[q] = failed[q]
          /\ \/ o = "panic" /\ phase'[p] = "exited" /\ exitCode'[p] = 2
             \/ o \in {"pass", "fail"} /\ phase'[p] = "fuzzed" /\ exitCode'[p] = 0
      BY <1>3, <2>0, <3>1, ComesOutOf
    <3>3. "transfer" \notin Skip[n]
      BY <1>3, <1>4, <2>1 DEF featureSkipped
    <3> DEFINE new == RunOf(p, cfg, {"fuzz"}, o)
    <3>4. new \in Run /\ new.of = n /\ new.outcome = o
      <4>1. uid[p] \in Users /\ {"fuzz"} \in SUBSET Suites
        BY DEF IInv, TypeOK, Suites
      <4>2. QED
        BY <1>2, <1>3, <4>1 DEF RunOf, Run
    <3>5. fuzzRuns' = fuzzRuns \cup {new}
      BY <3>1
    <3> HIDE DEF new
    <3>6. fuzzRuns' \subseteq Run
      BY <3>4, <3>5 DEF IInv, TypeOK
    <3>7. \A r \in fuzzRuns' :
             r \in fuzzRuns \/ ("transfer" \notin Skip[r.of] /\ r.outcome = o)
      BY <3>3, <3>4, <3>5
    <3>8. o # "pass" => failed'[p] \/ exitCode'[p] = 2
      BY <3>2
    <3>9. QED
      BY <3>2, <3>6, <3>7, <3>8
  <2>2. CASE ~(filter = all /\ ~featureSkipped(testCfg'[p], "transfer"))
    <3>1. /\ phase' = [phase EXCEPT ![p] = "fuzzed"] /\ exitCode' = exitCode
          /\ UNCHANGED <<fuzzRuns, failed>>
      BY <1>1, <2>2 DEF GoTo
    <3>2. QED
      BY <1>3, <2>0, <3>1 DEF IInv, TypeOK
  <2>3. QED
    BY <2>1, <2>2
<1>6. TypeOK'
  BY <1>1, <1>4, <1>5 DEF IInv, TypeOK
<1>7. \/ p = "first" /\ phase["second"] = "none"
      \/ p = "second" /\ phase["first"] = "wait"
  BY <1>1 DEF IInv, Child, Procs
<1>8. Shapes' /\ Loaded' /\ Child'
  BY <1>1, <1>5, <1>7 DEF IInv, Shapes, Loaded, Child, Foreign, Procs
<1>9. Pending' /\ Codes'
  BY <1>1, <1>5, <1>7 DEF IInv, Pending, Codes, Foreign, Procs
<1>10. RunsAsConfigured'
  <2>1. \A r \in fuzzRuns' : "transfer" \notin Skip[r.of]
    BY <1>5 DEF IInv, RunsAsConfigured
  <2>2. QED
    BY <1>1, <2>1 DEF IInv, RunsAsConfigured, Owner, Foreign
<1>11. Fresh'
  BY <1>1, <1>5, <1>7 DEF IInv, Fresh, Ran, Foreign, ChildToRun, Procs
<1>12. Recorded'
  <2>1. ASSUME NEW r \in runs' \cup fuzzRuns', r.outcome # "pass"
        PROVE  \/ exitCode'["first"] # 0
               \/ phase'["first"] \in {"tests", "fuzzed"} /\ failed'["first"]
               \/ /\ phase'["first"] = "wait"
                  /\ exitCode'["second"] # 0 \/ (phase'["second"] \in {"tests", "fuzzed"} /\ failed'["second"])
    <3>1. CASE r \in runs \cup fuzzRuns
      <4>1. \/ exitCode["first"] # 0
            \/ phase["first"] \in {"tests", "fuzzed"} /\ failed["first"]
            \/ /\ phase["first"] = "wait"
               /\ exitCode["second"] # 0 \/ (phase["second"] \in {"tests", "fuzzed"} /\ failed["second"])
        BY <2>1, <3>1 DEF IInv, Recorded
      <4>2. CASE p = "first"
        BY <1>1, <1>3, <1>5, <1>7, <4>1, <4>2 DEF Procs
      <4>3. CASE p = "second"
        BY <1>1, <1>3, <1>5, <1>7, <4>1, <4>3 DEF Procs
      <4>4. QED
        BY <4>2, <4>3 DEF Procs
    <3>2. CASE r \notin runs \cup fuzzRuns
      BY <1>1, <1>5, <1>7, <2>1, <3>2 DEF Procs
    <3>3. QED
      BY <3>1, <3>2
  <2>2. QED
    BY <2>1 DEF Recorded
<1>13. Covered'
  <2>1. CASE p = "first"
    BY <1>1, <1>3, <1>5, <1>7, <2>1 DEF IInv, Covered, Ran, Foreign, ChildToRun, Procs
  <2>2. CASE p = "second"
    BY <1>1, <1>3, <1>5, <1>7, <2>2 DEF IInv, Covered, Ran, Foreign, ChildToRun, Procs
  <2>3. QED
    BY <2>1, <2>2 DEF Procs
<1>14. QED
  BY <1>6, <1>8, <1>9, <1>10, <1>11, <1>12, <1>13 DEF IInv

\* A configuration for another user gets its process, or a code that says that it
\* could not.
LEMMA ReexecIInv == ASSUME IInv, Reexec PROVE IInv'
<1>1. PICK n \in reexecConfigs["first"] :
         /\ reexecConfigs' = [reexecConfigs EXCEPT !["first"] = @ \ {n}]
         /\ \/ /\ testConfigs["first"][n].uid \in Users
               /\ phase' = [phase EXCEPT !["first"] = "wait", !["second"] = "load"]
               /\ uid' = [uid EXCEPT !["second"] = testConfigs["first"][n].uid]
               /\ euid' = [euid EXCEPT !["second"] = testConfigs["first"][n].uid]
               /\ failed' = [failed EXCEPT !["second"] = FALSE]
               /\ testCfg' = [testCfg EXCEPT !["second"] = noConfig]
               /\ current' = n /\ exitCode' = [exitCode EXCEPT !["second"] = 0]
            \/ /\ exitCode' = [exitCode EXCEPT !["first"] = AddCode(@, 1)]
               /\ UNCHANGED <<phase, uid, euid, testCfg, failed, current>>
  BY DEF Reexec
<1>2. /\ UNCHANGED <<files, filter, reexec, testConfigs, todo, runs, fuzzRuns>>
      /\ phase["first"] = "reexec" /\ phase["second"] = "none"
      /\ n \in 1..N /\ Foreign(n) /\ ~Ran(n)
      /\ testConfigs["first"] = files /\ todo["first"] = {} /\ todo["second"] = {}
  BY DEF Reexec, IInv, Child, Shapes, Loaded, Pending, Fresh, Procs
<1>3. /\ reexecConfigs' \in [Procs -> SUBSET (1..N)]
      /\ reexecConfigs'["first"] = reexecConfigs["first"] \ {n} /\ reexecConfigs'["second"] = {}
  BY <1>1 DEF IInv, Shapes, Pending, Procs
<1>4. CASE /\ exitCode' = [exitCode EXCEPT !["first"] = AddCode(@, 1)]
           /\ UNCHANGED <<phase, uid, euid, testCfg, failed, current>>
  <2>1. /\ exitCode'["first"] = 1 /\ exitCode'["second"] = exitCode["second"]
        /\ exitCode' \in [Procs -> 0..2]
    BY <1>4 DEF AddCode, IInv, TypeOK, Procs
  <2>2. TypeOK'
    BY <1>2, <1>3, <1>4, <2>1 DEF IInv, TypeOK
  <2>3. Shapes' /\ Loaded' /\ Child' /\ Pending' /\ Codes'
    BY <1>2, <1>3, <1>4, <2>1 DEF IInv, Shapes, Loaded, Child, Pending, Codes, Foreign, Procs
  <2>4. Fresh' /\ RunsAsConfigured'
    BY <1>2, <1>3, <1>4, RunsStand DEF IInv, Fresh, Ran, Foreign, ChildToRun
  <2>5. Recorded' /\ Covered'
    BY <2>1 DEF Recorded, Covered
  <2>6. QED
    BY <2>2, <2>3, <2>4, <2>5 DEF IInv
<1>5. CASE /\ testConfigs["first"][n].uid \in Users
           /\ phase' = [phase EXCEPT !["first"] = "wait", !["second"] = "load"]
           /\ uid' = [uid EXCEPT !["second"] = testConfigs["first"][n].uid]
           /\ euid' = [euid EXCEPT !["second"] = testConfigs["first"][n].uid]
           /\ failed' = [failed EXCEPT !["second"] = FALSE]
           /\ testCfg' = [testCfg EXCEPT !["second"] = noConfig]
           /\ current' = n /\ exitCode' = [exitCode EXCEPT !["second"] = 0]
  <2>1. /\ phase'["first"] = "wait" /\ phase'["second"] = "load"
        /\ exitCode'["first"] = exitCode["first"] /\ exitCode'["second"] = 0
        /\ uid'["first"] = uid["first"] /\ uid'["second"] = files[n].uid
        /\ euid'["first"] = euid["first"]
    BY <1>2, <1>5 DEF IInv, TypeOK, Procs
  <2>2. /\ phase' \in [Procs -> Phases]
        /\ exitCode' \in [Procs -> 0..2] /\ uid' \in [Procs -> Users] /\ euid' \in [Procs -> Users]
        /\ failed' \in [Procs -> BOOLEAN] /\ current' \in 0..N
    <3>1. /\ phase' \in [Procs -> Phases]
          /\ exitCode' \in [Procs -> 0..2]
      <4>1. DOMAIN phase = Procs /\ DOMAIN exitCode = Procs
        BY DEF IInv, TypeOK
      <4>2. exitCode' \in [Procs -> 0..2]
        <5>1. exitCode \in [Procs -> 0..2] /\ exitCode' = [exitCode EXCEPT !["second"] = 0] /\ 0 \in 0..2
          BY <1>5 DEF IInv, TypeOK
        <5>2. QED
          BY <5>1
      <4>3. phase' = [p \in Procs |-> IF p = "first" THEN "wait" ELSE "load"]
        BY <1>5, <4>1 DEF Procs
      <4>4. QED
        BY <4>2, <4>3 DEF Phases
    <3>2. uid' \in [Procs -> Users] /\ euid' \in [Procs -> Users]
      BY <1>5 DEF IInv, TypeOK
    <3>3. failed' \in [Procs -> BOOLEAN]
      BY <1>5, Zenon DEF IInv, TypeOK
    <3>4. current' \in 0..N
      BY <1>2, <1>5, NAssumption
    <3>5. QED
      BY <3>1, <3>2, <3>3, <3>4
  <2>3. testCfg' \in [Procs -> Config \cup {noConfig}]
    BY <1>5 DEF IInv, TypeOK
  <2>5. TypeOK'
    BY <1>2, <1>3, <2>2, <2>3 DEF IInv, TypeOK
  <2>6. Shapes' /\ Loaded'
    BY <1>2, <1>3, <2>1 DEF IInv, Shapes, Loaded
  <2>7. Child' /\ Pending' /\ Codes'
    BY <1>2, <1>3, <1>5, <2>1 DEF IInv, Child, Pending, Codes, Foreign, Procs
  <2>8. Fresh' /\ RunsAsConfigured'
    BY <1>2, <1>3, <1>5, <2>1, RunsStand DEF IInv, Fresh, Ran, Foreign, ChildToRun
  <2>9. Recorded'
    BY <1>2, <2>1 DEF IInv, Recorded, Ran
  <2>10. Covered'
    BY <1>2, <1>3, <1>5, <2>1 DEF IInv, Covered, Ran, Foreign, ChildToRun
  <2>11. QED
    BY <2>5, <2>6, <2>7, <2>8, <2>9, <2>10 DEF IInv
<1>6. QED
  BY <1>1, <1>4, <1>5

LEMMA NextIInv == IInv /\ [Next]_vars => IInv'
<1> SUFFICES ASSUME IInv, [Next]_vars PROVE IInv'
  OBVIOUS
<1>1. ASSUME NEW p \in Procs, TestMain(p) PROVE IInv'
  <2>1. p = "first" \/ p = "second"
    BY DEF Procs
  <2>2. QED
    BY <1>1, <2>1, DiscoverFirstIInv, DiscoverSecondIInv, PartitionFirstIInv, PartitionSecondIInv,
       TestShimFirstIInv, TestShimSecondIInv, FuzzIInv, MRunIInv, LeaveIInv DEF TestMain
<1>2. CASE UNCHANGED vars
  <2>1. UNCHANGED <<files, filter, phase, uid, euid, reexec, testConfigs, reexecConfigs, todo, testCfg,
                    failed, exitCode, current, runs, fuzzRuns>>
    BY <1>2 DEF vars, procVars
  <2>2. TypeOK' /\ Shapes' /\ Loaded' /\ Child' /\ Pending' /\ Codes'
    BY <2>1 DEF IInv, TypeOK, Shapes, Loaded, Child, Pending, Codes, Foreign
  <2>3. Fresh' /\ Recorded' /\ Covered' /\ RunsAsConfigured'
    BY <2>1, RunsStand DEF IInv, Fresh, Recorded, Covered, Ran, Foreign, ChildToRun
  <2>4. QED
    BY <2>2, <2>3 DEF IInv
<1>3. QED
  BY <1>1, <1>2, ReexecIInv, ChildEndsIInv DEF Next

LEMMA Inductive == Spec => []IInv
BY InitIInv, NextIInv, PTL DEF Spec
-----------------------------------------------------------------------------
\* The two processes of the runner keep their types: in particular the names that
\* are left to do are names of configurations, and a code is 0, 1 or 2.
THEOREM TypeCorrect == Spec => []TypeOK
<1>1. IInv => TypeOK
  BY DEF IInv
<1>2. QED
  BY <1>1, Inductive, PTL

\* The exit code of TestMain hides nothing, for any number of configurations and
\* users: 0 means that no test failed in either process, and that without -test.run
\* TestShim ran each that could.
THEOREM ZeroMeansSuccess == Spec => []ZeroIsSuccess
<1>1. ASSUME IInv PROVE ZeroIsSuccess
  <2> SUFFICES ASSUME exited, exitCode["first"] = 0
               PROVE  /\ \A r \in runs \cup fuzzRuns : r.outcome = "pass"
                      /\ \A n \in 1..N :
                           (filter = all /\ (euid["first"] = "root" \/ ~Foreign(n))) => Ran(n)
    BY DEF ZeroIsSuccess
  <2>1. phase["first"] = "exited" /\ todo["first"] = {} /\ reexecConfigs["first"] = {}
    BY <1>1 DEF exited, IInv, Pending
  <2>2. \A r \in runs \cup fuzzRuns : r.outcome = "pass"
    BY <1>1, <2>1 DEF IInv, Recorded
  <2>3. \A n \in 1..N : (filter = all /\ (euid["first"] = "root" \/ ~Foreign(n))) => Ran(n)
    BY <1>1, <2>1 DEF IInv, Covered
  <2>4. QED
    BY <2>2, <2>3
<1>2. QED
  BY <1>1, Inductive, PTL

\* Whichever process runs a configuration, TestShim runs it once, as its user and
\* by its own skip list, which the fuzz target keeps to as well.
THEOREM RunAsConfigured == Spec => []RunsAsConfigured
<1>1. IInv => RunsAsConfigured
  BY DEF IInv
<1>2. QED
  BY <1>1, Inductive, PTL
=============================================================================
