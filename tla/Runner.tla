------------------------------- MODULE Runner -------------------------------
(***************************************************************************)
(* The command line runner (main_test.go, runner_test.go): load the        *)
(* configurations, run in this process the ones for this user, run each of *)
(* the others in a second process under sudo, and exit with a code for all *)
(* of them.  The second process is the same program: it loads one          *)
(* configuration from a temporary file, whose name it knows it by.  In     *)
(* each process m.Run executes TestShim and then, on its seed corpus, the  *)
(* fuzz target FuzzTransferMissing (fuzz_test.go).                         *)
(*                                                                         *)
(* What a test finds is external, up to the configuration's shim: it       *)
(* passes, fails, or ends the process (a panic, -test.timeout).            *)
(***************************************************************************)
EXTENDS Naturals, Sequences

CONSTANTS N,          \* configuration files, 1..N in the order of their names
          Skip,       \* Skip[n]: the skip list of configuration n
          Users,      \* the users of this machine
          Invokers    \* <<uid, euid>> the program may be started with

Features == {"exec", "transfer", "uds", "oom", "layers", "net", "sandbox"}
Outcomes == {"pass", "fail", "panic"}
ghost == "ghost"      \* a uid that no user has
unset == "unset"      \* a configuration without a uid
temp == 0             \* the name of the configuration in the second process
all == 0              \* -test.run names no configuration
Procs == {"first", "second"}

ASSUME NAssumption == N \in Nat \ {0}
ASSUME SkipAssumption == Skip \in [1..N -> SUBSET Features]
ASSUME UsersAssumption == "root" \in Users /\ ghost \notin Users /\ unset \notin Users
ASSUME InvokersAssumption == Invokers \subseteq Users \X Users

VARIABLES files,      \* the configurations on disk
          filter,     \* the configuration that -test.run names, or all
          phase,      \* where TestMain of each process is
          uid, euid, reexec,       \* of each process; SHIMTEST_REEXEC
          testConfigs,             \* of each process: name -> configuration
          reexecConfigs,           \* of each process: the names for sudo
          todo,       \* of each process: the names TestShim has not come to
          testCfg,    \* of each process: the configuration that is active
          failed,     \* of each process: a test has failed
          exitCode,   \* of each process
          current,    \* the configuration that the second process is for
          runs,       \* history: what TestShim ran
          fuzzRuns    \* history: what FuzzTransferMissing ran

procVars == <<phase, uid, euid, reexec, testConfigs, reexecConfigs, todo, testCfg, failed, exitCode>>
vars == <<files, filter, procVars, current, runs, fuzzRuns>>

Suites == {"fuzz", "run", "stress", "stress exec", "stress transfer", "stress sandbox"} \cup Features
Config == [uid : Users \cup {ghost, unset}, skip : SUBSET Features, of : 1..N]
noConfig == [uid |-> unset, skip |-> {}, of |-> 0]
Run == [of : 1..N, uid : Users, suites : SUBSET Suites, outcome : Outcomes]

Init ==
    /\ \E owner \in [1..N -> Users \cup {ghost, unset}] :
          files = [n \in 1..N |-> [uid |-> owner[n], skip |-> Skip[n], of |-> n]]
    /\ filter \in 0..N
    /\ phase = [p \in Procs |-> IF p = "first" THEN "load" ELSE "none"]
    /\ \E who \in Invokers : /\ uid = [p \in Procs |-> who[1]]
                             /\ euid = [p \in Procs |-> who[2]]
    /\ reexec = [p \in Procs |-> p = "second"]
    /\ testConfigs = [p \in Procs |-> <<>>]
    /\ reexecConfigs = [p \in Procs |-> {}]
    /\ todo = [p \in Procs |-> {}] /\ failed = [p \in Procs |-> FALSE]
    /\ testCfg = [p \in Procs |-> noConfig]
    /\ exitCode = [p \in Procs |-> 0]
    /\ current = 0 /\ runs = {} /\ fuzzRuns = {}
-----------------------------------------------------------------------------
Exit(p, code) ==
    /\ exitCode' = [exitCode EXCEPT ![p] = code]
    /\ phase' = [phase EXCEPT ![p] = "exited"]

GoTo(p, next) == phase' = [phase EXCEPT ![p] = next] /\ UNCHANGED exitCode

\* Mutant of MarshalJSON: the skip list is left out.
MarshalJSONNoSkip(cfg) == [uid |-> cfg.uid, skip |-> {}, of |-> cfg.of]

\* MarshalJSON, then UnmarshalJSON in the second process, field by field.  The
\* shim is the same, by an absolute path.
MarshalJSON(cfg) == [uid |-> cfg.uid, skip |-> cfg.skip, of |-> cfg.of]

\* discoverConfigs, loadConfigFile: every file of the directory, or the temporary
\* file.  A file that cannot be read or parsed, or that names no shim, ends the
\* process.
discoverConfigs(p) ==
    /\ phase[p] = "load"
    /\ \/ /\ testConfigs' = [testConfigs EXCEPT ![p] =
                IF reexec[p] THEN [n \in {temp} |-> MarshalJSON(files[current])] ELSE files]
          /\ GoTo(p, "partition")
       \/ Exit(p, 1) /\ UNCHANGED testConfigs
    /\ UNCHANGED <<files, filter, uid, euid, reexec, reexecConfigs, todo, testCfg, failed, current,
                   runs, fuzzRuns>>

targetUID(p, cfg) == IF cfg.uid = unset THEN uid[p] ELSE cfg.uid

\* Mutant of checkRunnable: whoever is root may run every configuration.
checkRunnableAsRoot(p, cfg) == targetUID(p, cfg) = uid[p] \/ uid[p] = "root"

checkRunnable(p, cfg) == targetUID(p, cfg) = uid[p]

\* TestMain: which configurations run here, and which under sudo.
Partition(p) ==
    LET here == {n \in DOMAIN testConfigs[p] : targetUID(p, testConfigs[p][n]) = uid[p]}
    IN /\ phase[p] = "partition"
       /\ reexecConfigs' = [reexecConfigs EXCEPT ![p] =
             IF euid[p] = "root" /\ ~reexec[p] THEN DOMAIN testConfigs[p] \ here ELSE {}]
       /\ todo' = [todo EXCEPT ![p] = IF here # {} THEN DOMAIN testConfigs[p] ELSE {}]
       /\ phase' = [phase EXCEPT ![p] = IF here # {} THEN "tests" ELSE "reexec"]
       /\ UNCHANGED <<files, filter, uid, euid, reexec, testConfigs, testCfg, failed, exitCode, current,
                      runs, fuzzRuns>>

\* Mutant of activateConfig: the first configuration stays.
activateConfigOnce(p, cfg) == testCfg' = [testCfg EXCEPT ![p] = IF @ = noConfig THEN cfg ELSE @]

\* From now on featureSkipped goes by the skip list of cfg.
activateConfig(p, cfg) == testCfg' = [testCfg EXCEPT ![p] = cfg]

featureSkipped(active, feature) == feature \in active.skip

\* The body of TestShim: the run suite, the suites that are not skipped, and the
\* stress suite, of which only the transfer and the sandbox subtest can be skipped.
suites(active) ==
    {"run", "stress", "stress exec"}
    \cup {feature \in Features : ~featureSkipped(active, feature)}
    \cup {s \in {"stress transfer"} : ~featureSkipped(active, "transfer")}
    \cup {s \in {"stress sandbox"} : ~featureSkipped(active, "sandbox")}

Selected(n) == filter = all \/ filter = n

\* What is run of a configuration, here and as this process's user, comes out as o.
RunOf(p, cfg, what, o) == [of |-> cfg.of, uid |-> uid[p], suites |-> what, outcome |-> o]

\* With this outcome the process goes on, or is over.
ComesOut(p, o, next) ==
    /\ failed' = [failed EXCEPT ![p] = @ \/ o = "fail"]
    /\ IF o = "panic" THEN Exit(p, 2) ELSE GoTo(p, next)

\* TestShim comes to the next name: t.Run skips a configuration for another
\* user, and runs nothing if -test.run names a different one.
TestShim(p) ==
    LET n == CHOOSE k \in todo[p] : \A j \in todo[p] : k <= j
        cfg == testConfigs[p][n]
    IN /\ phase[p] = "tests" /\ todo[p] # {}
       /\ todo' = [todo EXCEPT ![p] = @ \ {n}]
       /\ IF checkRunnable(p, cfg) /\ Selected(n)
          THEN /\ activateConfig(p, cfg)
               /\ \E o \in Outcomes : /\ runs' = runs \cup {RunOf(p, cfg, suites(testCfg'[p]), o)}
                                      /\ ComesOut(p, o, "tests")
          ELSE UNCHANGED <<runs, failed, exitCode, phase, testCfg>>
       /\ UNCHANGED <<files, filter, uid, euid, reexec, testConfigs, reexecConfigs, current, fuzzRuns>>

\* The first name, whichever user its configuration is for.
pickFuzzConfig(p) == CHOOSE k \in DOMAIN testConfigs[p] : \A j \in DOMAIN testConfigs[p] : k <= j

\* After TestShim, passed or failed, m.Run comes to the fuzz target.  A -test.run
\* that names a configuration of TestShim does not match it.
FuzzTransferMissing(p) ==
    LET cfg == testConfigs[p][pickFuzzConfig(p)]
    IN /\ phase[p] = "tests" /\ todo[p] = {}
       /\ IF filter = all THEN activateConfig(p, cfg) ELSE UNCHANGED testCfg
       /\ IF filter = all /\ ~featureSkipped(testCfg'[p], "transfer")
          THEN \E o \in Outcomes : /\ fuzzRuns' = fuzzRuns \cup {RunOf(p, cfg, {"fuzz"}, o)}
                                   /\ ComesOut(p, o, "fuzzed")
          ELSE GoTo(p, "fuzzed") /\ UNCHANGED <<fuzzRuns, failed>>
       /\ UNCHANGED <<files, filter, uid, euid, reexec, testConfigs, reexecConfigs, todo, current, runs>>

\* m.Run returns.
MRun(p) ==
    /\ phase[p] = "fuzzed"
    /\ exitCode' = [exitCode EXCEPT ![p] = IF failed[p] THEN 1 ELSE 0]
    /\ phase' = [phase EXCEPT ![p] = "reexec"]
    /\ UNCHANGED <<files, filter, uid, euid, reexec, testConfigs, reexecConfigs, todo, testCfg, failed,
                   current, runs, fuzzRuns>>

\* Mutants of AddCode: the codes add up; the code of the last process is the code of them all.
AddCodeSum(old, code) == old + code
AddCodeLast(old, code) == code

\* if code != 0 { exitCode = code }
AddCode(old, code) == IF code # 0 THEN code ELSE old

\* reexecAsUser, or the reason it is not called or fails: no user has the uid, no
\* executable path or temporary file, no sudo.
Reexec ==
    LET p == "first" IN
    /\ phase[p] = "reexec" /\ reexecConfigs[p] # {}
    /\ \E n \in reexecConfigs[p] :
       /\ reexecConfigs' = [reexecConfigs EXCEPT ![p] = @ \ {n}]
       /\ \/ /\ testConfigs[p][n].uid \in Users
             /\ phase' = [phase EXCEPT ![p] = "wait", !["second"] = "load"]
             /\ uid' = [uid EXCEPT !["second"] = testConfigs[p][n].uid]
             /\ euid' = [euid EXCEPT !["second"] = testConfigs[p][n].uid]
             /\ failed' = [failed EXCEPT !["second"] = FALSE]
             /\ testCfg' = [testCfg EXCEPT !["second"] = noConfig]
             /\ current' = n /\ exitCode' = [exitCode EXCEPT !["second"] = 0]
          \/ /\ exitCode' = [exitCode EXCEPT ![p] = AddCode(@, 1)]
             /\ UNCHANGED <<phase, uid, euid, testCfg, failed, current>>
    /\ UNCHANGED <<files, filter, reexec, testConfigs, todo, runs, fuzzRuns>>

\* cmd.Run returns.
ChildEnds ==
    /\ phase["first"] = "wait" /\ phase["second"] = "exited"
    /\ exitCode' = [exitCode EXCEPT !["first"] = AddCode(@, exitCode["second"])]
    /\ phase' = [phase EXCEPT !["first"] = "reexec", !["second"] = "none"]
    /\ todo' = [todo EXCEPT !["second"] = {}]
    /\ testConfigs' = [testConfigs EXCEPT !["second"] = <<>>]
    /\ UNCHANGED <<files, filter, uid, euid, reexec, reexecConfigs, testCfg, failed, current, runs,
                   fuzzRuns>>

\* os.Exit
Leave(p) ==
    /\ phase[p] = "reexec" /\ reexecConfigs[p] = {}
    /\ Exit(p, exitCode[p])
    /\ UNCHANGED <<files, filter, uid, euid, reexec, testConfigs, reexecConfigs, todo, testCfg, failed,
                   current, runs, fuzzRuns>>

TestMain(p) ==
    \/ discoverConfigs(p) \/ Partition(p) \/ TestShim(p) \/ FuzzTransferMissing(p)
    \/ MRun(p) \/ Leave(p)

Next == (\E p \in Procs : TestMain(p)) \/ Reexec \/ ChildEnds

Spec == Init /\ [][Next]_vars
-----------------------------------------------------------------------------
Phases == {"none", "load", "partition", "tests", "fuzzed", "reexec", "wait", "exited"}

TypeOK ==
    /\ files \in [1..N -> Config] /\ filter \in 0..N
    /\ phase \in [Procs -> Phases]
    /\ uid \in [Procs -> Users] /\ euid \in [Procs -> Users] /\ reexec \in [Procs -> BOOLEAN]
    /\ \A p \in Procs : DOMAIN testConfigs[p] \subseteq 0..N /\ reexecConfigs[p] \subseteq 1..N
    /\ todo \in [Procs -> SUBSET (0..N)]
    /\ testCfg \in [Procs -> Config \cup {noConfig}]
    /\ failed \in [Procs -> BOOLEAN]
    /\ exitCode \in [Procs -> 0..2] /\ current \in 0..N
    /\ runs \subseteq Run /\ fuzzRuns \subseteq Run

exited == phase["first"] = "exited"
Ran(n) == \E r \in runs : r.of = n
Foreign(n) == files[n].uid \notin {unset, uid["first"]}
Owner(n) == IF Foreign(n) THEN files[n].uid ELSE uid["first"]

\* Exit code 0 hides nothing: nothing that ran failed, in whichever process, of
\* TestShim or of the fuzz target, and whatever ran after it, and, unless -test.run
\* names one, TestShim ran every configuration that this user or sudo could run.
ZeroIsSuccess ==
    (exited /\ exitCode["first"] = 0) =>
       /\ \A r \in runs \cup fuzzRuns : r.outcome = "pass"
       /\ \A n \in 1..N :
            (filter = all /\ (euid["first"] = "root" \/ ~Foreign(n))) => Ran(n)

\* TestShim runs a configuration at most once, and as it says.  As its user: not
\* in the first process and again under sudo, and not as root because root could.
\* With its skip list and no other's, in either process and whichever configuration
\* was active before: every feature but the skipped ones, in the stress suite too.
\* And the fuzz target runs no transfer that its configuration skips; as which user
\* it runs one is not said here, because pickFuzzConfig does not look.
RunsAsConfigured ==
    /\ \A r, s \in runs : r.of = s.of => r = s
    /\ \A r \in runs :
         /\ r.uid = Owner(r.of)
         /\ r.suites \cap Features = Features \ Skip[r.of]
         /\ "stress transfer" \in r.suites <=> "transfer" \notin Skip[r.of]
         /\ "stress sandbox" \in r.suites <=> "sandbox" \notin Skip[r.of]
    /\ \A r \in fuzzRuns : "transfer" \notin Skip[r.of]

\* What README.md says of -test.run and of configurations for another user: the
\* one that is named runs, in this process or under sudo, if the code is 0.
NamedConfigRuns ==
    (exited /\ exitCode["first"] = 0 /\ filter # all /\ (euid["first"] = "root" \/ ~Foreign(filter)))
       => Ran(filter)
=============================================================================
