---------------------------- MODULE SandboxRules ----------------------------
(***************************************************************************)
(* What the scripts of SandboxScripts have in common, as far as            *)
(* SandboxSession and the proofs about it rely on it: the order in which a *)
(* test uses the sandbox and the task API, and where it would notice a     *)
(* sandbox that misbehaves.  TLC evaluates the rules for every script      *)
(* (ScriptsAssumption); the proofs know the scripts by them alone.         *)
(***************************************************************************)
EXTENDS SandboxScripts, Naturals, FiniteSets

Members == {"a", "b", "c"}
Procs == Members \cup {"x"}
MaxCleanups == Cardinality(Members) + 1

SandboxCalls == {"sbCreate", "sbStart", "sbQuery", "sbReady", "sbNotReady", "sbStop", "sbShutdown"}
TaskCalls == {"create", "start", "exec", "state", "kill", "wait", "delete", "stdin", "shutdown"}
Calls == SandboxCalls \cup TaskCalls

\* The tests that are there for one misbehaviour of the sandbox each: the end of
\* a member stops another, a stop is only acknowledged, a namespace is shared.
Isolating == {"ContainerLifecycleIndependence", "MemberContainerOOMIsolation",
              "KillScopedToOwnContainer"}
Stopping == {"Lifecycle", "StatusAfterStop", "WaitUnblocksOnStop", "NetworkSandboxHeldOpen"}
Separating == "MemberContainersUTSNotShared"
-----------------------------------------------------------------------------
\* Before step i, and from it on: a step with one of these calls.
Behind(s, i, calls) == \E j \in 1..i - 1 : s[j].call \in calls
Ahead(s, i, calls) == \E j \in i..Len(s) : s[j].call \in calls

\* Before step i the call was made for p, by the test that wants it to succeed.
\* An exec begins the process "x" anew.
Done(s, i, call, p) ==
    \E j \in 1..i - 1 : /\ s[j].call = call /\ s[j].who = p /\ s[j].on # "expect"
                        /\ p = "x" => \A k \in j..i - 1 : s[k].call # "exec"
Made(s, i, p) == IF p = "x" THEN Behind(s, i, {"exec"}) ELSE Done(s, i, "create", p)

\* The sandbox, by the calls that were made for it.
Asked(s, i, call) == Done(s, i, call, "none")
Down(s, i) == Asked(s, i, "sbShutdown") \/ Asked(s, i, "shutdown")
Serving(s, i) == Asked(s, i, "sbStart") /\ ~Asked(s, i, "sbStop") /\ ~Down(s, i)

\* At step i the member has reason to run: it stays until it is killed, or until
\* its stdin is closed.
Runs(t, i, m) ==
    LET s == Scripts[t] IN
    /\ Serving(s, i) /\ Done(s, i, "start", m) /\ ~Done(s, i, "kill", m)
    /\ \/ Program(t, m) = "forever"
       \/ Program(t, m) = "nc" /\ ~Done(s, i, "stdin", m)

\* A step that fails if the member no longer runs, and one from i on.
Watches(s, j, m) ==
    /\ s[j].who = m
    /\ \/ s[j].call = "state" /\ s[j].on \in {"fatal", "mixed"}
       \/ s[j].call = "kill" /\ s[j].on = "fatal"
Watched(s, i, m) == \E j \in i..Len(s) : Watches(s, j, m)

\* A step that fails if the sandbox has not stopped.
Probes(s, j) ==
    \/ s[j].call = "sbPoll" /\ s[j].on \in {"fatal", "soft"}
    \/ s[j].call = "sbNotReady" /\ s[j].on \in {"fatal", "mixed", "soft", "lenient"}
    \/ s[j].call = "waitDone" /\ s[j].on = "fatal"
-----------------------------------------------------------------------------
\* What holds of every test by the helpers it is written with:
\* createContainerInSandbox has nothing between a Start and the registration of
\* its cleanup, only a member is tracked, deleted and fed, a "continue" has a step
\* to leave out, and each cleanup is registered by a step of its own.
Registers(s, i) == s[i].call \in {"cleanup", "track"}
WellFormed(s) ==
    /\ \A i \in 1..Len(s) :
         /\ s[i].on \in {"fatal", "mixed", "soft", "continue", "lenient", "error", "ignore", "expect"}
         /\ s[i].call \in {"track", "delete", "stdin"} => s[i].who \in Members
         /\ s[i].on = "continue" => i < Len(s)
         /\ s[i].call = "start" /\ s[i].who \in Members =>
               /\ s[i].on = "fatal" /\ i < Len(s)
               /\ s[i + 1].call = "track" /\ s[i + 1].who = s[i].who
    /\ Cardinality({i \in 1..Len(s) : Registers(s, i)}) <= MaxCleanups

\* The calls for the sandbox, in their order.
SandboxProtocol(s, i) ==
    LET call == s[i].call
        A(c) == Asked(s, i, c)
    IN
    /\ call \in SandboxCalls \cup {"shim", "cleanup", "shutdown"} => s[i].who = "none"
    /\ call = "shim" => s[i].on = "fatal" /\ ~A("shim") /\ ~Down(s, i)
    /\ call \in Calls => A("shim") /\ ~Down(s, i)
    /\ s[i].on = "expect" => call \in {"sbCreate", "sbStart"}
    /\ call = "sbCreate" => IF A("sbCreate") THEN s[i].on = "expect" ELSE s[i].on = "fatal"
    /\ call = "sbStart" => IF A("sbCreate") THEN s[i].on = "mixed" /\ ~A("sbStart")
                                            ELSE s[i].on = "expect"
    /\ call \in {"sbQuery", "sbReady", "sbNotReady", "sbStop", "sbShutdown", "cleanup", "create"} =>
          A("sbStart")
    /\ call \in {"sbQuery", "sbReady", "create"} => ~A("sbStop")
    /\ call = "sbNotReady" => A("sbStop")
    /\ call = "shutdown" => s[i].on = "ignore"
    /\ call = "require" /\ A("shim") => A("cleanup")

\* The calls for its members, in theirs.
TaskProtocol(t, i) ==
    LET s == Scripts[t]
        call == s[i].call
        p == s[i].who
        D(c) == Done(s, i, c, p)
    IN
    /\ call \in {"create", "exec", "state", "kill", "stdin"} => p \in Members
    /\ call \in {"start", "wait"} => p \in Procs
    /\ call \in {"create", "exec", "start", "stdin"} => s[i].on = "fatal"
    /\ call = "create" => ~D("create") /\ ~D("start") /\ ~D("wait")
    /\ call = "start" => Made(s, i, p) /\ ~D("start")
    /\ call \in {"exec", "state", "stdin"} => Runs(t, i, p)
    /\ call = "kill" => s[i].on = "ignore" \/ Runs(t, i, p)
    /\ call = "wait" => /\ s[i].on = "ignore" \/ (Made(s, i, p) /\ ~D("delete"))
                        /\ p = "x" => s[i].on \in {"fatal", "mixed"}
    /\ call = "delete" => s[i].on = "ignore" \/ (Made(s, i, p) /\ D("wait") /\ ~D("delete"))
    /\ call = "verify" => Behind(s, i, {"snapshot"})

\* The end of a member, at step i or before it, cannot go unnoticed by the tests
\* that are there for it.
Isolates(t, i) ==
    LET s == Scripts[t]
        Started(m) == Done(s, i, "start", m) /\ ~Done(s, i, "wait", m)
    IN
    /\ i <= Len(s) => s[i].call \notin {"require", "exec"}
    /\ \A p, q \in Members :
         p # q /\ Started(q) =>
            /\ Started(p) /\ Program(t, p) # "forever" => Watched(s, i, q)
            /\ i <= Len(s) /\ s[i].call \in {"kill", "delete"} /\ s[i].who = p =>
                  Watched(s, i + 1, q)

\* Nor can a stop, or a name that is shared.
Halts(s, i) ==
    s[i].call = "sbStop" => Asked(s, i, "sbStop") \/ (i < Len(s) /\ Probes(s, i + 1))
Separates(s, i) ==
    /\ i <= Len(s) /\ s[i].call = "require" => ~Made(s, i, "c")
    /\ i <= Len(s) /\ s[i].call = "verifyNot" =>
          s[i].on = "fatal" /\ Behind(s, i, {"snapshot"}) /\ Done(s, i, "wait", "c")
    /\ Done(s, i, "start", "c") /\ ~Done(s, i, "wait", "c") => Ahead(s, i, {"verifyNot"})
    /\ i > Len(s) => Done(s, i, "wait", "c")

\* A script as a whole: it shuts its shim down, or leaves that to the cleanup.
Whole(s) ==
    /\ s \in Seq([call : STRING, who : STRING, on : STRING]) /\ WellFormed(s)
    /\ Asked(s, Len(s) + 1, "cleanup") \/ Down(s, Len(s) + 1)

ASSUME ScriptsAssumption ==
    \A t \in DOMAIN Scripts :
       LET s == Scripts[t] IN
       /\ Whole(s)
       /\ \A i \in 1..Len(s) : SandboxProtocol(s, i) /\ TaskProtocol(t, i)
       /\ t \in Isolating => \A i \in 1..Len(s) + 1 : Isolates(t, i)
       /\ t \in Stopping => \A i \in 1..Len(s) : Halts(s, i)
       /\ t = Separating => \A i \in 1..Len(s) + 1 : Separates(s, i)
=============================================================================
