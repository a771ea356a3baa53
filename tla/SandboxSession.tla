--------------------------- MODULE SandboxSession ---------------------------
(***************************************************************************)
(* One test of SandboxSuite against one sandbox shim: the test goroutine   *)
(* walks its script, WaitSandbox may run in a goroutine beside it, drain   *)
(* goroutines carry the output of the member containers.  Then the         *)
(* cleanups run, last registered first.  Their calls are made under        *)
(* env.ctx, which comes from tb.Context() and is cancelled before the      *)
(* first cleanup runs: a request still leaves, but nobody waits for its    *)
(* answer, so the shim has all of them at once.  Last comes the leak       *)
(* check.                                                                  *)
(*                                                                         *)
(* The shim is external, modelled from the contract that the tests state.  *)
(* In a hostile world it may answer with an error or with something wrong, *)
(* acknowledge a stop that it does not do, or let one container's end stop *)
(* another; and a timer of the test may fire before what it waits for.     *)
(***************************************************************************)
EXTENDS SandboxRules

CONSTANT Tests   \* the tests, by their names in Scripts

ASSUME TestsAssumption == Tests \subseteq DOMAIN Scripts

VARIABLES
    world,               \* "conforming" or "hostile"
    test, ip,            \* the test and the step it is at
    phase,               \* "body", "cleanup", "leak", "ended"
    failed, skipped,     \* t.Failed(), t.Skipped()
    leaked,              \* the leak check reported the shim
    cleanups,            \* the stack of the testing package
    tracked,             \* env.containers
    snap,                \* the output read after the last pause was complete
    waiter,              \* the WaitSandbox goroutine
    shim, sandbox,       \* the shim process and the state of its sandbox
    proc, out,           \* each process; its output: "none", "flight", "seen"
    fed, served,         \* members whose stdin was written and closed; a server's
                         \* one connection was made
    pending,             \* requests that nobody waits for
    asked,               \* history: members for which Delete was called
    fault, slow,         \* history: a wrong answer of the shim; a timer or pause was short
    breach               \* history: a misbehaviour behind a right answer

testVars == <<world, test, ip, phase, failed, skipped, leaked, cleanups, tracked, snap, waiter>>
shimVars == <<shim, sandbox, proc, out, fed, served, pending>>
histVars == <<asked, fault, slow, breach>>
vars == <<testVars, shimVars, histVars>>

hostile == world = "hostile"
script == Scripts[test]
program(p) == Program(test, p)

Init ==
    /\ world \in {"conforming", "hostile"} /\ test \in Tests /\ ip = 1 /\ phase = "body"
    /\ failed = FALSE /\ skipped = FALSE /\ leaked = FALSE
    /\ cleanups = <<>> /\ tracked = {} /\ snap = FALSE /\ waiter = "off"
    /\ shim = "absent" /\ sandbox = "none"
    /\ proc = [p \in Procs |-> "none"] /\ out = [p \in Procs |-> "none"]
    /\ fed = {} /\ served = FALSE /\ pending = {}
    /\ asked = {} /\ fault = FALSE /\ slow = FALSE /\ breach = "none"
-----------------------------------------------------------------------------
(* The test goroutine. *)

At(call) == phase = "body" /\ ip <= Len(script) /\ script[ip].call = call
on == script[ip].on
who == script[ip].who

Goes == ip' = ip + 1 /\ UNCHANGED failed
Leaves == ip' = Len(script) + 1 /\ failed' = TRUE      \* t.Fatal
GoesFailed == ip' = ip + 1 /\ failed' = TRUE           \* t.Error

OnError ==
    CASE on \in {"fatal", "mixed", "error"}     -> Leaves
      [] on = "soft"                            -> GoesFailed
      [] on = "continue"                        -> ip' = ip + 2 /\ failed' = TRUE
      [] on \in {"lenient", "ignore", "expect"} -> Goes

OnAnswer(right) ==
    CASE on = "expect"                                      -> Leaves
      [] on \in {"ignore", "error"}                          -> Goes
      [] on = "fatal"                                       -> IF right THEN Goes ELSE Leaves
      [] on \in {"mixed", "soft", "continue", "lenient"}     -> IF right THEN Goes ELSE GoesFailed

\* shimSetup or its like, startShim, connectShim.
startShim ==
    /\ At("shim")
    /\ \/ shim' = "up" /\ Goes /\ UNCHANGED fault
       \/ hostile /\ shim' \in {"absent", "up"} /\ Leaves /\ fault' = TRUE
    /\ UNCHANGED <<world, test, phase, skipped, leaked, cleanups, tracked, snap, waiter, sandbox,
                   proc, out, fed, served, pending, asked, slow, breach>>

\* The sandbox and task API as the tests use them (external).  Wait does not
\* answer before the process has stopped.
Legal(call, p) ==
    /\ shim = "up"
    /\ CASE call = "sbCreate" -> sandbox = "none"
         [] call = "sbStart"  -> sandbox = "created"
         [] call = "sbQuery"  -> sandbox = "ready"
         [] call \in {"sbReady", "sbNotReady", "sbStop"} -> sandbox \in {"ready", "stopped"}
         [] call = "sbShutdown" -> sandbox \in {"ready", "stopped"}
         [] call = "shutdown" -> TRUE
         [] call = "create"   -> sandbox = "ready" /\ proc[p] = "none"
         [] call = "exec"     -> proc[p] = "running"
         [] call = "start"    -> proc[p] = "created"
         [] call = "state"    -> proc[p] \in {"created", "running", "stopped"}
         [] call = "kill"     -> proc[p] = "running"
         [] call = "wait"     -> proc[p] = "stopped"
         [] call = "delete"   -> proc[p] = "stopped"
         [] call = "stdin"    -> proc[p] = "running"
Blocked(call, p) == call = "wait" /\ shim = "up" /\ proc[p] \in {"created", "running"}
Right(call, p) == /\ call = "state" => proc[p] = "running"
                  /\ call = "sbReady" => sandbox = "ready"
                  /\ call = "sbNotReady" => sandbox # "ready"

\* One process ends, or goes: in a hostile world it may take a peer along.
Ends(p, how) ==
    LET alone == [proc EXCEPT ![p] = how]
    IN  \/ proc' = alone /\ UNCHANGED <<fault, breach>>
        \/ /\ hostile /\ phase = "body" /\ breach' = "peer" /\ UNCHANGED fault
           /\ \E q \in Members \ {p} :
                proc[q] = "running" /\ proc' = [alone EXCEPT ![q] = "stopped"]

\* A stop ends every member; in a hostile world it is only acknowledged.
Stops ==
    \/ /\ sandbox' = "stopped"
       /\ proc' = [p \in Procs |-> IF proc[p] = "running" THEN "stopped" ELSE proc[p]]
       /\ UNCHANGED <<fault, breach>>
    \/ /\ hostile /\ phase = "body" /\ sandbox = "ready" /\ breach' = "stop"
       /\ UNCHANGED <<sandbox, proc, fault>>

Exits == /\ shim' = "down"
         /\ sandbox' = "stopped"
         /\ proc' = [p \in Procs |-> IF proc[p] = "running" THEN "stopped" ELSE proc[p]]

Effect(call, p) ==
    /\ CASE call = "sbCreate" -> sandbox' = "created" /\ UNCHANGED <<shim, proc, fault, breach>>
         [] call = "sbStart"  -> sandbox' = "ready" /\ UNCHANGED <<shim, proc, fault, breach>>
         [] call = "sbStop"   -> Stops /\ UNCHANGED shim
         [] call \in {"sbShutdown", "shutdown"} -> Exits /\ UNCHANGED <<fault, breach>>
         [] call = "create"   -> proc' = [proc EXCEPT ![p] = "created"]
                                 /\ UNCHANGED <<shim, sandbox, fault, breach>>
         [] call = "exec"     -> proc' = [proc EXCEPT !["x"] = "created"]
                                 /\ UNCHANGED <<shim, sandbox, fault, breach>>
         [] call = "start"    -> proc' = [proc EXCEPT ![p] = "running"]
                                 /\ UNCHANGED <<shim, sandbox, fault, breach>>
         [] call = "kill"     -> Ends(p, "stopped") /\ UNCHANGED <<shim, sandbox>>
         [] call = "delete"   -> Ends(p, "deleted") /\ UNCHANGED <<shim, sandbox>>
         [] OTHER -> UNCHANGED <<shim, sandbox, proc, fault, breach>>
    /\ out' = IF call = "exec" THEN [out EXCEPT !["x"] = "none"] ELSE out
    /\ fed' = IF call = "stdin" THEN fed \cup {p} ELSE fed

rpc ==
    \E call \in Calls :
       /\ At(call)
       /\ \/ Legal(call, who) /\ Effect(call, who) /\ OnAnswer(Right(call, who))
          \/ /\ ~Legal(call, who) /\ ~Blocked(call, who) /\ OnError
             /\ UNCHANGED <<shim, sandbox, proc, out, fed, fault, breach>>
          \/ /\ hostile /\ ~fault /\ fault' = TRUE
             /\ (OnError \/ OnAnswer(FALSE) \/ (on = "expect" /\ GoesFailed))
             /\ UNCHANGED <<shim, sandbox, proc, out, fed, breach>>
       /\ asked' = IF call = "delete" THEN asked \cup {who} ELSE asked
       /\ UNCHANGED <<world, test, phase, skipped, leaked, cleanups, tracked, snap, waiter,
                      served, pending, slow>>

\* startSandboxShimInner's last step.
cleanup ==
    /\ At("cleanup") /\ Goes
    /\ cleanups' = Append(cleanups, "sandbox")
    /\ UNCHANGED <<world, test, phase, skipped, leaked, tracked, snap, waiter, shimVars, histVars>>

\* Mutant of track: the container's cleanup is registered twice.
trackTwice ==
    /\ At("track") /\ Goes
    /\ tracked' = tracked \cup {who}
    /\ cleanups' = cleanups \o <<who, who>>
    /\ UNCHANGED <<world, test, phase, skipped, leaked, snap, waiter, shimVars, histVars>>

\* createContainerInSandbox's last steps.
track ==
    /\ At("track") /\ Goes
    /\ tracked' = tracked \cup {who}
    /\ cleanups' = Append(cleanups, who)
    /\ UNCHANGED <<world, test, phase, skipped, leaked, snap, waiter, shimVars, histVars>>

\* A step with a timer.
Timed(cond) ==
    /\ \/ cond /\ Goes /\ UNCHANGED slow
       \/ hostile /\ ~cond /\ OnError /\ slow' = TRUE
    /\ UNCHANGED <<world, test, phase, skipped, leaked, cleanups, tracked, snap, waiter,
                   asked, fault, breach>>

readContainerOutput == At("output") /\ Timed(out[who] = "seen") /\ UNCHANGED shimVars
readOutputs ==
    /\ At("outputs") /\ Timed(\A m \in Members : out[m] = "seen") /\ UNCHANGED shimVars

\* Mutant of waitForSandboxStatus: any answer will do, whatever the state in it.
waitForSandboxStatusUnread == At("sbPoll") /\ Timed(shim = "up") /\ UNCHANGED shimVars

waitForSandboxStatus == At("sbPoll") /\ Timed(shim = "up" /\ sandbox = "stopped") /\ UNCHANGED shimVars
waitDone == At("waitDone") /\ Timed(waiter = "done") /\ UNCHANGED shimVars
\* Only the Wait of execInSandboxContainer has a timeout.
waitTimeout ==
    /\ At("wait") /\ who = "x" /\ Blocked("wait", "x") /\ Timed(FALSE) /\ UNCHANGED shimVars

\* The host's side of a connection: seen in time or not.
hostDone == At("peer") /\ (\E seen \in BOOLEAN : Timed(seen)) /\ UNCHANGED shimVars
dialInNetnsRoundTrip ==
    /\ At("dial") /\ \E seen \in BOOLEAN : Timed(seen) /\ served' = seen
    /\ UNCHANGED <<shim, sandbox, proc, out, fed, pending>>

\* time.Sleep(50ms), then what has been captured by then.
containerOutputSnapshot ==
    /\ At("snapshot") /\ Goes
    /\ snap' = (out[who] = "seen") /\ slow' = (slow \/ ~snap')
    /\ UNCHANGED <<world, test, phase, skipped, leaked, cleanups, tracked, waiter, shimVars,
                   asked, fault, breach>>

verify ==
    /\ At("verify") /\ OnAnswer(snap)
    /\ UNCHANGED <<world, test, phase, skipped, leaked, cleanups, tracked, snap, waiter,
                   shimVars, histVars>>

\* The name read must not be the one another member has set.
verifyNot ==
    /\ At("verifyNot") /\ OnAnswer(~(snap /\ breach = "shared"))
    /\ UNCHANGED <<world, test, phase, skipped, leaked, cleanups, tracked, snap, waiter,
                   shimVars, histVars>>

\* What the host shows of the shim: its network sandbox, its container mounts
\* (none once the shim is gone).
probe ==
    /\ At("netns") \/ At("mounts")
    /\ \/ Goes /\ UNCHANGED fault
       \/ hostile /\ shim = "up" /\ OnAnswer(FALSE) /\ fault' = TRUE
    /\ UNCHANGED <<world, test, phase, skipped, leaked, cleanups, tracked, snap, waiter,
                   shimVars, asked, slow, breach>>

\* t.Skip where the host, or the shim, lacks what the test needs.
require ==
    /\ At("require")
    /\ \/ Goes /\ UNCHANGED skipped
       \/ ip' = Len(script) + 1 /\ skipped' = TRUE /\ UNCHANGED failed
    /\ UNCHANGED <<world, test, phase, leaked, cleanups, tracked, snap, waiter, shimVars, histVars>>

startWaiter ==
    /\ At("waiter") /\ Goes /\ waiter' = "started"
    /\ UNCHANGED <<world, test, phase, skipped, leaked, cleanups, tracked, snap, shimVars, histVars>>

Body == startShim \/ rpc \/ cleanup \/ track \/ readContainerOutput \/ readOutputs
        \/ waitForSandboxStatus \/ waitDone \/ hostDone \/ dialInNetnsRoundTrip
        \/ waitTimeout \/ containerOutputSnapshot \/ verify \/ verifyNot \/ probe \/ require
        \/ startWaiter
-----------------------------------------------------------------------------
(* The end of the test. *)

BodyEnds ==
    /\ phase = "body" /\ ip > Len(script) /\ phase' = "cleanup"
    /\ UNCHANGED <<world, test, ip, failed, skipped, leaked, cleanups, tracked, snap, waiter,
                   shimVars, histVars>>

\* Kill, Wait and Delete of one member.
Teardown(m) == {<<"kill", m>>, <<"delete", m>>}

\* Mutant of memberCleanup: it only forgets the container.
memberCleanupForgets(m) ==
    /\ tracked' = tracked \ {m} /\ UNCHANGED <<pending, asked>>

\* createContainerInSandbox's cleanup.
memberCleanup(m) ==
    /\ pending' = pending \cup Teardown(m)
    /\ asked' = asked \cup {m}
    /\ tracked' = tracked \ {m}

\* Mutant of shutdownSandboxShim: it only stops the sandbox.
shutdownSandboxShimStops ==
    /\ pending' = pending \cup (UNION {Teardown(m) : m \in tracked}) \cup {<<"sbStop", "none">>}
    /\ asked' = asked \cup tracked
    /\ UNCHANGED tracked

\* startSandboxShim's.
shutdownSandboxShim ==
    /\ pending' = pending \cup (UNION {Teardown(m) : m \in tracked})
                          \cup {<<"sbStop", "none">>, <<"sbShutdown", "none">>}
    /\ asked' = asked \cup tracked
    /\ UNCHANGED tracked

Cleanup ==
    /\ phase = "cleanup"
    /\ IF cleanups = <<>>
       THEN phase' = "leak" /\ UNCHANGED <<cleanups, tracked, pending, asked>>
       ELSE LET top == cleanups[Len(cleanups)] IN
            /\ cleanups' = SubSeq(cleanups, 1, Len(cleanups) - 1)
            /\ IF top = "sandbox" THEN shutdownSandboxShim ELSE memberCleanup(top)
            /\ UNCHANGED phase
    /\ UNCHANGED <<world, test, ip, failed, skipped, leaked, snap, waiter, shim, sandbox, proc,
                   out, fed, served, fault, slow, breach>>

\* registerShimLeakCheck, half a second later.
registerShimLeakCheck ==
    /\ phase = "leak" /\ phase' = "ended"
    /\ leaked' = (shim = "up")
    /\ slow' = (slow \/ pending # {})
    /\ UNCHANGED <<world, test, ip, failed, skipped, cleanups, tracked, snap, waiter, shimVars,
                   asked, fault, breach>>

Test == Body \/ BodyEnds \/ Cleanup \/ registerShimLeakCheck
-----------------------------------------------------------------------------
(* The goroutine of testWaitUnblocksOnStop, the processes, the shim. *)

\* WaitSandbox answers when the sandbox has stopped, also if it had before;
\* the end of the test cancels it.  Any error will do for an answer.
WaitSandbox ==
    /\ waiter = "started" /\ waiter' = "done"
    /\ \/ (sandbox = "stopped" \/ shim = "down" \/ phase # "body") /\ UNCHANGED fault
       \/ hostile /\ ~fault /\ fault' = TRUE
    /\ UNCHANGED <<world, test, ip, phase, failed, skipped, leaked, cleanups, tracked, snap,
                   shimVars, asked, slow, breach>>

\* In a hostile world the last member of one test sees a name it should not.
Prints(p) ==
    /\ proc[p] = "running" /\ out[p] = "none"
    /\ program(p) \in {"forever", "echo", "serve"} \/ (program(p) = "nc" /\ p \in fed)
    /\ out' = [out EXCEPT ![p] = "flight"]
    /\ served' = (served \/ program(p) = "nc")
    /\ \/ UNCHANGED breach
       \/ hostile /\ test = Separating /\ p = "c" /\ breach' = "shared"
    /\ UNCHANGED <<testVars, shim, sandbox, proc, fed, pending, asked, fault, slow>>

\* The shim copies it, the drain goroutine reads it; followed as long as the
\* test may look at it.
Arrives(p) ==
    /\ phase = "body" /\ out[p] = "flight"
    /\ out' = [out EXCEPT ![p] = "seen"]
    /\ UNCHANGED <<testVars, shim, sandbox, proc, fed, served, pending, histVars>>

ProcExits(p) ==
    /\ proc[p] = "running"
    /\ \/ program(p) = "quiet"
       \/ program(p) \in {"echo", "nc"} /\ out[p] # "none"
       \/ program(p) = "serve" /\ out[p] # "none" /\ served
    /\ Ends(p, "stopped")
    /\ UNCHANGED <<testVars, shim, sandbox, out, fed, served, pending, asked, slow>>

\* The shim serves a request that nobody waits for, in no order; with the
\* shim the rest go.
Serves ==
    \E r \in pending :
       /\ \/ Legal(r[1], r[2]) /\ Effect(r[1], r[2])
          \/ ~Legal(r[1], r[2]) /\ UNCHANGED <<shim, sandbox, proc, out, fed, fault, breach>>
       /\ pending' = IF shim' = "up" THEN pending \ {r} ELSE {}
       /\ UNCHANGED <<testVars, served, asked, slow>>

World == WaitSandbox \/ Serves \/ \E p \in Procs : Prints(p) \/ Arrives(p) \/ ProcExits(p)

Next == Test \/ World

Spec == Init /\ [][Next]_vars

\* Goroutines run; a conforming shim answers, copies and serves.
FairSpec == Spec /\ WF_vars(Test) /\ WF_vars(WaitSandbox) /\ WF_vars(Serves)
                 /\ \A p \in Procs : /\ WF_vars(Prints(p)) /\ WF_vars(Arrives(p))
                                     /\ WF_vars(ProcExits(p))
-----------------------------------------------------------------------------
TypeOK ==
    /\ world \in {"conforming", "hostile"} /\ test \in Tests /\ ip \in 1..Len(script) + 1
    /\ phase \in {"body", "cleanup", "leak", "ended"}
    /\ {failed, skipped, leaked, snap, served, fault, slow} \subseteq BOOLEAN
    /\ cleanups \in Seq(Members \cup {"sandbox"}) /\ Len(cleanups) <= MaxCleanups
    /\ tracked \subseteq Members /\ asked \subseteq Members /\ fed \subseteq Members
    /\ waiter \in {"off", "started", "done"}
    /\ shim \in {"absent", "up", "down"} /\ sandbox \in {"none", "created", "ready", "stopped"}
    /\ proc \in [Procs -> {"none", "created", "running", "stopped", "deleted"}]
    /\ out \in [Procs -> {"none", "flight", "seen"}]
    /\ pending \subseteq ({"kill", "delete"} \X Members) \cup ({"sbStop", "sbShutdown"} \X {"none"})
    /\ breach \in {"none", "peer", "stop", "shared"}

SuiteFails == failed \/ leaked

\* A shim that conforms passes, on a machine that is fast enough for the
\* pauses and timers of the test: every call the test makes is one that the
\* sandbox and task protocols allow at that point, whatever the members have
\* done by then, and the cleanups end the shim although nobody waits for them.
NoFalseAlarm == phase = "ended" /\ SuiteFails => fault \/ slow \/ breach # "none"

\* A shim that answers every call rightly, but lets the end of one member stop
\* another, acknowledges StopSandbox and goes on, or shares a namespace it
\* should not, fails the tests that are there for it, the last only if the
\* output came within the pause of 50 ms.
BreachCaught ==
    phase = "ended" /\ ~fault =>
        /\ test \in Isolating /\ breach = "peer" => SuiteFails
        /\ test \in Stopping /\ breach = "stop" => SuiteFails
        /\ test = Separating /\ breach = "shared" /\ ~slow => SuiteFails

\* When the cleanups have run, Delete was called for every member that was
\* ever tracked or started, by the test, by the member's own cleanup or by
\* the sandbox's (createContainerInSandbox, shutdownSandboxShim).
MembersTornDown ==
    phase \in {"leak", "ended"} =>
        \A m \in Members : m \in tracked \/ proc[m] \in {"running", "stopped"} => m \in asked

\* With a conforming shim every test ends.
Terminates == world = "conforming" ~> phase = "ended"
=============================================================================
