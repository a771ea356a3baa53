---------------------------- MODULE TaskSession -----------------------------
(***************************************************************************)
(* One test against one shim: the test goroutine walks its script, a drain *)
(* goroutine moves the output of the process under test from a FIFO to a   *)
(* buffer, a writer goroutine feeds its stdin, a peer on the host talks to *)
(* it over a connection (NetPeer), the shim runs the processes, copies     *)
(* their output and publishes events (EventRecorder).  Then the leak check *)
(* of the suite looks for the shim.                                        *)
(*                                                                         *)
(* The shim is external: it is modelled from the contract that the tests   *)
(* state.  A conforming one answers calls by the task protocol, copies all *)
(* output before it closes a FIFO, and exits after Shutdown once the       *)
(* copying is done.  In a hostile world the shim may also answer a legal   *)
(* call with an error, drop output that it holds, lose or reorder events   *)
(* or show a file that a layer removed, the network may fail or lose       *)
(* tokens, and a timer of the test may fire before what it waits for has   *)
(* happened.                                                               *)
(***************************************************************************)
EXTENDS TaskRules, EventRecorder, NetPeer, Naturals

CONSTANTS Tests,       \* the tests, by their names in Scripts
          Chunks,      \* what a burst writes, and what the stdin writer sends
          PipeSize     \* what a FIFO, or the shim's own pipe, holds

ASSUME TestsAssumption == Tests \subseteq DOMAIN Scripts
ASSUME SizesAssumption == Chunks \in Nat \ {0} /\ PipeSize \in Nat \ {0}

VARIABLES
    world,             \* "conforming" or "hostile"
    test, ip,          \* the test and the step it is at
    guarded,           \* a failure resumes at the final shutdownShim
    phase,             \* "body", then "leak" check, then "ended"
    outcome,           \* "none", or how the test goroutine left its body
    leaked,            \* the leak check reported the shim
    shim, proc,        \* the shim process; the processes in the container
    src,               \* what a burst has yet to write
    toSend, sent,      \* stdin: what the writer goroutine has yet to write; written
    stdin, stdinOpen,  \* stdin FIFO; the shim's own write end of it
    held, fifo, got,   \* stdout: in the shim's hands; in the FIFO; in the buffer
    draining, closed, drained,   \* drain goroutine started; FIFO closed; EOF seen
    lost, fault, slow, \* history: output dropped; the shim misbehaved; a timer fired
    misread, leftover  \* history: part of an output was taken for all; a removed file shown

testVars == <<world, test, ip, guarded, phase, outcome, leaked>>
inVars == <<src, toSend, sent, stdin, stdinOpen>>
outVars == <<held, fifo, got, draining, closed, drained, lost>>
envVars == <<netVars, eventVars>>
history == <<fault, slow, misread, leftover>>
vars == <<testVars, shim, proc, inVars, outVars, envVars, history>>

hostile == world = "hostile"

script == Scripts[test]
subject == Subject(test)
program == Program(test)

Init ==
    /\ world \in {"conforming", "hostile"}
    /\ test \in Tests /\ ip = 1 /\ guarded = FALSE
    /\ phase = "body" /\ outcome = "none" /\ leaked = FALSE
    /\ shim = "absent" /\ proc = [p \in {"init", "exec"} |-> "none"]
    /\ src = (IF program.out = "own" THEN Chunks ELSE 0)
    /\ toSend = 0 /\ sent = 0 /\ stdin = 0 /\ stdinOpen = (test # "UDSRoundTrip")
    /\ held = 0 /\ fifo = 0 /\ got = 0
    /\ draining = FALSE /\ closed = FALSE /\ drained = FALSE
    /\ lost = 0 /\ fault = FALSE /\ slow = FALSE /\ misread = FALSE /\ leftover = FALSE
    /\ NetInit /\ EventsInit
-----------------------------------------------------------------------------
(* The test goroutine. *)

At(call) == phase = "body" /\ ip <= Len(script) /\ script[ip].call = call

Goes == ip' = ip + 1 /\ UNCHANGED outcome

\* Mutant of Leaves: the test goes on behind its own end.
LeavesPast(how) ==
    /\ outcome' = how
    /\ ip' = IF guarded THEN Len(script) - Len(shutdownShim) + 1 ELSE Len(script) + 2

\* t.Fatal or t.Skip.  What was deferred, or stands after a failed sub-test,
\* is the final shutdownShim.
Leaves(how) ==
    /\ outcome' = how
    /\ ip' = IF guarded THEN Len(script) - Len(shutdownShim) + 1 ELSE Len(script) + 1

\* t.Fatal, or t.Error where the step says so.
Fails == IF script[ip].on = "soft" THEN ip' = ip + 1 /\ outcome' = "fail" ELSE Leaves("fail")

\* if _, err := tc.Call(...); err != nil.  "gone" is NotFound, the answer to a
\* call on a process that has exited.
OnError(err) ==
    LET fine == CASE script[ip].on = "fatal"    -> {"nil"}
                  [] script[ip].on = "tolerate" -> {"nil", "gone"}
                  [] script[ip].on = "ignore"   -> {"nil", "gone", "error"}
                  [] script[ip].on = "expect"   -> {"gone", "error"}
                  [] OTHER -> {"nil"}
    IN  IF err \in fine THEN Goes
        ELSE Leaves(IF script[ip].on = "return" THEN outcome ELSE "fail")

KeepTest == UNCHANGED <<world, test, guarded, phase, leaked>>
KeepShim == UNCHANGED <<shim, proc, inVars, outVars>>

setup ==
    /\ At("setup")
    /\ \/ shim' = "up" /\ Goes /\ UNCHANGED fault
       \/ hostile /\ shim' \in {"absent", "up"} /\ Leaves("fail") /\ fault' = TRUE
    /\ KeepTest /\ UNCHANGED <<proc, inVars, outVars, envVars, slow, misread, leftover>>

\* The task API as the tests use it (external).  Wait, on a process that runs,
\* does not answer until it has stopped.
Legal(call, p) ==
    /\ shim = "up"
    /\ CASE call = "create"   -> proc["init"] = "none"
         [] call = "exec"     -> proc["init"] = "running" /\ proc["exec"] = "none"
         [] call = "start"    -> proc[p] = "created" /\ ~(program.ends = "missing" /\ p = "exec")
         [] call = "state"    -> proc["init"] = "running"
         [] call = "kill"     -> proc[p] = "running"
         [] call = "wait"     -> proc[p] = "stopped"
         [] call = "delete"   -> proc[p] \in {"created", "stopped"}
         [] call = "closeIO"  -> proc[p] = "running"
         [] call = "shutdown" -> TRUE
Blocked(call, p) == call = "wait" /\ shim = "up" /\ proc[p] \in {"created", "running"}

\* The events of the init process; only testEvents has a recorder.
Emits(what) ==
    IF test = "Events" /\ what \in {"create", "start", "exit", "delete"}
    THEN Publish(what) ELSE UNCHANGED eventVars

Effect(call, p) ==
    /\ proc' = CASE call \in {"create", "exec"} -> [proc EXCEPT ![p] = "created"]
                 [] call = "start"  -> [proc EXCEPT ![p] = "running"]
                 [] call = "kill"   -> [proc EXCEPT ![p] = "stopped"]
                 [] call = "delete" -> [proc EXCEPT ![p] = "deleted"]
                 [] OTHER -> proc
    /\ shim' = IF call = "shutdown" THEN "stopping" ELSE shim
    /\ stdinOpen' = IF call = "closeIO" THEN FALSE ELSE stdinOpen
    /\ Emits(call)

rpc ==
    \E call \in Calls : At(call) /\ LET p == script[ip].who IN
       /\ \/ Legal(call, p) /\ Effect(call, p) /\ OnError("nil") /\ UNCHANGED fault
          \/ /\ ~Legal(call, p) /\ ~Blocked(call, p)
             /\ OnError(IF proc[p] = "stopped" THEN "gone" ELSE "error")
             /\ UNCHANGED <<proc, shim, stdinOpen, eventVars, fault>>
          \/ /\ hostile /\ fault' = TRUE
             /\ OnError(IF script[ip].on = "expect" THEN "nil" ELSE "error")
             /\ UNCHANGED <<proc, shim, stdinOpen, eventVars>>
       /\ KeepTest
       /\ UNCHANGED <<src, toSend, sent, stdin, outVars, netVars, slow, misread, leftover>>

\* What the buffer must hold in the end: everything that was sent, the token, or
\* a burst; nothing where the second ls looks.
renewed == test = "HundredLayers" /\ \E i \in 1..ip - 1 : script[i].call = "renew"
Want == CASE program.out = "stdin" -> sent
          [] program.out = "conn" -> 1
          [] program.out = "own" /\ renewed -> 0
          [] OTHER -> Chunks

\* A step bounded by a timer: it goes on when cond holds, or fails the test.
Timed(cond) ==
    /\ \/ cond /\ Goes /\ UNCHANGED slow
       \/ hostile /\ ~cond /\ Leaves("fail") /\ slow' = TRUE
    /\ KeepTest /\ KeepShim /\ UNCHANGED <<envVars, fault, misread, leftover>>

poll == At("poll") /\ Timed(got >= Want)
\* Mutant of drainDone: the buffer is read without waiting for EOF.
drainDoneUnwaited == At("drainDone") /\ Timed(TRUE)
drainDone == At("drainDone") /\ Timed(drained)
writeDone == At("writeDone") /\ Timed(toSend = 0)
waitForTopic == At("topic") /\ Timed(HasTopic(script[ip].who))
waitForListeningPort == At("listening") /\ Timed(link = "listen")
accept == At("accept") /\ Timed(link = "open")

\* time.Since(start) against a bound: too long is a slow call.
elapsed == At("elapsed") /\ \E quick \in BOOLEAN : Timed(quick)

\* A step that looks at nothing but the test's own state and the world's.
Local == KeepTest /\ KeepShim /\ UNCHANGED envVars

\* time.Sleep: the output has arrived by then, or the pause was too short.
pause ==
    /\ At("pause") /\ Goes
    /\ slow' = (slow \/ got < Want \/ held + fifo > 0)
    /\ Local /\ UNCHANGED <<fault, misread, leftover>>

\* Mutant of verify: something must have come, but not all of it.
verifySome ==
    /\ At("verify")
    /\ IF got > 0 THEN Goes ELSE Fails
    /\ Local /\ UNCHANGED history

verify ==
    /\ At("verify")
    /\ IF got = Want THEN Goes ELSE Fails
    /\ Local /\ UNCHANGED history

\* testDNSResolve looks for an address, not for all of them.
some == At("some") /\ (IF got > 0 THEN Goes ELSE Fails) /\ Local /\ UNCHANGED history

\* captureExec: the select that waits 200 ms for the copy; then the buffer is
\* parsed, whatever it holds.
capped ==
    /\ At("capped") /\ Goes
    /\ drained \/ hostile
    /\ slow' = (slow \/ ~drained)
    /\ Local /\ UNCHANGED <<fault, misread, leftover>>
readGuestMem ==
    /\ At("reading") /\ Goes
    /\ misread' = (0 < got /\ got < Want)
    /\ Local /\ UNCHANGED <<fault, slow, leftover>>

\* The scan for the order of the topics, then the exit event's content.
order == At("order") /\ (IF InOrder THEN Goes ELSE Fails) /\ Local /\ UNCHANGED history
envelope ==
    /\ At("envelope")
    /\ \/ Goes /\ UNCHANGED fault
       \/ hostile /\ Fails /\ fault' = TRUE
    /\ Local /\ UNCHANGED <<slow, misread, leftover>>

\* <-stdoutDone has no timer.
stdoutDone == At("stdoutDone") /\ drained /\ Goes /\ Local /\ UNCHANGED history
status == At("status") /\ (IF code = 0 THEN Goes ELSE Fails) /\ Local /\ UNCHANGED history

\* The answer of the host's goroutine, bounded by 5 s.
peerDone ==
    /\ At("peer")
    /\ \/ peer = "fail" /\ Leaves("fail") /\ Local /\ UNCHANGED history
       \/ peer # "fail" /\ Timed(peer = "done")

\* The host's end of the connection.
listen ==
    /\ At("listen") /\ Goes /\ Listen(script[ip].who = "goroutine")
    /\ KeepTest /\ KeepShim /\ UNCHANGED <<eventVars, history>>
dial ==
    /\ At("dial")
    /\ \/ Goes /\ Dial /\ UNCHANGED fault
       \/ hostile /\ Leaves("fail") /\ fault' = TRUE /\ UNCHANGED netVars
    /\ KeepTest /\ KeepShim /\ UNCHANGED <<eventVars, slow, misread, leftover>>
send ==
    /\ At("send") /\ Goes /\ HostWrites
    /\ KeepTest /\ KeepShim /\ UNCHANGED <<eventVars, history>>
hangUp ==
    /\ At("hangup") /\ Goes /\ HangUp
    /\ KeepTest /\ KeepShim /\ UNCHANGED <<eventVars, history>>

\* attachContainerNetwork: slirp4netns is not needed or comes up, is not
\* installed, or fails.
attachContainerNetwork ==
    /\ At("attach")
    /\ \/ (Goes \/ Leaves("skip")) /\ UNCHANGED fault
       \/ hostile /\ Leaves("fail") /\ fault' = TRUE
    /\ Local /\ UNCHANGED <<slow, misread, leftover>>

AddInboundForward ==
    /\ At("forward")
    /\ \/ Goes /\ UNCHANGED fault
       \/ hostile /\ Leaves("fail") /\ fault' = TRUE
    /\ Local /\ UNCHANGED <<slow, misread, leftover>>

\* The check for FormatMounts.
format == At("format") /\ (Goes \/ Leaves("skip")) /\ Local /\ UNCHANGED history

\* New FIFOs and a new exec, ls of a directory that every layer whited out.
renew ==
    /\ At("renew") /\ Goes
    /\ proc' = [proc EXCEPT !["exec"] = "none"]
    /\ \/ src' = 0 /\ UNCHANGED <<leftover, fault>>
       \/ hostile /\ src' = 1 /\ leftover' = TRUE /\ fault' = TRUE
    /\ held' = 0 /\ fifo' = 0 /\ got' = 0 /\ closed' = FALSE /\ drained' = FALSE
    /\ KeepTest
    /\ UNCHANGED <<shim, toSend, sent, stdin, stdinOpen, draining, lost, envVars, slow, misread>>

drain ==
    /\ At("drain") /\ Goes /\ draining' = TRUE
    /\ KeepTest
    /\ UNCHANGED <<shim, proc, inVars, held, fifo, got, closed, drained, lost, envVars, history>>

\* One line written to the stdin FIFO, and the client's end closed.
write ==
    /\ At("write") /\ Goes
    /\ stdin < PipeSize /\ stdin' = stdin + 1 /\ sent' = sent + 1
    /\ KeepTest
    /\ UNCHANGED <<shim, proc, src, toSend, stdinOpen, outVars, envVars, history>>

writer ==
    /\ At("writer") /\ Goes /\ toSend' = Chunks
    /\ KeepTest
    /\ UNCHANGED <<shim, proc, src, sent, stdin, stdinOpen, outVars, envVars, history>>

\* skipIfNoTransfer: the probe answers, or is Unimplemented.
probe == At("probe") /\ (Goes \/ Leaves("skip")) /\ Local /\ UNCHANGED history

\* copyToContainer, copyFromContainer: a transfer works or is fatal.
transfer ==
    /\ At("transfer")
    /\ \/ Goes /\ UNCHANGED fault
       \/ hostile /\ Leaves("fail") /\ fault' = TRUE
    /\ Local /\ UNCHANGED <<slow, misread, leftover>>

\* defer shutdownShim, or t.Run of a sub-test.
guard ==
    /\ At("guard") /\ Goes /\ guarded' = TRUE
    /\ KeepShim /\ UNCHANGED <<world, test, phase, leaked, envVars, history>>

\* The test is over, with its cleanups: readers closed, the shim binary's
\* delete run.  None of them stops a shim.
BodyEnds ==
    /\ phase = "body" /\ ip > Len(script) /\ phase' = "leak"
    /\ KeepShim /\ UNCHANGED <<world, test, ip, guarded, outcome, leaked, envVars, history>>

\* registerShimLeakCheck's cleanup, half a second later.
registerShimLeakCheck ==
    /\ phase = "leak" /\ phase' = "ended"
    /\ leaked' = (shim \in {"up", "stopping"})
    /\ slow' = (slow \/ shim = "stopping")
    /\ KeepShim
    /\ UNCHANGED <<world, test, ip, guarded, outcome, envVars, fault, misread, leftover>>

Waits == poll \/ drainDone \/ writeDone \/ waitForTopic \/ waitForListeningPort \/ accept
          \/ elapsed \/ pause \/ verify \/ some \/ capped \/ readGuestMem \/ order \/ envelope
          \/ stdoutDone \/ status \/ peerDone
Test == setup \/ rpc \/ Waits \/ listen \/ dial \/ send \/ hangUp
        \/ attachContainerNetwork \/ AddInboundForward \/ format \/ renew
        \/ drain \/ write \/ writer \/ probe \/ transfer \/ guard
        \/ BodyEnds \/ registerShimLeakCheck
-----------------------------------------------------------------------------
(* The goroutines of the test. *)

\* io.Copy(stdin, ...) of the writer goroutine.
StdinWriter ==
    /\ toSend > 0 /\ stdin < PipeSize
    /\ toSend' = toSend - 1 /\ stdin' = stdin + 1 /\ sent' = sent + 1
    /\ UNCHANGED <<testVars, shim, proc, src, stdinOpen, outVars, envVars, history>>

\* drainFifoInto, drainFifoIntoDone: a read that returns data, one that ends.
DrainRead ==
    /\ draining /\ fifo > 0
    /\ fifo' = fifo - 1 /\ got' = got + 1
    /\ UNCHANGED <<testVars, shim, proc, inVars, held, draining, closed, drained, lost,
                   envVars, history>>
DrainEOF ==
    /\ draining /\ closed /\ fifo = 0 /\ ~drained
    /\ drained' = TRUE
    /\ UNCHANGED <<testVars, shim, proc, inVars, held, fifo, got, draining, closed, lost,
                   envVars, history>>
-----------------------------------------------------------------------------
(* The process under test, the network, and the shim (external). *)

\* cmdForever, cmdEcho, cmdDate, cmdLs, cmdHashverify, cmdBurstexit, cmdHost and
\* cmdLooptest write; cmdCat copies.
ProcWrites ==
    /\ proc[subject] = "running" /\ held < PipeSize
    /\ \/ src > 0 /\ src' = src - 1 /\ UNCHANGED stdin
       \/ program.out = "stdin" /\ stdin > 0 /\ stdin' = stdin - 1 /\ UNCHANGED src
    /\ held' = held + 1
    /\ UNCHANGED <<testVars, shim, proc, toSend, sent, stdinOpen, fifo, got, draining,
                   closed, drained, lost, envVars, history>>

\* No one can write to the stdin of the process any more, and it read everything.
StdinEOF == stdin = 0 /\ toSend = 0 /\ ~stdinOpen

\* Both copies of ncStream have ended.
ncStream == hungUp /\ down = 0 /\ StdinEOF

ProcExits ==
    /\ proc[subject] = "running"
    /\ \/ program.ends = "written" /\ src = 0
       \/ program.ends = "eof" /\ StdinEOF
       \/ program.ends = "stream" /\ link = "open" /\ ncStream
       \/ program.ends = "heard" /\ link = "heard"
    /\ proc' = [proc EXCEPT ![subject] = "stopped"]
    /\ Emits("exit")
    /\ UNCHANGED <<testVars, shim, inVars, outVars, netVars, history>>

\* cmdNC: it dials or binds, sends its stdin, and writes what it receives; a
\* datagram is sent when stdin has ended.
NcRuns == program.out = "conn" /\ proc[subject] = "running"
NcConnects ==
    /\ NcRuns
    /\ (program.opens = "dial" /\ Dial) \/ (program.opens = "bind" /\ Bind)
    /\ KeepShim /\ UNCHANGED <<testVars, eventVars, history>>
NcCopiesIn ==
    /\ NcRuns /\ stdin > 0 /\ NcSends
    /\ IF program.opens = "datagram" THEN ~stdinOpen ELSE link = "open"
    /\ stdin' = stdin - 1
    /\ UNCHANGED <<testVars, shim, proc, src, toSend, sent, stdinOpen, outVars, eventVars, history>>
NcCopiesOut ==
    /\ NcRuns /\ held < PipeSize /\ held' = held + 1
    /\ NcReceives(program.opens = "datagram")
    /\ UNCHANGED <<testVars, shim, proc, inVars, fifo, got, draining, closed, drained, lost,
                   eventVars, history>>

\* In a hostile world it cannot connect or bind, or its deadline for the
\* answer to a datagram passes.
NcGivesUp ==
    /\ hostile /\ NcRuns /\ NcFails
    /\ \/ program.ends = "stream" /\ link # "open" /\ fault' = TRUE /\ UNCHANGED slow
       \/ program.opens = "datagram" /\ ~stdinOpen /\ stdin = 0 /\ link # "heard"
          /\ slow' = TRUE /\ UNCHANGED fault
    /\ proc' = [proc EXCEPT ![subject] = "stopped"]
    /\ UNCHANGED <<testVars, shim, inVars, outVars, eventVars, misread, leftover>>

Peer == (PeerEchoes \/ PeerReports) /\ KeepShim /\ UNCHANGED <<testVars, eventVars, history>>
PeerTimesOut ==
    /\ hostile /\ (link = "open" \/ program.opens = "datagram")
    /\ PeerGivesUp /\ slow' = TRUE
    /\ KeepShim /\ UNCHANGED <<testVars, eventVars, fault, misread, leftover>>
NetworkLoses ==
    /\ hostile /\ Swallows /\ lost' = lost + 1 /\ fault' = TRUE
    /\ UNCHANGED <<testVars, shim, proc, inVars, held, fifo, got, draining, closed, drained,
                   eventVars, slow, misread, leftover>>

ShimCopies ==
    /\ shim \in {"up", "stopping"} /\ held > 0 /\ fifo < PipeSize
    /\ held' = held - 1 /\ fifo' = fifo + 1
    /\ UNCHANGED <<testVars, shim, proc, inVars, got, draining, closed, drained, lost,
                   envVars, history>>

ShimCloses ==
    /\ proc[subject] \in {"stopped", "deleted"} /\ held = 0 /\ ~closed
    /\ closed' = TRUE
    /\ UNCHANGED <<testVars, shim, proc, inVars, held, fifo, got, draining, drained, lost,
                   envVars, history>>

\* After Shutdown, and once the process under test has been copied out.
ShimExits ==
    /\ shim = "stopping"
    /\ proc[subject] # "running" \/ program.ends = "never"
    /\ held = 0
    /\ shim' = "down"
    /\ proc' = [p \in DOMAIN proc |-> IF proc[p] = "running" THEN "stopped" ELSE proc[p]]
    /\ UNCHANGED <<testVars, inVars, outVars, envVars, history>>

\* A buggy shim closes its connection with output in it.  (One that both shows
\* a removed file and drops it hides its own fault.)
ShimDrops ==
    /\ hostile /\ held > 0 /\ ~leftover
    /\ lost' = lost + held /\ held' = 0 /\ fault' = TRUE
    /\ UNCHANGED <<testVars, shim, proc, inVars, fifo, got, draining, closed, drained,
                   envVars, slow, misread, leftover>>

ShimForwards ==
    /\ shim \in {"up", "stopping"} /\ Forward
    /\ KeepShim /\ UNCHANGED <<testVars, netVars, history>>
ShimForwardsAgain ==
    /\ shim \in {"up", "stopping"} /\ ForwardAgain
    /\ KeepShim /\ UNCHANGED <<testVars, netVars, history>>
ShimSkews ==
    /\ hostile /\ Skew /\ fault' = TRUE
    /\ KeepShim /\ UNCHANGED <<testVars, netVars, slow, misread, leftover>>

World == StdinWriter \/ DrainRead \/ DrainEOF \/ ProcWrites \/ ProcExits
         \/ NcConnects \/ NcCopiesIn \/ NcCopiesOut \/ NcGivesUp
         \/ Peer \/ PeerTimesOut \/ NetworkLoses
         \/ ShimCopies \/ ShimCloses \/ ShimExits \/ ShimDrops
         \/ ShimForwards \/ ShimForwardsAgain \/ ShimSkews

Next == Test \/ World

Spec == Init /\ [][Next]_vars

\* Goroutines run, a network delivers, a conforming shim answers, copies and
\* forwards.
FairSpec == Spec /\ WF_vars(Test) /\ WF_vars(StdinWriter) /\ WF_vars(DrainRead)
                 /\ WF_vars(DrainEOF) /\ WF_vars(ProcWrites) /\ WF_vars(ProcExits)
                 /\ WF_vars(NcConnects) /\ WF_vars(NcCopiesIn) /\ WF_vars(NcCopiesOut)
                 /\ WF_vars(Peer) /\ WF_vars(ShimForwards)
                 /\ WF_vars(ShimCopies) /\ WF_vars(ShimCloses) /\ WF_vars(ShimExits)
-----------------------------------------------------------------------------
TypeOK ==
    /\ world \in {"conforming", "hostile"}
    /\ test \in Tests /\ ip \in 1..Len(script) + 1 /\ guarded \in BOOLEAN
    /\ phase \in {"body", "leak", "ended"} /\ outcome \in {"none", "fail", "skip"}
    /\ leaked \in BOOLEAN
    /\ shim \in {"absent", "up", "stopping", "down"}
    /\ proc \in [{"init", "exec"} -> {"none", "created", "running", "stopped", "deleted"}]
    /\ src \in Nat /\ toSend \in Nat /\ sent \in Nat
    /\ stdin \in 0..PipeSize /\ held \in 0..PipeSize /\ fifo \in 0..PipeSize
    /\ got \in Nat /\ lost \in Nat
    /\ {stdinOpen, draining, closed, drained} \subseteq BOOLEAN
    /\ {fault, slow, misread, leftover} \subseteq BOOLEAN
    /\ NetTypeOK /\ EventsTypeOK

SuiteFails == outcome = "fail" \/ leaked

\* A shim that conforms, on a machine that is not too slow for the timers of
\* the test, passes: no order of the goroutines, the copying, the calls, the
\* connection, or of events that come late or twice makes the test reject it,
\* every call the test makes is one that the task protocol allows at that point,
\* and no part of an output is taken for the whole.
NoFalseAlarm == phase = "ended" /\ outcome # "skip" /\ (SuiteFails \/ misread) => fault \/ slow

\* A shim that drops output is not passed, whenever it does so: before or
\* after the process exits, during Delete or after Shutdown; nor is a network
\* that loses what was sent through it.  (The samples of the guest's memory are
\* not checked, and of the addresses of a name one is enough.)
TruncationCaught ==
    phase = "ended" /\ lost > 0 /\ test \notin {"StressGuestMem", "DNSResolve"} => SuiteFails

\* A shim that loses an event or lets one overtake another is not passed, if it
\* does not send that event again; neither is one that shows a file which a
\* layer removed, if its listing arrives within the pause after the exec.
BreachCaught ==
    phase = "ended" /\ ((skewed /\ repeats = 0) \/ (leftover /\ ~slow)) => SuiteFails

\* With a conforming shim every test ends: nobody waits for EOF, for an exit, for
\* an event, for the peer's half of a connection or for room in a FIFO that never
\* comes.
Terminates == world = "conforming" ~> phase = "ended"

\* A test that is skipped because the shim has no transfer service does not
\* make the suite fail, if the shim did nothing wrong.
SkipIsClean == phase = "ended" /\ outcome = "skip" /\ ~fault /\ ~slow => ~leaked
=============================================================================
