---------------------------- MODULE TaskScripts -----------------------------
(***************************************************************************)
(* The tests that drive one shim through the task API (the run, exec,      *)
(* transfer, network, UDS, OOM and layers suites, and the execs of the     *)
(* stress suite), each as the sequence of its steps.  TaskSession gives    *)
(* the steps their meaning.                                                *)
(***************************************************************************)
EXTENDS Steps

\* shimSetup, createOCISpec, the FIFOs, startShim and the client.
Setup == <<Do("setup")>>
Boot == Setup \o <<Must("create", "init"), Must("start", "init")>>
StartExec == <<Must("exec", "exec"), Must("start", "exec")>>

\* shutdownShim, and the tail that the exec tests spell out.
shutdownShim == <<Try("kill", "init"), Try("wait", "init"), Try("delete", "init"),
                  Try("shutdown", "init")>>

\* newShimEnv, then skipIfNoTransfer.
TransferBoot == Boot \o <<Do("probe")>>
-----------------------------------------------------------------------------
(* run_suite.go *)

testLifecycle ==
    Setup \o <<Do("drain"), Must("create", "init"), Must("start", "init"),
               Must("state", "init"), Do("poll"), Step("kill", "init", "tolerate"),
               Must("wait", "init"), Must("delete", "init"), Try("shutdown", "init")>>

testInitExitCodes ==
    Boot \o <<Must("wait", "init"), Try("delete", "init"), Try("shutdown", "init")>>

testOutputThenExit ==
    Setup \o <<Do("drain"), Must("create", "init"), Must("start", "init"),
               Must("wait", "init"), Do("poll"), Do("verify"),
               Try("delete", "init"), Try("shutdown", "init")>>

\* waitForTopic before Delete, and again for every topic after it.  The checks of
\* the exit envelope are the last step.
testEvents ==
    Boot \o <<Must("wait", "init"), Must("topic", "exit"), Must("delete", "init"),
              Must("topic", "create"), Must("topic", "start"), Must("topic", "exit"),
              Must("topic", "delete"), Try("shutdown", "init"),
              Do("order"), Soft("envelope", "none")>>

testFastExitInit ==
    Setup \o <<Do("drain"), Must("create", "init"), Must("start", "init"),
               Try("shutdown", "init"), Do("drainDone"), Do("verify")>>
-----------------------------------------------------------------------------
(* exec_suite.go *)

testExec ==
    Boot \o <<Do("drain")>> \o StartExec
         \o <<Must("wait", "exec"), Do("pause"), Do("verify"), Must("delete", "exec")>>
         \o shutdownShim

\* The output is a time, checked against the host's.
testClock == testExec

testStdioRoundTrip ==
    Boot \o <<Do("drain")>> \o StartExec
         \o <<Do("write"), Do("poll"),
              Try("kill", "exec"), Try("wait", "exec"), Try("delete", "exec")>>
         \o shutdownShim

\* One of the six exit codes.  Each is a sub-test: its failure ends it, not the
\* test.
testExitCodes ==
    Boot \o <<Do("guard")>> \o StartExec
         \o <<Must("wait", "exec"), Must("delete", "exec")>>
         \o shutdownShim

\* testLargeFileRead and testBindMountRead.
runHashverify ==
    Boot \o <<Do("drain")>> \o StartExec
         \o <<Must("wait", "exec"), Do("pause"), Do("verify"), Try("delete", "exec")>>
         \o shutdownShim

\* Mutant of testLargeStdioRoundTrip: stdout is read only once all of stdin is
\* written.
testLargeStdioRoundTripSerial ==
    Boot \o StartExec
         \o <<Do("writer"), Do("writeDone"), Do("drain"), Must("closeIO", "exec"),
              Must("wait", "exec"), Do("drainDone"), Must("delete", "exec"), Do("verify")>>
         \o shutdownShim

testLargeStdioRoundTrip ==
    Boot \o <<Do("drain")>> \o StartExec
         \o <<Do("writer"), Do("writeDone"), Must("closeIO", "exec"), Must("wait", "exec"),
              Do("drainDone"), Must("delete", "exec"), Do("verify")>>
         \o shutdownShim

\* The first line's writer detaches before the second one's attaches.  The
\* pause between them waits for nothing; the one after them is for the echo.
testStdinDetachReattach ==
    Boot \o <<Do("drain")>> \o StartExec
         \o <<Do("write"), Do("write"), Do("pause"), Must("closeIO", "exec"),
              Must("wait", "exec"), Must("delete", "exec"), Do("verify")>>
         \o shutdownShim

testFastExitOutput ==
    Boot \o <<Do("drain")>> \o StartExec
         \o <<Try("shutdown", "init"), Do("drainDone"), Do("verify")>>

\* Shutdown's duration is bounded; its error is not looked at.
testExecOutputDrainAfterExit ==
    Boot \o <<Do("drain")>> \o StartExec
         \o <<Try("shutdown", "init"), Do("elapsed"),
              Do("drainDone"), Do("verify")>>

testExecDiscardIO ==
    Boot \o StartExec
         \o <<Must("wait", "exec"), Must("delete", "exec"), Must("state", "init")>>
         \o shutdownShim

testExecCommandNotFound ==
    Boot \o <<Must("exec", "exec"), Step("start", "exec", "expect"),
              Try("delete", "exec"), Do("elapsed")>>
         \o shutdownShim
-----------------------------------------------------------------------------
(* transfer_suite.go *)

testCopyTo == TransferBoot \o <<Do("transfer")>> \o shutdownShim
testCopyToAndFrom == TransferBoot \o <<Do("transfer"), Do("transfer")>> \o shutdownShim

\* testExecVerify with shimExec.
testExecVerify ==
    TransferBoot \o <<Do("transfer"), Do("drain")>> \o StartExec
                 \o <<Must("wait", "exec"), Do("pause"), Must("delete", "exec"), Do("verify")>>
                 \o shutdownShim

\* The fuzz body; shutdownShim is deferred once the probe has not skipped.
Fuzz == TransferBoot \o <<Do("guard"), Do("transfer")>> \o shutdownShim
-----------------------------------------------------------------------------
(* network_suite.go, uds_suite.go, oom_suite.go, layers_suite.go *)

\* Create, the network attached where the test provides it, Start.
NetBoot == <<Do("drain"), Must("create", "init"), Do("attach"), Must("start", "init")>>

\* Wait, <-stdoutDone, the exit status; and the unchecked tail.
NetExit == <<Must("wait", "init"), Do("stdoutDone"), Do("status")>>
NetTail == <<Try("delete", "init"), Try("shutdown", "init")>>

testOutboundTCP ==
    <<Must("listen", "goroutine")>> \o Setup \o NetBoot
        \o <<Do("write"), Must("closeIO", "init")>>
        \o NetExit \o <<Soft("verify", "none"), Do("peer")>> \o NetTail
testOutboundUDP == testOutboundTCP

\* One address is enough.
testDNSResolve == Setup \o NetBoot \o NetExit \o <<Do("some")>> \o NetTail
testLoopbackWithinContainer == Setup \o NetBoot \o NetExit \o <<Do("verify")>> \o NetTail

\* The forward of the port is there before the container's listener.
InboundBoot == <<Do("drain"), Must("create", "init"), Do("attach"), Do("forward"),
                 Must("start", "init")>>

\* The port is picked, and given up again, before the container binds it.
testInboundTCPListen ==
    Setup \o InboundBoot
        \o <<Do("listening"), Do("dial"), Do("send"), Do("poll"), Do("hangup"),
             Must("closeIO", "init")>>
        \o NetExit \o NetTail

\* UDSSuite.testRoundTrip: the test itself accepts, with a deadline.
testRoundTrip ==
    <<Must("listen", "none")>> \o Boot \o <<Do("drain")>> \o StartExec
        \o <<Do("accept"), Do("send"), Do("poll"), Do("hangup"),
             Try("kill", "exec"), Try("wait", "exec"), Try("delete", "exec")>>
        \o shutdownShim

testOOM == Boot \o <<Must("wait", "init"), Try("delete", "init"), Try("shutdown", "init")>>

\* ls of the directory that a hundred layers add to, then of the one that they
\* empty, which must print nothing.
runLs == StartExec \o <<Must("wait", "exec"), Do("pause"), Try("delete", "exec")>>
testHundredLayers ==
    <<Do("format")>> \o Boot \o <<Do("drain")>> \o runLs \o <<Do("verify"), Do("renew")>>
        \o runLs \o <<Do("verify")>> \o shutdownShim
-----------------------------------------------------------------------------
(* The execs of stress_suite.go.  An error goes through runStress to a       *)
(* t.Fatal, and shutdownShim is deferred.                                    *)

StressBoot == Boot \o <<Do("guard")>>

runOneExec ==
    StressBoot \o StartExec \o <<Must("wait", "exec"), Must("delete", "exec")>> \o shutdownShim

\* An error of readGuestMem is logged and nothing more.
Sample(call, who) == Step(call, who, "return")
SampleBoot == StressBoot \o <<Do("drain"), Sample("exec", "exec"), Sample("start", "exec"),
                              Sample("wait", "exec")>>

\* readGuestMem and captureExec, whose wait for the copy is cut at 200 ms.
captureExec ==
    SampleBoot \o <<Do("capped"), Sample("delete", "exec"), Do("reading")>> \o shutdownShim

runExecBurstexit ==
    StressBoot \o <<Do("drain")>> \o StartExec
        \o <<Must("wait", "exec"), Must("delete", "exec"), Do("drainDone"), Do("verify")>>
        \o shutdownShim

runExecRoundTrip ==
    StressBoot \o <<Do("drain")>> \o StartExec
        \o <<Do("writer"), Do("writeDone"), Must("closeIO", "exec"), Must("wait", "exec"),
             Must("delete", "exec"), Do("drainDone"), Do("verify")>>
        \o shutdownShim
-----------------------------------------------------------------------------
Scripts ==
    [Lifecycle |-> testLifecycle, InitExitCodes |-> testInitExitCodes,
     OutputThenExit |-> testOutputThenExit, Events |-> testEvents,
     FastExitInit |-> testFastExitInit,
     Exec |-> testExec, Clock |-> testClock, StdioRoundTrip |-> testStdioRoundTrip,
     ExitCodes |-> testExitCodes, Hashverify |-> runHashverify,
     LargeStdioRoundTrip |-> testLargeStdioRoundTrip,
     StdinDetachReattach |-> testStdinDetachReattach,
     FastExitOutput |-> testFastExitOutput,
     ExecOutputDrainAfterExit |-> testExecOutputDrainAfterExit,
     ExecDiscardIO |-> testExecDiscardIO, ExecCommandNotFound |-> testExecCommandNotFound,
     TransferCopyTo |-> testCopyTo, TransferCopyToAndFrom |-> testCopyToAndFrom,
     TransferExecVerify |-> testExecVerify, TransferMissing |-> Fuzz,
     OutboundTCP |-> testOutboundTCP, OutboundUDP |-> testOutboundUDP,
     DNSResolve |-> testDNSResolve, InboundTCPListen |-> testInboundTCPListen,
     LoopbackWithinContainer |-> testLoopbackWithinContainer,
     UDSRoundTrip |-> testRoundTrip, OOM |-> testOOM, HundredLayers |-> testHundredLayers,
     StressEcho |-> runOneExec, StressGuestMem |-> captureExec,
     StressBurstexit |-> runExecBurstexit, StressRoundTrip |-> runExecRoundTrip]

\* The process whose stdio a test watches, and what it runs.
Subject(test) ==
    IF test \in {"Lifecycle", "InitExitCodes", "OutputThenExit", "Events", "FastExitInit",
                 "OutboundTCP", "OutboundUDP", "DNSResolve", "InboundTCPListen",
                 "LoopbackWithinContainer", "OOM"}
    THEN "init" ELSE "exec"

\* The programs of testbin.go: what they write ("own", the bytes of "stdin" or of a
\* "conn"ection, "nothing"), what ends them ("written": there is no more to
\* write; "eof" of stdin; both halves of a "stream"; a datagram "heard"; "never";
\* "missing": there is no such binary), and for nc how the connection is made.
Prog(out, ends, opens) == [out |-> out, ends |-> ends, opens |-> opens]
cmdForever == Prog("own", "never", "none")
cmdEcho == Prog("own", "written", "none")
cmdDate == Prog("own", "written", "none")
cmdLs == Prog("own", "written", "none")
cmdHashverify == Prog("own", "written", "none")
cmdTickexit == Prog("own", "written", "none")
cmdBurstexit == Prog("own", "written", "none")
cmdHost == Prog("own", "written", "none")
cmdLooptest == Prog("own", "written", "none")
cmdExit == Prog("nothing", "written", "none")
cmdMemhog == Prog("nothing", "written", "none")
cmdCat == Prog("stdin", "eof", "none")
cmdCatFile == Prog("own", "written", "none")
cmdNC(mode) == Prog("conn", IF mode = "-u" THEN "heard" ELSE "stream",
                    CASE mode = "-l" -> "bind" [] mode = "-u" -> "datagram" [] OTHER -> "dial")
noProgram == Prog("nothing", "missing", "none")
discarded(prog) == [prog EXCEPT !.out = "nothing"]

Program(test) ==
    CASE test = "Lifecycle" -> cmdForever
      [] test \in {"StdioRoundTrip", "LargeStdioRoundTrip", "StdinDetachReattach",
                   "StressRoundTrip"} -> cmdCat
      [] test \in {"InitExitCodes", "Events", "ExitCodes"} -> cmdExit
      [] test \in {"ExecDiscardIO", "StressEcho"} -> discarded(cmdEcho)
      [] test \in {"TransferCopyTo", "TransferCopyToAndFrom", "TransferMissing"} -> discarded(cmdForever)
      [] test = "OOM" -> cmdMemhog
      [] test \in {"OutboundTCP", "UDSRoundTrip"} -> cmdNC("")
      [] test = "InboundTCPListen" -> cmdNC("-l")
      [] test = "OutboundUDP" -> cmdNC("-u")
      [] test = "ExecCommandNotFound" -> noProgram
      [] test = "OutputThenExit" -> cmdTickexit
      [] test = "Exec" -> cmdEcho
      [] test = "Clock" -> cmdDate
      [] test = "Hashverify" -> cmdHashverify
      [] test = "DNSResolve" -> cmdHost
      [] test = "LoopbackWithinContainer" -> cmdLooptest
      [] test = "HundredLayers" -> cmdLs
      [] test \in {"TransferExecVerify", "StressGuestMem"} -> cmdCatFile
      [] OTHER -> cmdBurstexit
=============================================================================
