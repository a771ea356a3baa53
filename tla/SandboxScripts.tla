--------------------------- MODULE SandboxScripts ---------------------------
(***************************************************************************)
(* The tests of SandboxSuite (sandbox_suite*.go, with the helpers of       *)
(* helpers_sandbox.go), each as the sequence of its steps.  SandboxSession *)
(* gives the steps their meaning.  The member containers of a test are     *)
(* "a", "b" and "c" in the order of their creation; "x" is the process of  *)
(* the last exec.                                                          *)
(***************************************************************************)
EXTENDS Steps

\* startSandboxShim and its variant with a network sandbox.  The cleanup is
\* registered once the sandbox runs.
startSandboxShim ==
    <<Do("shim"), Must("sbCreate", "none"), Mixed("sbStart", "none"), Do("cleanup")>>

\* createContainerInSandbox: Create, Start, then the container is tracked and
\* its cleanup registered.
createContainer(m) == <<Must("create", m), Must("start", m), Must("track", m)>>

\* execInSandboxContainer: the output is read a moment after the exit.  The
\* exec is not deleted.  on: what the caller makes of the exit status.
execIn(m, on) ==
    <<Must("exec", m), Must("start", "x"), Step("wait", "x", on), Must("snapshot", "x")>>

\* Mutant of discard: Wait without Kill, for a container that does not exit.
discardNoKill(m) == <<Try("wait", m), Try("delete", m)>>

\* Kill, Wait and Delete at the end of a test.
discard(m) == <<Try("kill", m), Try("wait", m), Try("delete", m)>>

\* readContainerOutput, Wait, Delete.
finish(m) == <<Must("output", m), Must("wait", m), Try("delete", m)>>
-----------------------------------------------------------------------------
(* sandbox_suite.go *)

testLifecycle ==
    startSandboxShim
        \o <<Mixed("sbReady", "none"), Must("sbStop", "none"), Soft("sbPoll", "none"),
             Must("sbShutdown", "none")>>

testPlatform == startSandboxShim \o <<Mixed("sbQuery", "none")>>
testPing == startSandboxShim \o <<Mixed("sbQuery", "none")>>

testSingleContainer ==
    startSandboxShim \o createContainer("a")
        \o <<Must("output", "a"), Mixed("wait", "a"), Must("delete", "a")>>

\* The outputs are read by three goroutines, whose Fatal ends only them.
testMultipleContainers ==
    startSandboxShim \o createContainer("a") \o createContainer("b") \o createContainer("c")
        \o <<Soft("outputs", "none"),
             Step("wait", "a", "continue"), Try("delete", "a"),
             Step("wait", "b", "continue"), Try("delete", "b"),
             Step("wait", "c", "continue"), Try("delete", "c")>>

testContainerLifecycleIndependence ==
    startSandboxShim \o createContainer("a") \o createContainer("b")
        \o <<Must("output", "b"), Try("wait", "b"), Must("delete", "b"),
             Mixed("state", "a"), Mixed("sbReady", "none")>>
        \o discard("a")

testStatusAfterStop ==
    startSandboxShim
        \o <<Must("sbStop", "none"), Step("sbNotReady", "none", "lenient"), Soft("sbStop", "none")>>

testWaitUnblocksOnStop ==
    startSandboxShim \o <<Do("waiter"), Must("sbStop", "none"), Do("waitDone")>>

testCreateTwiceRejected == startSandboxShim \o <<Step("sbCreate", "none", "expect")>>

\* No cleanup is registered: the test shuts its shim down itself.
testStartWithoutCreateRejected ==
    <<Do("shim"), Step("sbStart", "none", "expect"), Try("shutdown", "none")>>

testResourceReleaseOnShutdown ==
    startSandboxShim \o createContainer("a") \o createContainer("b")
        \o <<Must("output", "a"), Must("output", "b"), Try("wait", "a"), Try("wait", "b"),
             Try("delete", "a"), Try("delete", "b"),
             Try("sbStop", "none"), Try("sbShutdown", "none"), Soft("mounts", "none")>>
-----------------------------------------------------------------------------
(* sandbox_suite_member.go, sandbox_suite_member_linux.go *)

testStatusReportsPidAndCreatedAt ==
    startSandboxShim \o <<Mixed("sbQuery", "none"), Mixed("sbQuery", "none")>>

testHostNetworkNoNetworkSandbox ==
    startSandboxShim \o createContainer("a")
        \o <<Must("output", "a"), Mixed("wait", "a"), Try("delete", "a")>>

testMemberContainerExec ==
    startSandboxShim \o createContainer("a")
        \o execIn("a", "mixed") \o <<Soft("verify", "none")>> \o execIn("a", "mixed") \o discard("a")

testCrossContainerViaUDS ==
    startSandboxShim \o createContainer("a")
        \o execIn("a", "mixed") \o <<Do("peer")>> \o execIn("a", "mixed") \o <<Do("peer")>> \o discard("a")

\* The container is left to the cleanup.
testContainerOutboundTCP ==
    startSandboxShim \o createContainer("a") \o execIn("a", "fatal") \o <<Do("verify")>>

testNetworkSandboxHeldOpen ==
    startSandboxShim \o <<Do("netns")>> \o createContainer("a")
        \o <<Must("output", "a"), Try("wait", "a"), Try("delete", "a"),
             Must("sbStop", "none"), Soft("sbPoll", "none")>>

testNetworkSandboxPathInStatus ==
    startSandboxShim \o <<Mixed("sbQuery", "none")>>
-----------------------------------------------------------------------------
(* sandbox_suite_netns_linux.go, sandbox_suite_shared_netns_linux.go *)

testContainerTrafficScopedToNetworkSandbox ==
    <<Do("require")>> \o startSandboxShim \o createContainer("a")
        \o <<Must("stdin", "a")>> \o finish("a") \o <<Do("peer")>>

testInboundToNetnsScopedListener ==
    <<Do("require")>> \o startSandboxShim \o createContainer("a")
        \o <<Must("output", "a"), Do("dial"), Must("wait", "a"), Try("delete", "a")>>

testMemberContainersShareNetwork ==
    startSandboxShim \o createContainer("a") \o <<Must("output", "a")>>
        \o createContainer("b") \o <<Must("stdin", "b")>> \o finish("b")
        \o <<Must("wait", "a"), Try("delete", "a")>>
-----------------------------------------------------------------------------
(* The other sandbox_suite_*_linux.go *)

testMemberContainerHostVolume ==
    startSandboxShim \o createContainer("a")
        \o execIn("a", "fatal") \o <<Soft("verify", "none")>>
        \o execIn("a", "fatal") \o <<Soft("verify", "none")>>

testMemberContainersSharePID ==
    startSandboxShim \o createContainer("a") \o createContainer("b") \o finish("b")
        \o <<Must("kill", "a"), Try("wait", "a"), Try("delete", "a")>>

testMemberContainersSharePIDKillScopedToOwnContainer ==
    startSandboxShim \o createContainer("a") \o createContainer("b") \o createContainer("c")
        \o <<Must("output", "c"), Try("wait", "c"), Try("delete", "c"),
             Must("kill", "a"), Try("wait", "a"), Try("delete", "a"),
             Must("state", "b"),
             Must("kill", "b"), Try("wait", "b"), Try("delete", "b")>>

\* A writer that ends before its reader is created.
writeThenRead ==
    startSandboxShim \o createContainer("a") \o <<Must("wait", "a"), Try("delete", "a")>>
        \o createContainer("b") \o finish("b")
testMemberContainersShareIPC == writeThenRead
testMemberContainersShareDevShm == writeThenRead
testMemberContainersDevShmNotSharedWithoutIPC == writeThenRead

testMemberContainerOOMIsolation ==
    startSandboxShim \o createContainer("a") \o createContainer("b")
        \o <<Must("wait", "b"), Try("delete", "b"), Mixed("state", "a"),
             Mixed("sbReady", "none")>>
        \o discard("a")

\* requireSandboxHostnameCapability, setSandboxHostname, readSandboxHostname.
\* A probe that failed skips the test.
hostnameTest ==
    startSandboxShim
        \o createContainer("a") \o <<Step("wait", "a", "error"), Try("delete", "a"), Do("require")>>
        \o createContainer("b") \o <<Must("wait", "b"), Try("delete", "b")>>
        \o createContainer("c") \o <<Must("wait", "c"), Must("snapshot", "c"), Try("delete", "c")>>
testMemberContainersShareUTS == hostnameTest \o <<Do("verify")>>
\* A name that was not printed is not the writer's name either.
testMemberContainersUTSNotShared == hostnameTest \o <<Do("verifyNot")>>
-----------------------------------------------------------------------------
Scripts ==
    [Lifecycle |-> testLifecycle, Platform |-> testPlatform, Ping |-> testPing,
     SingleContainer |-> testSingleContainer,
     MultipleContainers |-> testMultipleContainers,
     ContainerLifecycleIndependence |-> testContainerLifecycleIndependence,
     StatusAfterStop |-> testStatusAfterStop,
     WaitUnblocksOnStop |-> testWaitUnblocksOnStop,
     CreateTwiceRejected |-> testCreateTwiceRejected,
     StartWithoutCreateRejected |-> testStartWithoutCreateRejected,
     ResourceReleaseOnShutdown |-> testResourceReleaseOnShutdown,
     StatusReportsPidAndCreatedAt |-> testStatusReportsPidAndCreatedAt,
     HostNetworkNoNetworkSandbox |-> testHostNetworkNoNetworkSandbox,
     MemberContainerExec |-> testMemberContainerExec,
     CrossContainerViaUDS |-> testCrossContainerViaUDS,
     ContainerOutboundTCP |-> testContainerOutboundTCP,
     NetworkSandboxHeldOpen |-> testNetworkSandboxHeldOpen,
     NetworkSandboxPathInStatus |-> testNetworkSandboxPathInStatus,
     ContainerTrafficScopedToNetworkSandbox |-> testContainerTrafficScopedToNetworkSandbox,
     InboundToNetnsScopedListener |-> testInboundToNetnsScopedListener,
     MemberContainersShareNetwork |-> testMemberContainersShareNetwork,
     MemberContainerHostVolume |-> testMemberContainerHostVolume,
     MemberContainersSharePID |-> testMemberContainersSharePID,
     KillScopedToOwnContainer |-> testMemberContainersSharePIDKillScopedToOwnContainer,
     MemberContainersShareIPC |-> testMemberContainersShareIPC,
     MemberContainersShareDevShm |-> testMemberContainersShareDevShm,
     DevShmNotSharedWithoutIPC |-> testMemberContainersDevShmNotSharedWithoutIPC,
     MemberContainerOOMIsolation |-> testMemberContainerOOMIsolation,
     MemberContainersShareUTS |-> testMemberContainersShareUTS,
     MemberContainersUTSNotShared |-> testMemberContainersUTSNotShared]

\* What a process of a test runs.  forever: prints, then stays.  echo: prints
\* and exits.  quiet: exits.  nc: sends its stdin to a peer, prints the answer
\* and exits.  serve: prints its port, serves one connection and exits.
Program(test, p) ==
    CASE p = "x" -> "echo"
      [] p = "a" /\ test \in {"ContainerLifecycleIndependence", "MemberContainerExec",
                              "CrossContainerViaUDS", "ContainerOutboundTCP",
                              "MemberContainerHostVolume", "MemberContainersSharePID",
                              "KillScopedToOwnContainer", "MemberContainerOOMIsolation"}
           -> "forever"
      [] p = "b" /\ test = "KillScopedToOwnContainer" -> "forever"
      [] p = "a" /\ test \in {"MemberContainersShareIPC", "MemberContainersShareDevShm",
                              "DevShmNotSharedWithoutIPC"} -> "quiet"
      [] p = "b" /\ test = "MemberContainerOOMIsolation" -> "quiet"
      [] p \in {"a", "b"} /\ test \in {"MemberContainersShareUTS",
                                       "MemberContainersUTSNotShared"} -> "quiet"
      [] p = "a" /\ test \in {"InboundToNetnsScopedListener",
                              "MemberContainersShareNetwork"} -> "serve"
      [] p = "a" /\ test = "ContainerTrafficScopedToNetworkSandbox" -> "nc"
      [] p = "b" /\ test = "MemberContainersShareNetwork" -> "nc"
      [] OTHER -> "echo"
=============================================================================
