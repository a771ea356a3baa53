CONSTANTS
    Tests = {"Lifecycle", "Platform", "Ping", "SingleContainer", "MultipleContainers",
             "ContainerLifecycleIndependence", "StatusAfterStop", "WaitUnblocksOnStop",
             "CreateTwiceRejected", "StartWithoutCreateRejected",
             "ResourceReleaseOnShutdown", "StatusReportsPidAndCreatedAt",
             "HostNetworkNoNetworkSandbox", "MemberContainerExec", "CrossContainerViaUDS",
             "ContainerOutboundTCP", "NetworkSandboxHeldOpen", "NetworkSandboxPathInStatus",
             "ContainerTrafficScopedToNetworkSandbox", "InboundToNetnsScopedListener",
             "MemberContainersShareNetwork", "MemberContainerHostVolume",
             "MemberContainersSharePID", "KillScopedToOwnContainer",
             "MemberContainersShareIPC", "MemberContainersShareDevShm",
             "DevShmNotSharedWithoutIPC", "MemberContainerOOMIsolation",
             "MemberContainersShareUTS", "MemberContainersUTSNotShared"}
SPECIFICATION FairSpec
INVARIANTS TypeOK NoFalseAlarm BreachCaught MembersTornDown
PROPERTIES Terminates
CHECK_DEADLOCK FALSE
